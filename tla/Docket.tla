------------------------------- MODULE Docket -------------------------------
(***************************************************************************)
(* What internal/dispute promises, with nothing of how it keeps the        *)
(* promise: over each (exchange, complainant, respondent) at most one case *)
(* is live at a time, a live case is withdrawn or ruled on, and once there *)
(* is a ruling there is never another case.  There are no artifacts, no    *)
(* indices, no callers and no locks here.  Module Dispute implements this  *)
(* specification.                                                          *)
(***************************************************************************)

CONSTANTS
    Tuples,     \* (exchange, complainant, respondent)
    Rulings     \* the rulings there may be

VARIABLES
    live,       \* the tuples with a live case
    remedies    \* <<tuple, ruling>>: what has been ruled

vars == <<live, remedies>>

Settled(t) == \E m \in remedies : m[1] = t

Init == live = {} /\ remedies = {}

Open(t) ==
    /\ t \notin live
    /\ ~Settled(t)
    /\ live' = live \cup {t}
    /\ UNCHANGED remedies

\* The tuple is free for another case.
Withdraw(t) ==
    /\ t \in live
    /\ live' = live \ {t}
    /\ UNCHANGED remedies

Rule(t, r) ==
    /\ t \in live
    /\ ~Settled(t)
    /\ live' = live \ {t}
    /\ remedies' = remedies \cup {<<t, r>>}

Next == \E t \in Tuples : Open(t) \/ Withdraw(t) \/ \E r \in Rulings : Rule(t, r)

Spec == Init /\ [][Next]_vars
=============================================================================
