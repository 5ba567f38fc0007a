----------------------------- MODULE Lifecycle -----------------------------
(***************************************************************************)
(* internal/record/lifecycle.go: the claim-lifecycle log as a value, with  *)
(* the one gate that Append and the replay of OpenLifecycleLog both apply. *)
(*                                                                         *)
(* A log is [transitions, state]: the store, and the furthest kind of each *)
(* claim (0 where the log has never seen it).  Its other indices are read  *)
(* off the transitions.  An artifact stands for the digest and the instant *)
(* of a transition, so equal transitions have equal leaves.                *)
(***************************************************************************)
EXTENDS Integers, Sequences, Functions

CONSTANTS
    Claims,     \* claim ids
    LifeID,     \* LifecycleLogID of the operator
    ZeroHash    \* the zero hash: no claim, no exchange

KindFiled == 1
KindAdjudicated == 2
KindResolved == 3
KindSealed == 4

EmptyLog == [transitions |-> <<>>, state |-> [c \in Claims |-> 0]]

\* The admission gate: a claim is filed first and once; adjudication may recur until
\* it is resolved; then kinds only rise, and a seal follows a resolution.
check(l, t) ==
    /\ t.log = LifeID
    /\ t.kind \in KindFiled..KindSealed
    /\ t.claim # ZeroHash
    /\ t.exchange # ZeroHash
    /\ t \notin Range(l.transitions)
    /\ LET last == l.state[t.claim]
       IN \/ last = 0 /\ t.kind = KindFiled
          \/ last > 0 /\ t.kind = KindAdjudicated /\ last < KindResolved
          \/ /\ last > 0 /\ t.kind > KindAdjudicated /\ t.kind > last
             /\ t.kind = KindSealed => last >= KindResolved

admit(l, t) ==
    [transitions |-> Append(l.transitions, t),
     state |-> [l.state EXCEPT ![t.claim] = IF t.kind > @ THEN t.kind ELSE @]]

\* LifecycleLog.Append, as the log it leaves behind: unchanged on an error.
AppendTransition(l, t) == IF check(l, t) THEN admit(l, t) ELSE l

\* OpenLifecycleLog succeeds on a store when every transition passes after the ones
\* before it, and leaves this state.
Replay(ts) ==
    LET upTo[n \in 0..Len(ts)] ==
            IF n = 0 THEN EmptyLog ELSE admit(upTo[n - 1], ts[n])
    IN [ok |-> \A n \in 1..Len(ts) : check(upTo[n - 1], ts[n]), log |-> upTo[Len(ts)]]

\* LifecycleLog.Claim: the kinds a claim went through, in log order.
KindsOf(l, claim) ==
    LET ts == l.transitions
        upTo[n \in 0..Len(ts)] ==
            IF n = 0
            THEN <<>>
            ELSE IF ts[n].claim = claim THEN Append(upTo[n - 1], ts[n].kind) ELSE upTo[n - 1]
    IN upTo[Len(ts)]
=============================================================================
