---------------------------- MODULE CreditLedger ----------------------------
(***************************************************************************)
(* What internal/economy promises, with nothing of how it keeps the        *)
(* promise: one mutual-credit ledger, in unbounded integers, whose only    *)
(* credit-moving step is a transfer that respects the debit cap in force   *)
(* at that moment, and whose policy only ever advances.  There are no      *)
(* replicas, no store, no signatures and no machine words here.  Module    *)
(* Ledger implements this specification.                                   *)
(***************************************************************************)
EXTENDS Integers

CONSTANTS
    Accounts,       \* the account identifiers
    GenesisPolicy   \* the policy in force before any change: [mode, cap]

VARIABLES
    bal,      \* bal[a]: the signed net position of account a
    nonce,    \* nonce[a]: the nonce of a's latest spend, 0 before the first
    policy,   \* the policy in force
    version   \* its version

vars == <<bal, nonce, policy, version>>

Init ==
    /\ bal = [a \in Accounts |-> 0]
    /\ nonce = [a \in Accounts |-> 0]
    /\ policy = GenesisPolicy
    /\ version = 0

(***************************************************************************)
(* A member issues credit by spending: payer and payee move by the same    *)
(* positive amount, the payer stays within the cap, its nonce advances.    *)
(***************************************************************************)
Transfer(payer, payee) ==
    LET amount == bal[payer] - bal'[payer] IN
    /\ payer # payee
    /\ policy.mode = "credit"
    /\ amount > 0
    /\ bal' = [bal EXCEPT ![payer] = @ - amount, ![payee] = @ + amount]
    /\ bal'[payer] >= -policy.cap
    /\ nonce'[payer] > nonce[payer]
    /\ nonce' = [nonce EXCEPT ![payer] = nonce'[payer]]
    /\ UNCHANGED <<policy, version>>

\* Governance replaces the whole policy; balances are never revisited.
ChangePolicy ==
    /\ version' > version
    /\ policy'.mode \in {"escrow", "credit"}
    /\ policy'.cap >= 0
    /\ UNCHANGED <<bal, nonce>>

Next ==
    \/ \E payer, payee \in Accounts : Transfer(payer, payee)
    \/ ChangePolicy

Spec == Init /\ [][Next]_vars

=============================================================================
