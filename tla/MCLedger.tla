------------------------------ MODULE MCLedger ------------------------------
(***************************************************************************)
(* Instances of Ledger for TLC: four accounts, one of them unknown to the  *)
(* directory, and words so narrow (MaxInt = 3) that two spends reach the   *)
(* overflow guard.                                                         *)
(***************************************************************************)
EXTENDS Ledger, TLC

MCForeign == [kind |-> "foreign"]
MCNoCall == [kind |-> "none"]
MCGenesisPolicy == [mode |-> "escrow", cap |-> 0]

\* A spend signed by its payer for this platform.
Pay(from, to, amount, nonce) ==
    [kind |-> "spend", platform |-> "cloudy", from |-> from, to |-> to,
     amount |-> amount, nonce |-> nonce, signer |-> from]

\* A policy change with the signatures of sigs, in order.
Change(mode, cap, version, sigs) ==
    [kind |-> "policy", platform |-> "cloudy", mode |-> mode, cap |-> cap,
     version |-> version, sigs |-> sigs]

\* Two spends to one payee overflow it; two by one payer pass the cap.
MCSpends ==
    { Pay(1, 2, 2, 1), Pay(1, 3, 2, 2), Pay(3, 2, 3, 1), Pay(2, 1, 2, 1) }

\* An amount past MaxInt, and a payee the directory does not know.
MCBadSpends == { Pay(1, 2, 4, 1), Pay(1, 4, 1, 1) }

MCAllSpends == MCSpends \cup MCBadSpends

\* Flip to credit, tighten the cap, a cap past MaxInt, and a change short of a
\* quorum: a repeated signature and a stranger's count for nothing.
MCChanges ==
    { Change("credit", 3, 1, <<7, 8>>), Change("credit", 1, 2, <<8, 9, 7>>),
      Change("credit", 4, 3, <<7, 8>>), Change("credit", 3, 3, <<7, 7, 5>>) }

MCSymmetry == Permutations(Ledgers)

=============================================================================
