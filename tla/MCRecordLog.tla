---------------------------- MODULE MCRecordLog ----------------------------
(* A chain of corrections, which can only be appended in its order, and one *)
(* free covenant that may fall anywhere in it or take the place of its      *)
(* tail: trees of up to ChainLength + 1 leaves, in every shape, and         *)
(* rewritings that replay cannot notice.  Two covenants no log may take.    *)
EXTENDS RecordLog

CONSTANT ChainLength

entry(id, log, corrects, seals) ==
    [id |-> id, log |-> log, corrects |-> corrects,
     proposer |-> "p", acceptor |-> "a", seals |-> seals]

MCEntries ==
    {entry(i, "drops", i - 1, {"p", "a"}) : i \in 1..ChainLength}
    \cup {entry(ChainLength + 1, "drops", 0, {"p", "a"})}
    \cup {entry(ChainLength + 2, "drops", 0, {"p"}), entry(ChainLength + 3, "other", 0, {"p", "a"})}
=============================================================================
