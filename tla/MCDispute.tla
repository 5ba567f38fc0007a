----------------------------- MODULE MCDispute -----------------------------
(* Two members and one exchange between them, in both directions of       *)
(* complaint; re-disputes with a fresh nonce; rivals among the rulings and *)
(* withdrawals of a case; and one artifact failing each gate.              *)
EXTENDS Dispute

CONSTANTS c1, c2, none

MCCallers == {c1, c2}
MCAdjudicators == {"j1", "j2", "j3"}
MCEntries == {<<"x", {"alice", "bob"}>>}

opening(id, ex, from, to, by) ==
    [kind |-> "opening", id |-> id, dispute |-> id, exchange |-> ex,
     complainant |-> from, respondent |-> to, platform |-> "cloudy", signer |-> by]
ruling(id, d, ex, mode, remedy, sigs) ==
    [kind |-> "ruling", id |-> id, dispute |-> d, exchange |-> ex, platform |-> "cloudy",
     mode |-> mode, finding |-> "complainant", remedy |-> remedy, sigs |-> sigs]
withdrawal(id, d, by) ==
    [kind |-> "withdrawal", id |-> id, dispute |-> d, platform |-> "cloudy", signer |-> by]

escalate == [escalation |-> "refund", harm |-> "unset", refund |-> FALSE]
uphold == [escalation |-> "unset", harm |-> "upheld", refund |-> TRUE]

MCOpenings ==
    {opening("o1", "x", "alice", "bob", "alice"), opening("o2", "x", "alice", "bob", "alice"),
     opening("o3", "x", "bob", "alice", "bob"),
     opening("forged", "x", "alice", "bob", "bob")}
MCRulings ==
    {ruling("r1", "o1", "x", "escrow", escalate, <<"j1", "j2">>),
     ruling("r2", "o1", "x", "credit", uphold, <<"j2", "j3", "j2">>),
     ruling("r3", "o2", "x", "escrow", escalate, <<"j3", "j1">>),
     ruling("r4", "o3", "x", "escrow", escalate, <<"j1", "j2">>),
     ruling("rForced", "o1", "x", "credit", escalate, <<"j1", "j2">>),
     ruling("rAlone", "o2", "x", "escrow", escalate, <<"j1", "j1", "z">>)}
MCWithdrawals ==
    {withdrawal("w1", "o1", "alice"), withdrawal("w2", "o1", "alice"),
     withdrawal("w3", "o2", "alice"), withdrawal("wBob", "o1", "bob")}

=============================================================================
