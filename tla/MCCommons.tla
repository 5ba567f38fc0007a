----------------------------- MODULE MCCommons -----------------------------
(* Three members and the operator; drops, openings and verdicts that are    *)
(* good, and one for each way to be refused.                                 *)
EXTENDS Commons

CONSTANTS ann, bob, eve, op, zero

drop(id, p, q, seals, corrects) ==
    [id |-> id, log |-> "log", proposer |-> p, acceptor |-> q, seals |-> seals, corrects |-> corrects]
MCEntries ==
    {drop("e1", ann, bob, {ann, bob}, zero),
     drop("e2", op, ann, {ann, op}, zero),
     drop("e3", ann, bob, {ann}, zero),
     drop("e4", ann, eve, {ann, eve}, zero)}

opening(id, c, r, x, signer, filing, type) ==
    [id |-> id, complainant |-> c, respondent |-> r, exchange |-> x, signer |-> signer,
     filing |-> filing, type |-> type]
MCOpenings ==
    {opening("d1", ann, bob, "e1", ann, ann, "late"),
     opening("d1", ann, bob, "e1", ann, ann, "faulty"),
     opening("d1", ann, bob, "e1", ann, bob, "late"),
     opening("d2", ann, bob, "e1", ann, ann, "late"),
     opening("d3", ann, op, "e2", ann, ann, "late"),
     opening("d4", op, ann, "e2", op, op, "late")}
MCClaims == {"d1", "d2", "d3", "d4"}

withdrawal(d, signer) == [dispute |-> d, signer |-> signer, artifact |-> "withdrawal"]
MCWithdrawals == {withdrawal("d1", ann), withdrawal("d1", bob)}

step(id, d, kind, artifact, x) ==
    [log |-> id, claim |-> d, kind |-> kind, artifact |-> artifact, exchange |-> x]
MCPanel ==
    {step("life", "d1", KindAdjudicated, "ruling1", "e1"),
     step("life", "d1", KindAdjudicated, "ruling2", "e1"),
     step("life", "d1", KindSealed, "seal", "e1"),
     step("log", "d1", KindAdjudicated, "ruling3", "e1")}

verdict(id, a, s, x, r, level, comment, signer) ==
    [id |-> id, assessor |-> a, subject |-> s, exchange |-> x, relation |-> r,
     category |-> "support", level |-> level, comment |-> comment, signer |-> signer]
MCAssessments ==
    {verdict("v1", ann, bob, "e1", "trade", -1, "why", ann),
     verdict("v2", ann, bob, "e1", "trade", 2, zero, ann),
     verdict("v3", bob, ann, "e1", "trade", -1, zero, bob),
     verdict("v4", ann, op, "e2", "trade", 2, zero, ann),
     verdict("v5", ann, op, "e2", "adjudication-conduct", -1, "why", ann),
     verdict("v6", bob, op, "e2", "adjudication-conduct", -1, "why", bob),
     verdict("v7", ann, bob, "e1", "verdict-satisfaction", 1, zero, ann),
     verdict("v8", ann, bob, "e2", "trade", 1, zero, ann)}

answer(v, m, hash) == [assessment |-> v, answerer |-> m, hash |-> hash, signer |-> m]
MCAnswers == {answer("v5", op, "sorry"), answer("v5", op, "no"), answer("v5", ann, "ha"),
              answer("v1", bob, zero)}

MCProver == [m \in {ann, bob, eve, op} |-> IF m = eve THEN ann ELSE m]
=============================================================================
