------------------------------ MODULE Commons ------------------------------
(***************************************************************************)
(* internal/consumerapi: the Server that composes the members' directory,  *)
(* the dialog log with its index, the dispute registry, the filing intake, *)
(* the lifecycle log and the covenant book.                                *)
(*                                                                         *)
(* A handler changes the parts under s.mu, so it is one step, except that  *)
(* an opening is first acknowledged by the intake, before the mutex is     *)
(* taken.  A request that is refused changes nothing.  The process holds   *)
(* no adjudicator key, so cases are opened and withdrawn and never ruled   *)
(* on; the Registry itself, with its rulings, is the module Dispute.       *)
(***************************************************************************)
EXTENDS Lifecycle, Covenant, TLC

CONSTANTS
    Operator,     \* the operator's own member
    LogID,        \* identity of the operator's dialog log
    Entries,      \* [id, log, proposer, acceptor, seals, corrects] drops
    Openings,     \* [id, complainant, respondent, exchange, signer, filing, type] requests
    Withdrawals,  \* [dispute, signer, artifact]
    Panel,        \* transitions other callers of the lifecycle log may append
    Assessments,  \* [id, assessor, subject, exchange, relation, category, level, comment, signer]
    Answers,      \* [assessment, answerer, hash, signer]
    Prover        \* whose key signs the register challenge of each member

\* Ids are hashes.  Only the handlers file and resolve.
ASSUME RequestAssumption ==
    /\ Operator \in Members
    /\ \A e, f \in Entries : e.id = f.id => e = f
    /\ \A o, p \in Openings : o.id = p.id => <<o.complainant, o.respondent, o.exchange, o.signer>>
                                              = <<p.complainant, p.respondent, p.exchange, p.signer>>
    /\ {o.id : o \in Openings} = Claims
    /\ \A w \in Withdrawals : w.dispute \in Claims
    /\ \A t \in Panel : t.claim \in Claims /\ t.kind \notin {KindFiled, KindResolved}
    /\ \A a, b \in Assessments : a.id = b.id => a = b

VARIABLES
    byMember,   \* Server.byMember (and byAccount): the registered members
    log,        \* the dialog log's entries
    index,      \* Server.index: leaf id -> sequence number
    pending,    \* openings the intake acknowledged and s.mu has not yet seen
    cases,      \* the registry: state of each claim, "none" where unknown
    disputesByExchange,
    life,       \* Server.lifeLog
    book,       \* Server.book
    given       \* history: claims whose filing receipt was handed out

vars == <<byMember, log, index, pending, cases, disputesByExchange, life, book, given>>

Exchanges == {x.exchange : x \in Openings \cup Assessments}
OpeningOf(claim) == CHOOSE o \in Openings : o.id = claim

\* NewServer: the operator is a member of its own platform.
Init ==
    /\ byMember = {Operator}
    /\ log = <<>>
    /\ index = <<>>
    /\ pending = {}
    /\ cases = [c \in Claims |-> "none"]
    /\ disputesByExchange = [x \in Exchanges |-> {}]
    /\ life = EmptyLog
    /\ book = EmptyBook
    /\ given = {}

-----------------------------------------------------------------------------
(* Members and drops. *)

\* handleRegister: whoever signs the challenge with the key; idempotent.
Register(m) ==
    /\ Prover[m] = m
    /\ byMember' = byMember \cup {m}
    /\ UNCHANGED <<log, index, pending, cases, disputesByExchange, life, book, given>>

\* Entry.Verify: two distinct parties, and the seal of each.
EntryVerifies(e) == e.proposer # e.acceptor /\ {e.proposer, e.acceptor} \subseteq e.seals

\* Log.Append's gates.
Appendable(e) ==
    /\ EntryVerifies(e)
    /\ e.log = LogID
    /\ e.corrects # ZeroHash => \E i \in DOMAIN log : log[i].id = e.corrects
    /\ \A i \in DOMAIN log : log[i].id # e.id

\* appendEntry: the entry, and its leaf in the index.
appendEntry(e) ==
    /\ log' = Append(log, e)
    /\ index' = index @@ (e.id :> Len(log) + 1)

\* handleAppendDrop.
AppendDrop(e) ==
    /\ {e.proposer, e.acceptor} \subseteq byMember
    /\ Appendable(e)
    /\ appendEntry(e)
    /\ UNCHANGED <<byMember, pending, cases, disputesByExchange, life, book, given>>

\* dispAnchors.Sealed: the indexed entry, and its two parties.
SealedBetween(exchange, p, q) ==
    /\ exchange \in DOMAIN index
    /\ index[exchange] \in DOMAIN log
    /\ LET e == log[index[exchange]]
       IN /\ e.id = exchange
          /\ e.log = LogID
          /\ EntryVerifies(e)
          /\ {e.proposer, e.acceptor} = {p, q}

\* recAnchors.Sealed resolves both members first.
SealedMembers(exchange, assessor, subject) ==
    /\ {assessor, subject} \subseteq byMember
    /\ SealedBetween(exchange, assessor, subject)

-----------------------------------------------------------------------------
(* Claims. *)

\* FilingCommitment.Verify.
FilingVerifies(o) ==
    /\ o.id # ZeroHash
    /\ o.exchange # ZeroHash
    /\ o.filing = o.complainant

\* FilingIntake.Accept, with the operator's key: no filing of its own.
AcceptFiling(o) ==
    /\ FilingVerifies(o)
    /\ o.complainant # Operator
    /\ pending' = pending \cup {o}
    /\ UNCHANGED <<byMember, log, index, cases, disputesByExchange, life, book, given>>

\* Registry.Open: Opening.Verify, the anchor, a fresh id and no live case on the tuple.
Opens(o) ==
    /\ o.complainant # o.respondent
    /\ o.signer = o.complainant
    /\ SealedBetween(o.exchange, o.complainant, o.respondent)
    /\ cases[o.id] = "none"
    /\ \A c \in Claims :
          cases[c] = "open" => LET p == OpeningOf(c) IN
              <<p.exchange, p.complainant, p.respondent>>
                  # <<o.exchange, o.complainant, o.respondent>>

transition(claim, kind, artifact, exchange) ==
    [log |-> LifeID, claim |-> claim, kind |-> kind, artifact |-> artifact, exchange |-> exchange]

\* The rest of handleOpenDispute, under s.mu.  The receipt goes out only if the registry
\* and the lifecycle log both took the claim.
OpenDispute(o) ==
    LET filed == transition(o.id, KindFiled, "opening", o.exchange) IN
    /\ o \in pending
    /\ pending' = pending \ {o}
    /\ IF Opens(o)
       THEN /\ cases' = [cases EXCEPT ![o.id] = "open"]
            /\ disputesByExchange' = [disputesByExchange EXCEPT ![o.exchange] = @ \cup {o.id}]
            /\ life' = AppendTransition(life, filed)
            /\ given' = given \cup (IF check(life, filed) THEN {o.id} ELSE {})
       ELSE UNCHANGED <<cases, disputesByExchange, life, given>>
    /\ UNCHANGED <<byMember, log, index, book>>

WithdrawDisputeUnlogged(w) ==
    /\ cases[w.dispute] = "open"
    /\ w.signer = OpeningOf(w.dispute).complainant
    /\ cases' = [cases EXCEPT ![w.dispute] = "withdrawn"]
    /\ UNCHANGED <<byMember, log, index, pending, disputesByExchange, life, book, given>>

\* handleWithdrawDispute: Registry.Withdraw, then the lifecycle log.
WithdrawDispute(w) ==
    /\ cases[w.dispute] = "open"
    /\ w.signer = OpeningOf(w.dispute).complainant
    /\ cases' = [cases EXCEPT ![w.dispute] = "withdrawn"]
    /\ life' = AppendTransition(life, transition(w.dispute, KindResolved, w.artifact,
                                                 OpeningOf(w.dispute).exchange))
    /\ UNCHANGED <<byMember, log, index, pending, disputesByExchange, book, given>>

\* LifecycleLog.Append by a caller other than the two handlers.
Adjudicate(t) ==
    /\ check(life, t)
    /\ life' = AppendTransition(life, t)
    /\ UNCHANGED <<byMember, log, index, pending, cases, disputesByExchange, book, given>>

-----------------------------------------------------------------------------
(* Assessments. *)

AdjudicatedForAnyone(exchange, assessor, subject) ==
    /\ subject = Operator
    /\ assessor \in byMember
    /\ \E c \in disputesByExchange[exchange] : cases[c] # "none"

\* recAnchors.Adjudicated: a party to a claim on the exchange, and the operator.
Adjudicated(exchange, assessor, subject) ==
    /\ subject = Operator
    /\ assessor \in byMember
    /\ \E c \in disputesByExchange[exchange] :
          /\ cases[c] # "none"
          /\ assessor \in {OpeningOf(c).complainant, OpeningOf(c).respondent}

\* handleRecordAssessment: Book.Record, and MemStore.Append's uniqueness.
RecordAssessment(a) ==
    /\ WellFormed(a, byMember)
    /\ IF a.relation = "trade"
       THEN SealedMembers(a.exchange, a.assessor, a.subject)
       ELSE Adjudicated(a.exchange, a.assessor, a.subject)
    /\ StoreKey(a) \notin book.seen
    /\ book' = AppendVerdict(book, a)
    /\ UNCHANGED <<byMember, log, index, pending, cases, disputesByExchange, life, given>>

\* handleAnswerAssessment.
AnswerAssessment(an) ==
    /\ AdmitsAnswer(book, an, byMember)
    /\ book' = [book EXCEPT !.answers = @ \cup {an}]
    /\ UNCHANGED <<byMember, log, index, pending, cases, disputesByExchange, life, given>>

\* handleStanding: per relation the distribution over all categories, each category's,
\* and the harm.
ServedStanding(m) ==
    [r \in Relations |->
        [overall |-> [v \in Levels |-> Overall(book, m, r, v)],
         byCategory |-> [c \in Categories |-> [v \in Levels |-> Count(book, m, r, c, v)]],
         harm |-> Harm(book, m, r)]]

Next ==
    \/ \E m \in Members : Register(m)
    \/ \E e \in Entries : AppendDrop(e)
    \/ \E o \in Openings : AcceptFiling(o) \/ OpenDispute(o)
    \/ \E w \in Withdrawals : WithdrawDispute(w)
    \/ \E t \in Panel : Adjudicate(t)
    \/ \E a \in Assessments : RecordAssessment(a)
    \/ \E an \in Answers : AnswerAssessment(an)

Spec == Init /\ [][Next]_vars

-----------------------------------------------------------------------------
(* Properties. *)

\* "a sequence of monotonic ... transitions" (lifecycle.go): every claim goes filed,
\* adjudicated any number of times, resolved, sealed, in the order of the log.
Monotonic(ks) ==
    /\ \A i \in DOMAIN ks : (ks[i] = KindFiled) = (i = 1)
    /\ \A i, j \in DOMAIN ks :
          i < j => \/ ks[i] < ks[j]
                   \/ ks[i] = KindAdjudicated /\ ks[j] = KindAdjudicated
    /\ \A i \in DOMAIN ks : ks[i] = KindSealed => ks[i - 1] = KindResolved

\* The handlers change the registry first and the lifecycle log second, and drop neither:
\* a case is open while its claim is filed or adjudicated, withdrawn once it is resolved
\* or sealed, and a receipt was handed out for exactly the claims filed ("an operator
\* that never logs a filed claim is caught by cross-checking witness receipts").  Every
\* claim's transitions are in order, and the log reopens from its store as it was left.
LifecycleFollowsCases ==
    /\ Replay(life.transitions) = [ok |-> TRUE, log |-> life]
    /\ \A c \in Claims :
          /\ cases[c] = "none" <=> life.state[c] = 0
          /\ cases[c] = "open" <=> life.state[c] \in {KindFiled, KindAdjudicated}
          /\ c \in given <=> life.state[c] > 0
          /\ Monotonic(KindsOf(life, c))

\* "standing can only accumulate from members with real, anchored claims" (Adjudicated):
\* a verdict on trade rests on a drop of the two members; any other is about the
\* operator, on a claim with a receipt and a filing in the lifecycle log, over a drop
\* of its two parties, of whom the assessor is one.
VerdictsAreGrounded ==
    \A a \in Verdicts(book) :
        \E i \in DOMAIN log :
            LET parties == {log[i].proposer, log[i].acceptor}
            IN /\ log[i].id = a.exchange
               /\ a.assessor \in parties
               /\ IF a.relation = "trade"
                  THEN a.subject \in parties
                  ELSE /\ a.subject = Operator
                       /\ \E t \in Range(life.transitions) :
                             /\ t.kind = KindFiled /\ t.exchange = a.exchange
                             /\ t.claim \in given
                             /\ parties = {OpeningOf(t.claim).complainant, OpeningOf(t.claim).respondent}

\* "counted exactly once" (Standing): what is served of a relation holds every verdict
\* the store admitted in it, over all and in its category, and its harm every No Trust,
\* whatever else the same member said of the same exchange.
StandingCountsEach ==
    \A m \in Members, r \in Relations :
        LET about == {a \in Range(book.bySubject[m]) : a.relation = r}
            served == ServedStanding(m)[r]
        IN /\ \A v \in Levels :
                 /\ served.overall[v] = Cardinality({a \in about : a.level = v})
                 /\ \A c \in Categories :
                       served.byCategory[c][v] = Cardinality({a \in about : a.category = c /\ a.level = v})
           /\ served.harm = Cardinality({a \in about : a.level = LevelNoTrust})
=============================================================================
