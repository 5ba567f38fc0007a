# Cloudy in TLA+

Models, checks and proofs of the Go code of Cloudy (`internal/`, `cmd/`): a
federated platform in which members exchange work, keep a tamper-evident record
of what was agreed, settle in mutual credit, dispute what went wrong, and lend
their machines to an orchestrator through a frontend, `cloudyd`.

* [The system](#the-system) is the inventory: parts, state, operations, hard behaviour.
* [The modules](#the-modules) says which module models what, and how.
* [The runs](#the-runs) and [The proofs](#the-proofs) say what is established.
* [Disagreements](#disagreements) lists where code and comments part.
* [Not modelled](#not-modelled) and [The plan](#the-plan) say what is left.

`PROJECT.json` holds the same as data: definitions to source lines (`map`), runs,
a deliberate bug for every property (`mutants`), hazards and theorems.

## The system

| part | state it keeps | operations | what is hard |
|---|---|---|---|
| ledger (`economy`) | balances, nonces and policy folded from an append-only store | `Post`, `Enact`, `Open` | several ledgers over one store; append races; int64 edges; a store written around the ledgers |
| disputes (`dispute`) | artifacts per case; live and adjudicated tuples | `Open`, `Rule`, `Withdraw`, `Case` | check and append under different locks; reopening after withdrawal |
| dialog log (`record`) | entries, leaf hashes, a Merkle tree | `Append`, `OpenLog`, `Checkpoint`, proofs | tree shapes near powers of two; truncated or rewritten stores |
| witnessing (`relay`, `witnesskit`, `record.Witness`) | latest checkpoint and countersignatures per log; each witness's last checkpoint | publish, list, fetch, countersign, post | lost messages, restarts, an operator that rewrites, late countersignatures, callers nobody authenticates |
| node relay (`noderelay`) | per node: key, replay watermarks, cached jobs, settled marks | `Enroll`, `SubmitListing`, `Heartbeat`, `PollJobs`, `Decline`, `ReportJob` | upstream calls outside the mutex; lost answers; retries |
| agent (`cmd/cloudy-agent`, `contribute`) | sequence number, last listing, handled jobs | `List`, `Beat`, `PollOnce` | lost answers; the owner coming back mid-job |
| claims (`record/lifecycle`, `record/filing`) | per claim the last transition | `Append`, `Accept` | monotone order driven from two components |
| covenant (`covenant`) | admitted assessments | admit, standing | standing derived from what was admitted |
| server (`consumerapi`) | one mutex over most of the above | HTTP handlers | several components changed by one request, any of which may fail |
| operator credential and enrolment (`opcred`, `enroll`, `cloudy-enroll`, `operator-keygen`) | seven seed files; the signer's counter; a coordinator's record of the operator | `GenerateKeyset`, `Save`, `LoadKeyset`, `Next`, `Client.Enroll` | commands that race or die over one directory; lost answers; re-runs; counters across restarts |
| tech tree and market (`techtree`, `market`, their handlers) | signed claims and edges, listings and sales, each on a hash-chained log; narratives in a locker, found by a manifest | `AddClaim`, `AddReference`, `AddListing`, `RecordSale`, `OpenLog`, `Erase` | cycles of any length; replay; shared text behind several claims |
| storage | a table's next challenge, a scheduler's next slot | split, seal, place, audit | random draws and byte strings |

How they meet.  `cloudyd` runs the server and the node relay.  The server opens a
case in the registry and then appends to the lifecycle log, under one mutex; the
registry and the covenant book ask the dialog log, through the server's index,
whether an exchange was sealed (`Anchors.Sealed`).
Operators publish checkpoints of their logs to a relay, from which witnesses
fetch and to which they post countersignatures.  The server's listings rest on
claims of its tech tree, whose narratives are in a locker beside it.  Its operator is
enrolled with a coordinator by commands that share a key directory with `cloudyd`.  An
agent polls the node relay,
which forwards to the orchestrator (SoHoLINK, outside this repository).

What makes each part correct, in a line: credit is zero-sum and no history
forks; an exchange is ruled on once; a record cannot be rewritten unnoticed; a
witness never signs two histories; what a node said arrives unchanged and at most
once, and what it settled stays settled; a node works only when its contract and
its owner let it; the server's registry, lifecycle log, receipts and book agree; the
keys a coordinator knows are the keys on disk; what builds on what has no cycle, and
a listing leads to its maker's specification as signed.

## The modules

Signatures are modelled by who signed; hashes by injective terms (a node hash is
the record of its children); payloads are left out.  Each module's header says
what the steps of its processes are and where they interleave.

**CreditLedger** is the abstract promise of `economy`: one mutual-credit ledger over
unbounded integers.  **Ledger** is the code: `Ledgers` instances over one `store`.
An instance holds its mutex for a whole call, so it is one process with a program
counter; its admission, its conditional append (`MemStore.Append(after, r)`), the
`All` of a catch-up and each turn of the replay loop are steps between which other
instances move.  `Wrap` is int64 arithmetic at width `MaxInt`; `Bypass` is a write to
the store by something that is not a ledger; `Open` starts or restarts an instance.
`past` is a history variable: the states the verified prefixes of the store fold to.

**Docket** is the abstract promise of `dispute`: a tuple (exchange, complainant, respondent)
is free, live or settled.  **Dispute** has callers that run `Registry.Open`, `Rule` and `Withdraw`: a gate over the
fold of the case (`Gate`), then the store's atomic insert (`AppendArtifact`).  With
`Serialised` a caller holds `consumerapi.Server.mu` from before the gate until after
the insert, as the handlers do; without it the registry is used bare.  A tuple is live
in Docket when the store's index holds a case for it, and settled when the store holds
a ruling on one of its cases.

**Merkle** is `record/tree.go` and the verifiers: RFC 6962 roots, inclusion and
consistency proofs.  Where the code recurs over a slice, a function of the slice's size
gives the result for every slice of that size, so that it can be proved about;
**RecordLog** is the log over it: `AppendEntry`,
`OpenLog` with its re-verification, `CheckpointOver`, a process that stops and a store
rewritten while it is down.  It keeps the last checkpoint an outsider holds.

**Witnessing** has an operator that publishes (and may rewrite its log), the relay's
`handlePublish`, `handleCountersig` and log list, and workers that run
`witnesskit.Worker.RunOnce` log by log: fetch, countersign with the served proof,
post.  Requests and answers may be lost (`Lossy`); relay and witnesses may restart
with empty memories.  The relay authenticates nobody, so with `Strangers` anyone also
posts checkpoints the operator never signed (`PublishForged`) and, under any name
(`PostUnder`), bytes that verify nowhere, countersignatures the witness made at some
time (`signed`, and `older` for those of before its restart), and ones the operator made
with its own key.  A key nobody runs a worker for may sign what it likes; whom to trust
is settled outside the code (`record/witness.go:23-26`), so such keys are left out.
`Counted` is the reader's side: the keys `StandIn` counts in a bundle.

**NodeRelay** is one node's state in `noderelay.Relay` and its request handlers.  A call
is authenticated, checked under `r.mu`, made upstream with the mutex released, and
applied under it: four steps that calls interleave at.  The orchestrator is external
and minimal: it keeps the first key, takes increasing sequence numbers, and answers
or does not.  One node is enough, since nodes share nothing but the mutex.

**AgentLoop** is `cmd/cloudy-agent` over `contribute`: the contract and the executors main
registers, then `Loop.Run` as one process whose listing, beat, poll and settlement
steps are split wherever the owner may come or go or the coordinator's answer may be
lost.  Dispatch's look at the owner and the start of the job by the registry are two
steps (`Dispatch`, `StartJob`), so the owner may come back in between.  The coordinator is
external: it holds the node's opt-in, and jobs that are open
or settled; a poll may still offer settled ones.  Its field `unheard` is a history: the
opt-in it holds came by a re-listing whose answer never reached the node.  The owner is free although main's
probe is a stub today (`agent.go` promises the gate for any probe).  `nextSeq` is
abstracted to messages being taken in the order they are sent.

**Lifecycle** and **Covenant** are values with operators: the lifecycle log with the gate
that `Append` and replay share, and the Book with its store, admission and `Standing`.
**Commons** is the `consumerapi.Server` over them, the member directory, the drops and their
index, and the cases that can be opened and withdrawn.  A handler is one step, because
it holds `s.mu`; only the intake of a filing comes before, so an opening is two.
`Adjudicate` is `LifecycleLog.Append` by some other caller: cloudyd has none yet, since it
holds no adjudicator key, and `Panel` says what such a caller may append.

**Credential** has commands as processes over one directory of seed files: each file is
created and then written (durably: nothing is synced, so this covers processes that die
and not a machine that loses power), each call of `Client.Enroll` is a step, and a command may die
between any two of them or lose a request or an answer.  `CodeSource` is what
cloudy-enroll's flags choose: `"prompt"`, a person who waits for the mail, or `"file"`,
`-code-file`.  `cloudyd` starts its signer from the clock, stops and starts again.  The
coordinator and the mail are external, modelled from what the client expects of them.

**TechTree** and **Market** are values with operators, like Lifecycle: the tree with its
admission, the search that refuses cycles, the chained head, replay and the citation
weight; the catalog with its gates on maker, specification, category and rails, and
the ordering of a category.  **Storefront** is the server over them: registration, the handlers for
claims, edges and listings, and the narratives.  `RecordSale` and the locker's `Erase`
have no caller in the server yet and are taken at any time.

`MC*` modules hold the instances for TLC.  **LedgerProofs**, **DisputeProofs**,
**RecordLogProofs**, **WitnessingProofs**, **NodeRelayProofs**, **CredentialProofs**,
**CommonsProofs** and **StorefrontProofs** hold the theorems about the module they are
named after.

## The runs

| run | checks | on |
|---|---|---|
| `ledger` | `TypeOK`, `NoFork`, `ZeroSum`, `DebtWithinACap`, `NonceSpentOnce`, `AppendsVerify`, `RejectsOnlyTampering`, `ImplementsCreditLedger` | 2 ledgers, 4 accounts (one unknown), 6 spends, 4 changes, words of -4..3, two records around the ledgers |
| `dispute` | `LiveIndexAgrees`, `OneRulingPerTuple`, `ImplementsDocket`, `CallsReturn` | 2 callers with the mutex, 4 openings, 6 rulings, 4 withdrawals |
| `record_log` | `TypeOK`, `InclusionIffMember`, `ForkIsEvident`, `ProofFitsOneSize` | logs of up to 9 entries, one rewrite |
| `witnessing` | `TypeOK`, `NoSplitView`, `TakenPostsVerify`, `CountedHaveSigned`, `WitnessingIsKept`, `FreshWitnessSigns` | a worker, the operator's key and strangers; 4 heads in two branches, one restart, losses |
| `witness_gap` | `CosignsEveryExtension`: violated | an honest log of 3, no losses, no strangers; 2 workers, one under the operator's key |
| `node_relay` | `VerifiesAtOrchestrator`, `TrailsOrchestrator`, `HeartbeatForwardedOnce`, `NeverHandedBack`, `WatermarksNeverFall` | 2 handlers, one of which polls; 2 keys, 10 messages, one restart |
| `node_overlap` | `NeverHandedBack`: violated | both handlers poll |
| `agent` | `AnsweredListingConverges`, `JobsGetSettled` | 6 contracts, of which 4 must not start; 3 jobs, one restart, lost requests and lost answers to listings and settlements |
| `agent_listing` | `ListingConverges`: violated | the same without a restart, lost answers to listings |
| `commons` | `LifecycleFollowsCases`, `VerdictsAreGrounded`, `StandingCountsEach` | 3 members (one cannot register) and the operator; 4 drops, 6 openings of 4 claims, 4 panel transitions, 8 verdicts, 4 answers |
| `credential` | `NoMixedKeyset`, `RegisteredKeysAreKept`, `SeqAdvances`, `EnrolmentCompletes` | cloudy-enroll and operator-keygen on one directory, empty or with a seed copied over another; 3 keys to a set, 4 key sets, 5 codes, 2 failures, a clock of 3 |
| `storefront` | `BuildsOnAcyclic`, `HeadIdentifiesLog`, `ListingsRestOnSpecs`, `WeightPerMember` | 2 members and a key that never registers; 7 claims, 11 edges, 8 listings, 5 sales, 6 items on the two logs, one erasure |

Why the bounds are enough to be interesting.  At `MaxInt = 3` two spends reach the
overflow guard and two pass the cap; four changes cover a flip to credit, a
tightened cap, a cap past the word and a missing quorum.  Nine leaves cover tree
sizes 1, 2^k and 2^k + 1 up to 8 + 1, where the recursion changes shape.  Two callers
are what a check-then-append race needs, and the rulings and withdrawals include
rivals over one case, a reopened tuple, a cross-complaint and a refusal at each gate.
The two branches of heads, one of which grows, are what a split view needs; workers
meet only in the relay, each under its own name, so one of them beside the strangers and
the operator shows all there is to see.  A clock of two ticks opens
every window of one tick once again after it was used.  The agent's jobs are one it
runs and two it must decline, for the signature and for the workload.  The openings
repeat a claim in flight and a tuple after withdrawal; the verdicts include two of one
member on one exchange in two relations, and one each without party, comment or
anchor.  Three seed files have a first, a middle and a last to die at; two failures let
a re-run fail as well, and the number of a key set or a code that nothing holds any
more is drawn again, so that commands may be run for ever (a new code is drawn only
when there is such a number; five are enough that there always is).  Edges close cycles of two and of three, one
member cites a claim from two of its own, two claims share a text that is erased
once, and a sale is repeated at another time.  Each property has a mutant
of the code, in the module next to the definition it replaces, that the same run
refutes: the bounds reach the case the property is about.

**Symmetry** is used only in `ledger`, over the ledger instances, which nothing tells
apart; that run has no liveness property.

**Deadlock** is checked everywhere but in `record_log`, where the process may stop for
good after its last rewrite.

**Fairness.**  `dispute`: every step of a call in progress is weakly fair and taking the
mutex strongly fair, which the Go scheduler and `sync.Mutex` (whose starvation mode
bounds waiting) give; that a caller makes a call at all is not assumed.  `witnessing`:
`witnessd` runs `RunOnce` on a ticker for ever, so a worker's steps and its fetches are
weakly fair; that a fetch repeated for ever at last succeeds (`FetchOK`) is strong
fairness, the usual assumption about a network that is not cut for good.  `agent`: the
loop's own steps are weakly fair; `Beat` and `PollOnce` are strongly fair, since `select`
picks among ready tickers at random; and a listing, or the settlement of a given job,
that is tried again and again is answered in the end.  `credential`: the steps of a
running command, whose calls have timeouts, and the mail are weakly fair; the
operator's retries (running cloudy-enroll again, with `-gen-keys` where there is no key
set, and removing a set that does not load) are strongly fair, as the re-run that
`enroll.go` asks for; failures are bounded.  Nothing else is assumed about operators, owners, restarts or losses, nor that a job is assigned.

## The proofs

The theorems hold for every value of the constants that satisfies the named
assumptions of the modules, which TLC evaluates on the instances of the runs.  Each
inductive invariant was first checked with TLC on the instance of its run.

| theorem | states | from |
|---|---|---|
| **LedgerProofs** | | |
| `TypeCorrect` | balances, caps and modes never leave their types | |
| `HistoryNeverForks` | every instance is at a prefix of the one history | |
| `CreditIsZeroSum` | balances sum to zero in the integers, although the code adds machine words | |
| `DebtIsBounded` | debt is within the largest cap so far | |
| `NoForkIsWritable` | what an instance appends verifies at any later reopening | |
| `TamperingIsReal` | a reported tampering is one | |
| `NoReplay` | nonces and versions advance across all instances | |
| `Implementation` | `Ledger` implements `CreditLedger` | |
| **DisputeProofs** | | |
| `TypeCorrect` | `TypeOK`, with and without the mutex | |
| `IndexIsTheFold` | `LiveIndexAgrees` | `Serialised` |
| `OneRuling` | `OneRulingPerTuple` | `Serialised` |
| `Implementation` | `Dispute` implements `Docket` | `Serialised` |
| **RecordLogProofs** | | |
| `LogIsItsStore` | `TypeOK` | |
| `InclusionExact` | `InclusionIffMember` | |
| `ForkEvidence` | `ForkIsEvident` | |
| `ProofFits` | `ProofFitsOneSize` | |
| **WitnessingProofs** | | |
| `TypeCorrect` | `TypeOK` | |
| `NoWitnessSplitsTheView` | `NoSplitView` | |
| `WorkersPostsVerify` | `TakenPostsVerify` | |
| `OnlySignersCounted` | `CountedHaveSigned` | |
| `WitnessingKept` | `WitnessingIsKept` | |
| **NodeRelayProofs** | | |
| `ForwardedSignaturesVerify` | `VerifiesAtOrchestrator` | |
| `RelayTrails` | `TrailsOrchestrator` | |
| `BeatsForwardedOnce` | `HeartbeatForwardedOnce` | |
| `NoWatermarkFalls` | `WatermarksNeverFall` | |
| `SettledNeverHandedBack` | `NeverHandedBack` | `OnePoller` |
| **CredentialProofs** | | |
| `NeverMixed` | `NoMixedKeyset` | |
| `RegisteredKept` | `RegisteredKeysAreKept` | |
| `SeqNeverRepeats` | `SeqAdvances` | |
| **CommonsProofs** | | |
| `LifecycleFollows` | `LifecycleFollowsCases` | |
| `VerdictsGrounded` | `VerdictsAreGrounded` | |
| `StandingIsComplete` | `StandingCountsEach` | |
| **StorefrontProofs** | | |
| `NothingBuildsOnItself` | `BuildsOnAcyclic` | |
| `HeadsIdentify` | `HeadIdentifiesLog` | |
| `ListingsRest` | `ListingsRestOnSpecs` | |
| `MembersWeighOnce` | `WeightPerMember` | |

The last column is a hypothesis of the theorem itself.  `Serialised`: the callers hold
the server's mutex; without it the property is false (see [Disagreements](#disagreements)).
`OnePoller`: the node's polls do not overlap; with two pollers the run `node_overlap`
refutes the property.

The assumptions on the constants.  `Ledger`: `MaxInt` positive, a genesis that
`Genesis.validate` accepts, well-typed calls.  `Dispute`: ids are hashes, so one id names
one artifact.  `Witnessing`: what a log was before it grew is a head too
(`HeadsAssumption`).  `NodeRelay`: positive intervals.  `Credential`: a directory the operator
starts from holds seeds of one key set, all, some, or some copied over others
(`FoundAssumption`).  `Commons` and `Storefront`: one id names one artifact, openings of one
id agree on parties and exchange, and only the handlers file and resolve
(`RequestAssumption`, `ArtifactAssumption`).  Elsewhere: `None` is none of the values.

**Ledger.**  None of the properties is inductive alone, because an instance's state says
nothing of the store it was derived from.  The inductive invariant `IInv` is
`TypeOK /\ PastOK /\ CallOK /\ NoFork`: `PastOK` says that `past` is the chain of states
got by applying the stored records one by one as long as each is admissible;
`CallOK` says what a program counter implies (an instance about to append holds a
record its own state admits, a replay's target is within the store).  With it, a
successful conditional append (`applied[l] = Len(store)`) happens at the end of `past`,
so admissible for the instance is admissible for the store (`AppendsFacts`).  What a
record does to the chain is stated once, in `LandFacts` and `PastStep`; the sum, the
debts and the nonces are then invariants of `past` (`PastBalanced`, `PastDebt`,
`PastNonces`), carried over by one lemma each, and hold of the instances by `NoFork`.
Arithmetic rests on two lemmas: `WrapExact` (a value in range does not wrap) and
`ApplySpendExact` (for an admitted spend neither side wraps).  The sum is a recursive
function, over which the prover has no induction; `Balanced` says instead that
partial sums exist that start and end at zero, `BalancedTransfer` gives new ones after
a transfer, and `BalancedTotal` shows, from the least index at which two sequences of
partial sums differ, that they agree with `Total`.

**Dispute.**  `TypeOK /\ MutexOK /\ GateOK /\ CasesOK`.  `MutexOK` says that one caller at most
is between its gate and its insert; so what the gate saw of the case (`GateOK`) is still
true at the insert, which no unlocked caller can say.  `CasesOK` relates the five maps of
the store: every case has its opening first and one terminal artifact at most, a tuple
is live exactly for its open case, and settled exactly if a case of it was ruled on.
The refinement follows from it: a gate, a refusal and a mutex step leave `Live` and
`Remedies` as they are, and an insert is an `Open`, a `Withdraw` or a `Rule` of Docket.

**Witnessing.**  `Typed /\ Views`.  `Views` says what lets a witness forget everything but its
last checkpoint: all it signed of a log are prefixes of that one, and what it is about to
post it has signed (`Remembered`).  Each new signature then extends or repeats the last,
and prefixes of one head are comparable.  What a worker has in hand is what the relay
holds or is smaller, unless the cache was lost (`InHand`), so equal sizes mean equal
checkpoints.  What the relay has under a witness's name is garbage or a signature of that
witness (`Genuine`), whoever posted it; so one that verifies over the bundle's checkpoint
was made for it.

**NodeRelay.**  What a handler knows before its upstream call is stale after it.  `Serving`
says, per program counter, what survives: the key it authenticated with is the
orchestrator's, its sequence number is at or under the watermark it reserved
(`UnderWatermark`), and the answer it carries was true upstream, where keys, sequence
numbers and settlements only advance.  `NeverHandedBack` needs, besides, that a settled job
is withheld by mark, or is neither in the cache nor in the answer of a poll under way
(`Withheld`); two polls under way break it.

**Credential.**  `Typed`, `ToolOK` (what each command's program counter implies of its own
keys and of the files), `OneWriter` (exclusive creation of the first file elects one
`Save`), `OneGeneration` (the files there are of one key set) and `Kept` (what the
coordinator or a running `cloudyd` has is what the directory holds).  `SeqOK` adds that no
Seq issued is past the clock at which a later signer starts.

**Commons.**  The registry is changed before the lifecycle log, so the proof has to show that
the log never refuses what the registry took.  `Agrees` ties the two and the receipts
together claim by claim; `Furthest` says that the log's state is at once the furthest
and the last kind of the claim's transitions, so that a filing after "none" and a
resolution after "open" cannot be duplicates, and each passes the gate.  `Rests` carries
a claim's drop and filing to the verdicts that name them later.  `KeysDiffer` says the
store holds a key once; Standing's own key is the same, so it drops nothing, and
counting places counts verdicts (`PlacesCountElements`).

**Storefront.**  `TreeOK`, `Acyclic`, `CatalogOK`, `Replays`, `ManifestOK`, `Specified`.  Acyclicity is
stated of sets (no set of claims in which each builds on another of the set), which
needs no induction over paths; `SearchIsComplete` shows that the search saturates, so an
edge that would close such a set is refused.  Heads are injective terms, so two logs
with one head agree item by item (`ChainsAgree`).  `ShelvedOnce` and `SalesCounted` relate
what is browsed to the log by bijections.

**RecordLog.**  The inductive invariant is small: a running log's leaves are its store's, each
entry of it was admitted (`Admitted`: it verifies, is of this log and is there once), and
the kept checkpoint is over the leaves it was cut from.  The work is in the trees.
A set induction over slice sizes (`EverySize`) gives that the split lies inside the slice
(`SplitInside`) and that a prefix that reaches past a split splits there too
(`SplitShared`); one existence lemma (`FamiliesExist`) shows that the five recursions of
`Merkle` are defined, and one unfolding lemma each says what they are at a slice.  From
these, for trees of any shape:

* heads are injective: slices with one head have one length and the same leaves
  (`HeadsCommit`), because a leaf is never a node;
* `RootIff`: a leaf, an index and a path give the head of a slice exactly when the leaf is
  there and the path is `provePath`'s; `PathsDiffer`: no two indices share a path;
* `ConsSound`: whatever proof is given, if the newer head comes out right then the older
  one is that of the log's own beginning; `ConsIff`: from the right older head, exactly
  `subProof`'s proof is taken; `ProofsDiffer`: no two sizes share a proof.

`VerifyBetween` puts the last three together: `VerifyConsistency` accepts if and only if the
older head is that of the same beginning and the proof is the log's for that size.
Hashes being injective terms is the assumption all of it rests on.

**Recursive functions.**  The library's induction rules take a predicate, which the provers
cannot instantiate.  `UpTo` (in CommonsProofs and StorefrontProofs) is induction over a *set*
closed under adding one, and `Iterated` gives a function that satisfies a recursive
definition; with both, what a replay makes of one more record is proved for logs of
any length (`ReplayAppend`, `KindsAppend`, `OpenTreeAppend`, `OpenCatalogAppend`).

Only model-checked: `AgentLoop`, whose properties are all liveness; and the liveness
properties `CallsReturn`, `FreshWitnessSigns`, `AnsweredListingConverges`, `JobsGetSettled` and
`EnrolmentCompletes` (fairness is beyond the proof system).  `JobsGetSettled` assumes that
each job's own call succeeds in the end: a job the coordinator refuses for ever would,
by `PollOnce`'s return at the first error, keep those behind it waiting.

## Disagreements

Three are runs that TLC refutes, with the comment quoted in `PROJECT.json`.

* `witness_gap`: a witness that missed one publication refuses every later one; the
  relay serves only the proof from the size published before.
* `node_overlap`: overlapping polls of one node can hand a settled job back.
* `agent_listing`: a re-listing that was taken but not answered, and an owner who flips
  back before the next beat, leave the coordinator with the wrong opt-in for good: `Beat`
  compares with the last listing that was answered.  `AnsweredListingConverges` is what
  does hold.

Three more are a change of a constant away:

* `Dispute` with `Serialised = FALSE`, a bare `Registry`: two concurrent `Rule`s on one case
  both land, and `OneRulingPerTuple` fails (`dispute/doc.go:38`, `memstore.go:35-41`).
  `cloudyd` holds its own mutex and is not affected.
* `Credential` with `CodeSource = "file"` (`-code-file`): `fileCodeSource` returns what the file
  holds at its first look (`cloudy-enroll/main.go:139-143`), so after a run that failed once
  its code was in the file, every re-run presents the code before its own and, if the
  coordinator voids earlier codes, is refused; `EnrolmentCompletes` fails
  (`enroll.go:301-303` says a re-run completes, `enroll.go:35-36` that "Code blocks until the
  code is available").
* `TakenPostsVerify` without `~lost`, with two instants: after a restart the relay may hold a
  checkpoint of the same size made at another instant, and take a worker's
  countersignature of the earlier one for it (`relay.go:160`).

The others are plain from the code.

* "It caches every structurally valid countersignature and serves them all"
  (`relay.go:6-9`): one per name.  Any POST under a witness's name replaces what the witness
  posted (`relay.go:164`), and any POST of a larger size, signed or not, takes the place of
  the checkpoint and of all that was gathered for it (`relay.go:137`).  `WitnessingIsKept`,
  `FreshWitnessSigns` and `CountedHaveSigned` say what is left; a witness whose entry was
  overwritten signs the same checkpoint again only if its proof is empty.
* `dispute/doc.go:39-41` says that "re-dispute after a terminal state is a NEW Opening".  After
  a withdrawal it is; after a ruling the tuple is settled and every later opening of it is
  refused (`memstore.go:36-41`, `registry_test.go:444-477`), which is what Docket says.
* `opcred/keyset.go:24-26` says of `Save` that it "never partially writes": one that dies
  between two seed files leaves some of them, and a torn one, behind (`keyset.go:95-117`).
* Two heartbeats that overlap both find the window open and are both forwarded
  (`noderelay.go:206`; the package comment says one per interval).  The orchestrator's
  watermark is what keeps either from counting twice.
* `OpenLog` of the tree and of the catalog says that a "tampered, reordered, or forged log
  fails here" (`techtree/tree.go:182-184`, `market/catalog.go:182-184`).  Independent items
  in another order, or an invented sale, which nobody signs, replay without an error;
  only the head tells, which is what `HeadIdentifiesLog` states.
* `Post` and `Enact` admit before they look at the store, so a ledger behind its peers
  refuses what the documented "iff" admits, until it loses an append.
* The tuple of a dispute is directional: each party may have a case over one exchange,
  and both may be ruled on.
* The agent "stops advertising and dispatching work while the owner is active"
  (`agent.go`): the owner may return between Dispatch's look (`agent.go:61`) and the start of
  the job (`contribute/registry.go:113`), and nothing stops a job that runs.
* `covenant` comments (`memstore.go:31`, `book.go:262`, `ErrDuplicate`) give the uniqueness
  key of a verdict without the relation, which the code has.

## Not modelled

Bytes and encodings (`canon`, headers, JSON), key derivation and encryption: a
signature is its signer and a hash is injective.  `LeavesSince`, `Fees` and the other
reads, which change nothing.  Of `opcred`, the root seed and its delegation, the
rotation of key pairs and the conformance digests: functions of keys.  `storage`: byte
strings, random draws and two counters of one caller each.  `coord`, most of the
command-line tools and `govread`, which wire and print.  The server's credit handlers,
which wrap the ledger.  The agent's executors and their service.  Durable stores: the
repository has in-memory ones only (the key set aside), so a crash of `cloudyd` is
modelled as the loss of what it kept.  Rulings inside the server: no key in the
process can sign one.

## The plan

1. Proofs: `Witnessing` over `Merkle` in place of its abstract heads, so that `NoSplitView` rests
   on the proved `ForkEvidence`.
2. **Node path**: AgentLoop composed with NodeRelay in place of their abstract messages
   and coordinator; sequence numbers across a restart with a clock set back.
