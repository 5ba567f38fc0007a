----------------------------- MODULE RecordLog -----------------------------
(***************************************************************************)
(* internal/record/log.go: one operator's Log over its Store, with a       *)
(* member who keeps one of the checkpoints it signed.                      *)
(*                                                                         *)
(* The log keeps leaf ids in memory and rebuilds them from the store on    *)
(* OpenLog.  While the process is down anything may rewrite the store      *)
(* (Tamper, external): replay catches what does not re-verify, and the     *)
(* member's checkpoint must catch the rest.                                *)
(***************************************************************************)
EXTENDS Merkle

CONSTANTS
    Entries,   \* covenants that may be appended, well and badly formed
    LogID,     \* the identity of this operator's log
    NoEntry,   \* Corrects of a plain covenant: the zero hash
    NoCp,      \* the member keeps no checkpoint
    MaxRewrites  \* out-of-band changes to the store each time the process is down

ASSUME EntryAssumption ==
    \A e, f \in Entries : e.id = f.id => e = f

ASSUME RewritesAssumption == MaxRewrites \in Nat

VARIABLES
    up,      \* the process runs: the Log value exists
    store,   \* Store: the entries persisted
    rewrites,  \* changes made to the store since the process stopped
    leafs,   \* Log.leafs, and Log.index: their positions
    held,    \* a checkpoint the member keeps
    covered  \* history: the leaves that checkpoint committed

vars == <<up, store, rewrites, leafs, held, covered>>

-----------------------------------------------------------------------------
(* Admission. *)

leafID(e) == leafHash(e.id)

\* Entry.Verify: two distinct parties, and the seal of each.
EntryVerifies(e) ==
    /\ e.proposer # e.acceptor
    /\ {e.proposer, e.acceptor} \subseteq e.seals

\* Log.check against the leaves already in the log.
check(e, ls) ==
    /\ EntryVerifies(e)
    /\ e.log = LogID
    /\ e.corrects # NoEntry => \E i \in 1..Len(ls) : ls[i] = leafHash(e.corrects)
    /\ \A i \in 1..Len(ls) : ls[i] # leafID(e)

Leaves(es) == [i \in 1..Len(es) |-> leafID(es[i])]

\* OpenLog replays every stored entry through check.
ReVerifies(es) == \A i \in 1..Len(es) : check(es[i], SubSeq(Leaves(es), 1, i - 1))

-----------------------------------------------------------------------------
(* What the log serves. *)

CheckpointOver(ls) ==
    [size |-> Len(ls), head |-> IF ls = <<>> THEN <<"logid", LogID>> ELSE mth(ls)]

\* Log.ProveConsistency; its caller keeps size within the log.
ProveConsistency(size) ==
    IF size = 0 \/ size = Len(leafs) THEN <<>> ELSE proveConsistency(size, leafs)

\* VerifyInclusion, for a checkpoint whose signature verifies.
VerifyInclusion(e, seq, path, cp) ==
    /\ EntryVerifies(e)
    /\ e.log = LogID
    /\ rootFromPath(leafID(e), seq, cp.size, path) = cp.head

-----------------------------------------------------------------------------
Init ==
    /\ up = TRUE
    /\ store = <<>>
    /\ rewrites = 0
    /\ leafs = <<>>
    /\ held = NoCp
    /\ covered = <<>>

AppendUnpersisted(e) ==
    /\ up
    /\ check(e, leafs)
    /\ leafs' = Append(leafs, leafID(e))
    /\ UNCHANGED <<up, store, rewrites, held, covered>>

\* Log.Append: checked, persisted, admitted.
AppendEntry(e) ==
    /\ up
    /\ check(e, leafs)
    /\ store' = Append(store, e)
    /\ leafs' = Append(leafs, leafID(e))
    /\ UNCHANGED <<up, rewrites, held, covered>>

\* Log.Checkpoint, signed and kept by the member.
Checkpoint ==
    /\ up
    /\ held' = CheckpointOver(leafs)
    /\ covered' = leafs
    /\ UNCHANGED <<up, store, rewrites, leafs>>

Stop ==
    /\ up
    /\ up' = FALSE
    /\ leafs' = <<>>
    /\ rewrites' = 0
    /\ UNCHANGED <<store, held, covered>>

\* The store rewritten behind the log's back: one entry removed, two exchanged,
\* or one replaced.
Tamper ==
    /\ ~up
    /\ rewrites < MaxRewrites
    /\ rewrites' = rewrites + 1
    /\ \/ \E i \in 1..Len(store) : store' = SubSeq(store, 1, i - 1) \o SubSeq(store, i + 1, Len(store))
       \/ \E i \in 1..(Len(store) - 1) :
            store' = [store EXCEPT ![i] = store[i + 1], ![i + 1] = store[i]]
       \/ \E i \in 1..Len(store), e \in Entries : store' = [store EXCEPT ![i] = e]
    /\ UNCHANGED <<up, leafs, held, covered>>

\* OpenLog refuses a store that does not re-verify: the process stays down.
OpenLog ==
    /\ ~up
    /\ ReVerifies(store)
    /\ up' = TRUE
    /\ leafs' = Leaves(store)
    /\ rewrites' = 0
    /\ UNCHANGED <<store, held, covered>>

Next ==
    \/ \E e \in Entries : AppendEntry(e)
    \/ Checkpoint
    \/ Stop
    \/ Tamper
    \/ OpenLog

Spec == Init /\ [][Next]_vars

-----------------------------------------------------------------------------
(* Properties. *)

\* A running log's leaves are its store's, one for one.
TypeOK ==
    /\ up \in BOOLEAN
    /\ rewrites \in 0..MaxRewrites
    /\ \A i \in 1..Len(store) : store[i] \in Entries
    /\ leafs = IF up THEN Leaves(store) ELSE <<>>
    /\ held = NoCp \/ held = CheckpointOver(covered)

\* Prove and VerifyInclusion agree: an entry verifies at a position with the
\* audit path of a position exactly when it is the entry there and the path its own.
InclusionIffMember ==
    up => LET cp == CheckpointOver(leafs) IN
          \A i, seq, at \in 0..(Len(leafs) - 1) :
              VerifyInclusion(store[i + 1], seq, provePath(at, leafs), cp) <=> (i = seq /\ seq = at)

\* "Failure against two operator-signed checkpoints is portable fork evidence": the
\* log's own proof links the checkpoint a member kept to the current head exactly
\* when nothing that checkpoint covered was edited, moved or removed, and then no
\* proof of the log for another size passes in its place.
ForkIsEvident ==
    (up /\ held # NoCp) =>
        LET now == CheckpointOver(leafs)
            intact == Len(covered) <= Len(leafs) /\ SubSeq(leafs, 1, Len(covered)) = covered
            accepts(size) == VerifyConsistency(held, now, ProveConsistency(size))
        IN /\ \A size \in 0..Len(leafs) : accepts(size) => intact
           /\ intact => accepts(Len(covered))

\* A consistency proof is good for one older size only (the empty proof for two: the
\* empty log and the log itself), so a verifier that last saw another size of the
\* same honest log is refused with it.
ProofFitsOneSize ==
    up => LET n == Len(leafs)
              now == CheckpointOver(leafs)
          IN \A m, size \in 0..n :
                 VerifyConsistency(CheckpointOver(SubSeq(leafs, 1, m)), now, ProveConsistency(size))
                 <=> (m = size \/ {m, size} = {0, n})
=============================================================================
