----------------------------- MODULE Witnessing -----------------------------
(***************************************************************************)
(* internal/relay, internal/witnesskit and record.Witness: an operator     *)
(* publishes checkpoints of its logs to a relay, member witnesses poll the *)
(* relay, countersign what extends what they last signed, and post their   *)
(* countersignatures back.  The relay authenticates nobody: anyone may     *)
(* post a checkpoint or a countersignature, under any name.                *)
(*                                                                         *)
(* A head stands for the leaves it commits: it is that sequence.  What a   *)
(* consistency proof shows of two heads is what RecordLog checks of the    *)
(* Merkle tree (ForkIsEvident, ProofFitsOneSize).  A countersignature is   *)
(* the checkpoint it is over (its log, leaves and instant; the operator's  *)
(* signature is not part of the payload) or Garbage, which is over none.   *)
(***************************************************************************)
EXTENDS Integers, Sequences, FiniteSets, SequencesExt

CONSTANTS
    Logs,       \* the operator's logs: dialog and lifecycle
    Witnesses,  \* keys running a witnesskit.Worker
    Operator,   \* the operator's key, which may be one of them
    Heads,      \* the logs an operator may publish, as their leaves
    Instants,   \* IssuedAt values
    MaxRestarts,  \* bound on restarts, of witnesses and of the relay together
    Lossy,      \* requests and replies may be lost
    Rewrites,   \* the operator may rewrite a log it has published
    Strangers,  \* callers who are neither the operator nor a witness post too
    Garbage,    \* a signature over no checkpoint
    None

ASSUME BoundsAssumption == 
    MaxRestarts \in Nat /\ {Lossy, Rewrites, Strangers} \subseteq BOOLEAN
\* What a log was before it grew to a head is a head too.
ASSUME HeadsAssumption ==
    /\ <<>> \in Heads
    /\ \A h \in Heads : h \in Seq(Range(h)) /\ \A n \in 0..Len(h) : SubSeq(h, 1, n) \in Heads

Checkpoints == [head : Heads, at : Instants]
\* CheckpointMsg: the checkpoint, whether the operator's signature on it verifies, and
\* the proof that it extends the size `from`.
Messages == [cp : Checkpoints, valid : BOOLEAN, from : {Len(h) : h \in Heads}]
Signatures == Checkpoints \cup {Garbage}
Size(cp) == Len(cp.head)
\* The names countersignatures are posted under.
Keys == Witnesses \cup {Operator}

ASSUME NoneAssumption == 
    /\ None \notin Logs /\ None \notin Messages /\ None \notin Signatures
    /\ Garbage \notin Checkpoints

VARIABLES
    published,  \* the log as the operator last saw it published
    relay,      \* Relay.logs: the cached message, None before the first
    cosigned,   \* logState.cosign: key -> the signature posted under it
    pc,         \* where each worker is in RunOnce
    todo,       \* logs left of the list RunOnce fetched
    cur,        \* the log being countersigned
    got,        \* the bundle's message fetched for it
    last,       \* Witness.last
    signed,     \* history: the checkpoints signed per log since the witness started
    older,      \* history: those signed per log before it last started
    restarts,   \* restarts so far
    lost        \* history: the relay has restarted, which empties its cache

cache == <<relay, cosigned>>
worker == <<pc, todo, cur, got>>
memory == <<last, signed, older, restarts, lost>>
vars == <<published, cache, worker, memory>>

-----------------------------------------------------------------------------
(* Consistency and countersigning. *)

\* len(proof) == 0: Log.ProveConsistency from nothing, or from the size itself.
EmptyProof(m) == m.from \in {0, Size(m.cp)}

\* VerifyConsistencyAs(prev, m.cp, m's proof).
Consistent(prev, m) ==
    \/ Size(prev) = 0 /\ EmptyProof(m)
    \/ Size(prev) = Size(m.cp) /\ EmptyProof(m) /\ prev.head = m.cp.head
    \/ /\ 0 < Size(prev) /\ Size(prev) < Size(m.cp)
       /\ m.from = Size(prev)
       /\ IsPrefix(prev.head, m.cp.head)

AcceptsFirstOnly(w, l, m) ==
    /\ w # Operator
    /\ m.valid
    /\ last[w][l] # None => Size(last[w][l]) <= Size(m.cp)

AcceptsKnownOnly(w, l, m) ==
    /\ w # Operator
    /\ m.valid
    /\ last[w][l] # None
    /\ Consistent(last[w][l], m)

\* Witness.CountersignAs.
Accepts(w, l, m) ==
    /\ w # Operator
    /\ m.valid
    /\ last[w][l] # None => Consistent(last[w][l], m)

-----------------------------------------------------------------------------
Init ==
    /\ published = [l \in Logs |-> <<>>]
    /\ relay = [l \in Logs |-> None]
    /\ cosigned = [l \in Logs |-> [k \in Keys |-> None]]
    /\ pc = [w \in Witnesses |-> "idle"]
    /\ todo = [w \in Witnesses |-> {}]
    /\ cur = [w \in Witnesses |-> None]
    /\ got = [w \in Witnesses |-> None]
    /\ last = [w \in Witnesses |-> [l \in Logs |-> None]]
    /\ signed = [w \in Witnesses |-> [l \in Logs |-> {}]]
    /\ older = [w \in Witnesses |-> [l \in Logs |-> {}]]
    /\ restarts = 0
    /\ lost = FALSE

handlePublishReplacesEqual(l, m) ==
    IF relay[l] = None \/ Size(m.cp) >= Size(relay[l].cp)
    THEN /\ relay' = [relay EXCEPT ![l] = m]
         /\ cosigned' = [cosigned EXCEPT ![l] = [k \in Keys |-> None]]
    ELSE UNCHANGED cache

\* Relay.handlePublish: only growth replaces what is cached.
handlePublish(l, m) ==
    IF relay[l] = None \/ Size(m.cp) > Size(relay[l].cp)
    THEN /\ relay' = [relay EXCEPT ![l] = m]
         /\ cosigned' = [cosigned EXCEPT ![l] = [k \in Keys |-> None]]
    ELSE UNCHANGED cache

\* The operator, whose log has only grown, signs its head and posts it with the
\* proof from what it last published (external); the reply may be lost.
Publish(l, h, at) ==
    /\ IsPrefix(published[l], h)
    /\ handlePublish(l, [cp |-> [head |-> h, at |-> at], valid |-> TRUE,
                         from |-> Len(published[l])])
    /\ \/ published' = [published EXCEPT ![l] = h]
       \/ Lossy /\ UNCHANGED published
    /\ UNCHANGED <<worker, memory>>

\* An operator that rewrote its log publishes it, with any proof the new log yields
\* (external; the witnesses exist for this one).
PublishRewritten(l, h, at) ==
    /\ Rewrites
    /\ \E from \in 0..Len(h) :
         handlePublish(l, [cp |-> [head |-> h, at |-> at], valid |-> TRUE, from |-> from])
    /\ UNCHANGED <<published, worker, memory>>

\* A stranger posts a checkpoint the operator never signed (external); nobody gets
\* as far as its proof.
PublishForged(l, h, at) ==
    /\ Strangers
    /\ handlePublish(l, [cp |-> [head |-> h, at |-> at], valid |-> FALSE, from |-> Len(h)])
    /\ UNCHANGED <<published, worker, memory>>

-----------------------------------------------------------------------------
(* Worker.RunOnce and countersignLog. *)

\* GET /v1/logs.
List(w) ==
    /\ pc[w] = "idle"
    /\ pc' = [pc EXCEPT ![w] = "next"]
    /\ todo' = [todo EXCEPT ![w] = {l \in Logs : relay[l] # None}]
    /\ UNCHANGED <<published, cache, cur, got, memory>>

Done(w) ==
    /\ pc[w] = "next"
    /\ todo[w] = {}
    /\ pc' = [pc EXCEPT ![w] = "idle"]
    /\ UNCHANGED <<published, cache, todo, cur, got, memory>>

FetchUndecoded(w, l) ==
    /\ pc[w] = "next"
    /\ l \in todo[w]
    /\ todo' = [todo EXCEPT ![w] = @ \ {l}]
    /\ pc' = [pc EXCEPT ![w] = "sign"]
    /\ cur' = [cur EXCEPT ![w] = l]
    /\ got' = [got EXCEPT ![w] = relay[l]]
    /\ UNCHANGED <<published, cache, memory>>

\* GET .../checkpoints/latest; a failed request leaves the log for the next round,
\* and so does the error body of a relay that has forgotten it, which
\* DecodeCheckpoint refuses.
Fetch(w, l) ==
    /\ pc[w] = "next"
    /\ l \in todo[w]
    /\ todo' = [todo EXCEPT ![w] = @ \ {l}]
    /\ \/ /\ relay[l] # None
          /\ pc' = [pc EXCEPT ![w] = "sign"]
          /\ cur' = [cur EXCEPT ![w] = l]
          /\ got' = [got EXCEPT ![w] = relay[l]]
       \/ (Lossy \/ relay[l] = None) /\ UNCHANGED <<pc, cur, got>>
    /\ UNCHANGED <<published, cache, memory>>

NextLog(w) ==
    /\ pc' = [pc EXCEPT ![w] = "next"]
    /\ cur' = [cur EXCEPT ![w] = None]
    /\ got' = [got EXCEPT ![w] = None]

Refuse(w) ==
    /\ pc[w] = "sign"
    /\ ~Accepts(w, cur[w], got[w])
    /\ NextLog(w)
    /\ UNCHANGED <<published, cache, todo, memory>>

\* The witness remembers the checkpoint before anyone has its signature.
Countersign(w) ==
    /\ pc[w] = "sign"
    /\ Accepts(w, cur[w], got[w])
    /\ last' = [last EXCEPT ![w][cur[w]] = got[w].cp]
    /\ signed' = [signed EXCEPT ![w][cur[w]] = @ \cup {got[w].cp}]
    /\ pc' = [pc EXCEPT ![w] = "post"]
    /\ UNCHANGED <<published, cache, todo, cur, got, older, restarts, lost>>

\* Relay.handleCountersig: cached by witness when the size is the cached one, refused
\* with a conflict otherwise; the signature is not looked at.
handleCountersig(l, w, size, sig) ==
    /\ cosigned' = IF relay[l] # None /\ Size(relay[l].cp) = size
                   THEN [cosigned EXCEPT ![l][w] = sig] ELSE cosigned
    /\ UNCHANGED relay

\* POST .../countersignatures, which may be lost.
Post(w) ==
    /\ pc[w] = "post"
    /\ \/ handleCountersig(cur[w], w, Size(got[w].cp), got[w].cp)
       \/ Lossy /\ UNCHANGED cache
    /\ NextLog(w)
    /\ UNCHANGED <<published, todo, memory>>

\* What anyone may post under a name: bytes that verify nowhere, a countersignature
\* made with its key at some time, and, under the operator's, any it cares to make.
Postable(k, l) ==
    {Garbage} \cup (IF k \in Witnesses THEN signed[k][l] \cup older[k][l] ELSE {})
              \cup (IF k = Operator THEN Checkpoints ELSE {})

\* A stranger, or the operator, posts a countersignature (external).
PostUnder(k, l) ==
    /\ Strangers
    /\ \E sig \in Postable(k, l), n \in {Len(h) : h \in Heads} : handleCountersig(l, k, n, sig)
    /\ UNCHANGED <<published, worker, memory>>

\* The witness process dies and comes back with its key and no memory.
Restart(w) ==
    /\ restarts < MaxRestarts
    /\ restarts' = restarts + 1
    /\ pc' = [pc EXCEPT ![w] = "idle"]
    /\ todo' = [todo EXCEPT ![w] = {}]
    /\ cur' = [cur EXCEPT ![w] = None]
    /\ got' = [got EXCEPT ![w] = None]
    /\ last' = [last EXCEPT ![w] = [l \in Logs |-> None]]
    /\ signed' = [signed EXCEPT ![w] = [l \in Logs |-> {}]]
    /\ older' = [older EXCEPT ![w] = [l \in Logs |-> older[w][l] \cup signed[w][l]]]
    /\ UNCHANGED <<published, cache, lost>>

\* The relay process dies and comes back with New's empty cache.
RestartRelay ==
    /\ restarts < MaxRestarts
    /\ restarts' = restarts + 1
    /\ lost' = TRUE
    /\ relay' = [l \in Logs |-> None]
    /\ cosigned' = [l \in Logs |-> [k \in Keys |-> None]]
    /\ UNCHANGED <<published, worker, last, signed, older>>

CountedUnverified(l) == {k \in Keys \ {Operator} : cosigned[l][k] # None}

\* The keys StandIn counts in the bundle of a log: those other than the operator's
\* whose countersignature verifies over the bundle's checkpoint.
Counted(l) == {k \in Keys \ {Operator} : relay[l] # None /\ cosigned[l][k] = relay[l].cp}

Step(w) == List(w) \/ Done(w) \/ Refuse(w) \/ Countersign(w) \/ Post(w)
FetchOK(w, l) == Fetch(w, l) /\ pc'[w] = "sign"

Next ==
    \/ \E l \in Logs :
         \E h \in Heads, at \in Instants :
            Publish(l, h, at) \/ PublishRewritten(l, h, at) \/ PublishForged(l, h, at)
    \/ \E w \in Witnesses :
         \/ Step(w)
         \/ \E l \in Logs : Fetch(w, l)
         \/ Restart(w)
    \/ \E k \in Keys, l \in Logs : PostUnder(k, l)
    \/ RestartRelay

\* witnessd polls for ever, and a request that is repeated is answered some time.
Fairness ==
    \A w \in Witnesses :
        WF_vars(Step(w)) /\ \A l \in Logs : WF_vars(Fetch(w, l)) /\ SF_vars(FetchOK(w, l))

Spec == Init /\ [][Next]_vars /\ Fairness

-----------------------------------------------------------------------------
(* Properties. *)

\* The caches and memories keep their shape, and a worker has a message in hand
\* exactly while it is signing or posting one.
TypeOK ==
    /\ published \in [Logs -> Heads]
    /\ relay \in [Logs -> Messages \cup {None}]
    /\ cosigned \in [Logs -> [Keys -> Signatures \cup {None}]]
    /\ pc \in [Witnesses -> {"idle", "next", "sign", "post"}]
    /\ todo \in [Witnesses -> SUBSET Logs]
    /\ cur \in [Witnesses -> Logs \cup {None}]
    /\ got \in [Witnesses -> Messages \cup {None}]
    /\ last \in [Witnesses -> [Logs -> Checkpoints \cup {None}]]
    /\ {signed, older} \subseteq [Witnesses -> [Logs -> SUBSET Checkpoints]]
    /\ restarts \in 0..MaxRestarts
    /\ lost \in BOOLEAN
    /\ \A w \in Witnesses : (got[w] # None) <=> (pc[w] \in {"sign", "post"})

\* "Countersigning a rewritten head is the one thing a witness exists to never do":
\* whatever the operator publishes and in whatever order a witness sees it, the
\* heads one running witness signs for a log are prefixes of one another.
NoSplitView ==
    \A w \in Witnesses, l \in Logs :
        \A c, d \in signed[w][l] : IsPrefix(c.head, d.head) \/ IsPrefix(d.head, c.head)

\* handleCountersig takes a countersignature "for the checkpoint the relay currently
\* holds", which it matches by size alone.  That is enough for a worker: whatever is
\* published, forged and overtaken between its fetch and its POST, in a relay that has
\* kept its cache a POST of the cached size is over the cached checkpoint.
TakenPostsVerify ==
    ~lost => \A w \in Witnesses :
        pc[w] = "post" /\ Size(got[w].cp) = Size(relay[cur[w]].cp)
            => got[w].cp = relay[cur[w]].cp

\* "A bundle padded with garbage or operator-authored cosignatures still reads as the
\* stand-in it is": each witness a reader's StandIn counts has countersigned, in this
\* life or an earlier one, the very checkpoint it is counted for, whatever strangers
\* posted under its name and whatever the relay forgot; the operator is never counted.
CountedHaveSigned ==
    \A l \in Logs : \A w \in Counted(l) :
        w # Operator /\ w \in Witnesses /\ relay[l].cp \in signed[w][l] \cup older[w][l]

\* Publishing again does not undo witnessing: a name that has a countersignature in a
\* log's bundle keeps one until a larger checkpoint takes its place, or the whole cache
\* goes.  (It need not be the same one: any POST under the name replaces it.)
WitnessingIsKept ==
    [][\A l \in Logs, k \in Keys :
          cosigned[l][k] # None /\ cosigned'[l][k] = None
              => relay'[l] = None \/ Size(relay'[l].cp) > Size(relay[l].cp)]_vars

\* A witness that has signed nothing of a log of which the relay serves a checkpoint
\* with the operator's signature signs it in the end, through lost requests, and again
\* after it has forgotten what it signed, unless the relay forgets the log or a forged
\* checkpoint takes its place first.
FreshWitnessSigns ==
    \A w \in Witnesses \ {Operator}, l \in Logs :
        relay[l] # None /\ relay[l].valid /\ last[w][l] = None
            ~> last[w][l] # None \/ relay[l] = None \/ ~relay[l].valid

\* RunOnce "countersigns each checkpoint that verifies and consistently extends what
\* this witness last cosigned": a log that has grown past it included.
CosignsEveryExtension ==
    \A w \in Witnesses \ {Operator} :
        (/\ pc[w] = "sign" /\ got[w].valid /\ last[w][cur[w]] # None
         /\ IsStrictPrefix(last[w][cur[w]].head, got[w].cp.head)) => Accepts(w, cur[w], got[w])
=============================================================================
