----------------------------- MODULE NodeRelay -----------------------------
(***************************************************************************)
(* internal/noderelay: cloudyd relays one node's signed messages to the    *)
(* orchestrator (nodes share nothing but the mutex).                       *)
(*                                                                         *)
(* Every call is authenticated, checked under r.mu, made upstream with the *)
(* mutex let go, and applied under it again, so calls overlap at each of   *)
(* those points.  The orchestrator is external: it keeps the first key and *)
(* takes increasing sequence numbers, and its answers may be lost.         *)
(***************************************************************************)
EXTENDS Integers, FiniteSets, FiniteSetsExt

CONSTANTS
    Handlers,    \* request goroutines
    Pollers,     \* those that may serve PollJobs: one while the node polls in turn
    Keys,        \* ed25519 keys
    Requests,    \* messages that may arrive, well and badly signed
    Jobs,        \* job ids the orchestrator may assign to the node
    MaxTime,     \* bound on the clock
    UpstreamBeat, UpstreamPoll, AuthWindow,
    MaxRestarts, \* bound on restarts of cloudyd
    None

Stamps == 1..(MaxTime + AuthWindow)

ASSUME RequestAssumption ==
    \A r \in Requests :
        /\ r.op \in {"enroll", "listing", "heartbeat", "poll", "settle"}
        /\ r.op \in {"listing", "heartbeat"} => r.arg \in Nat \ {0}
        /\ r.op = "settle" => r.arg \in Jobs
        /\ r.op # "poll" => r.signer \in Keys
ASSUME WindowAssumption ==
    UpstreamBeat \in Nat \ {0} /\ UpstreamPoll \in Nat \ {0} /\ AuthWindow \in Nat
ASSUME BoundAssumption == MaxTime \in Nat /\ MaxRestarts \in Nat /\ Pollers \subseteq Handlers

\* The node struct.
Nodes ==
    [pub : Keys, listSeq : Nat, beatSeq : Nat, lastBeatUp : Nat \cup {None},
     pollAt : Nat \cup {None}, jobs : SUBSET Jobs, settled : SUBSET Jobs, lastAuthTS : Nat]

ASSUME NoneAssumption == None \notin Keys /\ None \notin Requests /\ None \notin Nodes

VARIABLES
    clock,
    node,      \* Relay.nodes[the node], None when absent
    up,        \* the orchestrator's view of the node
    pc, req,   \* where each handler is, and the message it serves
    snap,      \* the assignments an upstream poll returned to a handler
    restarts,
    beaten,    \* history: heartbeat Seqs sent upstream since the process started
    done       \* history: jobs settled since the process started

handlers == <<pc, req, snap>>
history == <<beaten, done>>
vars == <<clock, node, up, handlers, restarts, history>>

-----------------------------------------------------------------------------
NewNode(key) ==
    [pub |-> key, listSeq |-> 0, beatSeq |-> 0, lastBeatUp |-> None, pollAt |-> None,
     jobs |-> {}, settled |-> {}, lastAuthTS |-> 0]

\* Roll-up windows: the zero time is never recent.
Elapsed(since, window) == since = None \/ clock - since >= window

Init ==
    /\ clock = 0
    /\ node = None
    /\ up = [key |-> None, listSeq |-> 0, beatSeq |-> 0, open |-> {}, closed |-> {}]
    /\ pc = [h \in Handlers |-> "idle"]
    /\ req = [h \in Handlers |-> None]
    /\ snap = [h \in Handlers |-> {}]
    /\ restarts = 0
    /\ beaten = {}
    /\ done = {}

Goto(h, where) == pc' = [pc EXCEPT ![h] = where]

Finish(h) ==
    /\ Goto(h, "idle")
    /\ req' = [req EXCEPT ![h] = None]
    /\ snap' = [snap EXCEPT ![h] = {}]

\* The next step of a call that goes on.
Proceed(h, where) == Goto(h, where) /\ UNCHANGED <<req, snap>>

-----------------------------------------------------------------------------
(* A call arrives. *)

\* Relay.Enroll is called by cloudyd, not by a node.
Enroll(h, r) ==
    /\ r.op = "enroll"
    /\ pc[h] = "idle"
    /\ Goto(h, "check")
    /\ req' = [req EXCEPT ![h] = r]
    /\ UNCHANGED <<clock, node, up, snap, restarts, history>>

\* authenticate, for a header signed with key `by` at time ts; a request it refuses
\* changes nothing.  One that names another node (403) has spent its timestamp.
Authenticate(h, r, by, ts) ==
    /\ r.op # "enroll"
    /\ r.op = "poll" => h \in Pollers
    /\ pc[h] = "idle"
    /\ clock - ts <= AuthWindow /\ ts - clock <= AuthWindow
    /\ node # None
    /\ by = node.pub
    /\ ts > node.lastAuthTS
    /\ node' = [node EXCEPT !.lastAuthTS = ts]
    /\ IF r.ours
       THEN /\ Goto(h, "check")
            /\ req' = [req EXCEPT ![h] = r]
       ELSE UNCHANGED <<pc, req>>
    /\ UNCHANGED <<clock, up, snap, restarts, history>>

-----------------------------------------------------------------------------
(* The first critical section of each call. *)

CheckEnroll(h) ==
    /\ req[h].op = "enroll"
    /\ IF node # None THEN Finish(h) ELSE Proceed(h, "call")
    /\ UNCHANGED node

CheckListingEarly(h) ==
    /\ req[h].op = "listing"
    /\ IF req[h].signer = node.pub /\ req[h].arg > node.listSeq
       THEN Proceed(h, "call") /\ node' = [node EXCEPT !.listSeq = req[h].arg]
       ELSE Finish(h) /\ UNCHANGED node

CheckListing(h) ==
    /\ req[h].op = "listing"
    /\ IF req[h].signer = node.pub /\ req[h].arg > node.listSeq
       THEN Proceed(h, "call")
       ELSE Finish(h)
    /\ UNCHANGED node

CheckHeartbeatLate(h) ==
    /\ req[h].op = "heartbeat"
    /\ IF /\ req[h].signer = node.pub /\ req[h].arg > node.beatSeq
          /\ Elapsed(node.lastBeatUp, UpstreamBeat)
       THEN Proceed(h, "call")
       ELSE Finish(h)
    /\ UNCHANGED node

\* The Seq is taken before the heartbeat leaves, forwarded or absorbed.
CheckHeartbeat(h) ==
    /\ req[h].op = "heartbeat"
    /\ IF req[h].signer = node.pub /\ req[h].arg > node.beatSeq
       THEN /\ node' = [node EXCEPT !.beatSeq = req[h].arg]
            /\ IF Elapsed(node.lastBeatUp, UpstreamBeat) THEN Proceed(h, "call") ELSE Finish(h)
       ELSE Finish(h) /\ UNCHANGED node

CheckPoll(h) ==
    /\ req[h].op = "poll"
    /\ Proceed(h, IF Elapsed(node.pollAt, UpstreamPoll) THEN "call" ELSE "answer")
    /\ UNCHANGED node

\* Decline and ReportJob.
CheckSettle(h) ==
    /\ req[h].op = "settle"
    /\ IF req[h].signer = node.pub THEN Proceed(h, "call") ELSE Finish(h)
    /\ UNCHANGED node

Check(h) ==
    /\ pc[h] = "check"
    /\ CheckEnroll(h) \/ CheckListing(h) \/ CheckHeartbeat(h) \/ CheckPoll(h) \/ CheckSettle(h)
    /\ UNCHANGED <<clock, up, restarts, history>>

-----------------------------------------------------------------------------
(* The call upstream (external), with no lock held. *)

\* The orchestrator takes a message, or refuses it.
Takes(r) ==
    \/ r.op = "enroll" /\ up.key \in {None, r.signer}
    \/ r.op = "listing" /\ r.signer = up.key /\ r.arg > up.listSeq
    \/ r.op = "heartbeat" /\ r.signer = up.key /\ r.arg > up.beatSeq
    \/ r.op = "settle" /\ r.signer = up.key
    \/ r.op = "poll"

After(r) ==
    CASE r.op = "enroll" -> [up EXCEPT !.key = r.signer]
      [] r.op = "listing" -> [up EXCEPT !.listSeq = r.arg]
      [] r.op = "heartbeat" -> [up EXCEPT !.beatSeq = r.arg]
      [] r.op = "settle" -> [up EXCEPT !.open = @ \ {r.arg}, !.closed = @ \cup {r.arg}]
      [] r.op = "poll" -> up

\* What the reply means to Upstream's caller: only a success is carried on.
CarriesOnConflict(r) == Takes(r) \/ r.op = "enroll"

CarriesOn(r) == Takes(r)

\* The answer arrives; or it is an error, or never comes, with the message taken
\* or not.
Upstream(h) ==
    /\ pc[h] = "call"
    /\ beaten' = IF req[h].op = "heartbeat" THEN beaten \cup {req[h].arg} ELSE beaten
    /\ \/ /\ CarriesOn(req[h])
          /\ up' = IF Takes(req[h]) THEN After(req[h]) ELSE up
          /\ Goto(h, "apply")
          /\ snap' = [snap EXCEPT ![h] = IF req[h].op = "poll" THEN up.open ELSE {}]
          /\ UNCHANGED req
       \/ /\ up' \in {up} \cup (IF Takes(req[h]) THEN {After(req[h])} ELSE {})
          /\ Finish(h)
    /\ UNCHANGED <<clock, node, restarts, done>>

-----------------------------------------------------------------------------
(* The second critical section. *)

ApplyEnrollOverwrites(h) ==
    /\ req[h].op = "enroll"
    /\ node' = NewNode(req[h].signer)

\* First write wins, against an Enroll that overlapped this one too.
ApplyEnroll(h) ==
    /\ req[h].op = "enroll"
    /\ node' = IF node = None THEN NewNode(req[h].signer) ELSE node

ApplyListing(h) ==
    /\ req[h].op = "listing"
    /\ node' = [node EXCEPT !.listSeq = Max({@, req[h].arg})]

ApplyHeartbeat(h) ==
    /\ req[h].op = "heartbeat"
    /\ node' = [node EXCEPT !.lastBeatUp = clock]

ApplyPollForgetsAll(h) ==
    /\ req[h].op = "poll"
    /\ node' = [node EXCEPT !.jobs = snap[h], !.pollAt = clock, !.settled = {}]

\* Settled jobs the orchestrator no longer offers are forgotten.
ApplyPoll(h) ==
    /\ req[h].op = "poll"
    /\ node' = [node EXCEPT !.jobs = snap[h], !.pollAt = clock, !.settled = @ \cap snap[h]]

ApplySettle(h) ==
    /\ req[h].op = "settle"
    /\ node' = [node EXCEPT !.settled = @ \cup {req[h].arg}]

Apply(h) ==
    /\ pc[h] = "apply"
    /\ \/ ApplyEnroll(h) \/ ApplyListing(h) \/ ApplyHeartbeat(h)
       \/ ApplyPoll(h) \/ ApplySettle(h)
    /\ done' = IF req[h].op = "settle" THEN done \cup {req[h].arg} ELSE done
    /\ IF req[h].op = "poll" THEN Proceed(h, "answer") ELSE Finish(h)
    /\ UNCHANGED <<clock, up, restarts, beaten>>

\* What PollJobs hands to the node.
Handed == node.jobs \ node.settled

Answer(h) ==
    /\ pc[h] = "answer"
    /\ Finish(h)
    /\ UNCHANGED <<clock, node, up, restarts, history>>

-----------------------------------------------------------------------------
(* The surroundings. *)

Tick ==
    /\ clock < MaxTime
    /\ clock' = clock + 1
    /\ UNCHANGED <<node, up, handlers, restarts, history>>

\* The orchestrator assigns the node a job.
Offer(j) ==
    /\ j \notin up.open \cup up.closed
    /\ up' = [up EXCEPT !.open = @ \cup {j}]
    /\ UNCHANGED <<clock, node, handlers, restarts, history>>

\* cloudyd restarts: everything it knew of the node is gone until Enroll.
Restart ==
    /\ restarts < MaxRestarts
    /\ restarts' = restarts + 1
    /\ node' = None
    /\ pc' = [h \in Handlers |-> "idle"]
    /\ req' = [h \in Handlers |-> None]
    /\ snap' = [h \in Handlers |-> {}]
    /\ beaten' = {}
    /\ done' = {}
    /\ UNCHANGED <<clock, up>>

Next ==
    \/ \E h \in Handlers :
         \/ \E r \in Requests :
              Enroll(h, r) \/ \E by \in Keys, ts \in Stamps : Authenticate(h, r, by, ts)
         \/ Check(h) \/ Upstream(h) \/ Apply(h) \/ Answer(h)
    \/ Tick
    \/ \E j \in Jobs : Offer(j)
    \/ Restart

Spec == Init /\ [][Next]_vars

-----------------------------------------------------------------------------
(* Properties. *)

\* "The node's signature still verifies at the orchestrator": what leaves under the
\* operator's credential is signed with the key the orchestrator holds, however the
\* Enrolls of rival keys overlapped.
VerifiesAtOrchestrator ==
    \A h \in Handlers :
        pc[h] = "call" /\ req[h].op \in {"listing", "heartbeat", "settle"} => req[h].signer = up.key

\* The relay holds no belief ahead of the orchestrator's: a listing it refuses as
\* stale is no news there, and a job it withholds from the node is settled there.
TrailsOrchestrator ==
    node # None =>
        /\ node.pub = up.key
        /\ node.listSeq <= up.listSeq
        /\ node.settled \subseteq up.closed

\* No heartbeat Seq goes upstream twice, from one handler after another or from two
\* at once.
HeartbeatForwardedOnce ==
    \A h \in Handlers :
        pc[h] = "call" /\ req[h].op = "heartbeat" =>
            /\ req[h].arg \notin beaten
            /\ \A g \in Handlers \ {h} :
                 pc[g] = "call" /\ req[g].op = "heartbeat" => req[g].arg # req[h].arg

\* While the process runs no replay watermark falls: "a captured header cannot be
\* replayed", nor a heartbeat or a listing, across Enrolls that overlap.
WatermarksNeverFall ==
    [][node # None /\ node' # None =>
          /\ node'.lastAuthTS >= node.lastAuthTS
          /\ node'.beatSeq >= node.beatSeq
          /\ node'.listSeq >= node.listSeq]_vars

\* "Assignments the node has already settled through this relay are never handed
\* back", whatever a poll returned while the report was on its way.
NeverHandedBack ==
    \A h \in Handlers : pc[h] = "answer" => Handed \cap done = {}
=============================================================================
