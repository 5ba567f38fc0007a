--------------------------- MODULE NodeRelayProofs ---------------------------
(***************************************************************************)
(* Proofs about module NodeRelay, for any number of request goroutines,    *)
(* keys, messages, jobs and restarts.                                      *)
(*                                                                         *)
(* A call is in flight between two critical sections, and what it learnt   *)
(* in the first one must still hold when it acts: the key it was checked   *)
(* against is still the orchestrator's, the Seq it took is still taken,    *)
(* and what the orchestrator acknowledged is still so.  The invariant says *)
(* this of every handler, at each point where it may be waiting.           *)
(***************************************************************************)
EXTENDS NodeRelay, TLAPS

\* The orchestrator's record of the node.
Ups == [key : Keys \cup {None}, listSeq : Nat, beatSeq : Nat, open : SUBSET Jobs, closed : SUBSET Jobs]

Typed ==
    /\ clock \in Nat
    /\ node \in Nodes \cup {None}
    /\ up \in Ups
    /\ pc \in [Handlers -> {"idle", "check", "call", "apply", "answer"}]
    /\ req \in [Handlers -> Requests \cup {None}]
    /\ snap \in [Handlers -> SUBSET Jobs]
    /\ beaten \subseteq Nat
    /\ done \subseteq Jobs

\* What the orchestrator acknowledged stays so until it is applied.
Acknowledged(r) ==
    /\ r.op = "enroll" => r.signer = up.key
    /\ r.op = "listing" => r.arg <= up.listSeq
    /\ r.op = "settle" => r.arg \in up.closed

\* A handler at work has a message; only an Enroll can be about a node cloudyd does
\* not know; and what passed the relay's check is signed with the orchestrator's key.
Serving(h) ==
    pc[h] # "idle" =>
        /\ req[h] \in Requests
        /\ req[h].op # "enroll" => node # None
        /\ req[h].op = "poll" => h \in Pollers
        /\ pc[h] = "answer" => req[h].op = "poll"
        /\ pc[h] \in {"call", "apply"} /\ req[h].op \in {"listing", "heartbeat", "settle"}
              => req[h].signer = up.key
        /\ pc[h] = "apply" => Acknowledged(req[h])

\* A heartbeat is under the watermark from before it leaves.
UnderWatermark ==
    /\ \A b \in beaten : node # None /\ b <= node.beatSeq
    /\ \A h \in Handlers : pc[h] = "call" /\ req[h].op = "heartbeat" => req[h].arg <= node.beatSeq

IInv ==
    /\ Typed
    /\ \A h \in Handlers : Serving(h)
    /\ UnderWatermark
    /\ HeartbeatForwardedOnce
    /\ TrailsOrchestrator
    /\ up.open \cap up.closed = {}

\* A settled job is one the relay withholds, or one that neither its cache nor a poll
\* under way offers.
Withheld ==
    \A j \in done :
        /\ node # None
        /\ j \in up.closed
        /\ \/ j \in node.settled
           \/ /\ j \notin node.jobs
              /\ \A h \in Handlers : pc[h] = "apply" /\ req[h].op = "poll" => j \notin snap[h]

\* The node polls in turn.
OnePoller == \A p, q \in Pollers : p = q

-----------------------------------------------------------------------------
(* The operators. *)

LEMMA MaxOfTwo ==
    ASSUME NEW a \in Nat, NEW b \in Nat
    PROVE  Max({a, b}) \in {a, b} /\ Max({a, b}) >= a /\ Max({a, b}) >= b
<1>1. \E x \in {a, b} : \A y \in {a, b} : x >= y
  <2>1. CASE a >= b
    BY <2>1
  <2>2. CASE b >= a
    BY <2>2
  <2>3. QED
    BY <2>1, <2>2
<1>2. QED
  BY <1>1 DEF Max

LEMMA RequestFacts ==
    ASSUME NEW r \in Requests
    PROVE  /\ r.op \in {"enroll", "listing", "heartbeat", "poll", "settle"}
           /\ r.op \in {"listing", "heartbeat"} => r.arg \in Nat
           /\ r.op = "settle" => r.arg \in Jobs
           /\ r.op # "poll" => r.signer \in Keys
BY RequestAssumption

\* What the orchestrator does with a message it takes.
LEMMA AfterFacts ==
    ASSUME NEW r \in Requests
    PROVE  /\ r.op = "enroll" => After(r) = [up EXCEPT !.key = r.signer]
           /\ r.op = "listing" => After(r) = [up EXCEPT !.listSeq = r.arg]
           /\ r.op = "heartbeat" => After(r) = [up EXCEPT !.beatSeq = r.arg]
           /\ r.op = "settle" => After(r) = [up EXCEPT !.open = @ \ {r.arg}, !.closed = @ \cup {r.arg}]
           /\ r.op = "poll" => After(r) = up
BY Zenon DEF After

\* The orchestrator keeps its first key, and no belief of its is taken back.
LEMMA TakesGrows ==
    ASSUME up \in Ups, up.open \cap up.closed = {}, NEW r \in Requests, Takes(r), up' = After(r)
    PROVE  /\ up' \in Ups
           /\ up.key # None => up'.key = up.key
           /\ up'.listSeq >= up.listSeq
           /\ up.closed \subseteq up'.closed
           /\ up'.open \cap up'.closed = {}
           /\ r.op = "enroll" => up'.key = r.signer
           /\ r.op = "listing" => up'.listSeq = r.arg
           /\ r.op = "settle" => r.arg \in up'.closed
           /\ r.op = "poll" => up' = up
<1>1. CASE r.op = "enroll"
  <2>1. up' = [up EXCEPT !.key = r.signer]
    BY <1>1, AfterFacts
  <2>2. /\ up'.key = r.signer
        /\ up'.listSeq = up.listSeq /\ up'.beatSeq = up.beatSeq /\ up'.open = up.open /\ up'.closed = up.closed
    BY <2>1 DEF Ups
  <2>3. up' \in Ups
    BY <1>1, <2>1, RequestFacts DEF Ups
  <2>4. QED
    BY <1>1, <2>2, <2>3, RequestFacts DEF Takes, Ups
<1>2. CASE r.op = "listing"
  <2>1. up' = [up EXCEPT !.listSeq = r.arg]
    BY <1>2, AfterFacts
  <2>2. /\ up'.listSeq = r.arg
        /\ up'.key = up.key /\ up'.beatSeq = up.beatSeq /\ up'.open = up.open /\ up'.closed = up.closed
    BY <2>1 DEF Ups
  <2>3. up' \in Ups
    BY <1>2, <2>1, RequestFacts DEF Ups
  <2>4. QED
    BY <1>2, <2>2, <2>3, RequestFacts DEF Takes, Ups
<1>3. CASE r.op = "heartbeat"
  <2>1. up' = [up EXCEPT !.beatSeq = r.arg]
    BY <1>3, AfterFacts
  <2>2. /\ up'.beatSeq = r.arg
        /\ up'.key = up.key /\ up'.listSeq = up.listSeq /\ up'.open = up.open /\ up'.closed = up.closed
    BY <2>1 DEF Ups
  <2>3. up' \in Ups
    BY <1>3, <2>1, RequestFacts DEF Ups
  <2>4. QED
    BY <1>3, <2>2, <2>3, RequestFacts DEF Takes, Ups
<1>4. CASE r.op = "settle"
  <2>1. up' = [up EXCEPT !.open = up.open \ {r.arg}, !.closed = up.closed \cup {r.arg}]
    BY <1>4, AfterFacts
  <2>2. r.arg \in Jobs
    BY <1>4, RequestFacts
  <2>3. /\ up'.key = up.key /\ up'.listSeq = up.listSeq /\ up'.beatSeq = up.beatSeq
        /\ up'.open = up.open \ {r.arg} /\ up'.closed = up.closed \cup {r.arg}
    BY <2>1 DEF Ups
  <2>4. up' \in Ups
    BY <2>1, <2>2 DEF Ups
  <2>5. QED
    BY <1>4, <2>3, <2>4 DEF Ups
<1>5. CASE r.op = "poll"
  <2>1. up' = up
    BY <1>5, AfterFacts
  <2>2. QED
    BY <1>5, <2>1 DEF Ups
<1>6. QED
  BY <1>1, <1>2, <1>3, <1>4, <1>5, RequestFacts

\* No belief of the orchestrator's is taken back.
UpGrows ==
    /\ up' \in Ups
    /\ up.key # None => up'.key = up.key
    /\ up'.listSeq >= up.listSeq
    /\ up.closed \subseteq up'.closed
    /\ up'.open \cap up'.closed = {}

\* What this process knows of the node is not forgotten.
NodeKept == node # None => node' # None /\ node'.beatSeq >= node.beatSeq

LEMMA UpSame ==
    ASSUME IInv, up' = up
    PROVE  UpGrows
BY DEF IInv, Typed, UpGrows, Ups

LEMMA FinishFacts ==
    ASSUME Typed, NEW h \in Handlers, Finish(h)
    PROVE  /\ pc' \in [Handlers -> {"idle", "check", "call", "apply", "answer"}]
           /\ req' \in [Handlers -> Requests \cup {None}]
           /\ snap' \in [Handlers -> SUBSET Jobs]
           /\ pc'[h] = "idle"
           /\ \A g \in Handlers \ {h} : pc'[g] = pc[g] /\ req'[g] = req[g] /\ snap'[g] = snap[g]
BY DEF Typed, Finish, Goto

LEMMA ProceedFacts ==
    ASSUME Typed, NEW h \in Handlers, NEW where \in {"call", "apply", "answer"}, Proceed(h, where)
    PROVE  /\ pc' \in [Handlers -> {"idle", "check", "call", "apply", "answer"}]
           /\ req' = req /\ snap' = snap
           /\ pc'[h] = where
           /\ \A g \in Handlers \ {h} : pc'[g] = pc[g]
BY DEF Typed, Proceed, Goto

\* A handler that does not move keeps its ground.
LEMMA OthersServe ==
    ASSUME IInv, UpGrows, NodeKept, NEW g \in Handlers, pc'[g] = pc[g], req'[g] = req[g]
    PROVE  Serving(g)'
<1> SUFFICES ASSUME pc[g] # "idle" PROVE Serving(g)'
  BY DEF Serving
<1>1. Serving(g) /\ req[g] \in Requests
  BY DEF IInv, Serving
<1>2. /\ req[g].op # "poll" => req[g].signer # None
      /\ req[g].op = "listing" => req[g].arg \in Nat
      /\ up.listSeq \in Nat /\ up'.listSeq \in Nat
  BY <1>1, RequestFacts, NoneAssumption DEF IInv, Typed, Ups, UpGrows
<1>3. pc[g] = "apply" => Acknowledged(req[g])'
  BY <1>1, <1>2 DEF Serving, Acknowledged, UpGrows
<1>4. QED
  BY <1>1, <1>2, <1>3 DEF Serving, Acknowledged, UpGrows, NodeKept

\* No step but a check of a heartbeat and its departure touches the heartbeats.
LEMMA BeatsKept ==
    ASSUME IInv, NodeKept, Typed', beaten' = beaten,
           \A g \in Handlers : pc'[g] = "call" /\ req'[g].op = "heartbeat" =>
                                   pc[g] = "call" /\ req'[g] = req[g]
    PROVE  UnderWatermark' /\ HeartbeatForwardedOnce'
<1>1. \A b \in beaten : b \in Nat
  BY DEF IInv, Typed
<1>2. node # None => node.beatSeq \in Nat /\ node'.beatSeq \in Nat
  BY DEF IInv, Typed, Nodes, NodeKept
<1>3. \A g \in Handlers : pc[g] = "call" /\ req[g].op = "heartbeat" => node # None /\ req[g].arg \in Nat
  BY RequestFacts DEF IInv, Serving
<1>4. UnderWatermark'
  BY <1>1, <1>2, <1>3 DEF IInv, UnderWatermark, NodeKept
<1>5. HeartbeatForwardedOnce'
  BY DEF IInv, HeartbeatForwardedOnce
<1>6. QED
  BY <1>4, <1>5

\* A relay whose key and beliefs do not change stays behind the orchestrator.
LEMMA TrailsKept ==
    ASSUME IInv, UpGrows, node' = node \/ (/\ node # None /\ node' \in Nodes
                                          /\ node'.pub = node.pub /\ node'.listSeq = node.listSeq
                                          /\ node'.settled \subseteq node.settled)
    PROVE  TrailsOrchestrator'
<1> SUFFICES ASSUME node' # None
             PROVE  node'.pub = up'.key /\ node'.listSeq <= up'.listSeq /\ node'.settled \subseteq up'.closed
  BY DEF TrailsOrchestrator
<1>1. /\ node # None /\ node \in Nodes /\ node'.pub = node.pub /\ node'.listSeq = node.listSeq
      /\ node'.settled \subseteq node.settled
  BY DEF IInv, Typed
<1>2. node.pub = up.key /\ node.listSeq <= up.listSeq /\ node.settled \subseteq up.closed
  BY <1>1 DEF IInv, TrailsOrchestrator
<1>3. up.key # None /\ up.listSeq \in Nat /\ up'.listSeq \in Nat /\ node.listSeq \in Nat
  BY <1>1, <1>2, NoneAssumption DEF Nodes, IInv, Typed, Ups, UpGrows
<1>4. QED
  BY <1>1, <1>2, <1>3 DEF UpGrows

-----------------------------------------------------------------------------
(* The steps. *)

LEMMA InitInv == Init => IInv
<1> SUFFICES ASSUME Init PROVE IInv
  OBVIOUS
<1>1. Typed
  BY DEF Init, Typed, Ups
<1>2. QED
  BY <1>1 DEF Init, IInv, Serving, UnderWatermark, HeartbeatForwardedOnce, TrailsOrchestrator

LEMMA ArrivalInv ==
    ASSUME IInv, NEW h \in Handlers, NEW r \in Requests,
           Enroll(h, r) \/ \E by \in Keys, ts \in Stamps : Authenticate(h, r, by, ts)
    PROVE  IInv'
<1>1. ASSUME Enroll(h, r) PROVE IInv'
  <2>1. /\ pc' = [pc EXCEPT ![h] = "check"] /\ req' = [req EXCEPT ![h] = r]
        /\ UNCHANGED <<clock, node, up, snap, beaten, done>>
    BY <1>1 DEF Enroll, Goto, history
  <2>2. Typed'
    BY <2>1 DEF IInv, Typed
  <2>3. UpGrows /\ NodeKept
    BY <2>1, UpSame DEF IInv, Typed, Nodes, NodeKept
  <2>4. \A g \in Handlers \ {h} : pc'[g] = pc[g] /\ req'[g] = req[g]
    BY <2>1 DEF IInv, Typed
  <2>5. pc'[h] = "check" /\ req'[h] = r /\ r.op = "enroll"
    BY <1>1, <2>1 DEF IInv, Typed, Enroll
  <2>6. Serving(h)'
    BY <2>5 DEF Serving
  <2>7. \A g \in Handlers : Serving(g)'
    BY <2>3, <2>4, <2>6, OthersServe
  <2>8. UnderWatermark' /\ HeartbeatForwardedOnce'
    BY <2>1, <2>2, <2>3, <2>4, <2>5, BeatsKept
  <2>9. TrailsOrchestrator' /\ (up.open \cap up.closed = {})'
    BY <2>1, <2>3, TrailsKept DEF IInv
  <2>10. QED
    BY <2>2, <2>7, <2>8, <2>9 DEF IInv
<1>2. ASSUME NEW by \in Keys, NEW ts \in Stamps, Authenticate(h, r, by, ts) PROVE IInv'
  <2>1. /\ node # None /\ node \in Nodes /\ node' = [node EXCEPT !.lastAuthTS = ts]
        /\ UNCHANGED <<clock, up, snap, beaten, done>>
        /\ ts \in Nat
    BY <1>2, BoundAssumption, WindowAssumption DEF Authenticate, history, IInv, Typed, Stamps
  <2>2. /\ node' \in Nodes /\ node' # None
        /\ node'.pub = node.pub /\ node'.listSeq = node.listSeq /\ node'.beatSeq = node.beatSeq
        /\ node'.settled = node.settled
    BY <2>1, NoneAssumption DEF Nodes
  <2>3. \/ UNCHANGED <<pc, req>>
        \/ pc' = [pc EXCEPT ![h] = "check"] /\ req' = [req EXCEPT ![h] = r]
    BY <1>2 DEF Authenticate, Goto
  <2>4. Typed'
    BY <2>1, <2>2, <2>3 DEF IInv, Typed
  <2>5. UpGrows /\ NodeKept
    BY <2>1, <2>2, UpSame DEF NodeKept, Nodes
  <2>6. \A g \in Handlers : \/ pc'[g] = pc[g] /\ req'[g] = req[g]
                            \/ g = h /\ pc'[g] = "check" /\ req'[g] = r
    BY <2>3 DEF IInv, Typed
  <2>7. \A g \in Handlers : Serving(g)'
    <3> SUFFICES ASSUME NEW g \in Handlers PROVE Serving(g)'
      OBVIOUS
    <3>1. CASE pc'[g] = pc[g] /\ req'[g] = req[g]
      BY <2>5, <3>1, OthersServe
    <3>2. CASE g = h /\ pc'[g] = "check" /\ req'[g] = r
      BY <1>2, <2>2, <3>2 DEF Serving, Authenticate
    <3>3. QED
      BY <2>6, <3>1, <3>2
  <2>8. UnderWatermark' /\ HeartbeatForwardedOnce'
    BY <2>1, <2>4, <2>5, <2>6, BeatsKept
  <2>9. TrailsOrchestrator' /\ (up.open \cap up.closed = {})'
    BY <2>1, <2>2, <2>5, TrailsKept DEF IInv
  <2>10. QED
    BY <2>4, <2>7, <2>8, <2>9 DEF IInv
<1>3. QED
  BY <1>1, <1>2

\* A handler moves on, and it does not send a heartbeat.
LEMMA HandlerMoves ==
    ASSUME IInv, Typed', UNCHANGED <<node, up, beaten>>, NEW h \in Handlers,
           \A g \in Handlers \ {h} : pc'[g] = pc[g] /\ req'[g] = req[g],
           Serving(h)', ~(pc'[h] = "call" /\ req'[h].op = "heartbeat")
    PROVE  IInv'
<1>1. UpGrows /\ NodeKept
  BY UpSame DEF NodeKept, IInv, Typed, Nodes
<1>2. \A g \in Handlers : Serving(g)'
  BY <1>1, OthersServe
<1>3. UnderWatermark' /\ HeartbeatForwardedOnce'
  BY <1>1, BeatsKept
<1>4. TrailsOrchestrator' /\ (up.open \cap up.closed = {})'
  BY <1>1, TrailsKept DEF IInv
<1>5. QED
  BY <1>2, <1>3, <1>4 DEF IInv

\* A call that ends leaves nothing in flight.
LEMMA FinishInv ==
    ASSUME IInv, NEW h \in Handlers, Finish(h), UNCHANGED <<clock, node, up, beaten, done>>
    PROVE  IInv'
<1>1. Typed'
  BY FinishFacts DEF IInv, Typed
<1>2. Serving(h)' /\ pc'[h] # "call"
  BY FinishFacts DEF IInv, Serving
<1>3. QED
  BY <1>1, <1>2, FinishFacts, HandlerMoves DEF IInv

\* The Seq a heartbeat takes is above every one that was taken before it.
LEMMA CheckHeartbeatInv ==
    ASSUME IInv, NEW h \in Handlers, pc[h] = "check", CheckHeartbeat(h),
           UNCHANGED <<clock, up, beaten, done>>
    PROVE  IInv'
<1>1. CASE Finish(h) /\ UNCHANGED node
  BY <1>1, FinishInv
<1>2. CASE /\ req[h].signer = node.pub /\ req[h].arg > node.beatSeq
           /\ node' = [node EXCEPT !.beatSeq = req[h].arg]
           /\ Proceed(h, "call") \/ Finish(h)
  <2>1. /\ req[h] \in Requests /\ req[h].op = "heartbeat" /\ req[h].arg \in Nat
        /\ node # None /\ node \in Nodes
    BY RequestFacts DEF IInv, Typed, Serving, CheckHeartbeat
  <2>2. /\ node' \in Nodes /\ node' # None /\ node'.beatSeq = req[h].arg /\ node.beatSeq \in Nat
        /\ node'.pub = node.pub /\ node'.listSeq = node.listSeq /\ node'.settled = node.settled
    BY <1>2, <2>1, NoneAssumption DEF Nodes
  <2>3. /\ pc' \in [Handlers -> {"idle", "check", "call", "apply", "answer"}]
        /\ req' \in [Handlers -> Requests \cup {None}]
        /\ snap' \in [Handlers -> SUBSET Jobs]
        /\ \A g \in Handlers \ {h} : pc'[g] = pc[g] /\ req'[g] = req[g]
        /\ pc'[h] = "idle" \/ (pc'[h] = "call" /\ req'[h] = req[h])
    BY <1>2, FinishFacts, ProceedFacts DEF IInv, Typed
  <2>4. Typed'
    BY <2>2, <2>3 DEF IInv, Typed
  <2>5. UpGrows /\ NodeKept
    BY <1>2, <2>1, <2>2, UpSame DEF NodeKept
  <2>6. Serving(h)'
    <3>1. node.pub = up.key
      BY <2>1 DEF IInv, TrailsOrchestrator
    <3>2. QED
      BY <1>2, <2>1, <2>2, <2>3, <3>1 DEF Serving
  <2>7. \A g \in Handlers : Serving(g)'
    BY <2>3, <2>5, <2>6, OthersServe
  <2>8. /\ \A b \in beaten : b \in Nat /\ b <= node.beatSeq
        /\ \A g \in Handlers : pc[g] = "call" /\ req[g].op = "heartbeat" =>
                                   req[g].arg \in Nat /\ req[g].arg <= node.beatSeq
    BY RequestFacts DEF IInv, Typed, UnderWatermark, Serving
  <2>9. UnderWatermark'
    BY <1>2, <2>1, <2>2, <2>3, <2>8 DEF UnderWatermark
  <2>10. HeartbeatForwardedOnce'
    <3>1. req[h].arg \notin beaten
      BY <1>2, <2>1, <2>2, <2>8
    <3>2. \A g \in Handlers \ {h} : pc'[g] = "call" /\ req'[g].op = "heartbeat" => req'[g].arg # req[h].arg
      BY <1>2, <2>1, <2>2, <2>3, <2>8
    <3>3. QED
      BY <2>3, <3>1, <3>2 DEF IInv, HeartbeatForwardedOnce
  <2>11. TrailsOrchestrator' /\ (up.open \cap up.closed = {})'
    BY <2>1, <2>2, <2>5, TrailsKept DEF IInv
  <2>12. QED
    BY <2>4, <2>7, <2>9, <2>10, <2>11 DEF IInv
<1>3. QED
  BY <1>1, <1>2 DEF CheckHeartbeat

LEMMA CheckInv ==
    ASSUME IInv, NEW h \in Handlers, Check(h)
    PROVE  IInv'
<1> USE DEF history
<1>1. pc[h] = "check" /\ UNCHANGED <<clock, up, beaten, done>>
  BY DEF Check
<1>2. req[h] \in Requests /\ (req[h].op # "enroll" => node # None)
  BY <1>1 DEF IInv, Serving
<1>3. node # None => node.pub = up.key
  BY DEF IInv, TrailsOrchestrator
<1>4. ASSUME UNCHANGED node, NEW where \in {"call", "answer"}, Proceed(h, where),
             where = "call" => req[h].op # "heartbeat",
             where = "call" /\ req[h].op \in {"listing", "settle"} => req[h].signer = node.pub,
             where = "answer" => req[h].op = "poll"
      PROVE  IInv'
  <2>1. Typed'
    BY <1>1, <1>4, ProceedFacts DEF IInv, Typed
  <2>2. /\ pc'[h] = where /\ req' = req
        /\ \A g \in Handlers \ {h} : pc'[g] = pc[g] /\ req'[g] = req[g]
    BY <1>4, ProceedFacts DEF IInv
  <2>3. Serving(h)'
    BY <1>1, <1>2, <1>3, <1>4, <2>2 DEF IInv, Serving
  <2>4. QED
    BY <1>1, <1>4, <2>1, <2>2, <2>3, HandlerMoves
<1>5. CASE CheckEnroll(h)
  BY <1>1, <1>4, <1>5, FinishInv DEF CheckEnroll
<1>6. CASE CheckListing(h)
  BY <1>1, <1>4, <1>6, FinishInv DEF CheckListing
<1>7. CASE CheckHeartbeat(h)
  BY <1>1, <1>7, CheckHeartbeatInv
<1>8. CASE CheckPoll(h)
  <2>1. \E where \in {"call", "answer"} : Proceed(h, where)
    BY <1>8 DEF CheckPoll
  <2>2. QED
    BY <1>4, <1>8, <2>1 DEF CheckPoll
<1>9. CASE CheckSettle(h)
  BY <1>1, <1>4, <1>9, FinishInv DEF CheckSettle
<1>10. QED
  BY <1>5, <1>6, <1>7, <1>8, <1>9 DEF Check

\* What the answer of the orchestrator may be, and what it did with the message.
LEMMA UpstreamFacts ==
    ASSUME IInv, NEW h \in Handlers, Upstream(h)
    PROVE  /\ UpGrows
           /\ \/ up' = up
              \/ Takes(req[h]) /\ up' = After(req[h])
           /\ \/ /\ Takes(req[h]) /\ up' = After(req[h]) /\ pc'[h] = "apply" /\ req' = req
                 /\ snap' = [snap EXCEPT ![h] = IF req[h].op = "poll" THEN up.open ELSE {}]
              \/ pc'[h] = "idle"
           /\ pc' \in [Handlers -> {"idle", "check", "call", "apply", "answer"}]
           /\ req' \in [Handlers -> Requests \cup {None}]
           /\ snap' \in [Handlers -> SUBSET Jobs]
           /\ \A g \in Handlers \ {h} : pc'[g] = pc[g] /\ req'[g] = req[g] /\ snap'[g] = snap[g]
<1>1. req[h] \in Requests
  BY DEF Upstream, IInv, Serving
<1>2. UpGrows /\ (up' = up \/ (Takes(req[h]) /\ up' = After(req[h])))
  <2>1. up' = up \/ (Takes(req[h]) /\ up' = After(req[h]))
    BY DEF Upstream, CarriesOn
  <2>2. QED
    BY <1>1, <2>1, UpSame, TakesGrows DEF IInv, Typed, UpGrows
<1>3. CASE /\ Takes(req[h]) /\ up' = After(req[h]) /\ pc' = [pc EXCEPT ![h] = "apply"] /\ req' = req
           /\ snap' = [snap EXCEPT ![h] = IF req[h].op = "poll" THEN up.open ELSE {}]
  <2>1. (IF req[h].op = "poll" THEN up.open ELSE {}) \in SUBSET Jobs
    BY DEF IInv, Typed, Ups
  <2>2. QED
    BY <1>2, <1>3, <2>1 DEF IInv, Typed
<1>4. CASE Finish(h)
  BY <1>2, <1>4, FinishFacts DEF IInv
<1>5. QED
  BY <1>3, <1>4 DEF Upstream, Goto, CarriesOn

LEMMA UpstreamInv ==
    ASSUME IInv, NEW h \in Handlers, Upstream(h)
    PROVE  IInv'
<1>1. /\ pc[h] = "call" /\ UNCHANGED <<clock, node, done>>
      /\ beaten' = IF req[h].op = "heartbeat" THEN beaten \cup {req[h].arg} ELSE beaten
      /\ req[h] \in Requests
  BY DEF Upstream, IInv, Serving
<1>2. req[h].op = "heartbeat" => /\ node # None /\ req[h].arg \in Nat
                                 /\ req[h].arg <= node.beatSeq /\ req[h].arg \notin beaten
  BY <1>1, RequestFacts DEF IInv, Serving, UnderWatermark, HeartbeatForwardedOnce
<1>3. Typed'
  <2>1. up' \in Ups /\ beaten' \subseteq Nat
    BY <1>1, <1>2, UpstreamFacts DEF IInv, Typed, UpGrows
  <2>2. QED
    BY <1>1, <2>1, UpstreamFacts DEF IInv, Typed
<1>4. NodeKept
  BY <1>1 DEF NodeKept, IInv, Typed, Nodes
<1>5. \A g \in Handlers : Serving(g)'
  <2> SUFFICES ASSUME NEW g \in Handlers PROVE Serving(g)'
    OBVIOUS
  <2>1. CASE g # h
    BY <1>4, <2>1, UpstreamFacts, OthersServe
  <2>2. CASE g = h /\ pc'[h] = "idle"
    BY <2>2 DEF Serving
  <2>3. CASE g = h /\ Takes(req[h]) /\ up' = After(req[h]) /\ pc'[h] = "apply" /\ req' = req
    <3>1. /\ up.key # None => up'.key = up.key
          /\ req[h].op = "enroll" => up'.key = req[h].signer
          /\ req[h].op = "listing" => up'.listSeq = req[h].arg
          /\ req[h].op = "settle" => req[h].arg \in up'.closed
      BY <1>1, <2>3, TakesGrows DEF IInv, Typed
    <3>2. Acknowledged(req[h])'
      BY <1>1, <2>3, <3>1, RequestFacts DEF Acknowledged
    <3>3. /\ Serving(h)
          /\ req[h].op \in {"listing", "heartbeat", "settle"} => req[h].signer = up.key /\ up.key # None
      BY <1>1, RequestFacts, NoneAssumption DEF IInv, Serving
    <3>4. QED
      BY <1>1, <2>3, <3>1, <3>2, <3>3 DEF Serving, Acknowledged
  <2>4. QED
    BY <2>1, <2>2, <2>3, UpstreamFacts
<1>6. pc'[h] # "call"
  BY UpstreamFacts
<1>7. UnderWatermark'
  BY <1>1, <1>2, <1>6, UpstreamFacts DEF IInv, UnderWatermark
<1>8. HeartbeatForwardedOnce'
  BY <1>1, <1>2, <1>6, UpstreamFacts DEF IInv, HeartbeatForwardedOnce
<1>9. TrailsOrchestrator' /\ (up.open \cap up.closed = {})'
  BY <1>1, UpstreamFacts, TrailsKept DEF UpGrows
<1>10. QED
  BY <1>3, <1>5, <1>7, <1>8, <1>9 DEF IInv

\* What the second critical section does to the node.
LEMMA ApplyFacts ==
    ASSUME IInv, NEW h \in Handlers, Apply(h)
    PROVE  /\ node' \in Nodes /\ node' # None
           /\ node # None => /\ node'.pub = node.pub
                             /\ node'.beatSeq = node.beatSeq
                             /\ node'.lastAuthTS = node.lastAuthTS
                             /\ node'.listSeq >= node.listSeq
           /\ TrailsOrchestrator'
<1> USE NoneAssumption DEF Nodes
<1>1. /\ pc[h] = "apply" /\ req[h] \in Requests /\ Acknowledged(req[h])
      /\ UNCHANGED <<clock, up>>
      /\ node # None => node \in Nodes
      /\ req[h].op # "enroll" => node # None
  BY DEF Apply, IInv, Typed, Serving
<1>2. node # None => node.pub = up.key /\ node.listSeq <= up.listSeq /\ node.settled \subseteq up.closed
  BY DEF IInv, TrailsOrchestrator
<1>3. CASE ApplyEnroll(h)
  <2>1. CASE node # None
    BY <1>1, <1>2, <1>3, <2>1 DEF ApplyEnroll, TrailsOrchestrator
  <2>2. CASE node = None
    <3>1. node' = NewNode(req[h].signer) /\ req[h].signer \in Keys /\ req[h].signer = up.key
      BY <1>1, <1>3, <2>2, RequestFacts DEF ApplyEnroll, Acknowledged
    <3>2. node' \in Nodes
      BY <3>1 DEF NewNode
    <3>3. up.listSeq \in Nat
      BY DEF IInv, Typed, Ups
    <3>4. QED
      BY <1>1, <2>2, <3>1, <3>2, <3>3 DEF NewNode, TrailsOrchestrator
  <2>3. QED
    BY <2>1, <2>2
<1>4. CASE ApplyListing(h)
  <2> DEFINE m == Max({node.listSeq, req[h].arg})
  <2>1. node' = [node EXCEPT !.listSeq = m] /\ req[h].op = "listing" /\ req[h].arg \in Nat
    BY <1>1, <1>4, RequestFacts DEF ApplyListing
  <2>2. node \in Nodes /\ node # None
    BY <1>1, <2>1
  <2>3. m \in {node.listSeq, req[h].arg} /\ m >= node.listSeq
    BY <2>1, <2>2, MaxOfTwo
  <2> HIDE DEF m
  <2>4. m \in Nat /\ m <= up.listSeq
    BY <1>1, <1>2, <2>1, <2>2, <2>3 DEF Acknowledged
  <2>5. node' \in Nodes
    BY <2>1, <2>2, <2>4
  <2>6. /\ node'.pub = node.pub /\ node'.beatSeq = node.beatSeq /\ node'.settled = node.settled
        /\ node'.lastAuthTS = node.lastAuthTS /\ node'.listSeq = m
    BY <2>1, <2>2
  <2>7. QED
    BY <1>1, <1>2, <2>2, <2>3, <2>4, <2>5, <2>6 DEF TrailsOrchestrator
<1>5. CASE ApplyHeartbeat(h)
  <2>1. node' = [node EXCEPT !.lastBeatUp = clock] /\ node \in Nodes /\ node # None /\ clock \in Nat
    BY <1>1, <1>5 DEF ApplyHeartbeat, IInv, Typed
  <2>2. node' \in Nodes
    BY <2>1
  <2>3. /\ node'.pub = node.pub /\ node'.beatSeq = node.beatSeq /\ node'.settled = node.settled
        /\ node'.lastAuthTS = node.lastAuthTS /\ node'.listSeq = node.listSeq
    BY <2>1
  <2>4. QED
    BY <1>1, <1>2, <2>1, <2>2, <2>3 DEF TrailsOrchestrator
<1>6. CASE ApplyPoll(h)
  <2>1. /\ node' = [node EXCEPT !.jobs = snap[h], !.pollAt = clock, !.settled = node.settled \cap snap[h]]
        /\ node \in Nodes /\ node # None /\ clock \in Nat /\ snap[h] \in SUBSET Jobs
    BY <1>1, <1>6 DEF ApplyPoll, IInv, Typed
  <2>2. node' \in Nodes
    BY <2>1
  <2>3. /\ node'.pub = node.pub /\ node'.beatSeq = node.beatSeq
        /\ node'.settled = node.settled \cap snap[h]
        /\ node'.lastAuthTS = node.lastAuthTS /\ node'.listSeq = node.listSeq
    BY <2>1
  <2>4. node'.settled \subseteq up.closed /\ node.listSeq \in Nat
    BY <1>2, <2>1, <2>3
  <2>5. TrailsOrchestrator'
    BY <1>1, <1>2, <2>1, <2>3, <2>4 DEF TrailsOrchestrator
  <2>6. node'.listSeq >= node.listSeq /\ node' # None
    BY <2>2, <2>3, <2>4
  <2>7. QED
    BY <2>2, <2>3, <2>5, <2>6, Zenon
<1>7. CASE ApplySettle(h)
  <2>1. /\ node' = [node EXCEPT !.settled = node.settled \cup {req[h].arg}]
        /\ node \in Nodes /\ node # None /\ req[h].arg \in Jobs /\ req[h].arg \in up.closed
    BY <1>1, <1>7, RequestFacts DEF ApplySettle, Acknowledged
  <2>2. node' \in Nodes
    BY <2>1
  <2>3. /\ node'.pub = node.pub /\ node'.beatSeq = node.beatSeq
        /\ node'.settled = node.settled \cup {req[h].arg}
        /\ node'.lastAuthTS = node.lastAuthTS /\ node'.listSeq = node.listSeq
    BY <2>1
  <2>4. QED
    BY <1>1, <1>2, <2>1, <2>2, <2>3 DEF TrailsOrchestrator
<1>8. QED
  BY <1>3, <1>4, <1>5, <1>6, <1>7 DEF Apply

LEMMA ApplyInv ==
    ASSUME IInv, NEW h \in Handlers, Apply(h)
    PROVE  IInv'
<1>1. /\ pc[h] = "apply" /\ UNCHANGED <<clock, up, beaten>> /\ req[h] \in Requests
      /\ done' = IF req[h].op = "settle" THEN done \cup {req[h].arg} ELSE done
  BY DEF Apply, IInv, Serving
<1>2. /\ pc' \in [Handlers -> {"idle", "check", "call", "apply", "answer"}]
      /\ req' \in [Handlers -> Requests \cup {None}]
      /\ snap' \in [Handlers -> SUBSET Jobs]
      /\ \A g \in Handlers \ {h} : pc'[g] = pc[g] /\ req'[g] = req[g]
      /\ \/ pc'[h] = "idle"
         \/ pc'[h] = "answer" /\ req[h].op = "poll" /\ req'[h] = req[h]
  BY FinishFacts, ProceedFacts DEF Apply, IInv, Typed
<1>3. Typed'
  <2>1. done' \subseteq Jobs
    BY <1>1, RequestFacts DEF IInv, Typed
  <2>2. QED
    BY <1>1, <1>2, <2>1, ApplyFacts DEF IInv, Typed
<1>4. UpGrows /\ NodeKept
  BY <1>1, UpSame, ApplyFacts DEF NodeKept, IInv, Typed, Nodes
<1>5. Serving(h)'
  BY <1>1, <1>2, ApplyFacts DEF IInv, Serving
<1>6. \A g \in Handlers : Serving(g)'
  BY <1>2, <1>4, <1>5, OthersServe
<1>7. UnderWatermark' /\ HeartbeatForwardedOnce'
  BY <1>1, <1>2, <1>3, <1>4, BeatsKept
<1>8. QED
  BY <1>1, <1>3, <1>6, <1>7, ApplyFacts DEF IInv

LEMMA OfferInv ==
    ASSUME IInv, NEW j \in Jobs, Offer(j)
    PROVE  IInv'
<1>1. /\ UNCHANGED <<clock, node, pc, req, snap, beaten, done>>
      /\ up' = [up EXCEPT !.open = up.open \cup {j}] /\ j \notin up.closed
  BY DEF Offer, handlers, history
<1>2. /\ up' \in Ups /\ up'.key = up.key /\ up'.listSeq = up.listSeq /\ up'.closed = up.closed
      /\ up'.open = up.open \cup {j}
  BY <1>1 DEF IInv, Typed, Ups
<1>3. UpGrows /\ NodeKept
  BY <1>1, <1>2 DEF UpGrows, NodeKept, IInv, Typed, Ups, Nodes
<1>4. Typed'
  BY <1>1, <1>2 DEF IInv, Typed
<1>5. \A g \in Handlers : Serving(g)'
  BY <1>1, <1>3, OthersServe
<1>6. UnderWatermark' /\ HeartbeatForwardedOnce'
  BY <1>1, <1>3, <1>4, BeatsKept
<1>7. TrailsOrchestrator'
  BY <1>1, <1>3, TrailsKept
<1>8. QED
  BY <1>3, <1>4, <1>5, <1>6, <1>7 DEF IInv, UpGrows

LEMMA RestartInv ==
    ASSUME IInv, Restart
    PROVE  IInv'
<1>1. Typed'
  BY DEF Restart, IInv, Typed
<1>2. QED
  BY <1>1 DEF Restart, IInv, Serving, UnderWatermark, HeartbeatForwardedOnce, TrailsOrchestrator

LEMMA NextInv ==
    ASSUME IInv, [Next]_vars
    PROVE  IInv'
<1>1. ASSUME NEW h \in Handlers, Answer(h)
      PROVE  IInv'
  BY <1>1, FinishInv DEF Answer, history
<1>2. CASE Tick
  BY <1>2 DEF Tick, handlers, history, IInv, Typed, Serving, Acknowledged, UnderWatermark,
              HeartbeatForwardedOnce, TrailsOrchestrator
<1>3. CASE UNCHANGED vars
  BY <1>3 DEF vars, handlers, history, IInv, Typed, Serving, Acknowledged, UnderWatermark,
              HeartbeatForwardedOnce, TrailsOrchestrator
<1>4. QED
  BY <1>1, <1>2, <1>3, ArrivalInv, CheckInv, UpstreamInv, ApplyInv, OfferInv, RestartInv DEF Next

-----------------------------------------------------------------------------
(* What follows from it. *)

\* What leaves under the operator's credential is signed with the key the orchestrator
\* holds, however the Enrolls of rival keys overlapped and whenever cloudyd restarted.
THEOREM ForwardedSignaturesVerify == Spec => []VerifiesAtOrchestrator
<1>1. IInv => VerifiesAtOrchestrator
  BY DEF IInv, Serving, VerifiesAtOrchestrator
<1>2. IInv /\ [Next]_vars => IInv'
  BY NextInv
<1>3. QED
  BY <1>1, <1>2, InitInv, PTL DEF Spec

\* The relay holds no belief ahead of the orchestrator's: a listing it refuses as stale
\* is no news there, and a job it withholds is settled there.
THEOREM RelayTrails == Spec => []TrailsOrchestrator
<1>1. IInv => TrailsOrchestrator
  BY DEF IInv
<1>2. IInv /\ [Next]_vars => IInv'
  BY NextInv
<1>3. QED
  BY <1>1, <1>2, InitInv, PTL DEF Spec

\* No heartbeat Seq goes upstream twice, from one handler after another or from two at
\* once.
THEOREM BeatsForwardedOnce == Spec => []HeartbeatForwardedOnce
<1>1. IInv => HeartbeatForwardedOnce
  BY DEF IInv
<1>2. IInv /\ [Next]_vars => IInv'
  BY NextInv
<1>3. QED
  BY <1>1, <1>2, InitInv, PTL DEF Spec

\* While the process runs no replay watermark falls: an Enroll that overlapped another
\* does not replace what is known of the node, and a late listing does not lower it.
THEOREM NoWatermarkFalls == Spec => WatermarksNeverFall
<1> DEFINE Rises == node # None /\ node' # None =>
                       /\ node'.lastAuthTS >= node.lastAuthTS
                       /\ node'.beatSeq >= node.beatSeq
                       /\ node'.listSeq >= node.listSeq
<1>1. ASSUME IInv, [Next]_vars PROVE Rises
  <2> SUFFICES ASSUME node # None, node' # None PROVE Rises
    OBVIOUS
  <2>1. node \in Nodes /\ node.lastAuthTS \in Nat /\ node.beatSeq \in Nat /\ node.listSeq \in Nat
    BY <1>1 DEF IInv, Typed, Nodes
  <2>2. CASE node' = node
    BY <2>1, <2>2
  <2>3. ASSUME NEW ts \in Stamps, ts > node.lastAuthTS, node' = [node EXCEPT !.lastAuthTS = ts]
        PROVE  Rises
    <3>1. ts \in Nat
      BY BoundAssumption, WindowAssumption DEF Stamps
    <3>2. node'.lastAuthTS = ts /\ node'.beatSeq = node.beatSeq /\ node'.listSeq = node.listSeq
      BY <2>1, <2>3 DEF Nodes
    <3>3. QED
      BY <2>1, <2>3, <3>1, <3>2
  <2>4. ASSUME NEW h \in Handlers, CheckHeartbeat(h), pc[h] = "check" PROVE Rises
    <3>1. req[h].arg \in Nat
      BY <1>1, <2>4, RequestFacts DEF CheckHeartbeat, IInv, Serving
    <3>2. CASE req[h].arg > node.beatSeq /\ node' = [node EXCEPT !.beatSeq = req[h].arg]
      <4>1. /\ node'.lastAuthTS = node.lastAuthTS /\ node'.beatSeq = req[h].arg
            /\ node'.listSeq = node.listSeq
        BY <2>1, <3>2 DEF Nodes
      <4>2. QED
        BY <2>1, <3>1, <3>2, <4>1
    <3>3. QED
      BY <2>2, <2>4, <3>2 DEF CheckHeartbeat
  <2>5. ASSUME NEW h \in Handlers, Apply(h) PROVE Rises
    BY <1>1, <2>1, <2>5, ApplyFacts
  <2>6. ASSUME NEW h \in Handlers, Check(h) PROVE Rises
    BY <2>2, <2>4, <2>6 DEF Check, CheckEnroll, CheckListing, CheckPoll, CheckSettle
  <2> HIDE DEF Rises
  <2>7. ASSUME NEW h \in Handlers, NEW r \in Requests, NEW by \in Keys, NEW ts \in Stamps,
               Authenticate(h, r, by, ts)
        PROVE  Rises
    BY <2>3, <2>7 DEF Authenticate
  <2>8. QED
    BY <1>1, <2>2, <2>5, <2>6, <2>7 DEF Next, Enroll, Upstream, Answer, Tick, Offer, Restart, vars
<1>2. IInv /\ [Next]_vars => IInv'
  BY NextInv
<1>3. IInv /\ [Next]_vars => [Rises]_vars
  BY <1>1
<1>4. QED
  BY <1>2, <1>3, InitInv, PTL DEF Spec, WatermarksNeverFall

-----------------------------------------------------------------------------
(* A node that polls in turn. *)

\* An acknowledged settlement is out of reach of every poll that starts after it, and
\* the one poll that may have started before keeps the relay's mark on the job.
LEMMA NextWithheld ==
    ASSUME OnePoller, IInv, IInv', Withheld, [Next]_vars
    PROVE  Withheld'
<1> USE DEF history, handlers
<1>1. ASSUME NEW h \in Handlers, pc'[h] # "apply",
             \A g \in Handlers \ {h} : pc'[g] = pc[g] /\ req'[g] = req[g] /\ snap'[g] = snap[g],
             UNCHANGED <<up, done>>,
             node' = node \/ (/\ node # None /\ node' # None
                              /\ node'.settled = node.settled /\ node'.jobs = node.jobs)
      PROVE  Withheld'
  BY <1>1 DEF Withheld
<1>2. ASSUME NEW h \in Handlers, NEW r \in Requests,
             Enroll(h, r) \/ \E by \in Keys, ts \in Stamps : Authenticate(h, r, by, ts)
      PROVE  Withheld'
  <2>1. \/ node' = node
        \/ \E ts \in Stamps : node \in Nodes /\ node # None /\ node' = [node EXCEPT !.lastAuthTS = ts]
    BY <1>2 DEF Enroll, Authenticate, IInv, Typed
  <2>2. \/ node' = node
        \/ /\ node # None /\ node' # None
           /\ node'.settled = node.settled /\ node'.jobs = node.jobs
    <3>1. ASSUME NEW ts \in Stamps, node \in Nodes, node' = [node EXCEPT !.lastAuthTS = ts]
          PROVE  node' # None /\ node'.settled = node.settled /\ node'.jobs = node.jobs
      <4>1. ts \in Nat
        BY BoundAssumption, WindowAssumption DEF Stamps
      <4>2. QED
        BY <3>1, <4>1, NoneAssumption DEF Nodes
    <3>2. QED
      BY <2>1, <3>1
  <2>3. /\ UNCHANGED <<up, snap, done>> /\ pc'[h] # "apply"
        /\ \A g \in Handlers \ {h} : pc'[g] = pc[g] /\ req'[g] = req[g]
    BY <1>2 DEF Enroll, Authenticate, Goto, IInv, Typed
  <2>4. QED
    BY <1>1, <2>2, <2>3
<1>3. ASSUME NEW h \in Handlers, Check(h)
      PROVE  Withheld'
  <2>1. pc[h] = "check" /\ UNCHANGED <<up, done>> /\ (Finish(h) \/ Proceed(h, "call") \/ Proceed(h, "answer"))
    BY <1>3 DEF Check, CheckEnroll, CheckListing, CheckHeartbeat, CheckPoll, CheckSettle
  <2>2. /\ pc'[h] # "apply"
        /\ \A g \in Handlers \ {h} : pc'[g] = pc[g] /\ req'[g] = req[g] /\ snap'[g] = snap[g]
    BY <2>1, FinishFacts, ProceedFacts DEF IInv
  <2>3. \/ node' = node
        \/ req[h].op = "heartbeat" /\ node' = [node EXCEPT !.beatSeq = req[h].arg]
    BY <1>3 DEF Check, CheckEnroll, CheckListing, CheckHeartbeat, CheckPoll, CheckSettle
  <2>4. \/ node' = node
        \/ /\ node # None /\ node' # None
           /\ node'.settled = node.settled /\ node'.jobs = node.jobs
    <3>1. CASE req[h].op = "heartbeat" /\ node' = [node EXCEPT !.beatSeq = req[h].arg]
      <4>1. req[h] \in Requests /\ node # None /\ node \in Nodes /\ req[h].arg \in Nat
        BY <2>1, <3>1, RequestFacts DEF IInv, Typed, Serving
      <4>2. QED
        BY <3>1, <4>1, NoneAssumption DEF Nodes
    <3>2. QED
      BY <2>3, <3>1
  <2>5. QED
    BY <1>1, <2>1, <2>2, <2>4
<1>4. ASSUME NEW h \in Handlers, Upstream(h)
      PROVE  Withheld'
  <2>1. /\ UNCHANGED <<node, done>>
        /\ UpGrows
        /\ \A g \in Handlers \ {h} : pc'[g] = pc[g] /\ req'[g] = req[g] /\ snap'[g] = snap[g]
        /\ pc'[h] = "apply" => req' = req /\ snap' = [snap EXCEPT ![h] = IF req[h].op = "poll" THEN up.open ELSE {}]
    BY <1>4, UpstreamFacts DEF Upstream
  <2>2. pc'[h] = "apply" => snap'[h] \subseteq up.open
    BY <2>1 DEF IInv, Typed
  <2>3. \A j \in up.closed : j \notin up.open
    BY DEF IInv
  <2>4. QED
    BY <2>1, <2>2, <2>3 DEF Withheld, UpGrows
<1>5. ASSUME NEW h \in Handlers, Apply(h)
      PROVE  Withheld'
  <2>1. /\ pc[h] = "apply" /\ up' = up /\ req[h] \in Requests
        /\ req[h].op = "poll" => h \in Pollers
        /\ req[h].op = "settle" => req[h].arg \in up.closed
        /\ req[h].op # "enroll" => node # None /\ node \in Nodes
    BY <1>5 DEF Apply, IInv, Typed, Serving, Acknowledged
  <2>2. /\ pc'[h] # "apply"
        /\ \A g \in Handlers \ {h} : pc'[g] = pc[g] /\ req'[g] = req[g] /\ snap'[g] = snap[g]
    BY <1>5, FinishFacts, ProceedFacts DEF Apply, IInv
  <2>3. CASE ApplyEnroll(h)
    <3>1. done' = done
      BY <1>5, <2>3 DEF Apply, ApplyEnroll
    <3>2. CASE node = None
      BY <3>1, <3>2 DEF Withheld
    <3>3. CASE node # None
      BY <2>1, <2>2, <2>3, <3>1, <3>3, <1>1 DEF ApplyEnroll
    <3>4. QED
      BY <3>2, <3>3
  <2>4. CASE ApplyListing(h)
    <3>1. req[h].op = "listing" /\ node' = [node EXCEPT !.listSeq = Max({node.listSeq, req[h].arg})]
      BY <2>4 DEF ApplyListing
    <3>2. done' = done /\ node'.settled = node.settled /\ node'.jobs = node.jobs
      BY <1>5, <2>1, <3>1 DEF Apply, Nodes
    <3>3. QED
      BY <1>1, <1>5, <2>1, <2>2, <3>1, <3>2, ApplyFacts
  <2>5. CASE ApplyHeartbeat(h)
    <3>1. req[h].op = "heartbeat" /\ node' = [node EXCEPT !.lastBeatUp = clock]
      BY <2>5 DEF ApplyHeartbeat
    <3>2. done' = done /\ node'.settled = node.settled /\ node'.jobs = node.jobs
      BY <1>5, <2>1, <3>1 DEF Apply, Nodes
    <3>3. QED
      BY <1>1, <1>5, <2>1, <2>2, <3>1, <3>2, ApplyFacts
  <2>6. CASE ApplyPoll(h)
    <3>1. /\ req[h].op = "poll"
          /\ node' = [node EXCEPT !.jobs = snap[h], !.pollAt = clock, !.settled = node.settled \cap snap[h]]
      BY <2>6 DEF ApplyPoll
    <3>2. done' = done /\ node'.settled = node.settled \cap snap[h] /\ node'.jobs = snap[h]
      BY <1>5, <2>1, <3>1 DEF Apply, Nodes
    <3>3. node' # None
      BY <1>5, ApplyFacts
    <3>4. \A g \in Handlers : ~(pc'[g] = "apply" /\ req'[g].op = "poll")
      <4> SUFFICES ASSUME NEW g \in Handlers, pc'[g] = "apply", req'[g].op = "poll" PROVE FALSE
        OBVIOUS
      <4>1. g # h /\ pc[g] = "apply" /\ req[g].op = "poll"
        BY <2>2
      <4>2. g \in Pollers /\ h \in Pollers
        BY <2>1, <3>1, <4>1 DEF IInv, Serving
      <4>3. QED
        BY <4>1, <4>2 DEF OnePoller
    <3>5. QED
      BY <2>1, <3>1, <3>2, <3>3, <3>4 DEF Withheld
  <2>7. CASE ApplySettle(h)
    <3>1. req[h].op = "settle" /\ node' = [node EXCEPT !.settled = node.settled \cup {req[h].arg}]
      BY <2>7 DEF ApplySettle
    <3>2. /\ done' = done \cup {req[h].arg} /\ node'.settled = node.settled \cup {req[h].arg}
          /\ node'.jobs = node.jobs
      BY <1>5, <2>1, <3>1 DEF Apply, Nodes
    <3>3. node' # None
      BY <1>5, ApplyFacts
    <3>4. QED
      BY <2>1, <2>2, <3>1, <3>2, <3>3 DEF Withheld
  <2>8. QED
    BY <1>5, <2>3, <2>4, <2>5, <2>6, <2>7 DEF Apply
<1>6. ASSUME NEW h \in Handlers, Answer(h)
      PROVE  Withheld'
  <2>1. Finish(h) /\ UNCHANGED <<node, up, done>>
    BY <1>6 DEF Answer
  <2>2. QED
    BY <1>1, <2>1, FinishFacts DEF IInv
<1>7. CASE Tick
  BY <1>7 DEF Tick, Withheld
<1>8. ASSUME NEW j \in Jobs, Offer(j)
      PROVE  Withheld'
  <2>1. up'.closed = up.closed
    BY <1>8 DEF Offer, IInv, Typed, Ups
  <2>2. QED
    BY <1>8, <2>1 DEF Offer, Withheld
<1>9. CASE Restart
  BY <1>9 DEF Restart, Withheld
<1>10. CASE UNCHANGED vars
  BY <1>10 DEF vars, Withheld
<1>11. QED
  BY <1>2, <1>3, <1>4, <1>5, <1>6, <1>7, <1>8, <1>9, <1>10 DEF Next

\* A node that polls in turn is never handed back a job it has settled through this
\* relay, whatever a poll returned while the report was on its way.
THEOREM SettledNeverHandedBack ==
    ASSUME OnePoller
    PROVE  Spec => []NeverHandedBack
<1>1. Init => Withheld
  BY DEF Init, Withheld
<1>2. IInv /\ [Next]_vars => IInv'
  BY NextInv
<1>3. IInv /\ IInv' /\ Withheld /\ [Next]_vars => Withheld'
  BY NextWithheld
<1>4. Withheld => NeverHandedBack
  BY DEF Withheld, NeverHandedBack, Handed
<1>5. QED
  BY <1>1, <1>2, <1>3, <1>4, InitInv, PTL DEF Spec
=============================================================================
