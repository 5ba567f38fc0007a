----------------------------- MODULE AgentLoop -----------------------------
(***************************************************************************)
(* cmd/cloudy-agent over internal/contribute: a node that lists what it    *)
(* accepts, polls for jobs, and runs and reports or declines each.         *)
(*                                                                         *)
(* Run is one goroutine, so the loop is one process.  The owner of the     *)
(* machine comes and goes between any two of its steps, and every call to  *)
(* the coordinator may be lost, or (AnswerLost) taken and its answer lost. *)
(* The coordinator is external; Seq (nextSeq) is abstracted to messages    *)
(* being taken in the order they are sent.                                 *)
(***************************************************************************)
EXTENDS Sequences, FiniteSets, Functions

CONSTANTS
    Configs,      \* [placement, kinds, executors] a node may be started with
    Jobs,         \* [kind, ours, signed] assignments, by workload, node and signature
    HasCoordKey,  \* a coordinator key is configured
    AnswerLost,   \* calls, of {"list", "settle"}, that may be taken and not answered
    MaxRestarts,  \* bound on restarts of the agent
    Unlisted,     \* the mark Run leaves when its first listing fails
    NoJob

Kinds == {"compute", "print", "storage", "service"}
Workloads == Kinds \ {"service"}

ASSUME ConfigAssumption ==
    \A c \in Configs :
        /\ c.placement \in {"scavenged", "pinned"}
        /\ c.kinds \in Seq(Kinds)
        /\ c.executors \in Seq([kind : Kinds, preemptible : BOOLEAN])
ASSUME CallAssumption == AnswerLost \subseteq {"list", "settle"} /\ HasCoordKey \in BOOLEAN

VARIABLES
    config,      \* what the process was started with
    toRegister,  \* executors main has still to register
    batch,       \* contribute.Registry: kinds with a one-shot executor
    service,     \* and whether a service is registered
    owner,       \* the owner is using the machine
    pc,          \* where the process is
    listed,      \* Loop.listed: capabilities in the last accepted listing
    handled,     \* Loop.handled
    sending,     \* the capabilities of the listing in progress
    todo, job,   \* PollOnce: assignments left, and the one being settled
    coord,       \* the coordinator: the node's opt-in, jobs open and settled; and, a
                 \* history, whether the opt-in came by a re-listing never answered
    restarts

registry == <<config, toRegister, batch, service>>
vars == <<registry, owner, pc, listed, handled, sending, todo, job, coord, restarts>>

-----------------------------------------------------------------------------
(* contribute: the contract and the executors registered under it. *)

Validate(c) ==
    /\ Len(c.kinds) > 0
    /\ IsInjective(c.kinds)
    /\ "service" \in Range(c.kinds) => c.placement = "pinned"

Allows(c, k) == k \in Range(c.kinds)

\* Register, and RegisterService for the service.
Registers(e) ==
    /\ Allows(config, e.kind)
    /\ IF e.kind = "service"
       THEN ~service
       ELSE /\ config.placement = "scavenged" => e.preemptible
            /\ e.kind \notin batch

Start(c) ==
    /\ config = c
    /\ toRegister = c.executors
    /\ batch = {}
    /\ service = FALSE
    /\ pc = "new"
    /\ listed = {}
    /\ handled = {}
    /\ sending = {}
    /\ todo = {}
    /\ job = NoJob

Init ==
    /\ \E c \in Configs : Start(c)
    /\ owner \in BOOLEAN
    /\ coord = [optIn |-> Unlisted, unheard |-> FALSE, open |-> {}, settled |-> {}]
    /\ restarts = 0

\* main exits on the first error.
NewRegistry ==
    /\ pc = "new"
    /\ pc' = IF Validate(config) THEN "register" ELSE "exited"
    /\ UNCHANGED <<registry, owner, listed, handled, sending, todo, job, coord, restarts>>

Register ==
    /\ pc = "register"
    /\ toRegister # <<>>
    /\ LET e == Head(toRegister)
       IN IF Registers(e)
          THEN /\ batch' = IF e.kind = "service" THEN batch ELSE batch \cup {e.kind}
               /\ service' = (service \/ e.kind = "service")
               /\ toRegister' = Tail(toRegister)
               /\ UNCHANGED pc
          ELSE pc' = "exited" /\ UNCHANGED <<toRegister, batch, service>>
    /\ UNCHANGED <<config, owner, listed, handled, sending, todo, job, coord, restarts>>

Run ==
    /\ pc = "register"
    /\ toRegister = <<>>
    /\ pc' = "first"
    /\ UNCHANGED <<registry, owner, listed, handled, sending, todo, job, coord, restarts>>

-----------------------------------------------------------------------------
(* Agent: the owner gate. *)

scavengedYield == config.placement = "scavenged" /\ owner

\* Registry.Capabilities: what is registered.
Served == batch \cup (IF service THEN {"service"} ELSE {})

Capabilities == IF scavengedYield THEN {} ELSE Served

\* The opt-in flags of the protocol's listing: there is none for storage.
OptIn(caps) == caps \cap {"compute", "print"}

-----------------------------------------------------------------------------
(* List and Beat. *)

\* List reads the capabilities again, after Beat has found `listed` stale.
List ==
    /\ pc \in {"first", "relist"}
    /\ sending' = Capabilities
    /\ pc' = IF pc = "first" THEN "firstCall" ELSE "relistCall"
    /\ UNCHANGED <<registry, owner, listed, handled, todo, job, coord, restarts>>

\* The coordinator takes the listing.
Heard(unheard) == [coord EXCEPT !.optIn = OptIn(sending), !.unheard = unheard]

ListAccepted ==
    /\ pc \in {"firstCall", "relistCall"}
    /\ coord' = Heard(FALSE)
    /\ listed' = sending
    /\ sending' = {}
    /\ pc' = IF pc = "firstCall" THEN "idle" ELSE "beat"
    /\ UNCHANGED <<registry, owner, handled, todo, job, restarts>>

ListFailedKeepsListed ==
    /\ pc \in {"firstCall", "relistCall"}
    /\ coord' \in {coord} \cup (IF "list" \in AnswerLost THEN {Heard(pc = "relistCall")} ELSE {})
    /\ sending' = {}
    /\ pc' = "idle"
    /\ UNCHANGED <<registry, owner, listed, handled, todo, job, restarts>>

\* Run marks a failed first listing; Beat returns the error and keeps `listed`.
ListFailed ==
    /\ pc \in {"firstCall", "relistCall"}
    /\ coord' \in {coord} \cup (IF "list" \in AnswerLost THEN {Heard(pc = "relistCall")} ELSE {})
    /\ listed' = IF pc = "firstCall" THEN Unlisted ELSE listed
    /\ sending' = {}
    /\ pc' = "idle"
    /\ UNCHANGED <<registry, owner, handled, todo, job, restarts>>

Beat ==
    /\ pc = "idle"
    /\ pc' = IF listed # Capabilities THEN "relist" ELSE "beat"
    /\ UNCHANGED <<registry, owner, listed, handled, sending, todo, job, coord, restarts>>

\* The heartbeat itself, answered or not.
Heartbeat ==
    /\ pc = "beat"
    /\ pc' = "idle"
    /\ UNCHANGED <<registry, owner, listed, handled, sending, todo, job, coord, restarts>>

-----------------------------------------------------------------------------
(* PollOnce. *)

\* An answer: what is open, and possibly settled jobs a cache still offers.  A poll
\* that fails changes nothing.
PollOnce(stale) ==
    /\ pc = "idle"
    /\ todo' = coord.open \cup stale
    /\ pc' = "next"
    /\ UNCHANGED <<registry, owner, listed, handled, sending, job, coord, restarts>>

PollDone ==
    /\ pc = "next"
    /\ todo = {}
    /\ pc' = "idle"
    /\ UNCHANGED <<registry, owner, listed, handled, sending, todo, job, coord, restarts>>

\* settle, up to the first reason to decline.
Refused(j) ==
    \/ ~j.ours
    \/ HasCoordKey /\ ~j.signed
    \/ j.kind \notin Workloads
    \/ j.kind \notin Capabilities

Settle(j) ==
    /\ pc = "next"
    /\ j \in todo
    /\ todo' = todo \ {j}
    /\ IF j \in handled
       THEN UNCHANGED <<pc, job>>
       ELSE /\ job' = j
            /\ pc' = IF Refused(j) THEN "decline" ELSE "dispatch"
    /\ UNCHANGED <<registry, owner, listed, handled, sending, coord, restarts>>

\* Agent.Dispatch looks at the owner again.
Dispatch ==
    /\ pc = "dispatch"
    /\ pc' = IF scavengedYield THEN "decline" ELSE "start"
    /\ UNCHANGED <<registry, owner, listed, handled, sending, todo, job, coord, restarts>>

\* Registry.Dispatch starts the job, whatever the owner does by now; a kind that is
\* registered is contracted, by Registers.
StartJob ==
    /\ pc = "start"
    /\ pc' = IF job.kind \in batch THEN "running" ELSE "decline"
    /\ UNCHANGED <<registry, owner, listed, handled, sending, todo, job, coord, restarts>>

\* The executor returns, with a result or an error: either is reported.
Finish ==
    /\ pc = "running"
    /\ pc' = "report"
    /\ UNCHANGED <<registry, owner, listed, handled, sending, todo, job, coord, restarts>>

\* The coordinator takes a report or a decline.
Taken == [coord EXCEPT !.open = @ \ {job}, !.settled = @ \cup {job}]

\* ReportJob or Decline succeeds, and the job is handled.
Settled ==
    /\ pc \in {"report", "decline"}
    /\ coord' = Taken
    /\ handled' = handled \cup {job}
    /\ job' = NoJob
    /\ pc' = "next"
    /\ UNCHANGED <<registry, owner, listed, sending, todo, restarts>>

SettleFailedRecorded ==
    /\ pc \in {"report", "decline"}
    /\ coord' \in {coord} \cup (IF "settle" \in AnswerLost THEN {Taken} ELSE {})
    /\ handled' = handled \cup {job}
    /\ todo' = {}
    /\ job' = NoJob
    /\ pc' = "idle"
    /\ UNCHANGED <<registry, owner, listed, sending, restarts>>

\* It fails: PollOnce returns, and the jobs left wait for the next poll.
SettleFailed ==
    /\ pc \in {"report", "decline"}
    /\ coord' \in {coord} \cup (IF "settle" \in AnswerLost THEN {Taken} ELSE {})
    /\ todo' = {}
    /\ job' = NoJob
    /\ pc' = "idle"
    /\ UNCHANGED <<registry, owner, listed, handled, sending, restarts>>

-----------------------------------------------------------------------------
(* The surroundings. *)

OwnerComesOrGoes ==
    /\ owner' = ~owner
    /\ UNCHANGED <<registry, pc, listed, handled, sending, todo, job, coord, restarts>>

Assign(j) ==
    /\ j \notin coord.open \cup coord.settled
    /\ coord' = [coord EXCEPT !.open = @ \cup {j}]
    /\ UNCHANGED <<registry, owner, pc, listed, handled, sending, todo, job, restarts>>

\* The agent is started again, and remembers nothing.
Restart ==
    /\ restarts < MaxRestarts
    /\ restarts' = restarts + 1
    /\ pc # "exited"
    /\ toRegister' = config.executors
    /\ batch' = {}
    /\ service' = FALSE
    /\ pc' = "new"
    /\ listed' = {}
    /\ handled' = {}
    /\ sending' = {}
    /\ todo' = {}
    /\ job' = NoJob
    /\ coord' = [coord EXCEPT !.unheard = FALSE]
    /\ UNCHANGED <<config, owner>>

\* What the loop does by itself once it is not waiting for a tick.
Step ==
    \/ NewRegistry \/ Register \/ Run
    \/ List \/ ListAccepted \/ ListFailed \/ Heartbeat
    \/ PollDone \/ (\E j \in Jobs : Settle(j))
    \/ Dispatch \/ StartJob \/ Finish \/ Settled \/ SettleFailed

Next ==
    \/ Step
    \/ Beat
    \/ \E stale \in SUBSET coord.settled : PollOnce(stale)
    \/ OwnerComesOrGoes
    \/ \E j \in Jobs : Assign(j)
    \/ Restart

\* The loop goes on; select takes each of two ready tickers in the end; and a call
\* made again and again is answered in the end.
Fairness ==
    /\ WF_vars(Step)
    /\ SF_vars(Beat)
    /\ SF_vars(\E stale \in SUBSET coord.settled : PollOnce(stale))
    /\ SF_vars(ListAccepted)
    /\ \A j \in Jobs : SF_vars(job = j /\ Settled)

Spec == Init /\ [][Next]_vars /\ Fairness

-----------------------------------------------------------------------------
(* Properties. *)

\* Beat re-lists "first if what the node accepts has changed since the last listing (the
\* owner came back, or left)": once the owner stays or stays away, the coordinator
\* comes to hold what the node accepts, whatever was lost before.
ListingConverges ==
    \A o \in BOOLEAN :
        <>[](owner = o) => <>[](pc = "exited" \/ coord.optIn = OptIn(Capabilities))

\* What Beat does achieve, when requests and answers are lost and the agent restarts:
\* once the owner stays or stays away, the coordinator holds what the node accepts,
\* unless what it holds is a re-listing whose answer never reached the node.  A first
\* listing is safe from that, answered or not: Run marks it and Beat repeats it.
AnsweredListingConverges ==
    \A o \in BOOLEAN :
        <>[](owner = o) =>
            <>[](pc = "exited" \/ coord.unheard \/ coord.optIn = OptIn(Capabilities))

\* "A failed call is logged and retried on the next tick" (Run): a job that was
\* assigned is reported or declined in the end, on a running node.
JobsGetSettled ==
    \A j \in Jobs : j \in coord.open ~> (j \in coord.settled \/ pc = "exited")
=============================================================================
