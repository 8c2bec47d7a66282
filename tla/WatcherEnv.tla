----------------------------- MODULE WatcherEnv -----------------------------
(***************************************************************************)
(* The watcher units with what surrounds them, reduced to its effect on    *)
(* their channels: the trail sends the watcher tasks (simulator.rs gives   *)
(* each watcher a channel from it), the memory network takes one request   *)
(* and answers it some time later, in any order, to the processing element *)
(* named in it, and the clause network takes the clause tasks.  The clause  *)
(* units of a processing element send their requests at the same port.     *)
(***************************************************************************)
EXTENDS Watcher, SequencesExt, FiniteSetsExt

CONSTANTS
  HomePe,   \* HomePe[t]: t.watcher_id / 2 % total_watchers
  Elapsed,  \* the cycles that can pass between two calls of update
  OtherReq, \* the requests of the clause units
  OtherPe   \* OtherPe[r]: the processing element of the unit

ASSUME EnvAssumption ==
  /\ HomePe \in [WatcherTask -> Pe]
  /\ Elapsed \subseteq Nat
  /\ OtherReq \cap WatcherReq = {} /\ OtherPe \in [OtherReq -> Pe]

\* Every task is an object of its own, and a single watcher is in one list.
ASSUME DistinctTasks ==
  /\ WatcherTask \cap ClauseTask = {}
  /\ \A t \in WatcherTask : IsInjective(Singles[t])
  /\ \A t, u \in WatcherTask : t # u => Range(Singles[t]) \cap Range(Singles[u]) = {}
  /\ None \notin Processing

\* A single watcher is in the list of a task.
ASSUME SinglesListed == \A c \in ClauseTask : \E t \in WatcherTask : Contains(Singles[t], c)

VARIABLES
  pending,   \* watcher tasks the trail still has
  memory     \* requests the memory network has taken and not answered

envVars == <<pending, memory>>
vars == <<watcherVars, envVars>>

EnvInit ==
  /\ Init
  /\ pending = WatcherTask
  /\ memory = {}
-----------------------------------------------------------------------------
\* Trail::update sends a task to the watcher of its processing element.
TrailSends ==
  /\ BetweenUpdates
  /\ \E t \in pending :
       /\ HaveSpace(watcher_task_receiver[HomePe[t]], ChannelSize)
       /\ watcher_task_receiver' =
            [watcher_task_receiver EXCEPT ![HomePe[t]] = Sent(@, t)]
       /\ pending' = pending \ {t}
  /\ UNCHANGED <<control, mem_out, mem_in, clause_icnt_sender, queue,
                 mem_req_id_to_task, total_ongoing, current_processing_task,
                 current_level_finished_tasks, memory>>

\* A network takes a message from each port, or from none when it is full.
MemoryTakes ==
  /\ mem_out' = [p \in Pe |-> IF mem_out[p] = <<>> THEN <<>> ELSE Received(mem_out[p])]
  /\ memory' = memory \cup
       ({Head(mem_out[p]) : p \in {q \in Pe : mem_out[q] # <<>>}} \ OtherReq)

ClauseNetworkTakes ==
  clause_icnt_sender' = [p \in Pe |-> IF clause_icnt_sender[p] = <<>> THEN <<>>
                                      ELSE Received(clause_icnt_sender[p])]

NetworksTake ==
  /\ BetweenUpdates
  /\ MemoryTakes \/ UNCHANGED <<mem_out, memory>>
  /\ ClauseNetworkTakes \/ UNCHANGED clause_icnt_sender
  /\ UNCHANGED <<control, watcher_task_receiver, mem_in, queue, mem_req_id_to_task,
                 total_ongoing, current_processing_task, current_level_finished_tasks,
                 pending>>

MemoryReplies ==
  /\ BetweenUpdates
  /\ \E r \in memory :
       /\ HaveSpace(mem_in[r.pe], ChannelSize)
       /\ mem_in' = [mem_in EXCEPT ![r.pe] = Sent(@, r)]
       /\ memory' = memory \ {r}
  /\ UNCHANGED <<control, watcher_task_receiver, mem_out, clause_icnt_sender, queue,
                 mem_req_id_to_task, total_ongoing, current_processing_task,
                 current_level_finished_tasks, pending>>

\* A clause unit sends a request.
OthersSend ==
  /\ BetweenUpdates
  /\ \E r \in OtherReq :
       /\ HaveSpace(mem_out[OtherPe[r]], ChannelSize)
       /\ mem_out' = [mem_out EXCEPT ![OtherPe[r]] = Sent(@, r)]
  /\ UNCHANGED <<control, watcher_task_receiver, mem_in, clause_icnt_sender, queue,
                 mem_req_id_to_task, total_ongoing, current_processing_task,
                 current_level_finished_tasks, envVars>>

EnvNext == TrailSends \/ NetworksTake \/ MemoryReplies \/ OthersSend

WatcherNext ==
  \E p \in Pe : Step(p) \/ \E d \in Elapsed : Call(p, d)

Next == EnvNext \/ (WatcherNext /\ UNCHANGED envVars)

Spec == EnvInit /\ [][Next]_vars

(* SimRunner::run calls every component in every cycle, two cycles apart    *)
(* but for the first call of a run, and a call runs to its end.  The        *)
(* networks take a message from each port in each of their updates, and     *)
(* the watcher drains mem_in, so that a reply always gets its place.  It is *)
(* updated before the clause units at its port, so that these cannot for    *)
(* ever keep it from sending.                                              *)
Fairness ==
  /\ WF_vars(\E p \in Pe : Step(p) /\ UNCHANGED envVars)
  /\ \A p \in Pe : SF_vars(Call(p, 2) /\ UNCHANGED envVars)
  /\ SF_vars(TrailSends) /\ SF_vars(MemoryReplies)
  /\ SF_vars(NetworksTake /\ MemoryTakes) /\ SF_vars(NetworksTake /\ ClauseNetworkTakes)
  /\ \A p \in Pe : []<>(At(p, "meta") /\ HaveSpace(mem_out[p], ChannelSize))

FairSpec == Spec /\ Fairness
-----------------------------------------------------------------------------
TypeOK ==
  /\ WatcherTypeOK
  /\ pending \subseteq WatcherTask
  /\ mem_out \in [Pe -> Seq(WatcherReq \cup OtherReq)]
  /\ memory \subseteq WatcherReq

\* The places a request has in the channels and the memory network.
InFlight(r) ==
  (UNION {({"out"} \X {p} \X {i \in DOMAIN mem_out[p] : mem_out[p][i] = r})
            \cup ({"in"} \X {p} \X {i \in DOMAIN mem_in[p] : mem_in[p][i] = r}) : p \in Pe})
    \cup ({"memory"} \X ({r} \cap memory))

\* The request is one some watcher waits for.
Awaited(r) ==
  \E p \in Pe : r.task \in mem_req_id_to_task[p][r.type] /\ r = Request(p, r.type, r.task)

\* The reads a watcher counts are those it waits for: a counter that drifts
\* would stop the watcher or let its queues grow.
CountersMatch ==
  \A p \in Pe, k \in Read : total_ongoing[p][k] = Cardinality(mem_req_id_to_task[p][k])

\* A read a watcher waits for is on its way between that watcher and the
\* memory network exactly once, and nothing else is.
ReadsMatch ==
  \A r \in WatcherReq : Cardinality(InFlight(r)) = IF Awaited(r) THEN 1 ELSE 0

\* The unwrap of a reply's task (watcher.rs:287, 297, 305) never panics: a
\* reply reaches the watcher that waits for it.
RepliesComeHome == \A p \in Pe : ~UnwrapFails(p)

\* SimRunner::run ends when no component is busy (sim.rs:158).  A watcher whose
\* update was not busy holds work only while it waits for a reply, which
\* keeps the memory network busy.
QuietOnlyIfWaiting ==
  \A p \in Pe :
    At(p, "return") /\ ~busy[p] /\ (\A k \in Read : total_ongoing[p][k] = 0) =>
      current_processing_task[p] = None /\ \A q \in Queue : queue[p][q] = <<>>
-----------------------------------------------------------------------------
(* The stages of WatcherStages, read off the place a task is in.            *)

InQueue(x, q) == \E p \in Pe : Contains(queue[p][q], x)
Reading(x, k) == \E p \in Pe : x \in mem_req_id_to_task[p][k]

TaskStage(t) ==
  CASE t \in pending -> "trail"
    [] \E p \in Pe : Contains(watcher_task_receiver[p], t) -> "arrived"
    [] Reading(t, "meta") -> "meta_read"
    [] InQueue(t, "meta_finished") -> "meta_finished"
    [] Reading(t, "data") -> "data_read"
    [] InQueue(t, "data_finished") -> "data_finished"
    [] OTHER -> "expanded"

SingleStage(c) ==
  CASE InQueue(c, "single_task") -> "single_task"
    [] Reading(c, "blocker") -> "blocker_read"
    [] InQueue(c, "value_finished") -> "value_finished"
    [] \E p \in Pe : current_processing_task[p] # None
                       /\ current_processing_task[p].task = c -> "in_process"
    [] InQueue(c, "process_finished") -> "process_finished"
    [] OTHER -> IF \E t \in WatcherTask :
                     Contains(Singles[t], c) /\ TaskStage(t) # "expanded"
                  THEN "unborn" ELSE "left"

Stages == INSTANCE WatcherStages WITH
  Children <- [t \in WatcherTask |-> ToSet(Singles[t])],
  taskStage <- [t \in WatcherTask |-> TaskStage(t)],
  singleStage <- [c \in ClauseTask |-> SingleStage(c)],
  finished <- current_level_finished_tasks

\* The watcher implements its promise.
ImplementsStages == Stages!StagesSpec

\* Every task given to the watchers is worked off.
EveryTaskCompletes == Stages!Completes
=============================================================================
