------------------------------- MODULE System -------------------------------
(***************************************************************************)
(* The whole system: the trail, the processing elements and the two        *)
(* networks (TrailAndOthers of satacc/simulator.rs), the runner that       *)
(* updates them until they are idle (SimRunner::run of sim.rs), and the    *)
(* caller, who runs one round after the other and then finishes.           *)
(*                                                                         *)
(* The components are instances of Trail, Watcher and ClauseUnit; the      *)
(* memory network and the cache behind it are MemoryService, and the clause *)
(* network holds a task for any number of cycles.  With the Ramulator      *)
(* cache, which can drop a request (cache_with_ramulator.rs:127), up to    *)
(* MaxLost requests are lost.                                              *)
(***************************************************************************)
EXTENDS WatcherInterface, SequencesExt, FiniteSetsExt

CONSTANTS
  Level, HomePe,  \* the fields of the watcher tasks
  RoundChoices,   \* what the caller may have built: sequences of rounds
  MaxTransit,     \* the literal 2048 of the networks
  MaxLost,        \* bound on the requests the cache drops
  ExtraRuns       \* the literal 100 of run_single_task

\* No task is in two rounds, or twice in one.
ASSUME SystemAssumption ==
  /\ HomePe \in [WatcherTask -> Pe]
  /\ RoundChoices \subseteq Seq(Seq(WatcherTask))
  /\ \A rs \in RoundChoices : \A i, k \in DOMAIN rs :
       IsInjective(rs[i]) /\ (i # k => Range(rs[i]) \cap Range(rs[k]) = {})
  /\ MaxTransit \in Nat \ {0} /\ MaxLost \in Nat /\ ExtraRuns \in Nat

\* Every task is an object of its own, and a single watcher is in one list.
ASSUME DistinctTasks ==
  /\ WatcherTask \cap ClauseTask = {} /\ None \notin Seq(WatcherTask)
  /\ \A t \in WatcherTask : IsInjective(Singles[t])
  /\ \A t, u \in WatcherTask : t # u => Range(Singles[t]) \cap Range(Singles[u]) = {}
  /\ \A c \in ClauseTask : \E t \in WatcherTask : Contains(Singles[t], c)

VARIABLES
  (* the trail *)
  task_receiver, current_working_task, current_level_remaining, current_processing_level,
  trail_busy, trail_updated,
  level_sync,           \* config.level_sync
  (* the networks *)
  memory, clause_net,   \* the requests and clause tasks they hold
  lost,                 \* the requests dropped
  network_busy,         \* a network held something in its last update
  (* runner and caller *)
  current_running_mode, \* RunMode
  call,                 \* the caller's call in progress, or "new", "idle", "failed", "released"
  result,               \* the result of the last run: "Ok", "Err", or None
  extra,                \* runs left of those that follow an error
  rounds                \* the rounds the caller still has

trailOnly == <<task_receiver, current_working_task, current_level_remaining,
               current_processing_level, trail_busy, trail_updated>>
networkOnly == <<memory, clause_net, lost, network_busy>>
caller == <<current_running_mode, call, result, extra, rounds>>
vars == <<interfaceVars, trailOnly, level_sync, networkOnly, caller>>

Singly(t) == {Singles[t][i] : i \in DOMAIN Singles[t]}
Work == [t \in WatcherTask |-> {t} \cup Singly(t)]

Sync == INSTANCE Trail WITH LevelSync <- TRUE, watcher_sender <- watcher_task_receiver
Free == INSTANCE Trail WITH LevelSync <- FALSE, watcher_sender <- watcher_task_receiver

AnswerPe(r) == IF ToWatcher(r) THEN r.pe ELSE r.unit[1]
Memory == INSTANCE MemoryService WITH AnswerPort <- AnswerPe

Init ==
  /\ InterfaceInit /\ Sync!TrailInit
  /\ turn = <<"caller", 0>> /\ elapsed = 0
  /\ level_sync \in BOOLEAN
  /\ memory = {} /\ clause_net = {} /\ lost = {} /\ network_busy = FALSE
  /\ current_running_mode \in {"NoGapBtweenRounds", "RealRoundGap"}
  /\ call = "new" /\ result = None /\ extra = 0
  /\ rounds \in RoundChoices
-----------------------------------------------------------------------------
(* The caller: he calls run_single_task for each round and at last          *)
(* finish_simulator, or run_full_expr once (simulator.rs).                  *)

\* Between two calls.
Waits == call \in {"new", "idle"}

\* run_single_task and run_full_expr panic when the channel to the trail is full.
CanSendRound == HaveSpace(task_receiver, ChannelSize)
SendRound ==
  /\ rounds # <<>> /\ CanSendRound
  /\ task_receiver' = Sent(task_receiver, Head(rounds))
  /\ rounds' = Tail(rounds)

Run(c) ==
  /\ call' = c /\ turn' = <<"trail", 0>>
  /\ UNCHANGED <<elapsed, watcherOnly, unitOnly, mem_out, current_level_finished_tasks,
                 dispatchVars, current_working_task, current_level_remaining,
                 current_processing_level, trail_busy, trail_updated, level_sync,
                 networkOnly, result>>

RunSingleTask ==
  /\ Waits /\ SendRound
  /\ Run("run_single_task")
  /\ UNCHANGED <<current_running_mode, extra>>

\* One run after the other, in the mode that waits for all components.
RunFullExpr ==
  /\ \/ call = "new" /\ current_running_mode = "RealRoundGap"
     \/ call = "run_full_expr" /\ turn = <<"caller", 0>> /\ result = "Ok"
  /\ SendRound
  /\ Run("run_full_expr")
  /\ UNCHANGED <<current_running_mode, extra>>

\* After an error the run is repeated a hundred times, "for log infomation".
RunExtra ==
  /\ call = "extra" /\ turn = <<"caller", 0>> /\ extra > 0
  /\ extra' = extra - 1
  /\ Run("extra")
  /\ UNCHANGED <<task_receiver, current_running_mode, rounds>>

\* The mode stays changed: every run from now on waits for all components.
FinishSimulator ==
  /\ Waits /\ rounds = <<>>
  /\ current_running_mode' = "RealRoundGap"
  /\ Run("finish_simulator")
  /\ UNCHANGED <<task_receiver, extra, rounds>>

\* What the calls return to the caller, who does not go on after false.
CallReturns ==
  /\ turn = <<"caller", 0>>
  /\ \/ /\ call = "run_single_task" /\ result = "Ok"
        /\ call' = "idle" /\ UNCHANGED extra
     \/ /\ call = "run_single_task" /\ result = "Err"
        /\ call' = "extra" /\ extra' = ExtraRuns
     \/ /\ call = "extra" /\ extra = 0
        /\ call' = "failed" /\ UNCHANGED extra
     \/ /\ call = "finish_simulator" \/ (call = "run_full_expr" /\ (result = "Err" \/ rounds = <<>>))
        /\ call' = (IF result = "Ok" THEN "released" ELSE "failed") /\ UNCHANGED extra
  /\ UNCHANGED <<interfaceVars, trailOnly, level_sync, networkOnly, current_running_mode,
                 result, rounds>>

\* The simulator is released: nothing more happens.
Over == call \in {"failed", "released"} /\ UNCHANGED vars
-----------------------------------------------------------------------------
(* The components, in the order of their updates.                           *)

TrailUpdate ==
  /\ turn = <<"trail", 0>> /\ turn' = <<"dispatch", 0>>
  /\ \/ level_sync /\ (Sync!SendTask \/ Sync!UpdateOtherwise)
     \/ ~level_sync /\ (Free!SendTask \/ Free!UpdateOtherwise)
  /\ UNCHANGED <<elapsed, wpc, wbusy, wupdated, watcher_mem, clause_icnt_sender, queue,
                 mem_req_id_to_task, total_ongoing, watcher_processing, unitOnly, mem_out,
                 dispatchVars, level_sync, networkOnly, caller>>

InterfacesUpdate ==
  /\ InterfaceStep
  /\ UNCHANGED <<task_receiver, current_working_task, current_level_remaining,
                 current_processing_level, trail_busy, trail_updated, level_sync,
                 networkOnly, caller>>

\* The networks hold no more than MaxTransit messages; of those in memory, the
\* cache may hold some.
MemoryTakes(T) ==
  \/ T = {p \in Pe : mem_out[p] # <<>>}
  \/ T = {} /\ Cardinality(memory) >= MaxTransit

TakenClauses ==
  IF Cardinality(clause_net) < MaxTransit
    THEN {Head(clause_icnt_sender[p]) : p \in {q \in Pe : clause_icnt_sender[q] # <<>>}}
    ELSE {}

ClausesFor == [p \in Pe |-> {c \in clause_net \cup TakenClauses : ClausePe[c] = p}]

\* The clause network takes the clause tasks at its ports and then delivers some,
\* at once if they stay at their processing element.
ClauseNetwork(a) ==
  /\ clause_net' = (clause_net \cup TakenClauses) \ Memory!Delivered(a)
  /\ clause_icnt_sender' = [p \in Pe |->
       IF TakenClauses = {} \/ clause_icnt_sender[p] = <<>> THEN clause_icnt_sender[p]
       ELSE Received(clause_icnt_sender[p])]
  /\ task_icnt_receiver' = [p \in Pe |-> task_icnt_receiver[p] \o a[p]]

\* A network that held or took something is busy, and always reports progress.
NetworkUpdate ==
  /\ turn = <<"networks", 0>> /\ turn' = <<"end", 0>>
  /\ \E T \in SUBSET Pe, a \in Memory!Answers : MemoryTakes(T) /\ Memory!Serve(T, a)
  /\ \E a \in Memory!Deliveries(ClausesFor, task_icnt_receiver) : ClauseNetwork(a)
  /\ network_busy' = (memory \cup memory' \cup clause_net \cup TakenClauses # {})
  /\ UNCHANGED <<elapsed, wpc, wbusy, wupdated, watcher_task_receiver, watcher_mem, queue,
                 mem_req_id_to_task, total_ongoing, watcher_processing, unitOnly,
                 current_level_finished_tasks, dispatch_busy, dispatch_updated,
                 trailOnly, level_sync, lost, caller>>

\* The Ramulator cache drops a request.
Lose ==
  /\ turn = <<"networks", 0>> /\ Cardinality(lost) < MaxLost
  /\ \E r \in memory : memory' = memory \ {r} /\ lost' = lost \cup {r}
  /\ UNCHANGED <<interfaceVars, trailOnly, level_sync, clause_net, network_busy, caller>>

\* Mutant: waiting for time to pass is no progress.
OnlyDispatchIsProgress == InterfacesUpdated

OthersUpdated == InterfacesUpdated \/ network_busy
OthersBusy == InterfacesBusy \/ network_busy

\* Mutant: a run waits for the trail only, in both modes.
TrailBusyOnly == trail_busy

\* TrailAndOthers::update: with NoGapBtweenRounds only the trail is waited for.
SystemBusy == trail_busy \/ (current_running_mode = "RealRoundGap" /\ OthersBusy)

\* SimRunner::run, with the result of the update of all: it goes on, returns
\* an error, or is done.
EndOfCycle ==
  /\ turn = <<"end", 0>>
  /\ LET updated == trail_updated \/ OthersUpdated IN
     \/ /\ SystemBusy /\ updated
        /\ elapsed' = 2 /\ turn' = <<"trail", 0>> /\ UNCHANGED result
     \/ /\ SystemBusy /\ ~updated
        /\ elapsed' = 1 /\ turn' = <<"caller", 0>> /\ result' = "Err"
     \/ /\ ~SystemBusy
        /\ elapsed' = 0 /\ turn' = <<"caller", 0>> /\ result' = "Ok"
  /\ UNCHANGED <<watcherOnly, unitOnly, mem_out, current_level_finished_tasks, dispatchVars,
                 trailOnly, level_sync, networkOnly, current_running_mode, call, extra, rounds>>
-----------------------------------------------------------------------------
Next ==
  \/ RunSingleTask \/ RunFullExpr \/ RunExtra \/ FinishSimulator \/ CallReturns \/ Over
  \/ TrailUpdate \/ InterfacesUpdate \/ NetworkUpdate \/ Lose \/ EndOfCycle

Spec == Init /\ [][Next]_vars

(* The program runs on; the networks do not let a message wait for ever     *)
(* that has room at its port, nor take nothing for ever.                   *)
Delivers == NetworkUpdate /\ (memory \ memory' # {} \/ clause_net \ clause_net' # {})
Takes == NetworkUpdate /\ memory' \ memory # {}
FairSpec == Spec /\ WF_vars(Next) /\ SF_vars(Delivers) /\ SF_vars(Takes)
-----------------------------------------------------------------------------
(* The work sent to the watchers and not finished, read off the places of   *)
(* the tasks.                                                               *)

TaskAt(p, t) ==
  \/ \E ch \in {watcher_task_receiver[p], queue[p]["meta_finished"],
                queue[p]["data_finished"]} : Contains(ch, t)
  \/ \E k \in {"meta", "data"} : t \in mem_req_id_to_task[p][k]

TaskOpen(t) == \E p \in Pe : TaskAt(p, t)

InWatcher(p, c) ==
  \/ \E ch \in {queue[p]["single_task"], queue[p]["value_finished"],
                queue[p]["process_finished"], clause_icnt_sender[p],
                task_icnt_receiver[p]} : Contains(ch, c)
  \/ c \in mem_req_id_to_task[p]["blocker"]
  \/ \E x \in {watcher_processing[p]} \ {None} : x.task = c

InUnit(u, c) ==
  \/ \E ch \in {clause_task_in[u], clause_data_ready_queue[u],
                clause_value_ready_queue[u]} : Contains(ch, c)
  \/ c \in mem_req_id_to_clause_task[u] \cup reading_tasks[u]
  \/ \E x \in {clause_processing[u]} \ {None} : x.task = c

SingleOpen(c) ==
  c \in clause_net \/ (\E p \in Pe : InWatcher(p, c)) \/ \E u \in Unit : InUnit(u, c)

OpenWork ==
  (UNION {Work[t] : t \in {s \in WatcherTask : TaskOpen(s)}})
    \cup {c \in ClauseTask : SingleOpen(c)}
-----------------------------------------------------------------------------
\* When a run that waits for all components returns Ok, everything the caller
\* has sent is finished, although the processing elements report to be idle
\* while they wait for replies: the networks are busy then (sim.rs:161,
\* simulator.rs:66).
OkMeansDone ==
  turn = <<"caller", 0>> /\ result = "Ok" /\ current_running_mode = "RealRoundGap"
    /\ lost = {} =>
    /\ OpenWork = {} /\ memory = {} /\ clause_net = {}
    /\ task_receiver = <<>> /\ current_working_task = None

\* A cycle that is busy without an update is taken for a deadlock
\* (sim.rs:149).  Without a lost request it is one at most when a watcher was
\* busy although no port is full: when it has dropped a single watcher, which it
\* does not report (watcher.rs:272).  All there is left to do is then in such
\* watchers; nothing else moves on unreported or waits for ever.  The other
\* step that is not reported, taking a blocker reply (watcher.rs:300), is one of
\* a cycle in which the dispatch has reported that reply.
NothingMoves == turn = <<"end", 0>> /\ ~trail_updated /\ ~OthersUpdated

StallOnlyIfDropped ==
  /\ \A p \in Pe : watcher_mem[p] # <<>> => dispatch_updated[p]
  /\ NothingMoves /\ lost = {} =>
       /\ memory = {} /\ clause_net = {}
       /\ \A p \in Pe : mem_out[p] = <<>> /\ clause_icnt_sender[p] = <<>>
       /\ \A u \in Unit, c \in ClauseTask : ~InUnit(u, c)
       /\ \A p \in Pe : ~wbusy[p] =>
            \A x \in WatcherTask \cup ClauseTask : ~TaskAt(p, x) /\ ~InWatcher(p, x)
       /\ trail_busy \/ OthersBusy => \E p \in Pe : wbusy[p]

\* None of the panics is reached: a reply finds the task that waits for it
\* (watcher.rs:287, clause.rs:308) and a blocker reply room at the watcher
\* (watcher_interface.rs:214, 253), and a round finds room when the last run is
\* over (simulator.rs:116, 206).
NothingPanics ==
  /\ \A p \in Pe : ~W!UnwrapFails(p) /\ ~DispatchPanics(p)
  /\ \A u \in Unit : ~U!UnwrapFails(u)
  /\ Waits \/ (call = "run_full_expr" /\ turn = <<"caller", 0>>) => CanSendRound

\* level_sync is a barrier for the work in the real queues of all processing
\* elements, from round to round in both running modes, and every piece of
\* work is finished once.
Barrier == INSTANCE LevelBarrier WITH
  level <- IF level_sync THEN current_processing_level ELSE 0,
  open <- IF level_sync THEN OpenWork ELSE {}
ImplementsBarrier == Barrier!BarrierSpec

\* Every call returns, and without a lost request true: no run goes on for ever,
\* and no component waits for another that waits for it.
EverySessionEnds == <>(call = "released" \/ (call = "failed" /\ lost # {}))
=============================================================================
