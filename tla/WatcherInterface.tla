-------------------------- MODULE WatcherInterface --------------------------
(***************************************************************************)
(* A processing element (satacc/watcher_interface.rs): a watcher, its      *)
(* clause units, and the interface that hands what arrives from the two    *)
(* networks to them.  The watcher and the units are instances of Watcher   *)
(* and ClauseUnit; those of one processing element share its port to the   *)
(* memory network, mem_out.                                                *)
(*                                                                         *)
(* update dispatches one clause task and one memory reply and then updates *)
(* the watcher and the units, one after the other; `turn` says whose turn  *)
(* it is in the whole system.  The private cache, updated last, is never   *)
(* sent a request and is never busy.                                       *)
(***************************************************************************)
EXTENDS SimChannel, Integers, FiniteSets

CONSTANTS
  NPe,           \* config.n_watchers
  NUnits,        \* config.n_clauses: the clause units of a processing element
  WatcherTask, ClauseTask, None, Singles, HasClauseData, ClausePe,
  InnerClause,   \* InnerClause[c]: get_inner_clause_pe_id of the clause task
  Values, ClauseTime, Pipelined, QueueLimit, ChannelSize

Pe == 0 .. NPe - 1
Unit == Pe \X (0 .. NUnits - 1)

VARIABLES
  turn,                 \* whose turn it is
  elapsed,              \* the cycles since the last update of all
  (* the watchers *)
  wpc, wbusy, wupdated, watcher_task_receiver, mem_out, watcher_mem, clause_icnt_sender,
  queue, mem_req_id_to_task, total_ongoing, watcher_processing,
  (* the clause units *)
  upc, ubusy, uupdated, clause_task_in, clause_mem, clause_data_ready_queue,
  clause_value_ready_queue, clause_processing, mem_req_id_to_clause_task, reading_tasks,
  value_reqs, value_waits, total_clause_data_mem_ongoing, total_clause_value_mem_ongoing,
  (* shared by all *)
  current_level_finished_tasks,
  (* the interface: channels from the two networks, and its part of the results *)
  task_icnt_receiver, mem_icnt_receiver, dispatch_busy, dispatch_updated

W == INSTANCE Watcher WITH
       pc <- wpc, busy <- wbusy, updated <- wupdated, mem_in <- watcher_mem,
       current_processing_task <- watcher_processing

U == INSTANCE ClauseUnit WITH
       ClauseTask <- HasClauseData, PeOf <- [u \in Unit |-> u[1]], ProcessTime <- ClauseTime,
       pc <- upc, busy <- ubusy, updated <- uupdated, mem_in <- clause_mem,
       current_processing_task <- clause_processing

ASSUME InterfaceAssumption ==
  /\ NPe \in Nat \ {0} /\ NUnits \in Nat \ {0}
  /\ InnerClause \in [HasClauseData -> 0 .. NUnits - 1]
  /\ W!TasksAssumption /\ W!LimitAssumption /\ U!ClauseAssumption /\ U!ValuesAssumption
  /\ None \notin W!Processing \cup U!Processing

watcherOnly == <<wpc, wbusy, wupdated, watcher_task_receiver, watcher_mem,
                 clause_icnt_sender, queue, mem_req_id_to_task, total_ongoing,
                 watcher_processing>>
unitOnly == <<upc, ubusy, uupdated, clause_task_in, clause_mem, clause_data_ready_queue,
              clause_value_ready_queue, clause_processing, mem_req_id_to_clause_task,
              reading_tasks, value_reqs, value_waits, total_clause_data_mem_ongoing,
              total_clause_value_mem_ongoing>>
dispatchVars == <<task_icnt_receiver, mem_icnt_receiver, dispatch_busy, dispatch_updated>>
interfaceVars == <<turn, elapsed, watcherOnly, unitOnly, mem_out,
                   current_level_finished_tasks, dispatchVars>>

InterfaceInit ==
  /\ W!Init /\ U!Init
  /\ task_icnt_receiver = [p \in Pe |-> <<>>]
  /\ mem_icnt_receiver = [p \in Pe |-> <<>>]
  /\ dispatch_busy = [p \in Pe |-> FALSE] /\ dispatch_updated = [p \in Pe |-> FALSE]
-----------------------------------------------------------------------------
(* The dispatch.                                                            *)

TargetUnit(p) == <<p, InnerClause[Head(task_icnt_receiver[p])]>>

DispatchTask(p) ==
  IF task_icnt_receiver[p] = <<>> THEN UNCHANGED <<task_icnt_receiver, clause_task_in>>
  ELSE IF HaveSpace(clause_task_in[TargetUnit(p)], ChannelSize)
    THEN /\ task_icnt_receiver' = [task_icnt_receiver EXCEPT ![p] = Received(@)]
         /\ clause_task_in' = [clause_task_in EXCEPT ![TargetUnit(p)] =
                                 Sent(@, Head(task_icnt_receiver[p]))]
    ELSE /\ task_icnt_receiver' = [task_icnt_receiver EXCEPT ![p] = RecvThenRet(@)]
         /\ UNCHANGED clause_task_in

ToWatcher(r) == r.type \in W!Read
RoomForReply(p, r) ==
  IF ToWatcher(r) THEN HaveSpace(watcher_mem[p], ChannelSize)
                  ELSE HaveSpace(clause_mem[r.unit], ChannelSize)

DispatchReply(p) ==
  LET r == Head(mem_icnt_receiver[p]) IN
  IF mem_icnt_receiver[p] = <<>>
    THEN UNCHANGED <<mem_icnt_receiver, watcher_mem, clause_mem>>
  ELSE IF RoomForReply(p, r)
    THEN /\ mem_icnt_receiver' = [mem_icnt_receiver EXCEPT ![p] = Received(@)]
         /\ IF ToWatcher(r)
              THEN /\ watcher_mem' = [watcher_mem EXCEPT ![p] = Sent(@, r)]
                   /\ UNCHANGED clause_mem
              ELSE /\ clause_mem' = [clause_mem EXCEPT ![r.unit] = Sent(@, r)]
                   /\ UNCHANGED watcher_mem
    ELSE /\ mem_icnt_receiver' = [mem_icnt_receiver EXCEPT ![p] = RecvThenRet(@)]
         /\ UNCHANGED <<watcher_mem, clause_mem>>

\* A blocker reply that finds the watcher's channel full is given to the
\* private cache's channel, and the same update receives it there: unreachable!().
DispatchPanics(p) ==
  LET r == Head(mem_icnt_receiver[p]) IN
  /\ turn = <<"dispatch", p>>
  /\ mem_icnt_receiver[p] # <<>> /\ r.type = "blocker" /\ ~RoomForReply(p, r)

Dispatch(p) ==
  /\ turn = <<"dispatch", p>> /\ ~DispatchPanics(p)
  /\ DispatchTask(p) /\ DispatchReply(p)
  /\ dispatch_busy' = [dispatch_busy EXCEPT ![p] =
       task_icnt_receiver[p] # <<>> \/ mem_icnt_receiver[p] # <<>>]
  /\ dispatch_updated' = [dispatch_updated EXCEPT ![p] =
       task_icnt_receiver' # task_icnt_receiver \/ mem_icnt_receiver' # mem_icnt_receiver]
  /\ turn' = <<"call watcher", p>>
  /\ UNCHANGED <<elapsed, mem_out, current_level_finished_tasks,
                 wpc, wbusy, wupdated, watcher_task_receiver, clause_icnt_sender, queue,
                 mem_req_id_to_task, total_ongoing, watcher_processing,
                 upc, ubusy, uupdated, clause_data_ready_queue, clause_value_ready_queue,
                 clause_processing, mem_req_id_to_clause_task, reading_tasks, value_reqs,
                 value_waits, total_clause_data_mem_ongoing, total_clause_value_mem_ongoing>>
-----------------------------------------------------------------------------
(* The updates of the watcher and of each clause unit, to their end.        *)

AfterUnit(u) ==
  IF u[2] + 1 < NUnits THEN <<"call unit", <<u[1], u[2] + 1>>>>
  ELSE IF u[1] + 1 < NPe THEN <<"dispatch", u[1] + 1>>
  ELSE <<"networks", 0>>

CallWatcher(p) ==
  /\ turn = <<"call watcher", p>> /\ turn' = <<"watcher", p>>
  /\ W!Call(p, elapsed)
  /\ UNCHANGED <<elapsed, unitOnly, dispatchVars>>

WatcherStep(p) ==
  /\ turn = <<"watcher", p>>
  /\ W!Step(p)
  /\ turn' = IF wpc' = <<p, "return">> THEN <<"call unit", <<p, 0>>>> ELSE turn
  /\ UNCHANGED <<elapsed, unitOnly, dispatchVars>>

CallUnit(u) ==
  /\ turn = <<"call unit", u>> /\ turn' = <<"unit", u>>
  /\ U!Call(u, elapsed)
  /\ UNCHANGED <<elapsed, watcherOnly, dispatchVars>>

UnitStep(u) ==
  /\ turn = <<"unit", u>>
  /\ U!Step(u)
  /\ turn' = IF upc' = <<u, "return">> THEN AfterUnit(u) ELSE turn
  /\ UNCHANGED <<elapsed, watcherOnly, dispatchVars>>

InterfaceStep ==
  \/ \E p \in Pe : Dispatch(p) \/ CallWatcher(p) \/ WatcherStep(p)
  \/ \E u \in Unit : CallUnit(u) \/ UnitStep(u)

\* The result of the last update of all processing elements.
InterfacesBusy ==
  (\E p \in Pe : dispatch_busy[p] \/ wbusy[p]) \/ \E u \in Unit : ubusy[u]
InterfacesUpdated ==
  (\E p \in Pe : dispatch_updated[p] \/ wupdated[p]) \/ \E u \in Unit : uupdated[u]
=============================================================================
