------------------------------ MODULE Watcher ------------------------------
(***************************************************************************)
(* The watcher unit of a processing element (satacc/watcher.rs).           *)
(*                                                                         *)
(* A watcher task (one assigned literal) has its metadata read, then its   *)
(* watcher list; it is then expanded into single watchers, each a clause   *)
(* task, whose blocker is read and tested; a clause task with clause data  *)
(* goes on to a clause unit, one without is dropped.                       *)
(*                                                                         *)
(* The program is single-threaded.  Watcher::update runs its phases one    *)
(* after the other; each phase is an action, and `pc` forces their order.  *)
(* Call(p, d) is the call of update by processing element p, d cycles      *)
(* after the previous one; other components act between two updates only.  *)
(***************************************************************************)
EXTENDS SimChannel, FiniteSets

CONSTANTS
  Pe,            \* processing elements (watchers 0 .. n_watchers-1)
  WatcherTask,   \* watcher tasks
  ClauseTask,    \* single watchers
  None,          \* Option::None
  Singles,       \* Singles[t]: t.single_watcher_tasks
  HasClauseData, \* the clause tasks whose clause_data is Some(_)
  ClausePe,      \* ClausePe[c]: c.watcher_id / 2 % total_watchers
  QueueLimit,    \* the literal 256 of the code
  ChannelSize    \* config.channel_size

ASSUME TasksAssumption ==
  /\ Singles \in [WatcherTask -> Seq(ClauseTask)]
  /\ HasClauseData \subseteq ClauseTask
  /\ ClausePe \in [ClauseTask -> Pe]
ASSUME LimitAssumption == QueueLimit \in Nat \ {0} /\ ChannelSize \in Nat \ {0}

VARIABLES
  pc,                           \* <<who runs, phase>>
  busy, updated,                \* the two results of update, so far
  watcher_task_receiver,        \* channel from the trail
  mem_out, mem_in,              \* channels to and from the memory network
  clause_icnt_sender,           \* channel to the clause network
  queue,                        \* the queues between the phases
  mem_req_id_to_task,           \* tasks waiting for a reply, per kind of read
  total_ongoing,                \* the three counters of reads under way
  current_processing_task,
  current_level_finished_tasks  \* SataccStatus: shared by the whole system

control == <<pc, busy, updated>>
watcherVars == <<control, watcher_task_receiver, mem_out, mem_in, clause_icnt_sender,
                 queue, mem_req_id_to_task, total_ongoing, current_processing_task,
                 current_level_finished_tasks>>
-----------------------------------------------------------------------------
(* Three phases read memory, in the same way: take a task of the input     *)
(* queue, send a request, keep the task until the reply, which moves it to *)
(* the output queue.  Request ids are fresh (SataccStatus::next_mem_id), and  *)
(* a task makes one read of a kind: kind and task stand for the id.        *)

Read == {"meta", "data", "blocker"}
Queue == {"meta_finished", "data_finished", "single_task", "value_finished",
          "process_finished"}
\* Mutant: the meta reply files its task in the queue of the data replies.
OutputMisfiled == [meta |-> "data_finished", data |-> "data_finished",
                   blocker |-> "value_finished"]

Output == [meta |-> "meta_finished", data |-> "data_finished",
           blocker |-> "value_finished"]
InputQueue == [data |-> "meta_finished", blocker |-> "single_task"]

Input(p, k) == IF k = "meta" THEN watcher_task_receiver[p] ELSE queue[p][InputQueue[k]]

InputBecomes(p, k, s) ==
  IF k = "meta"
    THEN /\ watcher_task_receiver' = [watcher_task_receiver EXCEPT ![p] = s]
         /\ UNCHANGED queue
    ELSE /\ queue' = [queue EXCEPT ![p][InputQueue[k]] = s]
         /\ UNCHANGED watcher_task_receiver

\* Mutant: the replies go to whatever processing element comes first.
RequestNoPe(p, k, t) == [type |-> k, pe |-> CHOOSE q \in Pe : TRUE, task |-> t]

\* A request, with the processing element its reply goes to: the reader for
\* a watcher task, but the one the clause task belongs to for a blocker.
Request(p, k, t) ==
  [type |-> k, pe |-> IF k = "blocker" THEN ClausePe[t] ELSE p, task |-> t]

TaskOf(k) == IF k = "blocker" THEN ClauseTask ELSE WatcherTask
WatcherReq == UNION {[type : {k}, pe : Pe, task : TaskOf(k)] : k \in Read}

\* cycles a watcher takes to decide whether the clause must be read
ProcessTime == 2
-----------------------------------------------------------------------------
Init ==
  /\ pc \in Pe \X {"return"}
  /\ busy = [p \in Pe |-> FALSE] /\ updated = [p \in Pe |-> FALSE]
  /\ watcher_task_receiver = [p \in Pe |-> <<>>]
  /\ mem_out = [p \in Pe |-> <<>>] /\ mem_in = [p \in Pe |-> <<>>]
  /\ clause_icnt_sender = [p \in Pe |-> <<>>]
  /\ queue = [p \in Pe |-> [q \in Queue |-> <<>>]]
  /\ mem_req_id_to_task = [p \in Pe |-> [k \in Read |-> {}]]
  /\ total_ongoing = [p \in Pe |-> [k \in Read |-> 0]]
  /\ current_processing_task = [p \in Pe |-> None]
  /\ current_level_finished_tasks = 0
-----------------------------------------------------------------------------
NextPhase == [meta |-> "data", data |-> "expand", expand |-> "blocker",
              blocker |-> "process", process |-> "start", start |-> "send",
              send |-> "reply", reply |-> "return"]
Phase == DOMAIN NextPhase \cup {"return"}

At(p, phase) == pc = <<p, phase>>
Done(p, phase) == pc' = <<p, NextPhase[phase]>>

\* No update is running.
BetweenUpdates == pc[2] = "return"

\* Mutant: busy only with an update.
ReportUpdate(p, isUpdate) ==
  /\ busy' = [busy EXCEPT ![p] = @ \/ isUpdate]
  /\ updated' = [updated EXCEPT ![p] = @ \/ isUpdate]

\* What a phase that found work adds to the result of update.
Report(p, isUpdate) ==
  /\ busy' = [busy EXCEPT ![p] = TRUE]
  /\ updated' = [updated EXCEPT ![p] = @ \/ isUpdate]

\* update is called, d cycles after the last call: that much less is left
\* of the processing time.
Call(p, d) ==
  /\ BetweenUpdates
  /\ pc' = <<p, "meta">>
  /\ busy' = [busy EXCEPT ![p] = FALSE]
  /\ updated' = [updated EXCEPT ![p] = FALSE]
  /\ current_processing_task' =
       [current_processing_task EXCEPT ![p] =
          IF @ = None THEN None
          ELSE [task |-> @.task, left |-> IF @.left > d THEN @.left - d ELSE 0]]
  /\ UNCHANGED <<watcher_task_receiver, mem_out, mem_in, clause_icnt_sender, queue,
                 mem_req_id_to_task, total_ongoing, current_level_finished_tasks>>
-----------------------------------------------------------------------------
(* Phases "meta", "data" and "blocker": start a read.                       *)

\* Mutant: the counter of another phase, left over from copying its code.
CountReadAsMeta(p, k) == total_ongoing' = [total_ongoing EXCEPT ![p]["meta"] = @ + 1]

CountRead(p, k) == total_ongoing' = [total_ongoing EXCEPT ![p][k] = @ + 1]

\* Mutant: the reply is not counted.
CountNoReply(p, k) == UNCHANGED total_ongoing

CountReply(p, k) == total_ongoing' = [total_ongoing EXCEPT ![p][k] = @ - 1]

\* Mutant: <= for <.
CanReadLate(p, k) ==
  /\ total_ongoing[p][k] <= QueueLimit
  /\ Len(queue[p][Output[k]]) <= QueueLimit
  /\ Input(p, k) # <<>>

CanRead(p, k) ==
  /\ total_ongoing[p][k] < QueueLimit
  /\ Len(queue[p][Output[k]]) < QueueLimit
  /\ Input(p, k) # <<>>

StartRead(p, k) ==
  /\ At(p, k) /\ CanRead(p, k) /\ HaveSpace(mem_out[p], ChannelSize)
  /\ LET t == Head(Input(p, k)) IN
       /\ InputBecomes(p, k, Received(Input(p, k)))
       /\ mem_out' = [mem_out EXCEPT ![p] = Sent(@, Request(p, k, t))]
       /\ mem_req_id_to_task' = [mem_req_id_to_task EXCEPT ![p][k] = @ \cup {t}]
  /\ CountRead(p, k)
  /\ Report(p, TRUE) /\ Done(p, k)
  /\ UNCHANGED <<mem_in, clause_icnt_sender, current_processing_task,
                 current_level_finished_tasks>>

\* The memory port is full: the task goes back to the front of its queue.
ReadBlocked(p, k) ==
  /\ At(p, k) /\ CanRead(p, k) /\ ~HaveSpace(mem_out[p], ChannelSize)
  /\ InputBecomes(p, k, RecvThenRet(Input(p, k)))
  /\ Report(p, FALSE) /\ Done(p, k)
  /\ UNCHANGED <<mem_out, mem_in, clause_icnt_sender, mem_req_id_to_task,
                 total_ongoing, current_processing_task, current_level_finished_tasks>>
-----------------------------------------------------------------------------
(* Phase "expand": a task whose list is there becomes its single watchers.  *)
(* The queue's length is tested before the whole list is added.             *)

CanExpand(p) ==
  /\ Len(queue[p]["single_task"]) < QueueLimit
  /\ queue[p]["data_finished"] # <<>>

Expand(p) ==
  /\ At(p, "expand") /\ CanExpand(p)
  /\ queue' = [queue EXCEPT
       ![p]["data_finished"] = Tail(@),
       ![p]["single_task"] = @ \o Singles[Head(queue[p]["data_finished"])]]
  /\ current_level_finished_tasks' = current_level_finished_tasks + 1
  /\ Report(p, TRUE) /\ Done(p, "expand")
  /\ UNCHANGED <<watcher_task_receiver, mem_out, mem_in, clause_icnt_sender,
                 mem_req_id_to_task, total_ongoing, current_processing_task>>
-----------------------------------------------------------------------------
(* Phases "process" and "start": the one test in process ends when its time *)
(* has come, and the next one starts.                                       *)

CanProcess(p) ==
  /\ Len(queue[p]["process_finished"]) < QueueLimit
  /\ current_processing_task[p] # None

Process(p) ==
  /\ At(p, "process") /\ CanProcess(p)
  /\ \/ /\ current_processing_task[p].left > 0
        /\ UNCHANGED <<current_processing_task, queue>>
     \/ /\ current_processing_task[p].left = 0
        /\ current_processing_task' = [current_processing_task EXCEPT ![p] = None]
        /\ queue' = [queue EXCEPT ![p]["process_finished"] =
                       Append(@, current_processing_task[p].task)]
  /\ Report(p, TRUE) /\ Done(p, "process")
  /\ UNCHANGED <<watcher_task_receiver, mem_out, mem_in, clause_icnt_sender,
                 mem_req_id_to_task, total_ongoing, current_level_finished_tasks>>

CanStart(p) ==
  /\ current_processing_task[p] = None
  /\ queue[p]["value_finished"] # <<>>

StartProcess(p) ==
  /\ At(p, "start") /\ CanStart(p)
  /\ current_processing_task' = [current_processing_task EXCEPT ![p] =
       [task |-> Head(queue[p]["value_finished"]), left |-> ProcessTime]]
  /\ queue' = [queue EXCEPT ![p]["value_finished"] = Tail(@)]
  /\ Report(p, TRUE) /\ Done(p, "start")
  /\ UNCHANGED <<watcher_task_receiver, mem_out, mem_in, clause_icnt_sender,
                 mem_req_id_to_task, total_ongoing, current_level_finished_tasks>>
-----------------------------------------------------------------------------
(* Phase "send": pass the clause on, or drop a single watcher without one.  *)
(* The drop counts as finished work but is not reported as an update.       *)

CanSend(p) == queue[p]["process_finished"] # <<>>

SendClause(p) ==
  LET c == Head(queue[p]["process_finished"]) IN
  /\ At(p, "send") /\ CanSend(p)
  /\ \/ /\ c \in HasClauseData /\ HaveSpace(clause_icnt_sender[p], ChannelSize)
        /\ queue' = [queue EXCEPT ![p]["process_finished"] = Tail(@)]
        /\ clause_icnt_sender' = [clause_icnt_sender EXCEPT ![p] = Sent(@, c)]
        /\ Report(p, TRUE)
        /\ UNCHANGED current_level_finished_tasks
     \/ /\ c \in HasClauseData /\ ~HaveSpace(clause_icnt_sender[p], ChannelSize)
        /\ queue' = [queue EXCEPT ![p]["process_finished"] = RecvThenRet(@)]
        /\ Report(p, FALSE)
        /\ UNCHANGED <<clause_icnt_sender, current_level_finished_tasks>>
     \/ /\ c \notin HasClauseData
        /\ queue' = [queue EXCEPT ![p]["process_finished"] = Tail(@)]
        /\ current_level_finished_tasks' = current_level_finished_tasks + 1
        /\ Report(p, FALSE)
        /\ UNCHANGED clause_icnt_sender
  /\ Done(p, "send")
  /\ UNCHANGED <<watcher_task_receiver, mem_out, mem_in, mem_req_id_to_task,
                 total_ongoing, current_processing_task>>
-----------------------------------------------------------------------------
(* Phase "reply": take one memory reply.                                    *)

CanReply(p) == mem_in[p] # <<>>

\* remove(&id).unwrap() panics: nobody here waits for that reply.
UnwrapFails(p) ==
  /\ At(p, "reply") /\ CanReply(p)
  /\ Head(mem_in[p]).task \notin mem_req_id_to_task[p][Head(mem_in[p]).type]

\* A blocker reply is not reported as an update.
Reply(p) ==
  /\ At(p, "reply") /\ CanReply(p) /\ ~UnwrapFails(p)
  /\ LET k == Head(mem_in[p]).type
         t == Head(mem_in[p]).task IN
       /\ mem_req_id_to_task' = [mem_req_id_to_task EXCEPT ![p][k] = @ \ {t}]
       /\ queue' = [queue EXCEPT ![p][Output[k]] = Append(@, t)]
       /\ CountReply(p, k)
       /\ Report(p, k # "blocker")
  /\ mem_in' = [mem_in EXCEPT ![p] = Received(@)]
  /\ Done(p, "reply")
  /\ UNCHANGED <<watcher_task_receiver, mem_out, clause_icnt_sender,
                 current_processing_task, current_level_finished_tasks>>
-----------------------------------------------------------------------------
HasWork(p, phase) ==
  CASE phase \in Read -> CanRead(p, phase)
    [] phase = "expand" -> CanExpand(p)
    [] phase = "process" -> CanProcess(p)
    [] phase = "start" -> CanStart(p)
    [] phase = "send" -> CanSend(p)
    [] phase = "reply" -> CanReply(p)

\* A phase that finds nothing to do, or a queue at its limit.
Skip(p) ==
  \E phase \in DOMAIN NextPhase :
    /\ At(p, phase) /\ ~HasWork(p, phase)
    /\ Done(p, phase)
    /\ UNCHANGED <<busy, updated, watcher_task_receiver, mem_out, mem_in,
                   clause_icnt_sender, queue, mem_req_id_to_task, total_ongoing,
                   current_processing_task, current_level_finished_tasks>>

Step(p) ==
  \/ \E k \in Read : StartRead(p, k) \/ ReadBlocked(p, k)
  \/ Expand(p)
  \/ Process(p)
  \/ StartProcess(p)
  \/ SendClause(p)
  \/ Reply(p)
  \/ Skip(p)
-----------------------------------------------------------------------------
(* Types and bounds.                                                        *)

ItemOf(q) == IF q \in {"meta_finished", "data_finished"} THEN WatcherTask ELSE ClauseTask

Processing == [task : ClauseTask, left : 0 .. ProcessTime]

\* Every variable has its type but mem_out, which clause units write to as
\* well; a counter never goes below zero.
WatcherTypeOK ==
  /\ pc \in Pe \X Phase
  /\ busy \in [Pe -> BOOLEAN] /\ updated \in [Pe -> BOOLEAN]
  /\ watcher_task_receiver \in [Pe -> Seq(WatcherTask)]
  /\ mem_in \in [Pe -> Seq(WatcherReq)]
  /\ clause_icnt_sender \in [Pe -> Seq(ClauseTask)]
  /\ queue \in [Pe -> [Queue -> Seq(WatcherTask \cup ClauseTask)]]
  /\ \A p \in Pe, q \in Queue : queue[p][q] \in Seq(ItemOf(q))
  /\ mem_req_id_to_task \in [Pe -> [Read -> SUBSET (WatcherTask \cup ClauseTask)]]
  /\ \A p \in Pe, k \in Read : mem_req_id_to_task[p][k] \subseteq TaskOf(k)
  /\ total_ongoing \in [Pe -> [Read -> Nat]]
  /\ current_processing_task \in [Pe -> Processing \cup {None}]
  /\ current_level_finished_tasks \in Nat

\* watcher.rs tests the counter and the queue a read feeds separately, each
\* against 256.  What holds is weaker than one limit for both: the queue can
\* hold up to 2 * 256 - 1 tasks once the replies are in, and never more.
QueueBounds ==
  \A p \in Pe :
    /\ \A k \in Read :
         /\ total_ongoing[p][k] <= QueueLimit
         /\ total_ongoing[p][k] + Len(queue[p][Output[k]]) <= 2 * QueueLimit - 1
    /\ Len(queue[p]["process_finished"]) <= QueueLimit
=============================================================================
