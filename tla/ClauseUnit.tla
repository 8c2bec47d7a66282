----------------------------- MODULE ClauseUnit -----------------------------
(***************************************************************************)
(* The clause unit (satacc/clause.rs).  A clause task has the clause read,  *)
(* then the value of each of its literals, is processed, and is then       *)
(* finished.  With pipeline_clause_value_read the values of many tasks are *)
(* read at the same time; without, those of one task at a time.            *)
(*                                                                         *)
(* As in Watcher, each phase of update is an action and `pc` forces their  *)
(* order.  In the code the two modes keep the values to be read, and those *)
(* awaited, in variables of their own; here one variable holds either.     *)
(***************************************************************************)
EXTENDS SimChannel, Integers, FiniteSets

CONSTANTS
  Pe, Unit,       \* processing elements, and their clause units
  PeOf,           \* PeOf[u]: watcher_pe_id of the unit
  ClauseTask,     \* clause tasks, all with clause data
  None,           \* Option::None
  Values,         \* Values[c]: c.clause_value_addr, a sequence
  ProcessTime,    \* ProcessTime[c]: c.clause_processing_time
  Pipelined,      \* config.pipeline_clause_value_read
  QueueLimit,     \* the literal 256 of the code
  ChannelSize     \* config.channel_size

ASSUME ClauseAssumption ==
  /\ PeOf \in [Unit -> Pe]
  /\ ProcessTime \in [ClauseTask -> Nat]
  /\ Pipelined \in BOOLEAN
  /\ QueueLimit \in Nat \ {0} /\ ChannelSize \in Nat \ {0}

\* clause.rs:147: assert!(req_len != 0).  Without it the non-pipelined unit
\* would wait for ever.
ASSUME ValuesAssumption == \A c \in ClauseTask : Len(Values[c]) \in Nat \ {0}

VARIABLES
  pc,                             \* <<who runs, phase>>
  busy, updated,                  \* the two results of update, so far
  clause_task_in,                 \* channel from the processing element
  mem_out,                        \* channel of a processing element to the memory network
  mem_in,                         \* channel of a unit from it
  clause_data_ready_queue,
  clause_value_ready_queue,
  current_processing_task,
  mem_req_id_to_clause_task,      \* tasks waiting for their clause
  reading_tasks,                  \* tasks whose values are being read
  value_reqs,                     \* value requests not yet sent
  value_waits,                    \* value requests whose reply is awaited
  total_clause_data_mem_ongoing, total_clause_value_mem_ongoing,
  current_level_finished_tasks    \* SataccStatus: shared by the whole system

control == <<pc, busy, updated>>
channels == <<clause_task_in, mem_out, mem_in>>
tasks == <<clause_data_ready_queue, clause_value_ready_queue, current_processing_task,
           mem_req_id_to_clause_task, current_level_finished_tasks>>
values == <<reading_tasks, value_reqs, value_waits>>
ongoing == <<total_clause_data_mem_ongoing, total_clause_value_mem_ongoing>>
clauseVars == <<control, channels, tasks, values, ongoing>>
-----------------------------------------------------------------------------
(* Requests.  The pair of a task and the index of a literal stands for the  *)
(* fresh id of a value request.                                            *)

DataReq(u, c) == [type |-> "ClauseReadData", unit |-> u, task |-> c]
ValueReq(u, c, i) == [type |-> "ClauseReadValue", unit |-> u, task |-> c, value |-> i]

\* get_read_clause_value_task
ValueReqs(u, c) == [i \in 1 .. Len(Values[c]) |-> ValueReq(u, c, i)]

ReqsOf(reqs, c) == {r \in reqs : r.task = c}
SetOf(seq) == {seq[i] : i \in DOMAIN seq}
-----------------------------------------------------------------------------
Init ==
  /\ pc \in Unit \X {"return"}
  /\ busy = [u \in Unit |-> FALSE] /\ updated = [u \in Unit |-> FALSE]
  /\ clause_task_in = [u \in Unit |-> <<>>]
  /\ mem_out = [p \in Pe |-> <<>>] /\ mem_in = [u \in Unit |-> <<>>]
  /\ clause_data_ready_queue = [u \in Unit |-> <<>>]
  /\ clause_value_ready_queue = [u \in Unit |-> <<>>]
  /\ current_processing_task = [u \in Unit |-> None]
  /\ mem_req_id_to_clause_task = [u \in Unit |-> {}]
  /\ reading_tasks = [u \in Unit |-> {}]
  /\ value_reqs = [u \in Unit |-> <<>>]
  /\ value_waits = [u \in Unit |-> {}]
  /\ total_clause_data_mem_ongoing = [u \in Unit |-> 0]
  /\ total_clause_value_mem_ongoing = [u \in Unit |-> 0]
  /\ current_level_finished_tasks = 0
-----------------------------------------------------------------------------
NextPhase == [data |-> "begin", begin |-> "value", value |-> "process",
              process |-> "start", start |-> "reply", reply |-> "return"]
Phase == DOMAIN NextPhase \cup {"return"}

At(u, phase) == pc = <<u, phase>>
Done(u, phase) == pc' = <<u, NextPhase[phase]>>
BetweenUpdates == pc[2] = "return"

\* Mutant: busy only with an update.
ReportUpdate(u, isUpdate) ==
  /\ busy' = [busy EXCEPT ![u] = @ \/ isUpdate]
  /\ updated' = [updated EXCEPT ![u] = @ \/ isUpdate]

Report(u, isUpdate) ==
  /\ busy' = [busy EXCEPT ![u] = TRUE]
  /\ updated' = [updated EXCEPT ![u] = @ \/ isUpdate]

\* update is called, d cycles after the last call.  A task whose time is
\* exactly over stays one update more, so that `left` goes down to -1.
Call(u, d) ==
  /\ BetweenUpdates
  /\ pc' = <<u, "data">>
  /\ busy' = [busy EXCEPT ![u] = current_processing_task[u] # None]
  /\ updated' = [updated EXCEPT ![u] = FALSE]
  /\ current_processing_task' =
       [current_processing_task EXCEPT ![u] =
          IF @ = None THEN None
          ELSE [task |-> @.task, left |-> IF @.left >= d THEN @.left - d ELSE -1]]
  /\ UNCHANGED <<channels, clause_data_ready_queue, clause_value_ready_queue,
                 mem_req_id_to_clause_task, current_level_finished_tasks, values, ongoing>>
-----------------------------------------------------------------------------
(* Phase "data": take a clause task and read its clause.                    *)

\* The counters of reads under way, one for clauses and one for values.
CountDataRead(u) ==
  total_clause_data_mem_ongoing' = [total_clause_data_mem_ongoing EXCEPT ![u] = @ + 1]

CountDataReply(u) ==
  total_clause_data_mem_ongoing' = [total_clause_data_mem_ongoing EXCEPT ![u] = @ - 1]
CountValueRead(u) ==
  total_clause_value_mem_ongoing' = [total_clause_value_mem_ongoing EXCEPT ![u] = @ + 1]

\* Mutant: the reply of a value is not counted.
CountNoValueReply(u) == UNCHANGED total_clause_value_mem_ongoing

CountValueReply(u) ==
  total_clause_value_mem_ongoing' = [total_clause_value_mem_ongoing EXCEPT ![u] = @ - 1]

CanReadData(u) ==
  /\ total_clause_data_mem_ongoing[u] < QueueLimit
  /\ Len(clause_data_ready_queue[u]) < QueueLimit
  /\ clause_task_in[u] # <<>>

ReadData(u) ==
  LET c == Head(clause_task_in[u]) IN
  /\ At(u, "data") /\ CanReadData(u)
  /\ \/ /\ HaveSpace(mem_out[PeOf[u]], ChannelSize)
        /\ clause_task_in' = [clause_task_in EXCEPT ![u] = Received(@)]
        /\ mem_out' = [mem_out EXCEPT ![PeOf[u]] = Sent(@, DataReq(u, c))]
        /\ mem_req_id_to_clause_task' = [mem_req_id_to_clause_task EXCEPT ![u] = @ \cup {c}]
        /\ CountDataRead(u)
        /\ Report(u, TRUE)
     \/ /\ ~HaveSpace(mem_out[PeOf[u]], ChannelSize)
        /\ clause_task_in' = [clause_task_in EXCEPT ![u] = RecvThenRet(@)]
        /\ Report(u, FALSE)
        /\ UNCHANGED <<mem_out, mem_req_id_to_clause_task, total_clause_data_mem_ongoing>>
  /\ Done(u, "data")
  /\ UNCHANGED <<mem_in, clause_data_ready_queue, clause_value_ready_queue,
                 current_processing_task, current_level_finished_tasks, values,
                 total_clause_value_mem_ongoing>>
-----------------------------------------------------------------------------
(* Phase "begin": make the value requests of a task whose clause is there.  *)
(* The pipelined unit awaits their replies from now on, the other one only  *)
(* once they are sent.                                                      *)

\* Mutant: <= for <; or a tracker in use is overwritten.
RoomToBeginLate(u) == Pipelined => Cardinality(reading_tasks[u]) <= QueueLimit

RoomToBegin(u) ==
  IF Pipelined THEN Cardinality(reading_tasks[u]) < QueueLimit
               ELSE reading_tasks[u] = {}

CanBegin(u) == RoomToBegin(u) /\ clause_data_ready_queue[u] # <<>>

BeginValues(u) ==
  LET c == Head(clause_data_ready_queue[u]) IN
  /\ At(u, "begin") /\ CanBegin(u)
  /\ clause_data_ready_queue' = [clause_data_ready_queue EXCEPT ![u] = Tail(@)]
  /\ reading_tasks' = [reading_tasks EXCEPT ![u] = @ \cup {c}]
  /\ value_reqs' = [value_reqs EXCEPT ![u] = @ \o ValueReqs(u, c)]
  /\ value_waits' =
       IF Pipelined THEN [value_waits EXCEPT ![u] = @ \cup SetOf(ValueReqs(u, c))]
                    ELSE value_waits
  /\ Report(u, TRUE)
  /\ Done(u, "begin")
  /\ UNCHANGED <<channels, clause_value_ready_queue, current_processing_task,
                 mem_req_id_to_clause_task, current_level_finished_tasks, ongoing>>
-----------------------------------------------------------------------------
(* Phase "value": send one value request.                                   *)

RoomToRead(u) ==
  /\ total_clause_value_mem_ongoing[u] < QueueLimit
  /\ Len(clause_value_ready_queue[u]) < QueueLimit

CanReadValue(u) == RoomToRead(u) /\ value_reqs[u] # <<>>

ReadValue(u) ==
  LET r == Head(value_reqs[u]) IN
  /\ At(u, "value") /\ CanReadValue(u)
  /\ \/ /\ HaveSpace(mem_out[PeOf[u]], ChannelSize)
        /\ value_reqs' = [value_reqs EXCEPT ![u] = Tail(@)]
        /\ mem_out' = [mem_out EXCEPT ![PeOf[u]] = Sent(@, r)]
        /\ value_waits' =
             IF Pipelined THEN value_waits ELSE [value_waits EXCEPT ![u] = @ \cup {r}]
        /\ CountValueRead(u)
        /\ Report(u, TRUE)
     \/ /\ ~HaveSpace(mem_out[PeOf[u]], ChannelSize)
        /\ value_reqs' = [value_reqs EXCEPT ![u] = RecvThenRet(@)]
        /\ Report(u, FALSE)
        /\ UNCHANGED <<mem_out, value_waits, total_clause_value_mem_ongoing>>
  /\ Done(u, "value")
  /\ UNCHANGED <<clause_task_in, mem_in, tasks, reading_tasks,
                 total_clause_data_mem_ongoing>>
-----------------------------------------------------------------------------
(* Phases "process" and "start": finish the task in process when its time   *)
(* is over, and start the next one.                                         *)

Process(u) ==
  /\ At(u, "process") /\ current_processing_task[u] # None
  /\ \/ /\ current_processing_task[u].left >= 0
        /\ UNCHANGED <<current_processing_task, current_level_finished_tasks>>
     \/ /\ current_processing_task[u].left < 0
        /\ current_processing_task' = [current_processing_task EXCEPT ![u] = None]
        /\ current_level_finished_tasks' = current_level_finished_tasks + 1
  /\ Report(u, TRUE)
  /\ Done(u, "process")
  /\ UNCHANGED <<channels, clause_data_ready_queue, clause_value_ready_queue,
                 mem_req_id_to_clause_task, values, ongoing>>

\* Mutant: a task in process is overwritten.
CanAlwaysStart(u) == clause_value_ready_queue[u] # <<>>

CanStart(u) == current_processing_task[u] = None /\ clause_value_ready_queue[u] # <<>>

StartProcess(u) ==
  LET c == Head(clause_value_ready_queue[u]) IN
  /\ At(u, "start") /\ CanStart(u)
  /\ clause_value_ready_queue' = [clause_value_ready_queue EXCEPT ![u] = Tail(@)]
  /\ current_processing_task' =
       [current_processing_task EXCEPT ![u] = [task |-> c, left |-> ProcessTime[c]]]
  /\ Report(u, TRUE)
  /\ Done(u, "start")
  /\ UNCHANGED <<channels, clause_data_ready_queue, mem_req_id_to_clause_task,
                 current_level_finished_tasks, values, ongoing>>
-----------------------------------------------------------------------------
(* Phase "reply": take one memory reply.                                    *)

Reply(u) == Head(mem_in[u])

ReplyData(u) ==
  /\ At(u, "reply") /\ mem_in[u] # <<>> /\ Reply(u).type = "ClauseReadData"
  /\ Reply(u).task \in mem_req_id_to_clause_task[u]
  /\ mem_in' = [mem_in EXCEPT ![u] = Received(@)]
  /\ mem_req_id_to_clause_task' = [mem_req_id_to_clause_task EXCEPT ![u] = @ \ {Reply(u).task}]
  /\ clause_data_ready_queue' = [clause_data_ready_queue EXCEPT ![u] = Append(@, Reply(u).task)]
  /\ CountDataReply(u)
  /\ Report(u, TRUE)
  /\ Done(u, "reply")
  /\ UNCHANGED <<clause_task_in, mem_out, clause_value_ready_queue,
                 current_processing_task, current_level_finished_tasks, values,
                 total_clause_value_mem_ongoing>>

\* Mutant: the first reply completes the task.
AnyValue(u, c, r) == TRUE

\* Does reply r complete the values of task c?  Pipelined: no other request
\* of the task is awaited.  Otherwise: no other request that was sent is
\* awaited, whatever is still to be sent.
LastValue(u, c, r) == ReqsOf(value_waits[u], c) \subseteq {r}

\* The task a reply is counted for: the one it was sent for or, when not
\* pipelined, the one being read.
ReplyFor(u, r, c) ==
  /\ c \in reading_tasks[u]
  /\ Pipelined => c = r.task /\ r \in value_waits[u]

ReplyValue(u) ==
  LET r == Reply(u) IN
  /\ At(u, "reply") /\ mem_in[u] # <<>> /\ r.type = "ClauseReadValue"
  /\ mem_in' = [mem_in EXCEPT ![u] = Received(@)]
  /\ CountValueReply(u)
  /\ value_waits' = [value_waits EXCEPT ![u] = @ \ {r}]
  /\ \E c \in ClauseTask :
       /\ ReplyFor(u, r, c)
       /\ \/ /\ LastValue(u, c, r)
             /\ reading_tasks' = [reading_tasks EXCEPT ![u] = @ \ {c}]
             /\ clause_value_ready_queue' =
                  [clause_value_ready_queue EXCEPT ![u] = Append(@, c)]
             /\ value_reqs' = IF Pipelined THEN value_reqs
                                           ELSE [value_reqs EXCEPT ![u] = <<>>]
          \/ /\ ~LastValue(u, c, r)
             /\ UNCHANGED <<reading_tasks, clause_value_ready_queue, value_reqs>>
  /\ Report(u, TRUE)
  /\ Done(u, "reply")
  /\ UNCHANGED <<clause_task_in, mem_out, clause_data_ready_queue,
                 current_processing_task, mem_req_id_to_clause_task,
                 current_level_finished_tasks, total_clause_data_mem_ongoing>>

\* An unwrap of phase "reply" panics: nobody waits for that reply.
UnwrapFails(u) ==
  /\ At(u, "reply") /\ mem_in[u] # <<>>
  /\ IF Reply(u).type = "ClauseReadData"
       THEN Reply(u).task \notin mem_req_id_to_clause_task[u]
       ELSE \A c \in ClauseTask : ~ReplyFor(u, Reply(u), c)
-----------------------------------------------------------------------------
HasWork(u, phase) ==
  CASE phase = "data" -> CanReadData(u)
    [] phase = "begin" -> CanBegin(u)
    [] phase = "value" -> CanReadValue(u)
    [] phase = "process" -> current_processing_task[u] # None
    [] phase = "start" -> CanStart(u)
    [] phase = "reply" -> mem_in[u] # <<>>

\* Two of the phases report busy when it is a limit that stops them.
StoppedByLimit(u, phase) ==
  \/ phase = "begin" /\ Pipelined /\ ~RoomToBegin(u)
  \/ phase = "value" /\ ~RoomToRead(u)

Skip(u) ==
  \E phase \in DOMAIN NextPhase :
    /\ At(u, phase) /\ ~HasWork(u, phase)
    /\ busy' = [busy EXCEPT ![u] = @ \/ StoppedByLimit(u, phase)]
    /\ Done(u, phase)
    /\ UNCHANGED <<updated, channels, tasks, values, ongoing>>

Step(u) ==
  \/ ReadData(u) \/ BeginValues(u) \/ ReadValue(u)
  \/ Process(u) \/ StartProcess(u)
  \/ ReplyData(u) \/ ReplyValue(u)
  \/ Skip(u)
-----------------------------------------------------------------------------
DataReqs == {DataReq(u, c) : u \in Unit, c \in ClauseTask}
AllValueReqs == UNION {SetOf(ValueReqs(u, c)) : u \in Unit, c \in ClauseTask}
ClauseReq == DataReqs \cup AllValueReqs
Processing == [task : ClauseTask, left : Nat \cup {-1}]

\* That no counter is negative is a matter of the replies: see CountersMatch
\* of ClauseEnv.  What is at the shared port is one of its environment.
ClauseTypeOK ==
  /\ pc \in Unit \X Phase
  /\ busy \in [Unit -> BOOLEAN] /\ updated \in [Unit -> BOOLEAN]
  /\ clause_task_in \in [Unit -> Seq(ClauseTask)]
  /\ mem_in \in [Unit -> Seq(ClauseReq)]
  /\ clause_data_ready_queue \in [Unit -> Seq(ClauseTask)]
  /\ clause_value_ready_queue \in [Unit -> Seq(ClauseTask)]
  /\ current_processing_task \in [Unit -> Processing \cup {None}]
  /\ mem_req_id_to_clause_task \in [Unit -> SUBSET ClauseTask]
  /\ reading_tasks \in [Unit -> SUBSET ClauseTask]
  /\ value_reqs \in [Unit -> Seq(AllValueReqs)]
  /\ value_waits \in [Unit -> SUBSET AllValueReqs]
  /\ total_clause_data_mem_ongoing \in [Unit -> Int]
  /\ total_clause_value_mem_ongoing \in [Unit -> Int]
  /\ current_level_finished_tasks \in Nat

\* The limits of phases "data", "begin" and "value" (clause.rs:88, 136, 208)
\* test reads under way and tasks read apart: what holds of them together
\* is 2 * QueueLimit - 1.  No queue of the unit grows beyond it.
ClauseBounds ==
  \A u \in Unit :
    /\ total_clause_data_mem_ongoing[u] + Len(clause_data_ready_queue[u])
         <= 2 * QueueLimit - 1
    /\ total_clause_value_mem_ongoing[u] + Len(clause_value_ready_queue[u])
         <= 2 * QueueLimit - 1
    /\ Cardinality(reading_tasks[u]) <= IF Pipelined THEN QueueLimit ELSE 1
=============================================================================
