---------------------------- MODULE ClauseProofs ----------------------------
(***************************************************************************)
(* Proofs about ClauseEnv, for any number of units, tasks and values, any   *)
(* limit, and in both modes unless a theorem says otherwise: types; the     *)
(* bounds of a unit's queues and of the tasks it reads at the same time;    *)
(* the place of every task until it is counted as finished; and, following  *)
(* every request to its reply, that replies are awaited, that the counters  *)
(* of reads match, that no value is ignored and when a unit is quiet.       *)
(***************************************************************************)
EXTENDS ClauseEnv, ChannelLemmas, FiniteSetTheorems

(* The types the bounds rest on.  That no counter is ever negative is not    *)
(* needed: a reply takes as much from the counter as it adds to the queue. *)
QueueTypes ==
  /\ pending \subseteq ClauseTask
  /\ clause_task_in \in [Unit -> Seq(ClauseTask)]
  /\ clause_data_ready_queue \in [Unit -> Seq(ClauseTask)]
  /\ clause_value_ready_queue \in [Unit -> Seq(ClauseTask)]
  /\ mem_req_id_to_clause_task \in [Unit -> SUBSET ClauseTask]
  /\ reading_tasks \in [Unit -> SUBSET ClauseTask]
  /\ \A u \in Unit : IsFiniteSet(reading_tasks[u])
  /\ total_clause_data_mem_ongoing \in [Unit -> Int]
  /\ total_clause_value_mem_ongoing \in [Unit -> Int]

IInv == QueueTypes /\ ClauseBounds

(* What the bounds say of one unit, so that a step of a unit concerns only  *)
(* that unit: the reads under way with the tasks read, and the tasks being  *)
(* read.                                                                    *)
Bounded(total, ready) == total + Len(ready) <= 2 * QueueLimit - 1
FewRead(S) == Cardinality(S) <= IF Pipelined THEN QueueLimit ELSE 1

LEMMA BoundsOfUnits ==
  ClauseBounds <=>
    \A u \in Unit :
      /\ Bounded(total_clause_data_mem_ongoing[u], clause_data_ready_queue[u])
      /\ Bounded(total_clause_value_mem_ongoing[u], clause_value_ready_queue[u])
      /\ FewRead(reading_tasks[u])
BY DEF ClauseBounds, Bounded, FewRead

(* A read that starts while the counter and the queue are each below the    *)
(* limit, a reply that is queued, and a task taken from the queue.          *)
LEMMA BoundedSteps ==
  ASSUME NEW n \in Int, NEW s \in Seq(ClauseTask), NEW c \in ClauseTask
  PROVE  /\ n < QueueLimit /\ Len(s) < QueueLimit => Bounded(n + 1, s)
         /\ Bounded(n, s) => Bounded(n - 1, s) /\ Bounded(n - 1, Append(s, c))
         /\ Bounded(n, s) /\ s # <<>> => Bounded(n, Tail(s))
<1>1. QueueLimit \in Nat /\ Len(s) \in Nat /\ Len(Append(s, c)) = Len(s) + 1
  BY ClauseAssumption, LenProperties, SentType
<1>2. s # <<>> => Len(Tail(s)) = Len(s) - 1
  BY ReceivedType
<1> QED BY <1>1, <1>2 DEF Bounded

LEMMA FewReadSteps ==
  ASSUME NEW S, IsFiniteSet(S), NEW c, FewRead(S)
  PROVE  /\ IsFiniteSet(S \cup {c}) /\ IsFiniteSet(S \ {c})
         /\ (IF Pipelined THEN Cardinality(S) < QueueLimit ELSE S = {}) => FewRead(S \cup {c})
         /\ FewRead(S \ {c})
<1>1. /\ IsFiniteSet(S \cup {c}) /\ IsFiniteSet(S \ {c})
      /\ Cardinality(S) \in Nat
      /\ Cardinality(S \cup {c}) = Cardinality(S) \/ Cardinality(S \cup {c}) = Cardinality(S) + 1
      /\ Cardinality(S \ {c}) = Cardinality(S) \/ Cardinality(S \ {c}) = Cardinality(S) - 1
  BY FS_AddElement, FS_RemoveElement, FS_CardinalityType
<1>2. QueueLimit \in Nat /\ Pipelined \in BOOLEAN /\ Cardinality({}) = 0
  BY ClauseAssumption, FS_EmptySet
<1> QED BY <1>1, <1>2 DEF FewRead

(* Nothing sent yet, whatever part of the tasks will be.                    *)
Start == Init /\ pending \subseteq ClauseTask /\ memory = {} /\ answered \subseteq ClauseReq

LEMMA InitStart == EnvInit => Start
BY DEF EnvInit, Start

LEMMA InitIInv == Start => IInv
<1> SUFFICES ASSUME Start PROVE IInv
  OBVIOUS
<1> USE DEF Start, Init
<1>1. <<>> \in Seq(ClauseTask) /\ Len(<<>>) = 0
  BY EmptySeq
<1>2. IsFiniteSet({}) /\ Cardinality({}) = 0
  BY FS_EmptySet
<1>3. QueueTypes
  BY <1>1, <1>2 DEF QueueTypes
<1>4. QueueLimit \in Nat \ {0} /\ Pipelined \in BOOLEAN
  BY ClauseAssumption
<1>5. ClauseBounds
  BY <1>1, <1>2, <1>4 DEF ClauseBounds
<1> QED BY <1>3, <1>5 DEF IInv

LEMMA ReadDataIInv ==
  ASSUME IInv, NEW u \in Unit, ReadData(u), UNCHANGED envVars
  PROVE  IInv'
<1> DEFINE c == Head(clause_task_in[u])
<1>1. /\ clause_task_in[u] \in Seq(ClauseTask) /\ clause_task_in[u] # <<>>
      /\ c \in ClauseTask /\ Received(clause_task_in[u]) \in Seq(ClauseTask)
  <2>1. clause_task_in[u] \in Seq(ClauseTask) /\ clause_task_in[u] # <<>>
    BY DEF IInv, QueueTypes, ReadData, CanReadData
  <2> QED BY <2>1, ReceivedType
<1>2. UNCHANGED <<clause_data_ready_queue, clause_value_ready_queue, reading_tasks,
                  total_clause_value_mem_ongoing>>
  BY DEF ReadData, values
<1>3. \/ /\ clause_task_in' = [clause_task_in EXCEPT ![u] = Received(clause_task_in[u])]
         /\ mem_req_id_to_clause_task' =
              [mem_req_id_to_clause_task EXCEPT ![u] = mem_req_id_to_clause_task[u] \cup {c}]
         /\ total_clause_data_mem_ongoing' =
              [total_clause_data_mem_ongoing EXCEPT ![u] = total_clause_data_mem_ongoing[u] + 1]
      \/ /\ clause_task_in' = clause_task_in
         /\ UNCHANGED <<mem_req_id_to_clause_task, total_clause_data_mem_ongoing>>
  <2>1. RecvThenRet(clause_task_in[u]) = clause_task_in[u]
    BY <1>1, RetRestores
  <2> QED BY <2>1 DEF ReadData, CountDataRead, IInv, QueueTypes
<1>4. QueueTypes'
  <2>1. /\ clause_task_in' \in [Unit -> Seq(ClauseTask)]
        /\ mem_req_id_to_clause_task' \in [Unit -> SUBSET ClauseTask]
    <3> HIDE DEF c
    <3>1. /\ clause_task_in \in [Unit -> Seq(ClauseTask)]
          /\ mem_req_id_to_clause_task \in [Unit -> SUBSET ClauseTask]
      BY DEF IInv, QueueTypes
    <3>2. clause_task_in' \in [Unit -> Seq(ClauseTask)]
      BY <1>1, <1>3, <3>1
    <3>3. (mem_req_id_to_clause_task[u] \cup {c}) \in SUBSET ClauseTask
      BY <1>1, <3>1
    <3>4. mem_req_id_to_clause_task' \in [Unit -> SUBSET ClauseTask]
      BY <1>3, <3>1, <3>3
    <3> QED BY <3>2, <3>4
  <2>2. total_clause_data_mem_ongoing' \in [Unit -> Int]
    BY <1>3 DEF IInv, QueueTypes
  <2> QED BY <1>2, <2>1, <2>2 DEF IInv, QueueTypes, envVars
<1>5. ASSUME NEW x \in Unit
      PROVE  Bounded(total_clause_data_mem_ongoing[x], clause_data_ready_queue[x])'
  <2>1. Bounded(total_clause_data_mem_ongoing[x], clause_data_ready_queue[x])
    BY BoundsOfUnits DEF IInv
  <2>2. /\ total_clause_data_mem_ongoing[u] < QueueLimit
        /\ Len(clause_data_ready_queue[u]) < QueueLimit
    BY DEF ReadData, CanReadData
  <2>3. Bounded(total_clause_data_mem_ongoing[u] + 1, clause_data_ready_queue[u])
    BY <1>1, <2>2, BoundedSteps DEF IInv, QueueTypes
  <2>4. \/ total_clause_data_mem_ongoing'[x] = total_clause_data_mem_ongoing[x]
        \/ x = u /\ total_clause_data_mem_ongoing'[x] = total_clause_data_mem_ongoing[u] + 1
    BY <1>3 DEF IInv, QueueTypes
  <2> QED BY <1>2, <2>1, <2>3, <2>4
<1>6. ClauseBounds'
  BY <1>2, <1>5, BoundsOfUnits DEF IInv, ClauseBounds, Bounded
<1> QED BY <1>4, <1>6 DEF IInv

LEMMA BeginValuesIInv ==
  ASSUME IInv, NEW u \in Unit, BeginValues(u), UNCHANGED envVars
  PROVE  IInv'
<1> DEFINE c == Head(clause_data_ready_queue[u])
<1>1. /\ clause_data_ready_queue[u] \in Seq(ClauseTask) /\ clause_data_ready_queue[u] # <<>>
      /\ c \in ClauseTask /\ Tail(clause_data_ready_queue[u]) \in Seq(ClauseTask)
  <2>1. clause_data_ready_queue[u] \in Seq(ClauseTask) /\ clause_data_ready_queue[u] # <<>>
    BY DEF IInv, QueueTypes, BeginValues, CanBegin
  <2> QED BY <2>1, ReceivedType
<1>2. /\ clause_data_ready_queue' =
           [clause_data_ready_queue EXCEPT ![u] = Tail(clause_data_ready_queue[u])]
      /\ reading_tasks' = [reading_tasks EXCEPT ![u] = reading_tasks[u] \cup {c}]
      /\ UNCHANGED <<clause_task_in, clause_value_ready_queue, mem_req_id_to_clause_task,
                     total_clause_data_mem_ongoing, total_clause_value_mem_ongoing>>
  BY DEF BeginValues, channels, ongoing
<1>3. /\ FewRead(reading_tasks[u] \cup {c}) /\ IsFiniteSet(reading_tasks[u] \cup {c})
      /\ Bounded(total_clause_data_mem_ongoing[u], Tail(clause_data_ready_queue[u]))
  <2>1. /\ FewRead(reading_tasks[u]) /\ IsFiniteSet(reading_tasks[u])
        /\ Bounded(total_clause_data_mem_ongoing[u], clause_data_ready_queue[u])
        /\ total_clause_data_mem_ongoing[u] \in Int
    BY BoundsOfUnits DEF IInv, QueueTypes
  <2>2. IF Pipelined THEN Cardinality(reading_tasks[u]) < QueueLimit ELSE reading_tasks[u] = {}
    BY DEF BeginValues, CanBegin, RoomToBegin
  <2>3. FewRead(reading_tasks[u] \cup {c}) /\ IsFiniteSet(reading_tasks[u] \cup {c})
    BY <2>1, <2>2, FewReadSteps
  <2> HIDE DEF c
  <2> QED BY <1>1, <2>1, <2>3, BoundedSteps
<1> HIDE DEF c
<1>4. QueueTypes'
  BY <1>1, <1>2, <1>3 DEF IInv, QueueTypes, envVars
<1>5. ASSUME NEW x \in Unit
      PROVE  /\ Bounded(total_clause_data_mem_ongoing[x], clause_data_ready_queue[x])'
             /\ Bounded(total_clause_value_mem_ongoing[x], clause_value_ready_queue[x])'
             /\ FewRead(reading_tasks[x])'
  <2>1. /\ Bounded(total_clause_data_mem_ongoing[x], clause_data_ready_queue[x])
        /\ Bounded(total_clause_value_mem_ongoing[x], clause_value_ready_queue[x])
        /\ FewRead(reading_tasks[x])
    BY BoundsOfUnits DEF IInv
  <2> QED BY <1>2, <1>3, <2>1 DEF IInv, QueueTypes, Bounded, FewRead
<1>6. ClauseBounds'
  BY <1>5 DEF ClauseBounds, Bounded, FewRead
<1> QED BY <1>4, <1>6 DEF IInv

LEMMA ReadValueIInv ==
  ASSUME IInv, NEW u \in Unit, ReadValue(u), UNCHANGED envVars
  PROVE  IInv'
<1>1. /\ UNCHANGED <<clause_task_in, clause_data_ready_queue, clause_value_ready_queue,
                     mem_req_id_to_clause_task, reading_tasks, total_clause_data_mem_ongoing>>
      /\ \/ total_clause_value_mem_ongoing' =
              [total_clause_value_mem_ongoing EXCEPT ![u] = total_clause_value_mem_ongoing[u] + 1]
         \/ total_clause_value_mem_ongoing' = total_clause_value_mem_ongoing
  BY DEF ReadValue, CountValueRead, tasks
<1>2. QueueTypes'
  BY <1>1 DEF IInv, QueueTypes, envVars
<1>3. ASSUME NEW x \in Unit
      PROVE  Bounded(total_clause_value_mem_ongoing[x], clause_value_ready_queue[x])'
  <2>1. Bounded(total_clause_value_mem_ongoing[x], clause_value_ready_queue[x])
    BY BoundsOfUnits DEF IInv
  <2>2. /\ total_clause_value_mem_ongoing[u] < QueueLimit
        /\ Len(clause_value_ready_queue[u]) < QueueLimit
        /\ total_clause_value_mem_ongoing[u] \in Int
        /\ clause_value_ready_queue[u] \in Seq(ClauseTask)
    BY DEF ReadValue, CanReadValue, RoomToRead, IInv, QueueTypes
  <2>3. Bounded(total_clause_value_mem_ongoing[u] + 1, clause_value_ready_queue[u])
    <3>1. QueueLimit \in Nat /\ Len(clause_value_ready_queue[u]) \in Nat
      BY <2>2, ClauseAssumption, LenProperties
    <3> QED BY <2>2, <3>1 DEF Bounded
  <2>4. \/ total_clause_value_mem_ongoing'[x] = total_clause_value_mem_ongoing[x]
        \/ x = u /\ total_clause_value_mem_ongoing'[x] = total_clause_value_mem_ongoing[u] + 1
    BY <1>1 DEF IInv, QueueTypes
  <2> QED BY <1>1, <2>1, <2>3, <2>4
<1>4. ClauseBounds'
  BY <1>1, <1>3 DEF IInv, ClauseBounds, Bounded
<1> QED BY <1>2, <1>4 DEF IInv

LEMMA StartProcessIInv ==
  ASSUME IInv, NEW u \in Unit, StartProcess(u), UNCHANGED envVars
  PROVE  IInv'
<1>1. /\ clause_value_ready_queue' =
           [clause_value_ready_queue EXCEPT ![u] = Tail(clause_value_ready_queue[u])]
      /\ UNCHANGED <<clause_task_in, clause_data_ready_queue, mem_req_id_to_clause_task,
                     reading_tasks, total_clause_data_mem_ongoing,
                     total_clause_value_mem_ongoing>>
  BY DEF StartProcess, channels, values, ongoing
<1>2. /\ clause_value_ready_queue[u] \in Seq(ClauseTask) /\ clause_value_ready_queue[u] # <<>>
      /\ Head(clause_value_ready_queue[u]) \in ClauseTask
      /\ Tail(clause_value_ready_queue[u]) \in Seq(ClauseTask)
  <2>1. clause_value_ready_queue[u] \in Seq(ClauseTask) /\ clause_value_ready_queue[u] # <<>>
    BY DEF IInv, QueueTypes, StartProcess, CanStart
  <2> QED BY <2>1, ReceivedType
<1>3. Bounded(total_clause_value_mem_ongoing[u], Tail(clause_value_ready_queue[u]))
  <2>1. /\ Bounded(total_clause_value_mem_ongoing[u], clause_value_ready_queue[u])
        /\ total_clause_value_mem_ongoing[u] \in Int
    BY BoundsOfUnits DEF IInv, QueueTypes
  <2> QED BY <1>2, <2>1, BoundedSteps
<1>4. QueueTypes'
  BY <1>1, <1>2 DEF IInv, QueueTypes, envVars
<1>5. ClauseBounds'
  BY <1>1, <1>3 DEF IInv, QueueTypes, ClauseBounds, Bounded
<1> QED BY <1>4, <1>5 DEF IInv

LEMMA ReplyDataIInv ==
  ASSUME IInv, NEW u \in Unit, ReplyData(u), UNCHANGED envVars
  PROVE  IInv'
<1> DEFINE c == Reply(u).task
<1>1. /\ c \in mem_req_id_to_clause_task[u]
      /\ mem_req_id_to_clause_task' =
           [mem_req_id_to_clause_task EXCEPT ![u] = mem_req_id_to_clause_task[u] \ {c}]
      /\ clause_data_ready_queue' =
           [clause_data_ready_queue EXCEPT ![u] = Append(clause_data_ready_queue[u], c)]
      /\ total_clause_data_mem_ongoing' =
           [total_clause_data_mem_ongoing EXCEPT ![u] = total_clause_data_mem_ongoing[u] - 1]
      /\ UNCHANGED <<clause_task_in, clause_value_ready_queue, reading_tasks,
                     total_clause_value_mem_ongoing>>
  BY DEF ReplyData, CountDataReply, values
<1> HIDE DEF c
<1>2. /\ c \in ClauseTask /\ clause_data_ready_queue[u] \in Seq(ClauseTask)
      /\ Append(clause_data_ready_queue[u], c) \in Seq(ClauseTask)
      /\ total_clause_data_mem_ongoing[u] \in Int
  BY <1>1, SentType DEF IInv, QueueTypes
<1>3. Bounded(total_clause_data_mem_ongoing[u] - 1, Append(clause_data_ready_queue[u], c))
  <2>1. Bounded(total_clause_data_mem_ongoing[u], clause_data_ready_queue[u])
    BY BoundsOfUnits DEF IInv
  <2> QED BY <1>2, <2>1, BoundedSteps
<1>4. QueueTypes'
  BY <1>1, <1>2 DEF IInv, QueueTypes, envVars
<1>5. ClauseBounds'
  BY <1>1, <1>3 DEF IInv, QueueTypes, ClauseBounds, Bounded
<1> QED BY <1>4, <1>5 DEF IInv

LEMMA ReplyValueIInv ==
  ASSUME IInv, NEW u \in Unit, ReplyValue(u), UNCHANGED envVars
  PROVE  IInv'
<1>1. /\ total_clause_value_mem_ongoing' =
           [total_clause_value_mem_ongoing EXCEPT ![u] = total_clause_value_mem_ongoing[u] - 1]
      /\ UNCHANGED <<clause_task_in, clause_data_ready_queue, mem_req_id_to_clause_task,
                     total_clause_data_mem_ongoing>>
  BY DEF ReplyValue, CountValueReply
<1>2. PICK c \in ClauseTask :
        \/ /\ reading_tasks' = [reading_tasks EXCEPT ![u] = reading_tasks[u] \ {c}]
           /\ clause_value_ready_queue' =
                [clause_value_ready_queue EXCEPT ![u] = Append(clause_value_ready_queue[u], c)]
        \/ UNCHANGED <<reading_tasks, clause_value_ready_queue>>
  BY DEF ReplyValue
<1>3. /\ clause_value_ready_queue[u] \in Seq(ClauseTask)
      /\ Append(clause_value_ready_queue[u], c) \in Seq(ClauseTask)
      /\ total_clause_value_mem_ongoing[u] \in Int
      /\ IsFiniteSet(reading_tasks[u]) /\ FewRead(reading_tasks[u])
      /\ Bounded(total_clause_value_mem_ongoing[u], clause_value_ready_queue[u])
  BY SentType, BoundsOfUnits DEF IInv, QueueTypes
<1>4. /\ Bounded(total_clause_value_mem_ongoing[u] - 1, clause_value_ready_queue[u])
      /\ Bounded(total_clause_value_mem_ongoing[u] - 1, Append(clause_value_ready_queue[u], c))
      /\ IsFiniteSet(reading_tasks[u] \ {c}) /\ FewRead(reading_tasks[u] \ {c})
  BY <1>3, BoundedSteps, FewReadSteps
<1>5. QueueTypes'
  <2>1. total_clause_value_mem_ongoing' \in [Unit -> Int]
    BY <1>1 DEF IInv, QueueTypes
  <2>2. /\ reading_tasks' \in [Unit -> SUBSET ClauseTask]
        /\ \A x \in Unit : IsFiniteSet(reading_tasks'[x])
        /\ clause_value_ready_queue' \in [Unit -> Seq(ClauseTask)]
    BY <1>2, <1>3, <1>4 DEF IInv, QueueTypes
  <2> QED BY <1>1, <2>1, <2>2 DEF IInv, QueueTypes, envVars
<1>6. ClauseBounds'
  <2>1. ASSUME NEW x \in Unit
        PROVE  /\ Bounded(total_clause_value_mem_ongoing[x], clause_value_ready_queue[x])'
               /\ FewRead(reading_tasks[x])'
    <3>1. /\ Bounded(total_clause_value_mem_ongoing[x], clause_value_ready_queue[x])
          /\ FewRead(reading_tasks[x])
      BY BoundsOfUnits DEF IInv
    <3>2. CASE x = u
      BY <1>1, <1>2, <1>4, <1>3, <3>2 DEF IInv, QueueTypes, Bounded, FewRead
    <3>3. CASE x # u
      BY <1>1, <1>2, <3>1, <3>3 DEF IInv, QueueTypes, Bounded, FewRead
    <3> QED BY <3>2, <3>3
  <2> QED BY <1>1, <2>1 DEF IInv, ClauseBounds, Bounded, FewRead
<1> QED BY <1>5, <1>6 DEF IInv

LEMMA NextIInv == IInv /\ [Next]_vars => IInv'
<1> SUFFICES ASSUME IInv, [Next]_vars PROVE IInv'
  OBVIOUS
<1> DEFINE own == <<clause_data_ready_queue, clause_value_ready_queue,
                    mem_req_id_to_clause_task, reading_tasks,
                    total_clause_data_mem_ongoing, total_clause_value_mem_ongoing>>
<1>1. ASSUME UNCHANGED <<own, clause_task_in, pending>> PROVE IInv'
  BY <1>1 DEF IInv, QueueTypes, ClauseBounds
<1>2. ASSUME UNCHANGED own, ClauseNetworkSends PROVE IInv'
  <2>1. PICK c \in pending :
          clause_task_in' = [clause_task_in EXCEPT ![HomeUnit[c]] =
                               Sent(clause_task_in[HomeUnit[c]], c)]
    BY <1>2 DEF ClauseNetworkSends
  <2>2. c \in ClauseTask /\ HomeUnit[c] \in Unit
    BY EnvAssumption DEF IInv, QueueTypes
  <2>3. clause_task_in' \in [Unit -> Seq(ClauseTask)]
    BY <2>1, <2>2, SentType DEF IInv, QueueTypes
  <2>4. pending' \subseteq pending
    BY <1>2 DEF ClauseNetworkSends
  <2> QED BY <1>2, <2>3, <2>4 DEF IInv, QueueTypes, ClauseBounds
<1>3. CASE EnvNext
  <2>1. UNCHANGED own /\ (ClauseNetworkSends \/ UNCHANGED <<clause_task_in, pending>>)
    BY <1>3 DEF EnvNext, Dispatch, MemoryTakes, OthersSend, envVars, tasks, values, ongoing
  <2> QED BY <1>1, <1>2, <2>1
<1>4. ASSUME NEW u \in Unit, Step(u), UNCHANGED envVars PROVE IInv'
  <2>1. CASE ReadData(u) \/ BeginValues(u) \/ ReadValue(u)
    BY <1>4, <2>1, ReadDataIInv, BeginValuesIInv, ReadValueIInv
  <2>2. CASE Process(u) \/ Skip(u)
    BY <1>1, <1>4, <2>2 DEF Process, Skip, envVars, channels, tasks, values, ongoing
  <2>3. CASE StartProcess(u) \/ ReplyData(u) \/ ReplyValue(u)
    BY <1>4, <2>3, StartProcessIInv, ReplyDataIInv, ReplyValueIInv
  <2> QED BY <1>4, <2>1, <2>2, <2>3 DEF Step
<1>5. ASSUME NEW u \in Unit, NEW d \in Elapsed, Call(u, d), UNCHANGED envVars PROVE IInv'
  BY <1>1, <1>5 DEF Call, envVars, channels, values, ongoing
<1>6. CASE UNCHANGED vars
  BY <1>1, <1>6 DEF vars, envVars, clauseVars, channels, tasks, values, ongoing
<1> QED BY <1>3, <1>4, <1>5, <1>6 DEF Next, UnitNext

(* The separate tests of clause.rs:88, 136 and 208 keep each queue, with the *)
(* reads that will fill it, below twice the limit, and the tasks read at    *)
(* the same time within it, in both modes.                                 *)
THEOREM ClauseQueuesBounded == Spec => []ClauseBounds
<1>1. IInv => ClauseBounds
  BY DEF IInv
<1> QED BY <1>1, InitStart, InitIInv, NextIInv, PTL DEF Spec
-----------------------------------------------------------------------------
(* The other types: what is on its way to and from memory and what is in    *)
(* process.                                                                *)
OtherTypes ==
  /\ pc \in Unit \X Phase
  /\ busy \in [Unit -> BOOLEAN] /\ updated \in [Unit -> BOOLEAN]
  /\ mem_out \in [Pe -> Seq(ClauseReq \cup OtherReq)] /\ mem_in \in [Unit -> Seq(ClauseReq)]
  /\ current_processing_task \in [Unit -> Processing \cup {None}]
  /\ value_reqs \in [Unit -> Seq(AllValueReqs)]
  /\ value_waits \in [Unit -> SUBSET AllValueReqs]
  /\ current_level_finished_tasks \in Nat
  /\ memory \subseteq ClauseReq /\ answered \subseteq ClauseReq

(* Requests name the unit they are answered to.                             *)
LEMMA ReqTypes ==
  /\ AllValueReqs \subseteq ClauseReq
  /\ \A u \in Unit, c \in ClauseTask :
       /\ DataReq(u, c) \in ClauseReq
       /\ ValueReqs(u, c) \in Seq(AllValueReqs) /\ SetOf(ValueReqs(u, c)) \subseteq AllValueReqs
  /\ \A r \in ClauseReq : r.unit \in Unit
<1>1. ASSUME NEW u \in Unit, NEW c \in ClauseTask
      PROVE  /\ DataReq(u, c) \in ClauseReq
             /\ ValueReqs(u, c) \in Seq(AllValueReqs)
             /\ SetOf(ValueReqs(u, c)) \subseteq AllValueReqs
  <2>1. Len(Values[c]) \in Nat
    BY ValuesAssumption
  <2>2. SetOf(ValueReqs(u, c)) \subseteq AllValueReqs
    BY DEF AllValueReqs
  <2>3. ASSUME NEW i \in 1 .. Len(Values[c]) PROVE ValueReq(u, c, i) \in AllValueReqs
    BY <2>2 DEF SetOf, ValueReqs
  <2>4. ValueReqs(u, c) \in Seq(AllValueReqs)
    BY <2>1, <2>3 DEF ValueReqs
  <2> QED BY <2>2, <2>4 DEF ClauseReq, DataReqs
<1>2. ASSUME NEW r \in ClauseReq PROVE r.unit \in Unit
  <2>1. CASE r \in DataReqs
    BY <2>1 DEF DataReqs, DataReq
  <2>2. CASE r \in AllValueReqs
    <3>1. PICK u \in Unit, c \in ClauseTask : r \in SetOf(ValueReqs(u, c))
      BY <2>2 DEF AllValueReqs
    <3>2. PICK i \in DOMAIN ValueReqs(u, c) : r = ValueReqs(u, c)[i]
      BY <3>1 DEF SetOf
    <3>3. r = ValueReq(u, c, i)
      BY <3>2 DEF ValueReqs
    <3> QED BY <3>3 DEF ValueReq
  <2> QED BY <2>1, <2>2 DEF ClauseReq
<1> QED BY <1>1, <1>2 DEF ClauseReq

LEMMA Phases ==
  \A phase \in DOMAIN NextPhase : NextPhase[phase] \in Phase
BY DEF NextPhase, Phase

(* What all steps of a unit do to control.                                 *)
LEMMA ControlTypes ==
  ASSUME OtherTypes, NEW u \in Unit, Step(u)
  PROVE  pc' \in Unit \X Phase /\ busy' \in [Unit -> BOOLEAN] /\ updated' \in [Unit -> BOOLEAN]
<1>1. \E phase \in DOMAIN NextPhase : Done(u, phase)
  BY DEF Step, ReadData, BeginValues, ReadValue, Process, StartProcess, ReplyData, ReplyValue,
         Skip, NextPhase
<1>2. pc' \in Unit \X Phase
  BY <1>1, Phases DEF Done
<1>3. \/ \E b \in BOOLEAN : Report(u, b)
      \/ \E phase \in DOMAIN NextPhase :
           busy' = [busy EXCEPT ![u] = @ \/ StoppedByLimit(u, phase)] /\ updated' = updated
  BY DEF Step, ReadData, BeginValues, ReadValue, Process, StartProcess, ReplyData, ReplyValue,
         Skip
<1>4. \A phase : StoppedByLimit(u, phase) \in BOOLEAN
  BY DEF StoppedByLimit
<1>5. busy' \in [Unit -> BOOLEAN] /\ updated' \in [Unit -> BOOLEAN]
  BY <1>3, <1>4 DEF Report, OtherTypes
<1> QED BY <1>2, <1>5

LEMMA StepTypes ==
  ASSUME QueueTypes, OtherTypes, NEW u \in Unit, Step(u), UNCHANGED envVars
  PROVE  OtherTypes'
<1>0. /\ pc' \in Unit \X Phase /\ busy' \in [Unit -> BOOLEAN] /\ updated' \in [Unit -> BOOLEAN]
      /\ memory' \subseteq ClauseReq /\ answered' \subseteq ClauseReq
  BY ControlTypes DEF OtherTypes, envVars
<1>1. CASE ReadData(u)
  <2>1. Head(clause_task_in[u]) \in ClauseTask
    BY <1>1, ReceivedType DEF ReadData, CanReadData, QueueTypes
  <2>2. mem_out' \in [Pe -> Seq(ClauseReq \cup OtherReq)]
    <3>1. DataReq(u, Head(clause_task_in[u])) \in ClauseReq \cup OtherReq /\ PeOf[u] \in Pe
      BY <2>1, ReqTypes, ClauseAssumption
    <3>2. Sent(mem_out[PeOf[u]], DataReq(u, Head(clause_task_in[u])))
            \in Seq(ClauseReq \cup OtherReq)
      BY <3>1, SentType DEF OtherTypes
    <3> QED BY <1>1, <3>2 DEF ReadData, OtherTypes
  <2> QED BY <1>0, <1>1, <2>2 DEF ReadData, OtherTypes, values
<1>2. CASE BeginValues(u)
  <2> DEFINE c == Head(clause_data_ready_queue[u])
  <2>1. c \in ClauseTask
    BY <1>2, ReceivedType DEF BeginValues, CanBegin, QueueTypes
  <2>2. ValueReqs(u, c) \in Seq(AllValueReqs) /\ SetOf(ValueReqs(u, c)) \subseteq AllValueReqs
    BY <2>1, ReqTypes
  <2>3. /\ value_reqs' = [value_reqs EXCEPT ![u] = value_reqs[u] \o ValueReqs(u, c)]
        /\ \/ value_waits' = value_waits
           \/ value_waits' = [value_waits EXCEPT ![u] = value_waits[u] \cup SetOf(ValueReqs(u, c))]
        /\ UNCHANGED <<mem_out, mem_in, current_processing_task, current_level_finished_tasks>>
    BY <1>2 DEF BeginValues, channels
  <2> HIDE DEF c
  <2>4. value_reqs[u] \o ValueReqs(u, c) \in Seq(AllValueReqs)
    BY <2>2, ConcatProperties DEF OtherTypes
  <2> QED BY <1>0, <2>2, <2>3, <2>4 DEF OtherTypes
<1>3. CASE ReadValue(u)
  <2> DEFINE r == Head(value_reqs[u])
  <2>1. /\ r \in AllValueReqs /\ value_reqs[u] \in Seq(AllValueReqs)
        /\ Tail(value_reqs[u]) \in Seq(AllValueReqs)
        /\ RecvThenRet(value_reqs[u]) = value_reqs[u]
    BY <1>3, ReceivedType, RetRestores DEF ReadValue, CanReadValue, OtherTypes
  <2>2. PeOf[u] \in Pe /\ Sent(mem_out[PeOf[u]], r) \in Seq(ClauseReq \cup OtherReq)
    BY <2>1, ReqTypes, ClauseAssumption, SentType DEF OtherTypes
  <2>3. /\ \/ mem_out' = mem_out
           \/ mem_out' = [mem_out EXCEPT ![PeOf[u]] = Sent(mem_out[PeOf[u]], r)]
        /\ \/ value_reqs' = [value_reqs EXCEPT ![u] = value_reqs[u]]
           \/ value_reqs' = [value_reqs EXCEPT ![u] = Tail(value_reqs[u])]
        /\ \/ value_waits' = value_waits
           \/ value_waits' = [value_waits EXCEPT ![u] = value_waits[u] \cup {r}]
        /\ UNCHANGED <<mem_in, current_processing_task, current_level_finished_tasks>>
    BY <1>3, <2>1 DEF ReadValue, tasks
  <2> HIDE DEF r
  <2>4. mem_out' \in [Pe -> Seq(ClauseReq \cup OtherReq)]
    BY <2>2, <2>3 DEF OtherTypes
  <2>5. value_reqs' \in [Unit -> Seq(AllValueReqs)]
    BY <2>1, <2>3 DEF OtherTypes
  <2>6. value_waits' \in [Unit -> SUBSET AllValueReqs]
    <3>1. value_waits \in [Unit -> SUBSET AllValueReqs]
      BY DEF OtherTypes
    <3>2. (value_waits[u] \cup {r}) \in SUBSET AllValueReqs
      BY <2>1, <3>1
    <3> QED BY <2>3, <3>1, <3>2
  <2> QED BY <1>0, <2>3, <2>4, <2>5, <2>6 DEF OtherTypes
<1>4. CASE Process(u)
  <2>1. /\ current_processing_task' \in [Unit -> Processing \cup {None}]
        /\ current_level_finished_tasks' \in Nat
    <3>1. /\ current_processing_task \in [Unit -> Processing \cup {None}]
          /\ current_level_finished_tasks \in Nat
      BY DEF OtherTypes
    <3>2. \/ UNCHANGED <<current_processing_task, current_level_finished_tasks>>
          \/ /\ current_processing_task' = [current_processing_task EXCEPT ![u] = None]
             /\ current_level_finished_tasks' = current_level_finished_tasks + 1
      BY <1>4 DEF Process
    <3> QED BY <3>1, <3>2
  <2> QED BY <1>0, <1>4, <2>1 DEF Process, OtherTypes, channels, values
<1>5. CASE StartProcess(u)
  <2>1. Head(clause_value_ready_queue[u]) \in ClauseTask
    BY <1>5, ReceivedType DEF StartProcess, CanStart, QueueTypes
  <2>2. [task |-> Head(clause_value_ready_queue[u]),
         left |-> ProcessTime[Head(clause_value_ready_queue[u])]] \in Processing
    BY <2>1, ClauseAssumption DEF Processing
  <2>3. current_processing_task' \in [Unit -> Processing \cup {None}]
    BY <1>5, <2>2 DEF StartProcess, OtherTypes
  <2> QED BY <1>0, <1>5, <2>3 DEF StartProcess, OtherTypes, channels, values
<1>6. CASE ReplyData(u) \/ ReplyValue(u)
  <2>1. Received(mem_in[u]) \in Seq(ClauseReq)
    BY <1>6, ReceivedType DEF ReplyData, ReplyValue, OtherTypes
  <2>2. /\ mem_in' = [mem_in EXCEPT ![u] = Received(mem_in[u])]
        /\ \/ value_waits' = value_waits
           \/ value_waits' = [value_waits EXCEPT ![u] = value_waits[u] \ {Reply(u)}]
        /\ value_reqs' = value_reqs \/ value_reqs' = [value_reqs EXCEPT ![u] = <<>>]
        /\ UNCHANGED <<mem_out, current_processing_task, current_level_finished_tasks>>
    BY <1>6 DEF ReplyData, ReplyValue, values
  <2>3. mem_in' \in [Unit -> Seq(ClauseReq)]
    BY <2>1, <2>2 DEF OtherTypes
  <2>4. value_reqs' \in [Unit -> Seq(AllValueReqs)]
    <3>1. value_reqs \in [Unit -> Seq(AllValueReqs)] /\ <<>> \in Seq(AllValueReqs)
      BY EmptySeq DEF OtherTypes
    <3> QED BY <2>2, <3>1
  <2>5. value_waits' \in [Unit -> SUBSET AllValueReqs]
    <3>1. value_waits \in [Unit -> SUBSET AllValueReqs]
      BY DEF OtherTypes
    <3>2. (value_waits[u] \ {Reply(u)}) \in SUBSET AllValueReqs
      BY <3>1
    <3> QED BY <2>2, <3>1, <3>2
  <2> QED BY <1>0, <2>2, <2>3, <2>4, <2>5 DEF OtherTypes
<1>7. CASE Skip(u)
  BY <1>0, <1>7 DEF Skip, OtherTypes, channels, tasks, values
<1> QED BY <1>1, <1>2, <1>3, <1>4, <1>5, <1>6, <1>7 DEF Step

LEMMA NextTypes == QueueTypes /\ OtherTypes /\ [Next]_vars => OtherTypes'
<1> SUFFICES ASSUME QueueTypes, OtherTypes, [Next]_vars PROVE OtherTypes'
  OBVIOUS
<1>1. CASE OthersSend
  <2>1. PICK p \in Pe, r \in OtherReq : mem_out' = [mem_out EXCEPT ![p] = Sent(mem_out[p], r)]
    BY <1>1 DEF OthersSend
  <2>2. Sent(mem_out[p], r) \in Seq(ClauseReq \cup OtherReq)
    BY SentType DEF OtherTypes
  <2> QED BY <1>1, <2>1, <2>2 DEF OthersSend, OtherTypes, control, tasks, values, envVars
<1>2. CASE MemoryTakes
  <2>1. ASSUME NEW p \in Pe, mem_out[p] # <<>>
        PROVE  /\ Received(mem_out[p]) \in Seq(ClauseReq \cup OtherReq)
               /\ Head(mem_out[p]) \in ClauseReq \cup OtherReq
    BY <2>1, ReceivedType DEF OtherTypes
  <2>2. mem_out' \in [Pe -> Seq(ClauseReq \cup OtherReq)]
    BY <1>2, <2>1, EmptySeq DEF MemoryTakes
  <2>3. memory' \subseteq ClauseReq
    BY <1>2, <2>1 DEF MemoryTakes, OtherTypes
  <2> QED BY <1>2, <2>2, <2>3 DEF MemoryTakes, OtherTypes, control, tasks, values
<1>3. CASE Dispatch
  <2>1. UNCHANGED <<pc, busy, updated, mem_out, current_processing_task, value_reqs, value_waits,
                    current_level_finished_tasks>>
    BY <1>3 DEF Dispatch, control, tasks, values
  <2>2. CASE MemoryReplies
    <3>1. PICK r \in memory : /\ mem_in' = [mem_in EXCEPT ![r.unit] = Sent(mem_in[r.unit], r)]
                              /\ memory' = memory \ {r}
                              /\ answered' = answered \cup {r}
      BY <2>2 DEF MemoryReplies
    <3>2. r \in ClauseReq /\ r.unit \in Unit
      BY ReqTypes DEF OtherTypes
    <3>3. Sent(mem_in[r.unit], r) \in Seq(ClauseReq)
      BY <3>2, SentType DEF OtherTypes
    <3>4. mem_in' \in [Unit -> Seq(ClauseReq)]
      BY <3>1, <3>2, <3>3 DEF OtherTypes
    <3> QED BY <2>1, <3>1, <3>2, <3>4 DEF OtherTypes
  <2>3. CASE UNCHANGED <<mem_in, memory, answered>>
    BY <2>1, <2>3 DEF OtherTypes
  <2> QED BY <1>3, <2>2, <2>3 DEF Dispatch
<1>4. ASSUME NEW u \in Unit, Step(u), UNCHANGED envVars PROVE OtherTypes'
  BY <1>4, StepTypes
<1>5. ASSUME NEW u \in Unit, NEW d \in Elapsed, Call(u, d), UNCHANGED envVars PROVE OtherTypes'
  <2> DEFINE x == current_processing_task[u]
             y == IF x = None THEN None
                  ELSE [task |-> x.task, left |-> IF x.left >= d THEN x.left - d ELSE -1]
  <2>1. x \in Processing \cup {None} /\ d \in Nat
    BY EnvAssumption DEF OtherTypes
  <2>2. y \in Processing \cup {None}
    <3>1. CASE x = None
      BY <3>1
    <3>2. CASE x # None
      <4>1. x.task \in ClauseTask /\ x.left \in Nat \cup {-1}
        BY <2>1, <3>2 DEF Processing
      <4>2. (IF x.left >= d THEN x.left - d ELSE -1) \in Nat \cup {-1}
        BY <2>1, <4>1
      <4> QED BY <3>2, <4>1, <4>2 DEF Processing
    <3> QED BY <3>1, <3>2
  <2>3. current_processing_task' = [current_processing_task EXCEPT ![u] = y]
    BY <1>5 DEF Call, OtherTypes
  <2> HIDE DEF y
  <2>4. current_processing_task' \in [Unit -> Processing \cup {None}]
    BY <2>2, <2>3 DEF OtherTypes
  <2>5. pc' \in Unit \X Phase
    BY <1>5 DEF Call, NextPhase, Phase
  <2> QED BY <1>5, <2>4, <2>5 DEF Call, OtherTypes, envVars, channels, values
<1>6. CASE UNCHANGED vars
  BY <1>6 DEF vars, clauseVars, envVars, control, channels, tasks, values, OtherTypes
<1> QED BY <1>1, <1>2, <1>3, <1>4, <1>5, <1>6 DEF Next, EnvNext, UnitNext

LEMMA InitOtherTypes == Start => OtherTypes
<1> SUFFICES ASSUME Start PROVE OtherTypes
  OBVIOUS
<1>1. pc \in Unit \X Phase
  BY DEF Start, Init, Phase
<1> QED BY <1>1, EmptySeq DEF Start, Init, OtherTypes

(* All states of the clause units are well typed, in both modes: a reply     *)
(* reaches a unit, and what a unit reads and processes are tasks it was sent. *)
THEOREM ClauseTypeCorrect == Spec => []TypeOK
<1>1. IInv => QueueTypes
  BY DEF IInv
<1>2. QueueTypes /\ OtherTypes => TypeOK
  BY DEF QueueTypes, OtherTypes, TypeOK, ClauseTypeOK
<1> QED BY <1>1, <1>2, InitStart, InitOtherTypes, InitIInv, NextIInv, NextTypes, PTL DEF Spec
-----------------------------------------------------------------------------
(* Where a clause task is, until it is finished.                            *)

IsIn(c, a, i) ==
  \/ a = "pending" /\ i = None /\ c \in pending
  \/ a = "in" /\ i \in Unit /\ c \in Range(clause_task_in[i])
  \/ a = "data" /\ i \in Unit /\ c \in mem_req_id_to_clause_task[i]
  \/ a = "data_ready" /\ i \in Unit /\ c \in Range(clause_data_ready_queue[i])
  \/ a = "reading" /\ i \in Unit /\ c \in reading_tasks[i]
  \/ a = "value_ready" /\ i \in Unit /\ c \in Range(clause_value_ready_queue[i])
  \/ /\ a = "process" /\ i \in Unit /\ current_processing_task[i] # None
     /\ current_processing_task[i].task = c

TaskKind == {"pending", "in", "data", "data_ready", "reading", "value_ready", "process"}

LEMMA IsInIs ==
  ASSUME NEW c, NEW i
  PROVE  /\ IsIn(c, "pending", i) <=> i = None /\ c \in pending
         /\ IsIn(c, "in", i) <=> i \in Unit /\ c \in Range(clause_task_in[i])
         /\ IsIn(c, "data", i) <=> i \in Unit /\ c \in mem_req_id_to_clause_task[i]
         /\ IsIn(c, "data_ready", i) <=> i \in Unit /\ c \in Range(clause_data_ready_queue[i])
         /\ IsIn(c, "reading", i) <=> i \in Unit /\ c \in reading_tasks[i]
         /\ IsIn(c, "value_ready", i) <=> i \in Unit /\ c \in Range(clause_value_ready_queue[i])
         /\ IsIn(c, "process", i) <=> /\ i \in Unit /\ current_processing_task[i] # None
                                      /\ current_processing_task[i].task = c
BY DEF IsIn

LEMMA IsInIsNext ==
  ASSUME NEW c, NEW i
  PROVE  /\ IsIn(c, "pending", i)' <=> i = None /\ c \in pending'
         /\ IsIn(c, "in", i)' <=> i \in Unit /\ c \in Range(clause_task_in'[i])
         /\ IsIn(c, "data", i)' <=> i \in Unit /\ c \in mem_req_id_to_clause_task'[i]
         /\ IsIn(c, "data_ready", i)' <=> i \in Unit /\ c \in Range(clause_data_ready_queue'[i])
         /\ IsIn(c, "reading", i)' <=> i \in Unit /\ c \in reading_tasks'[i]
         /\ IsIn(c, "value_ready", i)' <=> i \in Unit /\ c \in Range(clause_value_ready_queue'[i])
         /\ IsIn(c, "process", i)' <=> /\ i \in Unit /\ current_processing_task'[i] # None
                                       /\ current_processing_task'[i].task = c
BY DEF IsIn

LEMMA IsInKind ==
  ASSUME NEW c, NEW i, NEW a
  PROVE  (IsIn(c, a, i) => a \in TaskKind) /\ (IsIn(c, a, i)' => a \in TaskKind)
BY DEF IsIn, TaskKind

OnePlace ==
  \A c \in ClauseTask : \A a, b, i, j : IsIn(c, a, i) /\ IsIn(c, b, j) => a = b /\ i = j

AtHome ==
  \A c \in ClauseTask : \A a, i : IsIn(c, a, i) /\ a # "pending" => i = HomeUnit[c]

NoDoubles ==
  \A u \in Unit : /\ IsInjective(clause_task_in[u]) /\ IsInjective(clause_data_ready_queue[u])
                  /\ IsInjective(clause_value_ready_queue[u])

Gone == {c \in ClauseTask : \A a, i : ~IsIn(c, a, i)}

Counted == IsFiniteSet(Gone) /\ current_level_finished_tasks = Cardinality(Gone)

PInv == OnePlace /\ AtHome /\ NoDoubles

(* The three things a step can do to the places of the tasks.               *)
Stays == \A q \in ClauseTask : \A k, l : IsIn(q, k, l)' <=> IsIn(q, k, l)

Moves(c, a, i, b, j) ==
  /\ c \in ClauseTask /\ IsIn(c, a, i) /\ b # "pending" /\ j = HomeUnit[c]
  /\ \A q \in ClauseTask : \A k, l :
       IsIn(q, k, l)' <=> IF q = c THEN k = b /\ l = j ELSE IsIn(q, k, l)

Leaves(c) ==
  /\ c \in ClauseTask /\ \E i : IsIn(c, "process", i)
  /\ \A q \in ClauseTask : \A k, l : IsIn(q, k, l)' <=> q # c /\ IsIn(q, k, l)

(* It is enough to say what each kind of place holds after the step.        *)
LEMMA MovesFrom ==
  ASSUME OnePlace, NEW c \in ClauseTask, NEW a, NEW i, NEW b, NEW j, a # b,
         b # "pending", j = HomeUnit[c], IsIn(c, a, i), IsIn(c, b, j)',
         \A q \in ClauseTask : \A k \in TaskKind : \A l :
           IsIn(q, k, l)' <=> \/ q = c /\ k = b /\ l = j
                              \/ IsIn(q, k, l) /\ ~(q = c /\ k = a /\ l = i)
  PROVE  Moves(c, a, i, b, j)
<1>1. \A k, l : IsIn(c, k, l) => k = a /\ l = i
  BY DEF OnePlace
<1>2. ASSUME NEW q \in ClauseTask, NEW k, NEW l
      PROVE  IsIn(q, k, l)' <=> IF q = c THEN k = b /\ l = j ELSE IsIn(q, k, l)
  <2>1. CASE q = c
    BY <1>1, <2>1, IsInKind
  <2>2. CASE q # c
    BY <2>2, IsInKind
  <2> QED BY <2>1, <2>2
<1> QED BY <1>2 DEF Moves

LEMMA StaysPlaces ==
  ASSUME OnePlace, AtHome, Stays
  PROVE  OnePlace' /\ AtHome' /\ Gone' = Gone
<1>1. Gone' = Gone
  BY DEF Stays, Gone
<1>2. OnePlace' /\ AtHome'
  BY DEF OnePlace, AtHome, Stays
<1> QED BY <1>1, <1>2

LEMMA MovesPlaces ==
  ASSUME OnePlace, AtHome, NEW c, NEW a, NEW i, NEW b, NEW j, Moves(c, a, i, b, j)
  PROVE  OnePlace' /\ AtHome' /\ Gone' = Gone
<1>1. Gone' = Gone
  BY DEF Moves, Gone
<1>2. OnePlace' /\ AtHome'
  BY DEF OnePlace, AtHome, Moves
<1> QED BY <1>1, <1>2

LEMMA LeavesPlaces ==
  ASSUME OnePlace, AtHome, NEW c, Leaves(c)
  PROVE  OnePlace' /\ AtHome' /\ Gone' = Gone \cup {c} /\ c \notin Gone
<1>1. Gone' = Gone \cup {c} /\ c \notin Gone
  BY DEF Leaves, Gone
<1>2. OnePlace' /\ AtHome'
  BY DEF OnePlace, AtHome, Leaves
<1> QED BY <1>1, <1>2

LEMMA StaysFrom ==
  ASSUME UNCHANGED <<pending, clause_task_in, mem_req_id_to_clause_task,
                     clause_data_ready_queue, reading_tasks, clause_value_ready_queue>>,
         \A u \in Unit : \/ current_processing_task'[u] = current_processing_task[u]
                         \/ /\ current_processing_task'[u] # None
                            /\ current_processing_task[u] # None
                            /\ current_processing_task'[u].task = current_processing_task[u].task
  PROVE  Stays /\ (NoDoubles => NoDoubles')
<1>1. ASSUME NEW q, NEW k, NEW l
      PROVE  IsIn(q, k, l)' <=> IsIn(q, k, l)
  <2>1. CASE k = "process"
    BY <2>1, IsInIs, IsInIsNext
  <2>2. CASE k \in TaskKind \ {"process"}
    BY <2>2, IsInIs, IsInIsNext DEF TaskKind
  <2>3. CASE k \notin TaskKind
    BY <2>3, IsInKind
  <2> QED BY <2>1, <2>2, <2>3
<1> QED BY <1>1 DEF Stays, NoDoubles

LEMMA ClauseNetworkSendsPlaces ==
  ASSUME TypeOK, PInv, ClauseNetworkSends, UNCHANGED tasks, UNCHANGED values
  PROVE  NoDoubles' /\ \E c : Moves(c, "pending", None, "in", HomeUnit[c])
<1>1. PICK c \in pending :
        /\ clause_task_in' = [clause_task_in EXCEPT ![HomeUnit[c]] =
                                Append(clause_task_in[HomeUnit[c]], c)]
        /\ pending' = pending \ {c}
  BY DEF ClauseNetworkSends, Sent
<1>2. PICK u \in Unit : u = HomeUnit[c]
  BY <1>1, EnvAssumption DEF TypeOK
<1>3. /\ clause_task_in \in [Unit -> Seq(ClauseTask)] /\ clause_task_in[u] \in Seq(ClauseTask)
      /\ c \in ClauseTask
      /\ UNCHANGED <<mem_req_id_to_clause_task, clause_data_ready_queue, reading_tasks,
                     clause_value_ready_queue, current_processing_task>>
  BY DEF ClauseNetworkSends, TypeOK, ClauseTypeOK, tasks, values
<1>4. IsIn(c, "pending", None) /\ c \notin Range(clause_task_in[u])
  <2>1. IsIn(c, "pending", None) /\ (c \in Range(clause_task_in[u]) => IsIn(c, "in", u))
    BY <1>3, IsInIs
  <2> QED BY <1>3, <2>1 DEF PInv, OnePlace
<1>5. /\ Range(Append(clause_task_in[u], c)) = Range(clause_task_in[u]) \cup {c}
      /\ IsInjective(Append(clause_task_in[u], c))
  BY <1>3, <1>4, AppendRange DEF PInv, NoDoubles
<1>6. \A x \in Unit : clause_task_in'[x] = IF x = u THEN Append(clause_task_in[u], c)
                                                    ELSE clause_task_in[x]
  BY <1>1, <1>2, <1>3
<1>7. NoDoubles'
  BY <1>3, <1>5, <1>6 DEF PInv, NoDoubles
<1>8. IsIn(c, "in", u)'
  BY <1>5, <1>6, IsInIsNext
<1>9. ASSUME NEW q \in ClauseTask, NEW k \in TaskKind, NEW l
      PROVE  IsIn(q, k, l)' <=> \/ q = c /\ k = "in" /\ l = u
                                \/ IsIn(q, k, l) /\ ~(q = c /\ k = "pending" /\ l = None)
  <2>1. CASE k = "in"
    BY <1>5, <1>6, <2>1, IsInIs, IsInIsNext
  <2>2. CASE k = "pending"
    BY <1>1, <2>2, IsInIs, IsInIsNext
  <2>3. CASE k \in TaskKind \ {"in", "pending"}
    BY <1>3, <2>3, IsInIs, IsInIsNext DEF TaskKind
  <2> QED BY <2>1, <2>2, <2>3
<1>10. Moves(c, "pending", None, "in", u)
  BY <1>2, <1>3, <1>4, <1>8, <1>9, MovesFrom DEF PInv
<1> QED BY <1>2, <1>7, <1>10

LEMMA ReadDataPlaces ==
  ASSUME TypeOK, PInv, NEW u \in Unit, ReadData(u), UNCHANGED envVars
  PROVE  NoDoubles' /\ (Stays \/ \E c : Moves(c, "in", u, "data", u))
<1>1. PICK c : c = Head(clause_task_in[u])
  OBVIOUS
<1>2. /\ clause_task_in \in [Unit -> Seq(ClauseTask)] /\ clause_task_in[u] \in Seq(ClauseTask)
      /\ clause_task_in[u] # <<>> /\ mem_req_id_to_clause_task \in [Unit -> SUBSET ClauseTask]
      /\ UNCHANGED <<pending, clause_data_ready_queue, reading_tasks,
                     clause_value_ready_queue, current_processing_task>>
  BY DEF ReadData, CanReadData, TypeOK, ClauseTypeOK, envVars, values
<1>3. /\ c \in ClauseTask /\ c \in Range(clause_task_in[u])
      /\ Range(Tail(clause_task_in[u])) = Range(clause_task_in[u]) \ {c}
      /\ IsInjective(Tail(clause_task_in[u]))
  BY <1>1, <1>2, ReceivedType, TailRange DEF PInv, NoDoubles
<1>4. IsIn(c, "in", u) /\ u = HomeUnit[c]
  <2>1. IsIn(c, "in", u)
    BY <1>3, IsInIs
  <2> QED BY <1>3, <2>1 DEF PInv, AtHome
<1>5. \/ UNCHANGED <<clause_task_in, mem_req_id_to_clause_task>>
      \/ /\ clause_task_in' = [clause_task_in EXCEPT ![u] = Tail(clause_task_in[u])]
         /\ mem_req_id_to_clause_task' =
              [mem_req_id_to_clause_task EXCEPT ![u] = mem_req_id_to_clause_task[u] \cup {c}]
  <2>1. RecvThenRet(clause_task_in[u]) = clause_task_in[u]
    BY <1>2, RetRestores
  <2> QED BY <1>1, <1>2, <2>1 DEF ReadData, Received
<1>6. CASE UNCHANGED <<clause_task_in, mem_req_id_to_clause_task>>
  BY <1>2, <1>6, StaysFrom DEF PInv
<1>7. CASE /\ clause_task_in' = [clause_task_in EXCEPT ![u] = Tail(clause_task_in[u])]
           /\ mem_req_id_to_clause_task' =
                [mem_req_id_to_clause_task EXCEPT ![u] = mem_req_id_to_clause_task[u] \cup {c}]
  <2>1. \A x \in Unit :
          /\ clause_task_in'[x] = IF x = u THEN Tail(clause_task_in[u]) ELSE clause_task_in[x]
          /\ mem_req_id_to_clause_task'[x] = IF x = u THEN mem_req_id_to_clause_task[u] \cup {c}
                                                      ELSE mem_req_id_to_clause_task[x]
    BY <1>2, <1>7
  <2>2. NoDoubles'
    BY <1>2, <1>3, <2>1 DEF PInv, NoDoubles
  <2>3. IsIn(c, "data", u)'
    BY <2>1, IsInIsNext
  <2>4. ASSUME NEW q \in ClauseTask, NEW k \in TaskKind, NEW l
        PROVE  IsIn(q, k, l)' <=> \/ q = c /\ k = "data" /\ l = u
                                  \/ IsIn(q, k, l) /\ ~(q = c /\ k = "in" /\ l = u)
    <3>1. CASE k = "in"
      BY <1>3, <2>1, <3>1, IsInIs, IsInIsNext
    <3>2. CASE k = "data"
      BY <2>1, <3>2, IsInIs, IsInIsNext
    <3>3. CASE k \in TaskKind \ {"in", "data"}
      BY <1>2, <3>3, IsInIs, IsInIsNext DEF TaskKind
    <3> QED BY <3>1, <3>2, <3>3
  <2>5. Moves(c, "in", u, "data", u)
    BY <1>3, <1>4, <2>3, <2>4, MovesFrom DEF PInv
  <2> QED BY <2>2, <2>5
<1> QED BY <1>5, <1>6, <1>7

LEMMA BeginValuesPlaces ==
  ASSUME TypeOK, PInv, NEW u \in Unit, NEW c, c = Head(clause_data_ready_queue[u]),
         BeginValues(u), UNCHANGED envVars
  PROVE  NoDoubles' /\ Moves(c, "data_ready", u, "reading", u)
<1>1. /\ clause_data_ready_queue \in [Unit -> Seq(ClauseTask)]
      /\ clause_data_ready_queue[u] \in Seq(ClauseTask) /\ clause_data_ready_queue[u] # <<>>
      /\ clause_data_ready_queue' =
           [clause_data_ready_queue EXCEPT ![u] = Tail(clause_data_ready_queue[u])]
      /\ reading_tasks \in [Unit -> SUBSET ClauseTask]
      /\ reading_tasks' = [reading_tasks EXCEPT ![u] = reading_tasks[u] \cup {c}]
      /\ UNCHANGED <<pending, clause_task_in, mem_req_id_to_clause_task,
                     clause_value_ready_queue, current_processing_task>>
  BY DEF BeginValues, CanBegin, TypeOK, ClauseTypeOK, envVars, channels
<1>2. /\ c \in ClauseTask /\ c \in Range(clause_data_ready_queue[u])
      /\ Range(Tail(clause_data_ready_queue[u])) = Range(clause_data_ready_queue[u]) \ {c}
      /\ IsInjective(Tail(clause_data_ready_queue[u]))
  BY <1>1, ReceivedType, TailRange DEF PInv, NoDoubles
<1>3. IsIn(c, "data_ready", u) /\ u = HomeUnit[c]
  <2>1. IsIn(c, "data_ready", u)
    BY <1>2, IsInIs
  <2> QED BY <1>2, <2>1 DEF PInv, AtHome
<1>4. \A x \in Unit :
        /\ clause_data_ready_queue'[x] = IF x = u THEN Tail(clause_data_ready_queue[u])
                                                  ELSE clause_data_ready_queue[x]
        /\ reading_tasks'[x] = IF x = u THEN reading_tasks[u] \cup {c} ELSE reading_tasks[x]
  BY <1>1
<1>5. NoDoubles'
  BY <1>1, <1>2, <1>4 DEF PInv, NoDoubles
<1>6. IsIn(c, "reading", u)'
  BY <1>4, IsInIsNext
<1>7. ASSUME NEW q \in ClauseTask, NEW k \in TaskKind, NEW l
      PROVE  IsIn(q, k, l)' <=> \/ q = c /\ k = "reading" /\ l = u
                                \/ IsIn(q, k, l) /\ ~(q = c /\ k = "data_ready" /\ l = u)
  <2>1. CASE k = "data_ready"
    BY <1>2, <1>4, <2>1, IsInIs, IsInIsNext
  <2>2. CASE k = "reading"
    BY <1>4, <2>2, IsInIs, IsInIsNext
  <2>3. CASE k \in TaskKind \ {"data_ready", "reading"}
    BY <1>1, <2>3, IsInIs, IsInIsNext DEF TaskKind
  <2> QED BY <2>1, <2>2, <2>3
<1>8. Moves(c, "data_ready", u, "reading", u)
  BY <1>2, <1>3, <1>6, <1>7, MovesFrom DEF PInv
<1> QED BY <1>5, <1>8

LEMMA StartProcessPlaces ==
  ASSUME TypeOK, PInv, NEW u \in Unit, StartProcess(u), UNCHANGED envVars
  PROVE  NoDoubles' /\ \E c : Moves(c, "value_ready", u, "process", u)
<1>1. PICK c : c = Head(clause_value_ready_queue[u])
  OBVIOUS
<1>2. /\ clause_value_ready_queue \in [Unit -> Seq(ClauseTask)]
      /\ clause_value_ready_queue[u] \in Seq(ClauseTask) /\ clause_value_ready_queue[u] # <<>>
      /\ clause_value_ready_queue' =
           [clause_value_ready_queue EXCEPT ![u] = Tail(clause_value_ready_queue[u])]
      /\ current_processing_task \in [Unit -> Processing \cup {None}]
      /\ current_processing_task[u] = None
      /\ current_processing_task' =
           [current_processing_task EXCEPT ![u] = [task |-> c, left |-> ProcessTime[c]]]
      /\ UNCHANGED <<pending, clause_task_in, mem_req_id_to_clause_task,
                     clause_data_ready_queue, reading_tasks>>
  BY <1>1 DEF StartProcess, CanStart, TypeOK, ClauseTypeOK, envVars, channels, values
<1>3. /\ c \in ClauseTask /\ c \in Range(clause_value_ready_queue[u])
      /\ Range(Tail(clause_value_ready_queue[u])) = Range(clause_value_ready_queue[u]) \ {c}
      /\ IsInjective(Tail(clause_value_ready_queue[u]))
  BY <1>1, <1>2, ReceivedType, TailRange DEF PInv, NoDoubles
<1>4. IsIn(c, "value_ready", u) /\ u = HomeUnit[c]
  <2>1. IsIn(c, "value_ready", u)
    BY <1>3, IsInIs
  <2> QED BY <1>3, <2>1 DEF PInv, AtHome
<1>5. PICK y : y = [task |-> c, left |-> ProcessTime[c]]
  OBVIOUS
<1>6. y # None /\ y.task = c
  BY <1>3, <1>5, ClauseAssumption, EnvAssumption DEF Processing
<1>7. \A x \in Unit :
        /\ clause_value_ready_queue'[x] = IF x = u THEN Tail(clause_value_ready_queue[u])
                                                   ELSE clause_value_ready_queue[x]
        /\ current_processing_task'[x] = IF x = u THEN y ELSE current_processing_task[x]
  BY <1>2, <1>5
<1>8. NoDoubles'
  BY <1>2, <1>3, <1>7 DEF PInv, NoDoubles
<1>9. IsIn(c, "process", u)'
  BY <1>6, <1>7, IsInIsNext
<1>10. ASSUME NEW q \in ClauseTask, NEW k \in TaskKind, NEW l
       PROVE  IsIn(q, k, l)' <=> \/ q = c /\ k = "process" /\ l = u
                                 \/ IsIn(q, k, l) /\ ~(q = c /\ k = "value_ready" /\ l = u)
  <2>1. CASE k = "value_ready"
    BY <1>3, <1>7, <2>1, IsInIs, IsInIsNext
  <2>2. CASE k = "process"
    BY <1>2, <1>6, <1>7, <2>2, IsInIs, IsInIsNext
  <2>3. CASE k \in TaskKind \ {"value_ready", "process"}
    BY <1>2, <2>3, IsInIs, IsInIsNext DEF TaskKind
  <2> QED BY <2>1, <2>2, <2>3
<1>11. Moves(c, "value_ready", u, "process", u)
  BY <1>3, <1>4, <1>9, <1>10, MovesFrom DEF PInv
<1> QED BY <1>8, <1>11

LEMMA ReplyDataPlaces ==
  ASSUME TypeOK, PInv, NEW u \in Unit, ReplyData(u), UNCHANGED envVars
  PROVE  NoDoubles' /\ \E c : Moves(c, "data", u, "data_ready", u)
<1>1. PICK c : c = Reply(u).task
  OBVIOUS
<1>2. /\ mem_req_id_to_clause_task \in [Unit -> SUBSET ClauseTask]
      /\ c \in mem_req_id_to_clause_task[u] /\ c \in ClauseTask
      /\ mem_req_id_to_clause_task' =
           [mem_req_id_to_clause_task EXCEPT ![u] = mem_req_id_to_clause_task[u] \ {c}]
      /\ clause_data_ready_queue \in [Unit -> Seq(ClauseTask)]
      /\ clause_data_ready_queue[u] \in Seq(ClauseTask)
      /\ clause_data_ready_queue' =
           [clause_data_ready_queue EXCEPT ![u] = Append(clause_data_ready_queue[u], c)]
      /\ UNCHANGED <<pending, clause_task_in, clause_value_ready_queue,
                     current_processing_task, reading_tasks>>
  BY <1>1 DEF ReplyData, TypeOK, ClauseTypeOK, envVars, values
<1>3. IsIn(c, "data", u) /\ u = HomeUnit[c] /\ c \notin Range(clause_data_ready_queue[u])
  <2>1. IsIn(c, "data", u) /\ (c \in Range(clause_data_ready_queue[u]) => IsIn(c, "data_ready", u))
    BY <1>2, IsInIs
  <2> QED BY <1>2, <2>1 DEF PInv, AtHome, OnePlace
<1>4. /\ Range(Append(clause_data_ready_queue[u], c)) = Range(clause_data_ready_queue[u]) \cup {c}
      /\ IsInjective(Append(clause_data_ready_queue[u], c))
  BY <1>2, <1>3, AppendRange DEF PInv, NoDoubles
<1>5. \A x \in Unit :
        /\ mem_req_id_to_clause_task'[x] = IF x = u THEN mem_req_id_to_clause_task[u] \ {c}
                                                    ELSE mem_req_id_to_clause_task[x]
        /\ clause_data_ready_queue'[x] = IF x = u THEN Append(clause_data_ready_queue[u], c)
                                                  ELSE clause_data_ready_queue[x]
  BY <1>2
<1>6. NoDoubles'
  BY <1>2, <1>4, <1>5 DEF PInv, NoDoubles
<1>7. IsIn(c, "data_ready", u)'
  BY <1>4, <1>5, IsInIsNext
<1>8. ASSUME NEW q \in ClauseTask, NEW k \in TaskKind, NEW l
      PROVE  IsIn(q, k, l)' <=> \/ q = c /\ k = "data_ready" /\ l = u
                                \/ IsIn(q, k, l) /\ ~(q = c /\ k = "data" /\ l = u)
  <2>1. CASE k = "data"
    BY <1>5, <2>1, IsInIs, IsInIsNext
  <2>2. CASE k = "data_ready"
    BY <1>4, <1>5, <2>2, IsInIs, IsInIsNext
  <2>3. CASE k \in TaskKind \ {"data", "data_ready"}
    BY <1>2, <2>3, IsInIs, IsInIsNext DEF TaskKind
  <2> QED BY <2>1, <2>2, <2>3
<1>9. Moves(c, "data", u, "data_ready", u)
  BY <1>2, <1>3, <1>7, <1>8, MovesFrom DEF PInv
<1> QED BY <1>6, <1>9

LEMMA ReplyValuePlaces ==
  ASSUME TypeOK, PInv, NEW u \in Unit, ReplyValue(u), UNCHANGED envVars
  PROVE  NoDoubles' /\ (Stays \/ \E c : Moves(c, "reading", u, "value_ready", u))
<1>1. PICK c \in ClauseTask :
        /\ c \in reading_tasks[u]
        /\ \/ /\ reading_tasks' = [reading_tasks EXCEPT ![u] = reading_tasks[u] \ {c}]
              /\ clause_value_ready_queue' =
                   [clause_value_ready_queue EXCEPT ![u] = Append(clause_value_ready_queue[u], c)]
           \/ UNCHANGED <<reading_tasks, clause_value_ready_queue>>
  BY DEF ReplyValue, ReplyFor
<1>2. /\ reading_tasks \in [Unit -> SUBSET ClauseTask]
      /\ clause_value_ready_queue \in [Unit -> Seq(ClauseTask)]
      /\ clause_value_ready_queue[u] \in Seq(ClauseTask)
      /\ UNCHANGED <<pending, clause_task_in, mem_req_id_to_clause_task,
                     current_processing_task, clause_data_ready_queue>>
  BY DEF ReplyValue, TypeOK, ClauseTypeOK, envVars
<1>3. CASE UNCHANGED <<reading_tasks, clause_value_ready_queue>>
  BY <1>2, <1>3, StaysFrom DEF PInv
<1>4. CASE /\ reading_tasks' = [reading_tasks EXCEPT ![u] = reading_tasks[u] \ {c}]
           /\ clause_value_ready_queue' =
                [clause_value_ready_queue EXCEPT ![u] = Append(clause_value_ready_queue[u], c)]
  <2>1. IsIn(c, "reading", u) /\ u = HomeUnit[c] /\ c \notin Range(clause_value_ready_queue[u])
    <3>1. /\ IsIn(c, "reading", u)
          /\ c \in Range(clause_value_ready_queue[u]) => IsIn(c, "value_ready", u)
      BY <1>1, IsInIs
    <3> QED BY <3>1 DEF PInv, AtHome, OnePlace
  <2>2. /\ Range(Append(clause_value_ready_queue[u], c)) =
             Range(clause_value_ready_queue[u]) \cup {c}
        /\ IsInjective(Append(clause_value_ready_queue[u], c))
    BY <1>2, <2>1, AppendRange DEF PInv, NoDoubles
  <2>3. \A x \in Unit :
          /\ reading_tasks'[x] = IF x = u THEN reading_tasks[u] \ {c} ELSE reading_tasks[x]
          /\ clause_value_ready_queue'[x] = IF x = u THEN Append(clause_value_ready_queue[u], c)
                                                     ELSE clause_value_ready_queue[x]
    BY <1>2, <1>4
  <2>4. NoDoubles'
    BY <1>2, <2>2, <2>3 DEF PInv, NoDoubles
  <2>5. IsIn(c, "value_ready", u)'
    BY <2>2, <2>3, IsInIsNext
  <2>6. ASSUME NEW q \in ClauseTask, NEW k \in TaskKind, NEW l
        PROVE  IsIn(q, k, l)' <=> \/ q = c /\ k = "value_ready" /\ l = u
                                  \/ IsIn(q, k, l) /\ ~(q = c /\ k = "reading" /\ l = u)
    <3>1. CASE k = "reading"
      BY <2>3, <3>1, IsInIs, IsInIsNext
    <3>2. CASE k = "value_ready"
      BY <2>2, <2>3, <3>2, IsInIs, IsInIsNext
    <3>3. CASE k \in TaskKind \ {"reading", "value_ready"}
      BY <1>2, <3>3, IsInIs, IsInIsNext DEF TaskKind
    <3> QED BY <3>1, <3>2, <3>3
  <2>7. Moves(c, "reading", u, "value_ready", u)
    BY <2>1, <2>5, <2>6, MovesFrom DEF PInv
  <2> QED BY <2>4, <2>7
<1> QED BY <1>1, <1>3, <1>4

LEMMA ProcessPlaces ==
  ASSUME TypeOK, PInv, NEW u \in Unit, Process(u), UNCHANGED envVars
  PROVE  /\ NoDoubles'
         /\ \/ Stays /\ current_level_finished_tasks' = current_level_finished_tasks
            \/ /\ \E c : Leaves(c)
               /\ current_level_finished_tasks' = current_level_finished_tasks + 1
<1>1. /\ UNCHANGED <<pending, clause_task_in, mem_req_id_to_clause_task,
                     clause_data_ready_queue, reading_tasks, clause_value_ready_queue>>
      /\ current_processing_task \in [Unit -> Processing \cup {None}]
      /\ current_processing_task[u] # None
  BY DEF Process, TypeOK, ClauseTypeOK, envVars, channels, values
<1>2. CASE UNCHANGED <<current_processing_task, current_level_finished_tasks>>
  BY <1>1, <1>2, StaysFrom DEF PInv
<1>3. CASE /\ current_processing_task' = [current_processing_task EXCEPT ![u] = None]
           /\ current_level_finished_tasks' = current_level_finished_tasks + 1
  <2>1. PICK c : c = current_processing_task[u].task
    OBVIOUS
  <2>2. c \in ClauseTask /\ IsIn(c, "process", u)
    BY <1>1, <2>1, IsInIs DEF Processing
  <2>3. \A a, i : IsIn(c, a, i) => a = "process" /\ i = u
    BY <2>2 DEF PInv, OnePlace
  <2>4. \A x \in Unit : current_processing_task'[x] = IF x = u THEN None
                                                             ELSE current_processing_task[x]
    BY <1>1, <1>3
  <2>5. ASSUME NEW q \in ClauseTask, NEW k, NEW l
        PROVE  IsIn(q, k, l)' <=> q # c /\ IsIn(q, k, l)
    <3>1. CASE k = "process"
      BY <1>1, <2>1, <2>3, <2>4, <3>1, IsInIs, IsInIsNext
    <3>2. CASE k \in TaskKind \ {"process"}
      BY <1>1, <2>3, <3>2, IsInIs, IsInIsNext DEF TaskKind
    <3>3. CASE k \notin TaskKind
      BY <3>3, IsInKind
    <3> QED BY <3>1, <3>2, <3>3
  <2>6. Leaves(c)
    BY <2>2, <2>5 DEF Leaves
  <2>7. NoDoubles'
    BY <1>1 DEF PInv, NoDoubles
  <2> QED BY <1>3, <2>6, <2>7
<1> QED BY <1>2, <1>3 DEF Process

EarlyKind == {"pending", "in", "data", "data_ready"}

\* Every step but BeginValues, which takes a task out of the early places.
Placed ==
  \/ Stays /\ current_level_finished_tasks' = current_level_finished_tasks
  \/ /\ \E c, a, i, b, j : Moves(c, a, i, b, j) /\ (a \in EarlyKind => b \in EarlyKind)
     /\ current_level_finished_tasks' = current_level_finished_tasks
  \/ /\ \E c : Leaves(c)
     /\ current_level_finished_tasks' = current_level_finished_tasks + 1

LEMMA OtherStepsStay ==
  ASSUME TypeOK, PInv,
         \/ MemoryTakes \/ OthersSend \/ UNCHANGED vars
         \/ Dispatch /\ UNCHANGED <<clause_task_in, pending>>
         \/ \E u \in Unit : /\ ReadValue(u) \/ Skip(u) \/ \E d \in Elapsed : Call(u, d)
                            /\ UNCHANGED envVars
  PROVE  /\ NoDoubles' /\ Stays
         /\ current_level_finished_tasks' = current_level_finished_tasks
<1>1. /\ UNCHANGED <<pending, clause_task_in, mem_req_id_to_clause_task,
                     clause_data_ready_queue, reading_tasks, clause_value_ready_queue>>
      /\ current_level_finished_tasks' = current_level_finished_tasks
  BY DEF MemoryTakes, OthersSend, Dispatch, ReadValue, Skip, Call, vars, envVars, clauseVars,
         channels, tasks, values
<1>2. \A x \in Unit : \/ current_processing_task'[x] = current_processing_task[x]
                      \/ /\ current_processing_task'[x] # None
                         /\ current_processing_task[x] # None
                         /\ current_processing_task'[x].task = current_processing_task[x].task
  <2>1. ASSUME NEW u \in Unit, NEW d \in Elapsed, Call(u, d), NEW x \in Unit, x = u,
               current_processing_task[u] # None
        PROVE  /\ current_processing_task'[u] # None
               /\ current_processing_task'[u].task = current_processing_task[u].task
    <3>1. PICK y : y = [task |-> current_processing_task[u].task,
                        left |-> IF current_processing_task[u].left >= d
                                   THEN current_processing_task[u].left - d ELSE -1]
      OBVIOUS
    <3>2. /\ current_processing_task \in [Unit -> Processing \cup {None}]
          /\ current_processing_task[u] \in Processing /\ d \in Nat
      BY <2>1, EnvAssumption DEF TypeOK, ClauseTypeOK
    <3>3. current_processing_task'[u] = y
      BY <2>1, <3>1, <3>2 DEF Call
    <3>4. y \in Processing
      BY <3>1, <3>2 DEF Processing
    <3> QED BY <3>1, <3>3, <3>4, EnvAssumption
  <2>2. ASSUME NEW u \in Unit, NEW d \in Elapsed, Call(u, d), NEW x \in Unit,
               x # u \/ current_processing_task[u] = None
        PROVE  current_processing_task'[x] = current_processing_task[x]
    BY <2>2 DEF Call, TypeOK, ClauseTypeOK
  <2>3. ASSUME ~ \E u \in Unit : \E d \in Elapsed : Call(u, d)
        PROVE  current_processing_task' = current_processing_task
    BY <2>3 DEF MemoryTakes, OthersSend, Dispatch, ReadValue, Skip, vars, envVars, clauseVars,
                tasks
  <2> QED BY <2>1, <2>2, <2>3
<1> QED BY <1>1, <1>2, StaysFrom DEF PInv

LEMMA NextPlaced ==
  ASSUME TypeOK, PInv, [Next]_vars
  PROVE  /\ NoDoubles'
         /\ \/ Placed
            \/ \E u \in Unit : \E c :
                 /\ BeginValues(u) /\ UNCHANGED envVars /\ c = Head(clause_data_ready_queue[u])
                 /\ Moves(c, "data_ready", u, "reading", u)
                 /\ current_level_finished_tasks' = current_level_finished_tasks
<1>0. \A a, b : a \in EarlyKind /\ b \in {"in", "data", "data_ready"} => b \in EarlyKind
  BY DEF EarlyKind
<1>1. CASE Dispatch /\ ClauseNetworkSends
  <2>1. UNCHANGED tasks /\ UNCHANGED values
        /\ current_level_finished_tasks' = current_level_finished_tasks
    BY <1>1 DEF Dispatch, tasks
  <2>2. NoDoubles' /\ \E c : Moves(c, "pending", None, "in", HomeUnit[c])
    BY <1>1, <2>1, ClauseNetworkSendsPlaces
  <2>3. "in" \in EarlyKind
    BY DEF EarlyKind
  <2> QED BY <2>1, <2>2, <2>3 DEF Placed
<1>2. CASE \/ MemoryTakes \/ OthersSend \/ UNCHANGED vars
           \/ Dispatch /\ UNCHANGED <<clause_task_in, pending>>
  BY <1>2, OtherStepsStay DEF Placed
<1>3. ASSUME NEW u \in Unit, NEW d \in Elapsed, Call(u, d), UNCHANGED envVars
      PROVE  NoDoubles' /\ Placed
  BY <1>3, OtherStepsStay DEF Placed
<1>4. ASSUME NEW u \in Unit, ReadValue(u) \/ Skip(u), UNCHANGED envVars
      PROVE  NoDoubles' /\ Placed
  BY <1>4, OtherStepsStay DEF Placed
<1>5. ASSUME NEW u \in Unit, ReadData(u), UNCHANGED envVars
      PROVE  NoDoubles' /\ Placed
  <2>1. current_level_finished_tasks' = current_level_finished_tasks
    BY <1>5 DEF ReadData
  <2>2. NoDoubles' /\ (Stays \/ \E c : Moves(c, "in", u, "data", u))
    BY <1>5, ReadDataPlaces
  <2>3. "data" \in EarlyKind
    BY DEF EarlyKind
  <2> QED BY <2>1, <2>2, <2>3 DEF Placed
<1>6. ASSUME NEW u \in Unit, ReplyData(u), UNCHANGED envVars
      PROVE  NoDoubles' /\ Placed
  <2>1. current_level_finished_tasks' = current_level_finished_tasks
    BY <1>6 DEF ReplyData
  <2>2. NoDoubles' /\ \E c : Moves(c, "data", u, "data_ready", u)
    BY <1>6, ReplyDataPlaces
  <2>3. "data_ready" \in EarlyKind
    BY DEF EarlyKind
  <2> QED BY <2>1, <2>2, <2>3 DEF Placed
<1>7. ASSUME NEW u \in Unit, ReplyValue(u), UNCHANGED envVars
      PROVE  NoDoubles' /\ Placed
  <2>1. current_level_finished_tasks' = current_level_finished_tasks
    BY <1>7 DEF ReplyValue
  <2>2. NoDoubles' /\ (Stays \/ \E c : Moves(c, "reading", u, "value_ready", u))
    BY <1>7, ReplyValuePlaces
  <2>3. "reading" \notin EarlyKind
    BY DEF EarlyKind
  <2> QED BY <2>1, <2>2, <2>3 DEF Placed
<1>8. ASSUME NEW u \in Unit, StartProcess(u), UNCHANGED envVars
      PROVE  NoDoubles' /\ Placed
  <2>1. current_level_finished_tasks' = current_level_finished_tasks
    BY <1>8 DEF StartProcess
  <2>2. NoDoubles' /\ \E c : Moves(c, "value_ready", u, "process", u)
    BY <1>8, StartProcessPlaces
  <2>3. "value_ready" \notin EarlyKind
    BY DEF EarlyKind
  <2> QED BY <2>1, <2>2, <2>3 DEF Placed
<1>9. ASSUME NEW u \in Unit, Process(u), UNCHANGED envVars
      PROVE  NoDoubles' /\ Placed
  BY <1>9, ProcessPlaces DEF Placed
<1>10. ASSUME NEW u \in Unit, BeginValues(u), UNCHANGED envVars
       PROVE  /\ NoDoubles'
              /\ Moves(Head(clause_data_ready_queue[u]), "data_ready", u, "reading", u)
              /\ current_level_finished_tasks' = current_level_finished_tasks
  <2>1. PICK c : c = Head(clause_data_ready_queue[u])
    OBVIOUS
  <2>2. NoDoubles' /\ Moves(c, "data_ready", u, "reading", u)
    BY <1>10, <2>1, BeginValuesPlaces
  <2> QED BY <1>10, <2>1, <2>2 DEF BeginValues
<1> QED BY <1>1, <1>2, <1>3, <1>4, <1>5, <1>6, <1>7, <1>8, <1>9, <1>10
        DEF Next, EnvNext, Dispatch, UnitNext, Step

LEMMA NextPInv == TypeOK /\ PInv /\ [Next]_vars => PInv'
<1> SUFFICES ASSUME TypeOK, PInv, [Next]_vars PROVE PInv'
  OBVIOUS
<1>1. NoDoubles'
  BY NextPlaced
<1>2. OnePlace' /\ AtHome'
  BY NextPlaced, StaysPlaces, MovesPlaces, LeavesPlaces DEF Placed, PInv
<1> QED BY <1>1, <1>2 DEF PInv

LEMMA NextCounted == TypeOK /\ PInv /\ Counted /\ [Next]_vars => Counted'
<1> SUFFICES ASSUME TypeOK, PInv, Counted, [Next]_vars PROVE Counted'
  OBVIOUS
<1>1. \/ Gone' = Gone /\ current_level_finished_tasks' = current_level_finished_tasks
      \/ \E c : /\ Gone' = Gone \cup {c} /\ c \notin Gone
                /\ current_level_finished_tasks' = current_level_finished_tasks + 1
  BY NextPlaced, StaysPlaces, MovesPlaces, LeavesPlaces DEF Placed, PInv
<1> QED BY <1>1, FS_AddElement DEF Counted

LEMMA InitPInv == Start => PInv
<1> SUFFICES ASSUME Start PROVE PInv
  OBVIOUS
<1>1. Range(<<>>) = {} /\ IsInjective(<<>>)
  BY EmptySeq DEF Range, IsInjective
<1>2. \A c \in ClauseTask : \A a, i : IsIn(c, a, i) <=> a = "pending" /\ i = None /\ c \in pending
  BY <1>1 DEF IsIn, Start, Init
<1>3. NoDoubles
  BY <1>1 DEF NoDoubles, Start, Init
<1> QED BY <1>2, <1>3 DEF PInv, OnePlace, AtHome

LEMMA InitCounted == EnvInit => Counted
<1> SUFFICES ASSUME EnvInit PROVE Counted
  OBVIOUS
<1>1. \A c \in ClauseTask : IsIn(c, "pending", None)
  BY DEF IsIn, EnvInit
<1>2. Gone = {} /\ current_level_finished_tasks = 0
  BY <1>1 DEF Gone, EnvInit, Init
<1> QED BY <1>2, FS_EmptySet DEF Counted

\* What a unit holds of a task, by the kind of the place.
LEMMA HeldByIs ==
  ASSUME TypeOK, PInv, NEW c \in ClauseTask, NEW u \in Unit
  PROVE  /\ \A x \in HeldBy(c, u) : x[1] # "pending" /\ IsIn(c, x[1], u)
         /\ \A x, y \in HeldBy(c, u) : x[1] = y[1] => x = y
         /\ \A a \in TaskKind \ {"pending"} : IsIn(c, a, u) => HeldBy(c, u) # {}
<1>1. PICK I, D, R, G, V, P :
        /\ I = Indices(clause_task_in[u], c)
        /\ D = {c} \cap mem_req_id_to_clause_task[u]
        /\ R = Indices(clause_data_ready_queue[u], c)
        /\ G = {c} \cap reading_tasks[u]
        /\ V = Indices(clause_value_ready_queue[u], c)
        /\ P = {x \in {current_processing_task[u]} \ {None} : x.task = c}
  OBVIOUS
<1>2. HeldBy(c, u) = ({"in"} \X I) \cup ({"data"} \X D) \cup ({"data_ready"} \X R)
                       \cup ({"reading"} \X G) \cup ({"value_ready"} \X V) \cup ({"process"} \X P)
  BY <1>1 DEF HeldBy
<1>3. /\ I # {} <=> IsIn(c, "in", u)
      /\ R # {} <=> IsIn(c, "data_ready", u)
      /\ V # {} <=> IsIn(c, "value_ready", u)
  BY <1>1, IsInIs DEF Indices, Range
<1>4. /\ D # {} <=> IsIn(c, "data", u)
      /\ G # {} <=> IsIn(c, "reading", u)
      /\ P # {} <=> IsIn(c, "process", u)
  BY <1>1, IsInIs
<1>5. \A S \in {I, D, R, G, V, P} : \A k, l \in S : k = l
  <2>1. \A k, l \in I : k = l
    BY <1>1 DEF Indices, PInv, NoDoubles, IsInjective
  <2>2. \A k, l \in R : k = l
    BY <1>1 DEF Indices, PInv, NoDoubles, IsInjective
  <2>3. \A k, l \in V : k = l
    BY <1>1 DEF Indices, PInv, NoDoubles, IsInjective
  <2>4. (\A k, l \in D : k = l) /\ (\A k, l \in G : k = l) /\ (\A k, l \in P : k = l)
    BY <1>1
  <2> QED BY <2>1, <2>2, <2>3, <2>4
<1>6. ASSUME NEW x \in HeldBy(c, u)
      PROVE  /\ x = <<x[1], x[2]>> /\ x[1] # "pending" /\ IsIn(c, x[1], u)
             /\ x[2] \in CASE x[1] = "in" -> I [] x[1] = "data" -> D [] x[1] = "data_ready" -> R
                           [] x[1] = "reading" -> G [] x[1] = "value_ready" -> V [] OTHER -> P
  <2>1. CASE x \in {"in"} \X I
    BY <2>1, <1>3
  <2>2. CASE x \in {"data"} \X D
    BY <2>2, <1>4
  <2>3. CASE x \in {"data_ready"} \X R
    BY <2>3, <1>3
  <2>4. CASE x \in {"reading"} \X G
    BY <2>4, <1>4
  <2>5. CASE x \in {"value_ready"} \X V
    BY <2>5, <1>3
  <2>6. CASE x \in {"process"} \X P
    BY <2>6, <1>4
  <2> QED BY <1>2, <2>1, <2>2, <2>3, <2>4, <2>5, <2>6
<1>7. ASSUME NEW x \in HeldBy(c, u), NEW y \in HeldBy(c, u), x[1] = y[1] PROVE x = y
  <2>1. x[2] = y[2]
    BY <1>5, <1>6, <1>7
  <2> QED BY <1>6, <1>7, <2>1
<1>8. ASSUME NEW b, NEW S, S # {} PROVE {b} \X S # {}
  <2>1. PICK k : k \in S
    BY <1>8
  <2>2. <<b, k>> \in {b} \X S
    BY <2>1
  <2> QED BY <2>2
<1>9. ASSUME NEW a \in TaskKind \ {"pending"}, IsIn(c, a, u) PROVE HeldBy(c, u) # {}
  <2>1. CASE a = "in"
    <3>1. {"in"} \X I # {}
      BY <1>3, <1>9, <1>8, <2>1
    <3> QED BY <1>2, <3>1
  <2>2. CASE a = "data"
    <3>1. {"data"} \X D # {}
      BY <1>4, <1>9, <1>8, <2>2
    <3> QED BY <1>2, <3>1
  <2>3. CASE a = "data_ready"
    <3>1. {"data_ready"} \X R # {}
      BY <1>3, <1>9, <1>8, <2>3
    <3> QED BY <1>2, <3>1
  <2>4. CASE a = "reading"
    <3>1. {"reading"} \X G # {}
      BY <1>4, <1>9, <1>8, <2>4
    <3> QED BY <1>2, <3>1
  <2>5. CASE a = "value_ready"
    <3>1. {"value_ready"} \X V # {}
      BY <1>3, <1>9, <1>8, <2>5
    <3> QED BY <1>2, <3>1
  <2>6. CASE a = "process"
    <3>1. {"process"} \X P # {}
      BY <1>4, <1>9, <1>8, <2>6
    <3> QED BY <1>2, <3>1
  <2> QED BY <2>1, <2>2, <2>3, <2>4, <2>5, <2>6 DEF TaskKind
<1> QED BY <1>6, <1>7, <1>9

LEMMA PlacesAre ==
  ASSUME TypeOK, PInv, NEW c \in ClauseTask
  PROVE  Cardinality(PlacesOf(c)) <= 1 /\ (PlacesOf(c) = {} <=> c \in Gone)
<1>1. PICK W : W = UNION {{u} \X HeldBy(c, u) : u \in Unit}
  OBVIOUS
<1>2. PlacesOf(c) = ({"pending"} \X ({c} \cap pending)) \cup W
  BY <1>1 DEF PlacesOf
<1>3. ASSUME NEW z \in PlacesOf(c)
      PROVE  \/ z = <<"pending", c>> /\ IsIn(c, "pending", None)
             \/ \E u \in Unit : \E x \in HeldBy(c, u) : z = <<u, x>> /\ IsIn(c, x[1], u)
                                                        /\ x[1] # "pending"
  <2>1. CASE z \in {"pending"} \X ({c} \cap pending)
    BY <2>1, IsInIs
  <2>2. CASE z \in W
    <3>1. PICK u \in Unit : z \in {u} \X HeldBy(c, u)
      BY <1>1, <2>2
    <3>2. PICK x \in HeldBy(c, u) : z = <<u, x>>
      BY <3>1
    <3> QED BY <3>2, HeldByIs
  <2> QED BY <1>2, <2>1, <2>2
<1>4. ASSUME NEW y \in PlacesOf(c), NEW z \in PlacesOf(c) PROVE y = z
  <2>0. \A a, b, i, j : IsIn(c, a, i) /\ IsIn(c, b, j) => a = b /\ i = j
    BY DEF PInv, OnePlace
  <2>1. CASE y = <<"pending", c>> /\ IsIn(c, "pending", None)
    BY <1>3, <2>0, <2>1
  <2>2. CASE \E u \in Unit : \E x \in HeldBy(c, u) : y = <<u, x>> /\ IsIn(c, x[1], u)
                                                     /\ x[1] # "pending"
    <3>0. PICK u \in Unit : \E x \in HeldBy(c, u) : y = <<u, x>> /\ IsIn(c, x[1], u)
                                                    /\ x[1] # "pending"
      BY <2>2
    <3>1. PICK x \in HeldBy(c, u) : y = <<u, x>> /\ IsIn(c, x[1], u) /\ x[1] # "pending"
      BY <3>0
    <3>5. PICK v \in Unit : \E w \in HeldBy(c, v) : z = <<v, w>> /\ IsIn(c, w[1], v)
                                                    /\ w[1] # "pending"
      BY <1>3, <2>0, <3>1
    <3>2. PICK w \in HeldBy(c, v) : z = <<v, w>> /\ IsIn(c, w[1], v) /\ w[1] # "pending"
      BY <3>5
    <3>3. u = v /\ x[1] = w[1]
      BY <2>0, <3>1, <3>2
    <3>4. x = w
      BY <3>3, HeldByIs
    <3> QED BY <3>1, <3>2, <3>3, <3>4
  <2> QED BY <1>3, <2>1, <2>2
<1>5. Cardinality(PlacesOf(c)) <= 1
  <2>1. CASE PlacesOf(c) = {}
    BY <2>1, FS_EmptySet
  <2>2. CASE PlacesOf(c) # {}
    <3>1. PICK z : PlacesOf(c) = {z}
      BY <1>4, <2>2
    <3> QED BY <3>1, FS_Singleton
  <2> QED BY <2>1, <2>2
<1>6. ASSUME c \in Gone PROVE PlacesOf(c) = {}
  BY <1>3, <1>6 DEF Gone
<1>7. ASSUME NEW a, NEW i, IsIn(c, a, i) PROVE PlacesOf(c) # {}
  <2>1. CASE a = "pending"
    <3>1. c \in pending
      BY <1>7, <2>1, IsInIs
    <3>2. <<"pending", c>> \in {"pending"} \X ({c} \cap pending)
      BY <3>1
    <3> QED BY <1>2, <3>2
  <2>2. CASE a # "pending"
    <3>1. a \in TaskKind \ {"pending"} /\ i \in Unit
      BY <1>7, <2>2, IsInKind DEF IsIn
    <3>2. PICK x : x \in HeldBy(c, i)
      BY <1>7, <3>1, HeldByIs
    <3>3. <<i, x>> \in {i} \X HeldBy(c, i)
      BY <3>2
    <3>4. <<i, x>> \in W
      BY <1>1, <3>1, <3>3
    <3> QED BY <1>2, <3>4
  <2> QED BY <2>1, <2>2
<1> QED BY <1>5, <1>6, <1>7 DEF Gone

(* A clause task is in one place, once, until it is finished, and the count *)
(* of finished tasks, on which the barrier between two levels waits         *)
(* (trail.rs:54), is the number of tasks that are in none, in both modes.   *)
THEOREM ClauseNothingLost == Spec => []NothingLost
<1>1. ASSUME TypeOK, PInv, Counted PROVE NothingLost
  <2>1. Finished = Gone
    BY <1>1, PlacesAre DEF Finished, Gone
  <2> QED BY <1>1, <2>1, PlacesAre DEF NothingLost, PInv, Counted
<1> QED BY <1>1, InitStart, InitPInv, InitCounted, NextPInv, NextCounted, ClauseTypeCorrect, PTL
        DEF Spec
-----------------------------------------------------------------------------
(* Where a request of a unit is, until its reply has been taken.            *)

Lies(r, f, i) ==
  \/ f = "unsent" /\ i \in Unit /\ r \in Range(value_reqs[i])
  \/ f = "out" /\ i \in Pe /\ r \in Range(mem_out[i]) \cap ClauseReq
  \/ f = "memory" /\ i = None /\ r \in memory
  \/ f = "in" /\ i \in Unit /\ r \in Range(mem_in[i])

ReqKind == {"unsent", "out", "memory", "in"}

LEMMA LiesIs ==
  ASSUME NEW r, NEW i
  PROVE  /\ Lies(r, "unsent", i) <=> i \in Unit /\ r \in Range(value_reqs[i])
         /\ Lies(r, "out", i) <=> i \in Pe /\ r \in Range(mem_out[i]) \cap ClauseReq
         /\ Lies(r, "memory", i) <=> i = None /\ r \in memory
         /\ Lies(r, "in", i) <=> i \in Unit /\ r \in Range(mem_in[i])
BY DEF Lies

LEMMA LiesIsNext ==
  ASSUME NEW r, NEW i
  PROVE  /\ Lies(r, "unsent", i)' <=> i \in Unit /\ r \in Range(value_reqs'[i])
         /\ Lies(r, "out", i)' <=> i \in Pe /\ r \in Range(mem_out'[i]) \cap ClauseReq
         /\ Lies(r, "memory", i)' <=> i = None /\ r \in memory'
         /\ Lies(r, "in", i)' <=> i \in Unit /\ r \in Range(mem_in'[i])
BY DEF Lies

LEMMA LiesKind ==
  ASSUME NEW r, NEW i, NEW f
  PROVE  (Lies(r, f, i) => f \in ReqKind) /\ (Lies(r, f, i)' => f \in ReqKind)
BY DEF Lies, ReqKind

Apart == \A r, f, i, g, j : Lies(r, f, i) /\ Lies(r, g, j) => f = g /\ i = j

\* A request is where its unit's requests are.
Addressed ==
  \A r, f, i : Lies(r, f, i) =>
    /\ r \in ClauseReq
    /\ f = "unsent" => i = r.unit /\ r \in AllValueReqs
    /\ f = "in" => i = r.unit
    /\ f = "out" => i = PeOf[r.unit]

NoDoubleRequests ==
  /\ \A u \in Unit : IsInjective(value_reqs[u]) /\ IsInjective(mem_in[u])
  /\ \A p \in Pe : OnceIn(mem_out[p], ClauseReq)

FInv == Apart /\ Addressed /\ NoDoubleRequests

\* A request that was sent and whose reply was not taken.
OnWay(r) == \E i : Lies(r, "out", i) \/ Lies(r, "memory", i) \/ Lies(r, "in", i)

ShiftStays == \A q, k, l : Lies(q, k, l)' <=> Lies(q, k, l)
Shifts(r, g, j) == \A q, k, l : Lies(q, k, l)' <=> IF q = r THEN k = g /\ l = j ELSE Lies(q, k, l)

LEMMA ShiftsFrom ==
  ASSUME Apart, NEW r, NEW f, NEW i, NEW g, NEW j, f # g, Lies(r, f, i), Lies(r, g, j)',
         \A q : \A k \in ReqKind : \A l :
           Lies(q, k, l)' <=> \/ q = r /\ k = g /\ l = j
                              \/ Lies(q, k, l) /\ ~(q = r /\ k = f /\ l = i)
  PROVE  Shifts(r, g, j)
<1>1. \A k, l : Lies(r, k, l) => k = f /\ l = i
  BY DEF Apart
<1>2. ASSUME NEW q, NEW k, NEW l
      PROVE  Lies(q, k, l)' <=> IF q = r THEN k = g /\ l = j ELSE Lies(q, k, l)
  <2>1. CASE q = r
    BY <1>1, <2>1, LiesKind
  <2>2. CASE q # r
    BY <2>2, LiesKind
  <2> QED BY <2>1, <2>2
<1> QED BY <1>2 DEF Shifts

LEMMA ShiftsKeep ==
  ASSUME Apart, Addressed, NEW r \in ClauseReq, NEW g \in ReqKind \ {"unsent"}, NEW j,
         Shifts(r, g, j), g = "in" => j = r.unit, g = "out" => j = PeOf[r.unit]
  PROVE  /\ Apart' /\ Addressed'
         /\ \A q : OnWay(q)' <=> q = r \/ OnWay(q)
         /\ \A q, x : Lies(q, "unsent", x)' <=> q # r /\ Lies(q, "unsent", x)
         /\ \A q, x : Lies(q, "in", x)' <=> IF q = r THEN g = "in" /\ x = j ELSE Lies(q, "in", x)
<1>1. Apart' /\ Addressed'
  BY DEF Apart, Addressed, Shifts
<1>2. \A q : OnWay(q)' <=> q = r \/ OnWay(q)
  BY DEF OnWay, Shifts, ReqKind
<1> QED BY <1>1, <1>2 DEF Shifts

LEMMA ShiftStaysFrom ==
  ASSUME UNCHANGED <<value_reqs, mem_out, memory, mem_in>>
  PROVE  /\ ShiftStays /\ (FInv => FInv')
         /\ \A q : OnWay(q)' <=> OnWay(q)
<1>1. ShiftStays
  BY DEF ShiftStays, Lies
<1> QED BY <1>1 DEF ShiftStays, FInv, Apart, Addressed, NoDoubleRequests, OnWay

\* The fields of requests.
LEMMA ReqShape ==
  /\ \A u \in Unit, c \in ClauseTask :
       /\ DataReq(u, c) \in DataReqs /\ DataReq(u, c).unit = u /\ DataReq(u, c).task = c
       /\ DataReq(u, c).type = "ClauseReadData"
       /\ ValueReqs(u, c) \in Seq(AllValueReqs) /\ IsInjective(ValueReqs(u, c))
       /\ SetOf(ValueReqs(u, c)) # {} /\ SetOf(ValueReqs(u, c)) = Range(ValueReqs(u, c))
       /\ \A r \in SetOf(ValueReqs(u, c)) : r \in AllValueReqs /\ r.unit = u /\ r.task = c
  /\ \A r \in DataReqs : /\ r.unit \in Unit /\ r.task \in ClauseTask /\ r \in ClauseReq
                         /\ r.type = "ClauseReadData" /\ r = DataReq(r.unit, r.task)
  /\ \A r \in AllValueReqs : /\ r.unit \in Unit /\ r.task \in ClauseTask /\ r \in ClauseReq
                             /\ r.type = "ClauseReadValue"
                             /\ r \in SetOf(ValueReqs(r.unit, r.task))
<1>1. ASSUME NEW u \in Unit, NEW c \in ClauseTask
      PROVE  /\ DataReq(u, c) \in DataReqs /\ DataReq(u, c).unit = u /\ DataReq(u, c).task = c
             /\ DataReq(u, c).type = "ClauseReadData"
  BY DEF DataReqs, DataReq
<1>2. ASSUME NEW u \in Unit, NEW c \in ClauseTask
      PROVE  /\ DOMAIN ValueReqs(u, c) = 1 .. Len(Values[c]) /\ Len(Values[c]) \in Nat \ {0}
             /\ \A i \in DOMAIN ValueReqs(u, c) : ValueReqs(u, c)[i] = ValueReq(u, c, i)
  BY ValuesAssumption DEF ValueReqs
<1>3. ASSUME NEW u \in Unit, NEW c \in ClauseTask
      PROVE  /\ IsInjective(ValueReqs(u, c))
             /\ SetOf(ValueReqs(u, c)) # {} /\ SetOf(ValueReqs(u, c)) = Range(ValueReqs(u, c))
             /\ \A r \in SetOf(ValueReqs(u, c)) :
                  /\ r \in AllValueReqs /\ r.unit = u /\ r.task = c
                  /\ r.type = "ClauseReadValue"
  <2>1. IsInjective(ValueReqs(u, c))
    BY <1>2 DEF IsInjective, ValueReq
  <2>2. SetOf(ValueReqs(u, c)) = Range(ValueReqs(u, c))
    BY DEF SetOf, Range
  <2>3. ValueReqs(u, c)[1] \in SetOf(ValueReqs(u, c))
    BY <1>2 DEF SetOf
  <2>4. \A r \in SetOf(ValueReqs(u, c)) : \E i : r = ValueReq(u, c, i)
    BY <1>2 DEF SetOf
  <2>5. SetOf(ValueReqs(u, c)) \subseteq AllValueReqs
    BY ReqTypes
  <2> QED BY <2>1, <2>2, <2>3, <2>4, <2>5 DEF ValueReq
<1>4. ASSUME NEW r \in DataReqs
      PROVE  /\ r.unit \in Unit /\ r.task \in ClauseTask
             /\ r.type = "ClauseReadData" /\ r = DataReq(r.unit, r.task)
  BY DEF DataReqs, DataReq
<1>5. ASSUME NEW r \in AllValueReqs
      PROVE  /\ r.unit \in Unit /\ r.task \in ClauseTask /\ r.type = "ClauseReadValue"
             /\ r \in SetOf(ValueReqs(r.unit, r.task))
  <2>1. PICK u \in Unit, c \in ClauseTask : r \in SetOf(ValueReqs(u, c))
    BY DEF AllValueReqs
  <2> QED BY <1>3, <2>1
<1> QED BY <1>1, <1>3, <1>4, <1>5, ReqTypes DEF ClauseReq

LEMMA InitFInv == Start => FInv
<1> SUFFICES ASSUME Start PROVE FInv
  OBVIOUS
<1>1. Range(<<>>) = {} /\ IsInjective(<<>>)
  BY EmptySeq DEF Range, IsInjective
<1>2. \A r, f, i : ~Lies(r, f, i)
  BY <1>1 DEF Lies, Start, Init
<1>3. NoDoubleRequests
  BY <1>1, EmptySeq DEF NoDoubleRequests, OnceIn, Start, Init
<1> QED BY <1>2, <1>3 DEF FInv, Apart, Addressed
-----------------------------------------------------------------------------
(* What the unit remembers of the requests on their way.                    *)

DataAwaited ==
  \A r \in DataReqs : OnWay(r) <=> r.task \in mem_req_id_to_clause_task[r.unit]

\* The pipelined unit awaits a value from when its task begins.
ValuesAwaited ==
  /\ \A r \in AllValueReqs :
       r \in value_waits[r.unit] <=> OnWay(r) \/ (Pipelined /\ Lies(r, "unsent", r.unit))
  /\ \A u \in Unit : \A r \in value_waits[u] : r.unit = u

ValuesOfReading ==
  \A u \in Unit : \A r : r \in value_waits[u] \/ Lies(r, "unsent", u) => r.task \in reading_tasks[u]

ReadingHasValues ==
  \A u \in Unit : \A c \in reading_tasks[u] :
    \E r : r.task = c /\ (r \in value_waits[u] \/ Lies(r, "unsent", u))

OneAtATime == ~Pipelined => \A u \in Unit : \A c, d \in reading_tasks[u] : c = d

InAnswered == \A u \in Unit : \A r : Lies(r, "in", u) => r \in answered

AInv ==
  /\ DataAwaited /\ ValuesAwaited /\ ValuesOfReading
  /\ ReadingHasValues /\ OneAtATime /\ InAnswered

LEMMA FreshData ==
  ASSUME FInv, AInv, NEW u \in Unit, NEW c \in ClauseTask, c \notin mem_req_id_to_clause_task[u]
  PROVE  \A f, i : ~Lies(DataReq(u, c), f, i)
<1>1. PICK r \in DataReqs : r = DataReq(u, c)
  BY ReqShape
<1>2. r.unit = u /\ r.task = c /\ r \notin AllValueReqs
  BY <1>1, ReqShape
<1>3. ~OnWay(r)
  BY <1>2 DEF AInv, DataAwaited
<1>4. \A i : ~Lies(r, "unsent", i)
  BY <1>2 DEF FInv, Addressed
<1> QED BY <1>1, <1>3, <1>4, LiesKind DEF OnWay, ReqKind

LEMMA FreshValues ==
  ASSUME FInv, AInv, NEW u \in Unit, NEW c \in ClauseTask, c \notin reading_tasks[u],
         NEW r \in SetOf(ValueReqs(u, c))
  PROVE  r \notin value_waits[u] /\ \A f, i : ~Lies(r, f, i)
<1>1. r \in AllValueReqs /\ r.unit = u /\ r.task = c
  BY ReqShape
<1>2. r \notin value_waits[u] /\ ~Lies(r, "unsent", u)
  BY <1>1 DEF AInv, ValuesOfReading
<1>3. ~OnWay(r)
  BY <1>1, <1>2 DEF AInv, ValuesAwaited
<1>4. \A i : ~Lies(r, "unsent", i)
  BY <1>1, <1>2 DEF FInv, Addressed
<1> QED BY <1>2, <1>3, <1>4, LiesKind DEF OnWay, ReqKind

\* What the steps do to the requests.
FlowStays ==
  /\ \A q : OnWay(q)' <=> OnWay(q)
  /\ \A q, x : Lies(q, "unsent", x)' <=> Lies(q, "unsent", x)

LEMMA MemoryTakesFlights ==
  ASSUME TypeOK, FInv, MemoryTakes
  PROVE  FInv' /\ FlowStays /\ \A q, x : Lies(q, "in", x)' => Lies(q, "in", x)
<1> DEFINE heads == {Head(mem_out[p]) : p \in {q \in Pe : mem_out[q] # <<>>}} \cap ClauseReq
<1>1. ASSUME NEW p \in Pe
      PROVE  /\ mem_out[p] \in Seq(ClauseReq \cup OtherReq) /\ OnceIn(mem_out[p], ClauseReq)
             /\ mem_out'[p] = IF mem_out[p] = <<>> THEN <<>> ELSE Tail(mem_out[p])
  BY DEF TypeOK, FInv, NoDoubleRequests, MemoryTakes, Received
<1>2. ASSUME NEW p \in Pe, mem_out[p] # <<>>
      PROVE  /\ Range(mem_out'[p]) \cap ClauseReq =
                  (Range(mem_out[p]) \cap ClauseReq) \ {Head(mem_out[p])}
             /\ OnceIn(mem_out'[p], ClauseReq) /\ Head(mem_out[p]) \in Range(mem_out[p])
  BY <1>1, <1>2, TailOnce, TailRange
<1>3. ASSUME NEW r \in heads
      PROVE  r \in ClauseReq /\ \E p \in Pe : mem_out[p] # <<>> /\ r = Head(mem_out[p])
                                             /\ Lies(r, "out", p)
  BY <1>2, LiesIs
<1>4. memory' = memory \cup heads
  <2>1. ASSUME NEW p \in Pe, mem_out[p] # <<>>
        PROVE  Head(mem_out[p]) \in OtherReq <=> Head(mem_out[p]) \notin ClauseReq
    BY <1>1, <2>1, ReceivedType, EnvAssumption
  <2> QED BY <2>1 DEF MemoryTakes
<1>5. ASSUME NEW p \in Pe, mem_out[p] # <<>>, Head(mem_out[p]) \in ClauseReq
      PROVE  Head(mem_out[p]) \in heads
  BY <1>5
<1>6. UNCHANGED <<mem_in, value_reqs>>
  BY DEF MemoryTakes, values
<1> HIDE DEF heads
<1>7. ASSUME NEW q, NEW l PROVE Lies(q, "out", l)' <=> Lies(q, "out", l) /\ q \notin heads
  <2>1. CASE l \notin Pe
    BY <2>1, LiesIs, LiesIsNext
  <2>2. CASE l \in Pe /\ mem_out[l] = <<>>
    <3>1. mem_out'[l] = <<>> /\ Range(<<>>) = {}
      BY <1>1, <2>2, EmptySeq DEF Range
    <3> QED BY <2>2, <3>1, LiesIs, LiesIsNext
  <2>3. CASE l \in Pe /\ mem_out[l] # <<>>
    <3>1. q \in heads /\ Lies(q, "out", l) => q = Head(mem_out[l])
      BY <1>3 DEF FInv, Apart
    <3>2. Lies(q, "out", l) /\ q = Head(mem_out[l]) => q \in heads
      BY <1>5, <2>3, LiesIs
    <3>3. Lies(q, "out", l)' <=> Lies(q, "out", l) /\ q # Head(mem_out[l])
      BY <1>2, <2>3, LiesIs, LiesIsNext
    <3> QED BY <3>1, <3>2, <3>3
  <2> QED BY <2>1, <2>2, <2>3
<1>8. ASSUME NEW q, NEW k, NEW l
      PROVE  Lies(q, k, l)' <=> IF q \in heads THEN k = "memory" /\ l = None ELSE Lies(q, k, l)
  <2>1. q \in heads => \E p \in Pe : \A f, i : Lies(q, f, i) => f = "out" /\ i = p
    BY <1>3 DEF FInv, Apart
  <2>2. CASE k = "out"
    BY <1>7, <2>2
  <2>3. CASE k = "memory"
    BY <1>4, <2>1, <2>3, LiesIs, LiesIsNext
  <2>4. CASE k \in {"unsent", "in"}
    <3>1. Lies(q, k, l)' <=> Lies(q, k, l)
      BY <1>6, <2>4, LiesIs, LiesIsNext
    <3> QED BY <2>1, <2>4, <3>1
  <2>5. CASE k \notin ReqKind
    BY <2>5, LiesKind DEF ReqKind
  <2> QED BY <2>2, <2>3, <2>4, <2>5 DEF ReqKind
<1>9. Apart' /\ Addressed'
  <2>1. Apart'
    BY <1>8 DEF FInv, Apart
  <2>2. ASSUME NEW q, NEW k, NEW l, Lies(q, k, l)'
        PROVE  /\ q \in ClauseReq
               /\ k = "unsent" => l = q.unit /\ q \in AllValueReqs
               /\ k = "in" => l = q.unit
               /\ k = "out" => l = PeOf[q.unit]
    BY <1>3, <1>8, <2>2 DEF FInv, Addressed
  <2> QED BY <2>1, <2>2 DEF Addressed
<1>10. NoDoubleRequests'
  <2>1. OnceIn(<<>>, ClauseReq)
    BY EmptySeq DEF OnceIn
  <2>2. ASSUME NEW p \in Pe PROVE OnceIn(mem_out'[p], ClauseReq)
    BY <1>1, <1>2, <2>1
  <2> QED BY <1>6, <2>2 DEF FInv, NoDoubleRequests
<1>11. FlowStays
  <2>1. ASSUME NEW q PROVE OnWay(q)' <=> OnWay(q)
    BY <1>3, <1>8 DEF OnWay
  <2>2. ASSUME NEW q, NEW x PROVE Lies(q, "unsent", x)' <=> Lies(q, "unsent", x)
    BY <1>6, LiesIs, LiesIsNext
  <2> QED BY <2>1, <2>2 DEF FlowStays
<1>12. ASSUME NEW q, NEW x, Lies(q, "in", x)' PROVE Lies(q, "in", x)
  BY <1>6, <1>12, LiesIs, LiesIsNext
<1> QED BY <1>9, <1>10, <1>11, <1>12 DEF FInv

(* A request of a watcher is none of a unit.                                *)
LEMMA OthersSendFlights ==
  ASSUME TypeOK, FInv, OthersSend
  PROVE  /\ FInv' /\ FlowStays /\ \A q, x : Lies(q, "in", x)' => Lies(q, "in", x)
<1>1. PICK p \in Pe, r \in OtherReq : mem_out' = [mem_out EXCEPT ![p] = Append(mem_out[p], r)]
  BY DEF OthersSend, Sent
<1>2. /\ r \notin ClauseReq /\ UNCHANGED <<mem_in, memory, value_reqs>>
      /\ mem_out \in [Pe -> Seq(ClauseReq \cup OtherReq)] /\ OnceIn(mem_out[p], ClauseReq)
  BY EnvAssumption DEF OthersSend, envVars, values, TypeOK, FInv, NoDoubleRequests
<1>3. /\ OnceIn(Append(mem_out[p], r), ClauseReq)
      /\ Range(Append(mem_out[p], r)) = Range(mem_out[p]) \cup {r}
  BY <1>2, AppendOnce, AppendRange
<1>4. \A x \in Pe : mem_out'[x] = IF x = p THEN Append(mem_out[p], r) ELSE mem_out[x]
  BY <1>1, <1>2
<1>5. ASSUME NEW x \in Pe
      PROVE  /\ OnceIn(mem_out'[x], ClauseReq)
             /\ Range(mem_out'[x]) \cap ClauseReq = Range(mem_out[x]) \cap ClauseReq
  BY <1>2, <1>3, <1>4 DEF FInv, NoDoubleRequests
<1>6. ASSUME NEW q, NEW k, NEW l PROVE Lies(q, k, l)' <=> Lies(q, k, l)
  <2>1. CASE k = "out"
    BY <1>5, <2>1, LiesIs, LiesIsNext
  <2>2. CASE k \in ReqKind \ {"out"}
    BY <1>2, <2>2, LiesIs, LiesIsNext DEF ReqKind
  <2>3. CASE k \notin ReqKind
    BY <2>3, LiesKind
  <2> QED BY <2>1, <2>2, <2>3
<1>7. NoDoubleRequests'
  BY <1>2, <1>5 DEF FInv, NoDoubleRequests
<1> QED BY <1>6, <1>7 DEF FInv, Apart, Addressed, FlowStays, OnWay

LEMMA MemoryRepliesFlights ==
  ASSUME TypeOK, FInv, MemoryReplies, UNCHANGED <<mem_out, value_reqs>>
  PROVE  /\ FInv' /\ FlowStays
         /\ \A q, x : Lies(q, "in", x)' => Lies(q, "in", x) \/ q \in answered'
<1>1. PICK r \in memory : /\ mem_in' = [mem_in EXCEPT ![r.unit] = Append(mem_in[r.unit], r)]
                          /\ memory' = memory \ {r}
                          /\ answered' = answered \cup {r}
  BY DEF MemoryReplies, Sent
<1>2. PICK u : u = r.unit
  OBVIOUS
<1>3. /\ r \in ClauseReq /\ u \in Unit /\ mem_in \in [Unit -> Seq(ClauseReq)]
      /\ mem_in[u] \in Seq(ClauseReq) /\ UNCHANGED <<mem_out, value_reqs>>
  BY <1>2, ReqTypes DEF MemoryReplies, TypeOK, ClauseTypeOK, values
<1>4. Lies(r, "memory", None) /\ r \notin Range(mem_in[u])
  <2>1. Lies(r, "memory", None) /\ (r \in Range(mem_in[u]) => Lies(r, "in", u))
    BY <1>3, LiesIs
  <2> QED BY <2>1 DEF FInv, Apart
<1>5. /\ Range(Append(mem_in[u], r)) = Range(mem_in[u]) \cup {r}
      /\ IsInjective(Append(mem_in[u], r))
  BY <1>3, <1>4, AppendRange DEF FInv, NoDoubleRequests
<1>6. \A x \in Unit : mem_in'[x] = IF x = u THEN Append(mem_in[u], r) ELSE mem_in[x]
  BY <1>1, <1>2, <1>3
<1>7. NoDoubleRequests'
  BY <1>3, <1>5, <1>6 DEF FInv, NoDoubleRequests
<1>8. Lies(r, "in", u)'
  BY <1>3, <1>5, <1>6, LiesIsNext
<1>9. ASSUME NEW q, NEW k \in ReqKind, NEW l
      PROVE  Lies(q, k, l)' <=> \/ q = r /\ k = "in" /\ l = u
                                \/ Lies(q, k, l) /\ ~(q = r /\ k = "memory" /\ l = None)
  <2>1. CASE k = "in"
    BY <1>3, <1>5, <1>6, <2>1, LiesIs, LiesIsNext
  <2>2. CASE k = "memory"
    BY <1>1, <2>2, LiesIs, LiesIsNext
  <2>3. CASE k \in ReqKind \ {"in", "memory"}
    BY <1>3, <2>3, LiesIs, LiesIsNext DEF ReqKind
  <2> QED BY <2>1, <2>2, <2>3
<1>10. Shifts(r, "in", u)
  BY <1>4, <1>8, <1>9, ShiftsFrom DEF FInv
<1>11. "in" \in ReqKind \ {"unsent"}
  BY DEF ReqKind
<1>12. /\ Apart' /\ Addressed' /\ \A q : OnWay(q)' <=> q = r \/ OnWay(q)
       /\ \A q, x : Lies(q, "unsent", x)' <=> q # r /\ Lies(q, "unsent", x)
       /\ \A q, x : Lies(q, "in", x)' <=> IF q = r THEN x = u ELSE Lies(q, "in", x)
  BY <1>2, <1>3, <1>10, <1>11, ShiftsKeep DEF FInv
<1>13. OnWay(r) /\ \A x : ~Lies(r, "unsent", x)
  BY <1>4 DEF OnWay, FInv, Apart
<1> QED BY <1>1, <1>7, <1>12, <1>13 DEF FInv, FlowStays

\* A request sent by unit u, from no place or from those not sent.
LEMMA SentFlights ==
  ASSUME FInv, NEW o \in Pe, NEW r \in ClauseReq,
         mem_out \in [Pe -> Seq(ClauseReq \cup OtherReq)],
         r \notin Range(mem_out[o]), mem_out' = [mem_out EXCEPT ![o] = Append(mem_out[o], r)]
  PROVE  \A p \in Pe : /\ OnceIn(mem_out'[p], ClauseReq)
                       /\ Range(mem_out'[p]) = IF p = o THEN Range(mem_out[p]) \cup {r}
                                                        ELSE Range(mem_out[p])
<1>1. mem_out[o] \in Seq(ClauseReq \cup OtherReq) /\ OnceIn(mem_out[o], ClauseReq)
  BY DEF FInv, NoDoubleRequests
<1>2. /\ Range(Append(mem_out[o], r)) = Range(mem_out[o]) \cup {r}
      /\ OnceIn(Append(mem_out[o], r), ClauseReq)
  BY <1>1, AppendRange, AppendOnce
<1>3. \A p \in Pe : mem_out'[p] = IF p = o THEN Append(mem_out[o], r) ELSE mem_out[p]
  OBVIOUS
<1> QED BY <1>2, <1>3 DEF FInv, NoDoubleRequests

LEMMA ReadDataFlights ==
  ASSUME TypeOK, PInv, FInv, AInv, NEW u \in Unit, ReadData(u), UNCHANGED envVars
  PROVE  /\ FInv' /\ \A q, x : Lies(q, "in", x)' <=> Lies(q, "in", x)
         /\ \A q, x : Lies(q, "unsent", x)' <=> Lies(q, "unsent", x)
         /\ \/ /\ UNCHANGED <<mem_req_id_to_clause_task, total_clause_data_mem_ongoing>>
               /\ \A q : OnWay(q)' <=> OnWay(q)
            \/ \E c \in ClauseTask :
                 /\ c \notin mem_req_id_to_clause_task[u] /\ ~OnWay(DataReq(u, c))
                 /\ mem_req_id_to_clause_task' =
                      [mem_req_id_to_clause_task EXCEPT ![u] = mem_req_id_to_clause_task[u] \cup {c}]
                 /\ total_clause_data_mem_ongoing' =
                      [total_clause_data_mem_ongoing EXCEPT ![u] = total_clause_data_mem_ongoing[u] + 1]
                 /\ \A q : OnWay(q)' <=> q = DataReq(u, c) \/ OnWay(q)
<1>0. PICK o \in Pe : o = PeOf[u]
  BY ClauseAssumption
<1>1. PICK c : c = Head(clause_task_in[u])
  OBVIOUS
<1>2. PICK r : r = DataReq(u, c)
  OBVIOUS
<1>3. /\ clause_task_in[u] \in Seq(ClauseTask) /\ clause_task_in[u] # <<>>
      /\ mem_out \in [Pe -> Seq(ClauseReq \cup OtherReq)] /\ o = PeOf[u]
      /\ UNCHANGED <<mem_in, memory, value_reqs>>
  BY <1>0 DEF ReadData, CanReadData, TypeOK, ClauseTypeOK, envVars, values
<1>4. /\ c \in ClauseTask /\ c \in Range(clause_task_in[u]) /\ IsIn(c, "in", u)
      /\ r \in ClauseReq /\ r.unit = u
  <2>1. c \in ClauseTask /\ c \in Range(clause_task_in[u])
    BY <1>1, <1>3, ReceivedType, TailRange
  <2>2. r \in DataReqs /\ r.unit = u
    BY <1>2, <2>1, ReqShape
  <2> QED BY <2>1, <2>2, IsInIs DEF ClauseReq
<1>5. c \notin mem_req_id_to_clause_task[u]
  <2>1. c \in mem_req_id_to_clause_task[u] => IsIn(c, "data", u)
    BY IsInIs
  <2> QED BY <1>4, <2>1 DEF PInv, OnePlace
<1>6. \A f, i : ~Lies(r, f, i)
  BY <1>2, <1>4, <1>5, FreshData
<1>7. CASE UNCHANGED <<mem_out, mem_req_id_to_clause_task, total_clause_data_mem_ongoing>>
  BY <1>3, <1>7, ShiftStaysFrom DEF ShiftStays
<1>8. CASE /\ mem_out' = [mem_out EXCEPT ![o] = Append(mem_out[o], r)]
           /\ mem_req_id_to_clause_task' =
                [mem_req_id_to_clause_task EXCEPT ![u] = mem_req_id_to_clause_task[u] \cup {c}]
           /\ total_clause_data_mem_ongoing' =
                [total_clause_data_mem_ongoing EXCEPT ![u] = total_clause_data_mem_ongoing[u] + 1]
  <2>1. r \notin Range(mem_out[o])
    BY <1>3, <1>4, <1>6, LiesIs
  <2>2. /\ \A p \in Pe : Range(mem_out'[p]) = IF p = o THEN Range(mem_out[p]) \cup {r}
                                                            ELSE Range(mem_out[p])
        /\ \A p \in Pe : OnceIn(mem_out'[p], ClauseReq)
    BY <1>3, <1>4, <1>8, <2>1, SentFlights
  <2>3. NoDoubleRequests'
    BY <1>3, <2>2 DEF FInv, NoDoubleRequests
  <2>4. ASSUME NEW q, NEW k, NEW l
        PROVE  Lies(q, k, l)' <=> IF q = r THEN k = "out" /\ l = o ELSE Lies(q, k, l)
    <3>1. CASE k = "out"
      <4>1. /\ Lies(q, "out", l) <=> l \in Pe /\ q \in Range(mem_out[l]) \cap ClauseReq
            /\ Lies(q, "out", l)' <=> l \in Pe /\ q \in Range(mem_out'[l]) \cap ClauseReq
        BY LiesIs, LiesIsNext
      <4>2. ~Lies(r, "out", l)
        BY <1>6
      <4>3. ASSUME l \in Pe
            PROVE  Range(mem_out'[l]) = IF l = o THEN Range(mem_out[l]) \cup {r}
                                                 ELSE Range(mem_out[l])
        BY <2>2, <4>3
      <4> QED BY <1>3, <1>4, <3>1, <4>1, <4>2, <4>3
    <3>2. CASE k \in ReqKind \ {"out"}
      BY <1>3, <1>6, <3>2, LiesIs, LiesIsNext DEF ReqKind
    <3>3. CASE k \notin ReqKind
      BY <3>3, LiesKind DEF ReqKind
    <3> QED BY <3>1, <3>2, <3>3
  <2>5. Shifts(r, "out", o)
    BY <2>4 DEF Shifts
  <2>6. "out" \in ReqKind \ {"unsent"}
    BY DEF ReqKind
  <2>7. /\ Apart' /\ Addressed' /\ \A q : OnWay(q)' <=> q = r \/ OnWay(q)
        /\ \A q, x : Lies(q, "unsent", x)' <=> q # r /\ Lies(q, "unsent", x)
        /\ \A q, x : Lies(q, "in", x)' <=> IF q = r THEN FALSE ELSE Lies(q, "in", x)
    BY <1>3, <1>4, <2>5, <2>6, ShiftsKeep DEF FInv
  <2>8. ~OnWay(r)
    BY <1>6 DEF OnWay
  <2> QED BY <1>2, <1>4, <1>5, <1>6, <1>8, <2>3, <2>7, <2>8 DEF FInv
<1> QED BY <1>0, <1>1, <1>2, <1>7, <1>8 DEF ReadData, CountDataRead, Sent

LEMMA ReadValueFlights ==
  ASSUME TypeOK, FInv, NEW u \in Unit, ReadValue(u), UNCHANGED envVars
  PROVE  /\ FInv' /\ \A q, x : Lies(q, "in", x)' <=> Lies(q, "in", x)
         /\ \/ /\ UNCHANGED <<value_waits, total_clause_value_mem_ongoing>>
               /\ \A q : OnWay(q)' <=> OnWay(q)
               /\ \A q, x : Lies(q, "unsent", x)' <=> Lies(q, "unsent", x)
            \/ \E r \in AllValueReqs :
                 /\ r.unit = u /\ Lies(r, "unsent", u) /\ ~OnWay(r)
                 /\ value_waits' = IF Pipelined THEN value_waits
                                   ELSE [value_waits EXCEPT ![u] = value_waits[u] \cup {r}]
                 /\ total_clause_value_mem_ongoing' =
                      [total_clause_value_mem_ongoing EXCEPT ![u] =
                         total_clause_value_mem_ongoing[u] + 1]
                 /\ \A q : OnWay(q)' <=> q = r \/ OnWay(q)
                 /\ \A q, x : Lies(q, "unsent", x)' <=> q # r /\ Lies(q, "unsent", x)
<1>0. PICK o \in Pe : o = PeOf[u]
  BY ClauseAssumption
<1>1. PICK r : r = Head(value_reqs[u])
  OBVIOUS
<1>2. /\ value_reqs \in [Unit -> Seq(AllValueReqs)] /\ value_reqs[u] \in Seq(AllValueReqs)
      /\ value_reqs[u] # <<>> /\ mem_out \in [Pe -> Seq(ClauseReq \cup OtherReq)] /\ o = PeOf[u]
      /\ UNCHANGED <<mem_in, memory>>
  BY <1>0 DEF ReadValue, CanReadValue, TypeOK, ClauseTypeOK, envVars
<1>3. /\ r \in AllValueReqs /\ r \in Range(value_reqs[u])
      /\ Range(Tail(value_reqs[u])) = Range(value_reqs[u]) \ {r}
      /\ IsInjective(Tail(value_reqs[u])) /\ RecvThenRet(value_reqs[u]) = value_reqs[u]
  BY <1>1, <1>2, ReceivedType, RetRestores, TailRange DEF FInv, NoDoubleRequests
<1>4. Lies(r, "unsent", u) /\ r.unit = u /\ r \in ClauseReq
  <2>1. Lies(r, "unsent", u)
    BY <1>3, LiesIs
  <2> QED BY <2>1 DEF FInv, Addressed
<1>5. \A f, i : Lies(r, f, i) => f = "unsent" /\ i = u
  BY <1>4 DEF FInv, Apart
<1>6. CASE UNCHANGED <<mem_out, value_reqs, value_waits, total_clause_value_mem_ongoing>>
  BY <1>2, <1>6, ShiftStaysFrom DEF ShiftStays
<1>7. CASE /\ mem_out' = [mem_out EXCEPT ![o] = Append(mem_out[o], r)]
           /\ value_reqs' = [value_reqs EXCEPT ![u] = Tail(value_reqs[u])]
           /\ value_waits' = IF Pipelined THEN value_waits
                             ELSE [value_waits EXCEPT ![u] = value_waits[u] \cup {r}]
           /\ total_clause_value_mem_ongoing' =
                [total_clause_value_mem_ongoing EXCEPT ![u] = total_clause_value_mem_ongoing[u] + 1]
  <2>1. r \notin Range(mem_out[o])
    <3>1. r \in Range(mem_out[o]) => Lies(r, "out", o)
      BY <1>4, LiesIs
    <3> QED BY <1>5, <3>1
  <2>2. /\ \A p \in Pe : Range(mem_out'[p]) = IF p = o THEN Range(mem_out[p]) \cup {r}
                                                            ELSE Range(mem_out[p])
        /\ \A p \in Pe : OnceIn(mem_out'[p], ClauseReq)
    BY <1>2, <1>4, <1>7, <2>1, SentFlights
  <2>3. \A x \in Unit : value_reqs'[x] = IF x = u THEN Tail(value_reqs[u]) ELSE value_reqs[x]
    BY <1>2, <1>7
  <2>4. NoDoubleRequests'
    BY <1>2, <1>3, <2>2, <2>3 DEF FInv, NoDoubleRequests
  <2>5. Lies(r, "out", o)'
    BY <1>2, <1>4, <2>2, LiesIsNext
  <2>6. ASSUME NEW q, NEW k \in ReqKind, NEW l
        PROVE  Lies(q, k, l)' <=> \/ q = r /\ k = "out" /\ l = o
                                  \/ Lies(q, k, l) /\ ~(q = r /\ k = "unsent" /\ l = u)
    <3>1. CASE k = "out"
      <4>1. /\ Lies(q, "out", l) <=> l \in Pe /\ q \in Range(mem_out[l]) \cap ClauseReq
            /\ Lies(q, "out", l)' <=> l \in Pe /\ q \in Range(mem_out'[l]) \cap ClauseReq
        BY LiesIs, LiesIsNext
      <4>2. ASSUME l \in Pe
            PROVE  Range(mem_out'[l]) = IF l = o THEN Range(mem_out[l]) \cup {r}
                                                 ELSE Range(mem_out[l])
        BY <2>2, <4>2
      <4> QED BY <1>4, <3>1, <4>1, <4>2
    <3>2. CASE k = "unsent"
      BY <1>3, <2>3, <3>2, LiesIs, LiesIsNext
    <3>3. CASE k \in ReqKind \ {"out", "unsent"}
      BY <1>2, <3>3, LiesIs, LiesIsNext DEF ReqKind
    <3> QED BY <3>1, <3>2, <3>3
  <2>7. Shifts(r, "out", o)
    BY <1>4, <2>5, <2>6, ShiftsFrom DEF FInv
  <2>8. "out" \in ReqKind \ {"unsent"}
    BY DEF ReqKind
  <2>9. /\ Apart' /\ Addressed' /\ \A q : OnWay(q)' <=> q = r \/ OnWay(q)
        /\ \A q, x : Lies(q, "unsent", x)' <=> q # r /\ Lies(q, "unsent", x)
        /\ \A q, x : Lies(q, "in", x)' <=> IF q = r THEN FALSE ELSE Lies(q, "in", x)
    BY <1>2, <1>4, <2>7, <2>8, ShiftsKeep DEF FInv
  <2>10. ~OnWay(r) /\ \A x : ~Lies(r, "in", x)
    BY <1>5 DEF OnWay
  <2> QED BY <1>3, <1>4, <1>7, <2>4, <2>9, <2>10 DEF FInv
<1>8. \/ UNCHANGED <<mem_out, value_reqs, value_waits, total_clause_value_mem_ongoing>>
      \/ /\ mem_out' = [mem_out EXCEPT ![o] = Append(mem_out[o], r)]
         /\ value_reqs' = [value_reqs EXCEPT ![u] = Tail(value_reqs[u])]
         /\ value_waits' = IF Pipelined THEN value_waits
                           ELSE [value_waits EXCEPT ![u] = value_waits[u] \cup {r}]
         /\ total_clause_value_mem_ongoing' =
              [total_clause_value_mem_ongoing EXCEPT ![u] = total_clause_value_mem_ongoing[u] + 1]
  BY <1>0, <1>1, <1>2, <1>3 DEF ReadValue, CountValueRead, Sent
<1> QED BY <1>6, <1>7, <1>8

LEMMA BeginValuesFlights ==
  ASSUME TypeOK, PInv, FInv, AInv, NEW u \in Unit, NEW c, c = Head(clause_data_ready_queue[u]),
         BeginValues(u), UNCHANGED envVars
  PROVE  /\ FInv' /\ c \in ClauseTask /\ IsIn(c, "data_ready", u)
         /\ \A q : OnWay(q)' <=> OnWay(q)
         /\ \A q, x : Lies(q, "in", x)' <=> Lies(q, "in", x)
         /\ \A q, x : Lies(q, "unsent", x)' <=>
                        Lies(q, "unsent", x) \/ (x = u /\ q \in SetOf(ValueReqs(u, c)))
         /\ \A q \in SetOf(ValueReqs(u, c)) : q \notin value_waits[u] /\ ~OnWay(q)
<1>1. /\ clause_data_ready_queue[u] \in Seq(ClauseTask) /\ clause_data_ready_queue[u] # <<>>
      /\ value_reqs \in [Unit -> Seq(AllValueReqs)] /\ value_reqs[u] \in Seq(AllValueReqs)
      /\ value_reqs' = [value_reqs EXCEPT ![u] = value_reqs[u] \o ValueReqs(u, c)]
      /\ UNCHANGED <<mem_in, mem_out, memory>>
  BY DEF BeginValues, CanBegin, TypeOK, ClauseTypeOK, envVars, channels
<1>2. c \in ClauseTask /\ c \in Range(clause_data_ready_queue[u]) /\ IsIn(c, "data_ready", u)
  <2>1. c \in ClauseTask /\ c \in Range(clause_data_ready_queue[u])
    BY <1>1, ReceivedType, TailRange
  <2> QED BY <2>1, IsInIs
<1>3. c \notin reading_tasks[u]
  <2>1. c \in reading_tasks[u] => IsIn(c, "reading", u)
    BY IsInIs
  <2> QED BY <1>2, <2>1 DEF PInv, OnePlace
<1>4. PICK new : new = ValueReqs(u, c)
  OBVIOUS
<1>5. PICK S : S = SetOf(ValueReqs(u, c))
  OBVIOUS
<1>6. new \in Seq(AllValueReqs) /\ IsInjective(new) /\ Range(new) = S
  BY <1>2, <1>4, <1>5, ReqShape
<1>7. \A r \in S : r \in AllValueReqs /\ r \in ClauseReq /\ r.unit = u
  BY <1>2, <1>5, ReqShape
<1>8. \A r \in S : r \notin value_waits[u] /\ \A f, i : ~Lies(r, f, i)
  BY <1>2, <1>3, <1>5, FreshValues
<1>9. Range(value_reqs[u]) \cap Range(new) = {}
  BY <1>6, <1>8, LiesIs
<1>10. /\ Range(value_reqs[u] \o new) = Range(value_reqs[u]) \cup S
       /\ IsInjective(value_reqs[u] \o new)
  <2>1. IsInjective(value_reqs[u])
    BY DEF FInv, NoDoubleRequests
  <2>2. IsInjective(value_reqs[u] \o new)
    BY <1>1, <1>6, <1>9, <2>1, ConcatInjective
  <2>3. Range(value_reqs[u] \o new) = Range(value_reqs[u]) \cup Range(new)
    BY <1>1, <1>6, RangeConcatenation
  <2> QED BY <1>6, <2>2, <2>3
<1>11. \A x \in Unit : value_reqs'[x] = IF x = u THEN value_reqs[u] \o new ELSE value_reqs[x]
  BY <1>1, <1>4
<1>12. NoDoubleRequests'
  BY <1>1, <1>10, <1>11 DEF FInv, NoDoubleRequests
<1>13. ASSUME NEW q, NEW k, NEW l
       PROVE  Lies(q, k, l)' <=> Lies(q, k, l) \/ (k = "unsent" /\ l = u /\ q \in S)
  <2>1. CASE k = "unsent"
    BY <1>10, <1>11, <2>1, LiesIs, LiesIsNext
  <2>2. CASE k \in ReqKind \ {"unsent"}
    BY <1>1, <2>2, LiesIs, LiesIsNext DEF ReqKind
  <2>3. CASE k \notin ReqKind
    BY <2>3, LiesKind DEF ReqKind
  <2> QED BY <2>1, <2>2, <2>3
<1>14. Apart'
  BY <1>8, <1>13 DEF FInv, Apart
<1>15. Addressed'
  BY <1>7, <1>13 DEF FInv, Addressed
<1>16. \A q : OnWay(q)' <=> OnWay(q)
  BY <1>13 DEF OnWay
<1>17. \A q \in S : ~OnWay(q)
  BY <1>8 DEF OnWay
<1> QED BY <1>2, <1>5, <1>8, <1>12, <1>13, <1>14, <1>15, <1>16, <1>17 DEF FInv

LEMMA ReplyFlights ==
  ASSUME TypeOK, FInv, NEW u \in Unit, NEW r, r = Head(mem_in[u]), mem_in[u] # <<>>,
         mem_in' = [mem_in EXCEPT ![u] = Received(mem_in[u])], UNCHANGED <<mem_out, memory>>,
         value_reqs' = value_reqs \/ value_reqs' = [value_reqs EXCEPT ![u] = <<>>]
  PROVE  /\ FInv' /\ r \in ClauseReq /\ r.unit = u /\ Lies(r, "in", u) /\ OnWay(r)
         /\ \A x : ~Lies(r, "unsent", x)
         /\ \A q : OnWay(q)' <=> q # r /\ OnWay(q)
         /\ \A q, x : Lies(q, "in", x)' <=> q # r /\ Lies(q, "in", x)
         /\ \A q, x : Lies(q, "unsent", x)' <=>
                        Lies(q, "unsent", x) /\ (value_reqs' = value_reqs \/ x # u)
<1>1. /\ mem_in \in [Unit -> Seq(ClauseReq)] /\ mem_in[u] \in Seq(ClauseReq)
      /\ value_reqs \in [Unit -> Seq(AllValueReqs)]
  BY DEF TypeOK, ClauseTypeOK
<1>2. /\ r \in ClauseReq /\ r \in Range(mem_in[u]) /\ IsInjective(Tail(mem_in[u]))
      /\ Range(Tail(mem_in[u])) = Range(mem_in[u]) \ {r}
  BY <1>1, ReceivedType, TailRange DEF FInv, NoDoubleRequests
<1>3. Lies(r, "in", u) /\ r.unit = u
  <2>1. Lies(r, "in", u)
    BY <1>2, LiesIs
  <2> QED BY <2>1 DEF FInv, Addressed
<1>4. \A f, i : Lies(r, f, i) => f = "in" /\ i = u
  BY <1>3 DEF FInv, Apart
<1>5. \A x \in Unit : mem_in'[x] = IF x = u THEN Tail(mem_in[u]) ELSE mem_in[x]
  BY <1>1 DEF Received
<1>6. Range(<<>>) = {} /\ IsInjective(<<>>)
  BY EmptySeq DEF Range, IsInjective
<1>7. \A x \in Unit : value_reqs'[x] = IF value_reqs' = value_reqs \/ x # u THEN value_reqs[x]
                                                                       ELSE <<>>
  BY <1>1
<1>8. NoDoubleRequests'
  BY <1>2, <1>5, <1>6, <1>7 DEF FInv, NoDoubleRequests
<1>9. ASSUME NEW q, NEW k, NEW l
      PROVE  Lies(q, k, l)' <=> /\ Lies(q, k, l) /\ q # r
                                /\ k # "unsent" \/ value_reqs' = value_reqs \/ l # u
  <2>1. CASE k = "unsent"
    <3>1. Lies(r, "unsent", l) => FALSE
      BY <1>4
    <3>2. /\ Lies(q, "unsent", l) <=> l \in Unit /\ q \in Range(value_reqs[l])
          /\ Lies(q, "unsent", l)' <=> l \in Unit /\ q \in Range(value_reqs'[l])
      BY LiesIs, LiesIsNext
    <3> QED BY <1>6, <1>7, <2>1, <3>1, <3>2
  <2>2. CASE k = "in"
    <3>1. /\ Lies(q, "in", l) <=> l \in Unit /\ q \in Range(mem_in[l])
          /\ Lies(q, "in", l)' <=> l \in Unit /\ q \in Range(mem_in'[l])
      BY LiesIs, LiesIsNext
    <3>2. Lies(r, "in", l) => l = u
      BY <1>4
    <3> QED BY <1>2, <1>5, <2>2, <3>1, <3>2
  <2>3. CASE k \in ReqKind \ {"unsent", "in"}
    <3>1. Lies(q, k, l)' <=> Lies(q, k, l)
      BY <2>3, LiesIs, LiesIsNext DEF ReqKind
    <3> QED BY <1>4, <2>3, <3>1
  <2>4. CASE k \notin ReqKind
    BY <2>4, LiesKind DEF ReqKind
  <2> QED BY <2>1, <2>2, <2>3, <2>4
<1>10. Apart' /\ Addressed'
  BY <1>9 DEF FInv, Apart, Addressed
<1>11. OnWay(r) /\ \A q : OnWay(q)' <=> q # r /\ OnWay(q)
  BY <1>3, <1>9 DEF OnWay
<1> QED BY <1>2, <1>3, <1>4, <1>8, <1>9, <1>10, <1>11 DEF FInv
-----------------------------------------------------------------------------
LEMMA AwaitedStays ==
  ASSUME AInv, FlowStays, answered \subseteq answered',
         UNCHANGED <<mem_req_id_to_clause_task, value_waits, reading_tasks>>,
         \A q, x : Lies(q, "in", x)' => Lies(q, "in", x) \/ q \in answered'
  PROVE  AInv'
<1>1. DataAwaited' /\ ValuesAwaited'
  BY DEF AInv, FlowStays, DataAwaited, ValuesAwaited
<1>2. ValuesOfReading' /\ ReadingHasValues'
  BY DEF AInv, FlowStays, ValuesOfReading, ReadingHasValues
<1>3. OneAtATime' /\ InAnswered'
  BY DEF AInv, OneAtATime, InAnswered
<1> QED BY <1>1, <1>2, <1>3 DEF AInv

LEMMA ReadDataAwaited ==
  ASSUME TypeOK, PInv, FInv, AInv, NEW u \in Unit, ReadData(u), UNCHANGED envVars
  PROVE  AInv'
<1>1. UNCHANGED <<value_waits, reading_tasks, answered>>
  BY DEF ReadData, values, envVars
<1>2. /\ \A q, x : Lies(q, "in", x)' <=> Lies(q, "in", x)
      /\ \A q, x : Lies(q, "unsent", x)' <=> Lies(q, "unsent", x)
  BY ReadDataFlights
<1>3. CASE mem_req_id_to_clause_task' = mem_req_id_to_clause_task /\ \A q : OnWay(q)' <=> OnWay(q)
  BY <1>1, <1>2, <1>3, AwaitedStays DEF FlowStays
<1>4. ASSUME NEW c \in ClauseTask,
             mem_req_id_to_clause_task' =
               [mem_req_id_to_clause_task EXCEPT ![u] = mem_req_id_to_clause_task[u] \cup {c}],
             \A q : OnWay(q)' <=> q = DataReq(u, c) \/ OnWay(q)
      PROVE  AInv'
  <2>1. \A r \in AllValueReqs : OnWay(r)' <=> OnWay(r)
    BY <1>4, ReqShape
  <2>2. \A x \in Unit : mem_req_id_to_clause_task'[x] =
                          IF x = u THEN mem_req_id_to_clause_task[u] \cup {c}
                                   ELSE mem_req_id_to_clause_task[x]
    BY <1>4 DEF TypeOK, ClauseTypeOK
  <2>3. ASSUME NEW r \in DataReqs
        PROVE  OnWay(r)' <=> r.task \in mem_req_id_to_clause_task'[r.unit]
    <3>1. r.unit \in Unit /\ (r = DataReq(u, c) <=> r.unit = u /\ r.task = c)
      BY ReqShape
    <3>2. OnWay(r) <=> r.task \in mem_req_id_to_clause_task[r.unit]
      BY DEF AInv, DataAwaited
    <3> QED BY <1>4, <2>2, <3>1, <3>2
  <2>4. DataAwaited'
    BY <2>3 DEF DataAwaited
  <2>5. ValuesAwaited' /\ ValuesOfReading' /\ ReadingHasValues' /\ OneAtATime' /\ InAnswered'
    BY <1>1, <1>2, <2>1
       DEF AInv, ValuesAwaited, ValuesOfReading, ReadingHasValues, OneAtATime, InAnswered
  <2> QED BY <2>4, <2>5 DEF AInv
<1> QED BY <1>3, <1>4, ReadDataFlights

LEMMA BeginValuesAwaited ==
  ASSUME TypeOK, PInv, FInv, AInv, NEW u \in Unit, BeginValues(u), UNCHANGED envVars
  PROVE  AInv'
<1>1. PICK c : c = Head(clause_data_ready_queue[u])
  OBVIOUS
<1>2. PICK S : S = SetOf(ValueReqs(u, c))
  OBVIOUS
<1>3. /\ c \in ClauseTask
      /\ \A q : OnWay(q)' <=> OnWay(q)
      /\ \A q, x : Lies(q, "in", x)' <=> Lies(q, "in", x)
      /\ \A q, x : Lies(q, "unsent", x)' <=> Lies(q, "unsent", x) \/ (x = u /\ q \in S)
      /\ \A q \in S : q \notin value_waits[u] /\ ~OnWay(q)
  BY <1>1, <1>2, BeginValuesFlights
<1>4. S # {} /\ \A r \in S : r \in AllValueReqs /\ r.unit = u /\ r.task = c
  BY <1>2, <1>3, ReqShape
<1>5. /\ UNCHANGED <<mem_req_id_to_clause_task, answered>>
      /\ \A x \in Unit : reading_tasks'[x] = IF x = u THEN reading_tasks[u] \cup {c}
                                                     ELSE reading_tasks[x]
      /\ \A x \in Unit : value_waits'[x] = IF Pipelined /\ x = u THEN value_waits[u] \cup S
                                                               ELSE value_waits[x]
  BY <1>1, <1>2 DEF BeginValues, TypeOK, ClauseTypeOK, envVars
<1>6. DataAwaited' /\ InAnswered'
  BY <1>3, <1>5 DEF AInv, DataAwaited, InAnswered
<1>7. ValuesAwaited'
  <2>1. ASSUME NEW r \in AllValueReqs
        PROVE  r \in value_waits'[r.unit] <=> OnWay(r)' \/ (Pipelined /\ Lies(r, "unsent", r.unit)')
    <3>1. r.unit \in Unit
      BY ReqShape
    <3>2. r \in value_waits[r.unit] <=> OnWay(r) \/ (Pipelined /\ Lies(r, "unsent", r.unit))
      BY DEF AInv, ValuesAwaited
    <3>3. CASE r \in S
      BY <1>3, <1>4, <1>5, <3>1, <3>2, <3>3
    <3>4. CASE r \notin S
      BY <1>3, <1>5, <3>1, <3>2, <3>4
    <3> QED BY <3>3, <3>4
  <2>2. \A x \in Unit : \A r \in value_waits'[x] : r.unit = x
    BY <1>4, <1>5 DEF AInv, ValuesAwaited
  <2> QED BY <2>1, <2>2 DEF ValuesAwaited
<1>8. ValuesOfReading'
  <2>1. ASSUME NEW x \in Unit, NEW r, r \in value_waits'[x] \/ Lies(r, "unsent", x)'
        PROVE  r.task \in reading_tasks'[x]
    <3>1. r \in value_waits[x] \/ Lies(r, "unsent", x) \/ (x = u /\ r \in S)
      BY <1>3, <1>5, <2>1
    <3> QED BY <1>4, <1>5, <3>1 DEF AInv, ValuesOfReading
  <2> QED BY <2>1 DEF ValuesOfReading
<1>9. ReadingHasValues'
  <2>1. ASSUME NEW x \in Unit, NEW d \in reading_tasks'[x]
        PROVE  \E r : r.task = d /\ (r \in value_waits'[x] \/ Lies(r, "unsent", x)')
    <3>1. CASE x = u /\ d = c
      <4>1. PICK r \in S : r.task = c
        BY <1>4
      <4> QED BY <1>3, <3>1, <4>1
    <3>2. CASE d \in reading_tasks[x]
      <4>1. PICK r : r.task = d /\ (r \in value_waits[x] \/ Lies(r, "unsent", x))
        BY <3>2 DEF AInv, ReadingHasValues
      <4> QED BY <1>3, <1>5, <4>1
    <3> QED BY <1>5, <2>1, <3>1, <3>2
  <2> QED BY <2>1 DEF ReadingHasValues
<1>10. OneAtATime'
  <2>1. ~Pipelined => reading_tasks[u] = {}
    BY DEF BeginValues, CanBegin, RoomToBegin
  <2> QED BY <1>5, <2>1 DEF AInv, OneAtATime
<1> QED BY <1>6, <1>7, <1>8, <1>9, <1>10 DEF AInv

LEMMA ReadValueAwaited ==
  ASSUME TypeOK, FInv, AInv, NEW u \in Unit, ReadValue(u), UNCHANGED envVars
  PROVE  AInv'
<1>1. UNCHANGED <<mem_req_id_to_clause_task, reading_tasks, answered>>
  BY DEF ReadValue, tasks, envVars
<1>2. \A q, x : Lies(q, "in", x)' <=> Lies(q, "in", x)
  BY ReadValueFlights
<1>3. CASE /\ value_waits' = value_waits /\ \A q : OnWay(q)' <=> OnWay(q)
           /\ \A q, x : Lies(q, "unsent", x)' <=> Lies(q, "unsent", x)
  BY <1>1, <1>2, <1>3, AwaitedStays DEF FlowStays
<1>4. ASSUME NEW r \in AllValueReqs, r.unit = u, Lies(r, "unsent", u),
             value_waits' = IF Pipelined THEN value_waits
                            ELSE [value_waits EXCEPT ![u] = value_waits[u] \cup {r}],
             \A q : OnWay(q)' <=> q = r \/ OnWay(q),
             \A q, x : Lies(q, "unsent", x)' <=> q # r /\ Lies(q, "unsent", x)
      PROVE  AInv'
  <2>1. \A x \in Unit : value_waits'[x] = IF ~Pipelined /\ x = u THEN value_waits[u] \cup {r}
                                                               ELSE value_waits[x]
    BY <1>4 DEF TypeOK, ClauseTypeOK
  <2>2. r.task \in reading_tasks[u] /\ (Pipelined => r \in value_waits[u])
    BY <1>4 DEF AInv, ValuesOfReading, ValuesAwaited
  <2>3. DataAwaited'
    BY <1>1, <1>4, ReqShape DEF AInv, DataAwaited
  <2>4. ValuesAwaited'
    <3>1. ASSUME NEW q \in AllValueReqs
          PROVE  q \in value_waits'[q.unit] <=> OnWay(q)' \/ (Pipelined /\ Lies(q, "unsent", q.unit)')
      <4>1. q.unit \in Unit
        BY ReqShape
      <4>2. q \in value_waits[q.unit] <=> OnWay(q) \/ (Pipelined /\ Lies(q, "unsent", q.unit))
        BY DEF AInv, ValuesAwaited
      <4> QED BY <1>4, <2>1, <2>2, <4>1, <4>2
    <3>2. \A x \in Unit : \A q \in value_waits'[x] : q.unit = x
      BY <1>4, <2>1 DEF AInv, ValuesAwaited
    <3> QED BY <3>1, <3>2 DEF ValuesAwaited
  <2>5. ValuesOfReading'
    BY <1>1, <1>4, <2>1, <2>2 DEF AInv, ValuesOfReading
  <2>6. ReadingHasValues'
    <3>1. ASSUME NEW x \in Unit, NEW d \in reading_tasks[x]
          PROVE  \E q : q.task = d /\ (q \in value_waits'[x] \/ Lies(q, "unsent", x)')
      <4>1. PICK q : q.task = d /\ (q \in value_waits[x] \/ Lies(q, "unsent", x))
        BY <3>1 DEF AInv, ReadingHasValues
      <4>2. q = r /\ Lies(q, "unsent", x) => x = u
        BY <1>4 DEF FInv, Apart
      <4> QED BY <1>4, <2>1, <2>2, <4>1, <4>2
    <3> QED BY <1>1, <3>1 DEF ReadingHasValues
  <2>7. OneAtATime' /\ InAnswered'
    BY <1>1, <1>2 DEF AInv, OneAtATime, InAnswered
  <2> QED BY <2>3, <2>4, <2>5, <2>6, <2>7 DEF AInv
<1> QED BY <1>3, <1>4, ReadValueFlights

LEMMA ReplyDataAwaited ==
  ASSUME TypeOK, FInv, AInv, NEW u \in Unit, ReplyData(u), UNCHANGED envVars
  PROVE  FInv' /\ AInv'
<1>1. PICK r : r = Head(mem_in[u])
  OBVIOUS
<1>2. /\ mem_in[u] # <<>> /\ r.type = "ClauseReadData"
      /\ mem_in' = [mem_in EXCEPT ![u] = Received(mem_in[u])]
      /\ UNCHANGED <<mem_out, memory, value_reqs, value_waits, reading_tasks, answered>>
      /\ \A x \in Unit : mem_req_id_to_clause_task'[x] =
                           IF x = u THEN mem_req_id_to_clause_task[u] \ {r.task}
                                    ELSE mem_req_id_to_clause_task[x]
  BY <1>1 DEF ReplyData, Reply, values, envVars, TypeOK, ClauseTypeOK
<1>3. /\ FInv' /\ r \in ClauseReq /\ r.unit = u
      /\ \A q : OnWay(q)' <=> q # r /\ OnWay(q)
      /\ \A q, x : Lies(q, "in", x)' <=> q # r /\ Lies(q, "in", x)
      /\ \A q, x : Lies(q, "unsent", x)' <=> Lies(q, "unsent", x)
  <2>1. UNCHANGED <<mem_out, memory>> /\ value_reqs' = value_reqs
    BY <1>2
  <2>2. mem_in' = [mem_in EXCEPT ![u] = Received(mem_in[u])] /\ mem_in[u] # <<>>
    BY <1>2
  <2>3. /\ FInv' /\ r \in ClauseReq /\ r.unit = u
        /\ \A q : OnWay(q)' <=> q # r /\ OnWay(q)
        /\ \A q, x : Lies(q, "in", x)' <=> q # r /\ Lies(q, "in", x)
        /\ \A q, x : Lies(q, "unsent", x)' <=>
                       Lies(q, "unsent", x) /\ (value_reqs' = value_reqs \/ x # u)
    BY <1>1, <2>1, <2>2, ReplyFlights
  <2> QED BY <2>1, <2>3
<1>4. r \in DataReqs /\ r \notin AllValueReqs
  BY <1>2, <1>3, ReqShape DEF ClauseReq
<1>5. ASSUME NEW q \in DataReqs
      PROVE  OnWay(q)' <=> q.task \in mem_req_id_to_clause_task'[q.unit]
  <2>1. q.unit \in Unit /\ (q = r <=> q.unit = u /\ q.task = r.task)
    BY <1>3, <1>4, ReqShape
  <2>2. OnWay(q) <=> q.task \in mem_req_id_to_clause_task[q.unit]
    BY DEF AInv, DataAwaited
  <2> QED BY <1>2, <1>3, <2>1, <2>2
<1>6. DataAwaited'
  BY <1>5 DEF DataAwaited
<1>7. ValuesAwaited'
  BY <1>2, <1>3, <1>4 DEF AInv, ValuesAwaited
<1>8. ValuesOfReading' /\ ReadingHasValues' /\ OneAtATime' /\ InAnswered'
  BY <1>2, <1>3 DEF AInv, ValuesOfReading, ReadingHasValues, OneAtATime, InAnswered
<1> QED BY <1>3, <1>6, <1>7, <1>8 DEF AInv

\* The task of a value that has come is the one it is counted for.
LEMMA ReplyValueOf ==
  ASSUME TypeOK, FInv, AInv, NEW u \in Unit, NEW r, r = Head(mem_in[u]), mem_in[u] # <<>>,
         r.type = "ClauseReadValue", NEW c, ReplyFor(u, r, c)
  PROVE  r \in AllValueReqs /\ r \in value_waits[u] /\ c = r.task
<1>1. mem_in[u] \in Seq(ClauseReq) /\ r \in ClauseReq /\ r \in Range(mem_in[u])
  BY ReceivedType, TailRange DEF TypeOK, ClauseTypeOK
<1>2. Lies(r, "in", u)
  BY <1>1, LiesIs
<1>3. r \in AllValueReqs
  BY <1>1, ReqShape DEF ClauseReq
<1>4. r.unit = u /\ OnWay(r)
  BY <1>2 DEF FInv, Addressed, OnWay
<1>5. r \in value_waits[u]
  BY <1>3, <1>4 DEF AInv, ValuesAwaited
<1>6. r.task \in reading_tasks[u]
  BY <1>5 DEF AInv, ValuesOfReading
<1> QED BY <1>3, <1>5, <1>6 DEF ReplyFor, AInv, OneAtATime

LEMMA ReplyValueAwaited ==
  ASSUME TypeOK, FInv, AInv, NEW u \in Unit, ReplyValue(u), UNCHANGED envVars
  PROVE  FInv' /\ AInv'
<1>1. PICK r : r = Head(mem_in[u])
  OBVIOUS
<1>2. PICK c \in ClauseTask :
        /\ ReplyFor(u, r, c)
        /\ \/ /\ LastValue(u, c, r)
              /\ reading_tasks' = [reading_tasks EXCEPT ![u] = reading_tasks[u] \ {c}]
              /\ value_reqs' = IF Pipelined THEN value_reqs ELSE [value_reqs EXCEPT ![u] = <<>>]
           \/ /\ ~LastValue(u, c, r)
              /\ UNCHANGED <<reading_tasks, value_reqs>>
  BY <1>1 DEF ReplyValue, Reply
<1>3. /\ mem_in[u] # <<>> /\ r.type = "ClauseReadValue"
      /\ mem_in' = [mem_in EXCEPT ![u] = Received(mem_in[u])]
      /\ UNCHANGED <<mem_out, memory, mem_req_id_to_clause_task, answered>>
      /\ \A x \in Unit : value_waits'[x] = IF x = u THEN value_waits[u] \ {r} ELSE value_waits[x]
  BY <1>1 DEF ReplyValue, Reply, envVars, TypeOK, ClauseTypeOK
<1>4. r \in AllValueReqs /\ r \in value_waits[u] /\ c = r.task /\ r \notin DataReqs /\ r.unit = u
  <2>1. r \in AllValueReqs /\ r \in value_waits[u] /\ c = r.task
    BY <1>1, <1>2, <1>3, ReplyValueOf
  <2> QED BY <2>1, ReqShape DEF AInv, ValuesAwaited
<1>5. value_reqs' = value_reqs \/ (~Pipelined /\ value_reqs' = [value_reqs EXCEPT ![u] = <<>>])
  BY <1>2
<1>6. /\ FInv' /\ \A x : ~Lies(r, "unsent", x)
      /\ \A q : OnWay(q)' <=> q # r /\ OnWay(q)
      /\ \A q, x : Lies(q, "in", x)' <=> q # r /\ Lies(q, "in", x)
      /\ \A q, x : Lies(q, "unsent", x)' <=> Lies(q, "unsent", x) /\ (value_reqs' = value_reqs \/ x # u)
  <2>1. UNCHANGED <<mem_out, memory>>
    BY <1>3
  <2>2. mem_in' = [mem_in EXCEPT ![u] = Received(mem_in[u])] /\ mem_in[u] # <<>>
    BY <1>3
  <2>3. value_reqs' = value_reqs \/ value_reqs' = [value_reqs EXCEPT ![u] = <<>>]
    BY <1>5
  <2> QED BY <1>1, <2>1, <2>2, <2>3, ReplyFlights
<1>7. DataAwaited' /\ InAnswered'
  BY <1>3, <1>4, <1>6 DEF AInv, DataAwaited, InAnswered
<1>8. ValuesAwaited'
  <2>1. ASSUME NEW q \in AllValueReqs
        PROVE  q \in value_waits'[q.unit] <=> OnWay(q)' \/ (Pipelined /\ Lies(q, "unsent", q.unit)')
    <3>1. q.unit \in Unit
      BY ReqShape
    <3>2. q \in value_waits[q.unit] <=> OnWay(q) \/ (Pipelined /\ Lies(q, "unsent", q.unit))
      BY DEF AInv, ValuesAwaited
    <3>3. q \in value_waits'[q.unit] <=> q # r /\ q \in value_waits[q.unit]
      BY <1>3, <1>4, <3>1
    <3> QED BY <1>5, <1>6, <3>2, <3>3
  <2>2. \A x \in Unit : \A q \in value_waits'[x] : q.unit = x
    BY <1>3 DEF AInv, ValuesAwaited
  <2> QED BY <2>1, <2>2 DEF ValuesAwaited
<1>9. ASSUME NEW x \in Unit, NEW d \in reading_tasks[x], x # u \/ d # c,
             x = u => Pipelined \/ value_reqs' = value_reqs
      PROVE  \E q : q.task = d /\ (q \in value_waits'[x] \/ Lies(q, "unsent", x)')
  <2>1. PICK q : q.task = d /\ (q \in value_waits[x] \/ Lies(q, "unsent", x))
    BY DEF AInv, ReadingHasValues
  <2>2. q = r /\ q \in value_waits[x] => x = u
    BY <1>4 DEF AInv, ValuesAwaited
  <2>3. q # r
    BY <1>4, <1>6, <1>9, <2>1, <2>2
  <2> QED BY <1>3, <1>5, <1>6, <1>9, <2>1, <2>3
<1>10. ASSUME NEW q, NEW x \in Unit, q \in value_waits'[x] \/ Lies(q, "unsent", x)'
       PROVE  q.task \in reading_tasks[x]
  BY <1>3, <1>6, <1>10 DEF AInv, ValuesOfReading
<1>11. CASE /\ LastValue(u, c, r)
            /\ reading_tasks' = [reading_tasks EXCEPT ![u] = reading_tasks[u] \ {c}]
            /\ value_reqs' = IF Pipelined THEN value_reqs ELSE [value_reqs EXCEPT ![u] = <<>>]
  <2>1. \A x \in Unit : reading_tasks'[x] = IF x = u THEN reading_tasks[u] \ {c}
                                                     ELSE reading_tasks[x]
    BY <1>11 DEF TypeOK, ClauseTypeOK
  <2>2. ASSUME NEW q, q \in value_waits'[u] \/ Lies(q, "unsent", u)'
        PROVE  q.task # c
    <3>1. \A s \in value_waits[u] : s.task = c => s = r
      BY <1>11 DEF LastValue, ReqsOf
    <3>2. CASE q \in value_waits'[u]
      BY <1>3, <3>1, <3>2
    <3>3. CASE Lies(q, "unsent", u)' /\ Pipelined
      <4>1. Lies(q, "unsent", u) /\ q # r
        BY <1>6, <3>3
      <4>2. q \in AllValueReqs /\ q.unit = u
        BY <4>1 DEF FInv, Addressed
      <4>3. q \in value_waits[u]
        BY <3>3, <4>1, <4>2 DEF AInv, ValuesAwaited
      <4> QED BY <3>1, <4>1, <4>3
    <3>4. CASE Lies(q, "unsent", u)' /\ ~Pipelined
      <4>1. value_reqs'[u] = <<>>
        BY <1>11, <3>4 DEF TypeOK, ClauseTypeOK
      <4>2. q \in Range(<<>>)
        BY <3>4, <4>1, LiesIsNext
      <4> QED BY <4>2, EmptySeq DEF Range
    <3> QED BY <2>2, <3>2, <3>3, <3>4
  <2>3. ValuesOfReading'
    BY <1>10, <2>1, <2>2 DEF ValuesOfReading
  <2>4. ASSUME NEW x \in Unit, NEW d \in reading_tasks'[x]
        PROVE  \E q : q.task = d /\ (q \in value_waits'[x] \/ Lies(q, "unsent", x)')
    <3>1. d \in reading_tasks[x] /\ (x = u => d # c)
      BY <2>1, <2>4
    <3>2. c \in reading_tasks[u]
      BY <1>2 DEF ReplyFor
    <3>3. x = u => Pipelined
      BY <3>1, <3>2 DEF AInv, OneAtATime
    <3> QED BY <1>9, <3>1, <3>3
  <2>5. ReadingHasValues'
    BY <2>4 DEF ReadingHasValues
  <2>6. OneAtATime'
    BY <2>1 DEF AInv, OneAtATime
  <2> QED BY <1>6, <1>7, <1>8, <2>3, <2>5, <2>6 DEF AInv
<1>12. CASE ~LastValue(u, c, r) /\ UNCHANGED <<reading_tasks, value_reqs>>
  <2>1. ValuesOfReading' /\ OneAtATime'
    BY <1>10, <1>12 DEF ValuesOfReading, AInv, OneAtATime
  <2>2. ASSUME NEW x \in Unit, NEW d \in reading_tasks[x]
        PROVE  \E q : q.task = d /\ (q \in value_waits'[x] \/ Lies(q, "unsent", x)')
    <3>1. CASE x = u /\ d = c
      <4>1. PICK q \in value_waits[u] : q.task = c /\ q # r
        BY <1>12 DEF LastValue, ReqsOf
      <4> QED BY <1>3, <3>1, <4>1
    <3>2. CASE x # u \/ d # c
      BY <1>9, <1>12, <3>2
    <3> QED BY <3>1, <3>2
  <2>3. ReadingHasValues'
    BY <1>12, <2>2 DEF ReadingHasValues
  <2> QED BY <1>6, <1>7, <1>8, <2>1, <2>3 DEF AInv
<1> QED BY <1>2, <1>11, <1>12

LEMMA InitAInv == Start => AInv
<1> SUFFICES ASSUME Start PROVE AInv
  OBVIOUS
<1>1. Range(<<>>) = {}
  BY EmptySeq DEF Range
<1>2. \A r, f, i : ~Lies(r, f, i)
  BY <1>1 DEF Lies, Start, Init
<1>3. \A u \in Unit : /\ mem_req_id_to_clause_task[u] = {} /\ reading_tasks[u] = {}
                      /\ value_waits[u] = {}
  BY DEF Start, Init
<1>4. DataAwaited /\ ValuesAwaited
  BY <1>2, <1>3, ReqShape DEF DataAwaited, ValuesAwaited, OnWay
<1>5. ValuesOfReading /\ ReadingHasValues /\ OneAtATime /\ InAnswered
  BY <1>2, <1>3 DEF ValuesOfReading, ReadingHasValues, OneAtATime, InAnswered
<1> QED BY <1>4, <1>5 DEF AInv

\* The steps that are not about requests.
LEMMA OtherStepsAwaited ==
  ASSUME FInv, AInv,
         UNCHANGED <<value_reqs, mem_out, memory, mem_in, answered,
                     mem_req_id_to_clause_task, value_waits, reading_tasks>>
  PROVE  FInv' /\ AInv'
<1>1. ShiftStays /\ FInv' /\ \A q : OnWay(q)' <=> OnWay(q)
  BY ShiftStaysFrom
<1>2. FlowStays /\ \A q, x : Lies(q, "in", x)' => Lies(q, "in", x) \/ q \in answered'
  BY <1>1 DEF FlowStays, ShiftStays
<1>3. /\ UNCHANGED <<mem_req_id_to_clause_task, value_waits, reading_tasks>>
      /\ answered \subseteq answered'
  OBVIOUS
<1> QED BY <1>1, <1>2, <1>3, AwaitedStays

LEMMA NextAwaited == TypeOK /\ PInv /\ FInv /\ AInv /\ [Next]_vars => FInv' /\ AInv'
<1> SUFFICES ASSUME TypeOK, PInv, FInv, AInv, [Next]_vars
             PROVE  FInv' /\ AInv'
  OBVIOUS
<1>1. CASE Dispatch /\ UNCHANGED <<mem_in, memory, answered>>
  BY <1>1, OtherStepsAwaited DEF Dispatch, tasks, values
<1>2. CASE MemoryTakes
  <2>1. FInv' /\ FlowStays /\ \A q, x : Lies(q, "in", x)' => Lies(q, "in", x)
    BY <1>2, MemoryTakesFlights
  <2>2. UNCHANGED <<mem_req_id_to_clause_task, value_waits, reading_tasks, answered>>
    BY <1>2 DEF MemoryTakes, tasks, values
  <2> QED BY <2>1, <2>2, AwaitedStays
<1>3. CASE Dispatch /\ MemoryReplies
  <2>1. UNCHANGED <<mem_out, value_reqs, mem_req_id_to_clause_task, value_waits, reading_tasks>>
    BY <1>3 DEF Dispatch, tasks, values
  <2>2. /\ FInv' /\ FlowStays
        /\ \A q, x : Lies(q, "in", x)' => Lies(q, "in", x) \/ q \in answered'
    BY <1>3, <2>1, MemoryRepliesFlights
  <2>3. answered \subseteq answered'
    BY <1>3 DEF MemoryReplies
  <2> QED BY <2>1, <2>2, <2>3, AwaitedStays
<1>4. CASE UNCHANGED vars
  BY <1>4, OtherStepsAwaited DEF vars, clauseVars, envVars, channels, tasks, values
<1>5. ASSUME NEW u \in Unit, UNCHANGED envVars,
             Process(u) \/ StartProcess(u) \/ Skip(u) \/ \E d \in Elapsed : Call(u, d)
      PROVE  FInv' /\ AInv'
  <2>1. UNCHANGED <<value_reqs, mem_out, mem_in, mem_req_id_to_clause_task, value_waits,
                    reading_tasks>>
    BY <1>5 DEF Process, StartProcess, Skip, Call, channels, tasks, values
  <2>2. UNCHANGED <<memory, answered>>
    BY <1>5 DEF envVars
  <2> QED BY <2>1, <2>2, OtherStepsAwaited
<1>6. ASSUME NEW u \in Unit, UNCHANGED envVars, ReadData(u)
      PROVE  FInv' /\ AInv'
  BY <1>6, ReadDataFlights, ReadDataAwaited
<1>7. ASSUME NEW u \in Unit, UNCHANGED envVars, BeginValues(u)
      PROVE  FInv' /\ AInv'
  <2>1. PICK c : c = Head(clause_data_ready_queue[u])
    OBVIOUS
  <2> QED BY <1>7, <2>1, BeginValuesFlights, BeginValuesAwaited
<1>8. ASSUME NEW u \in Unit, UNCHANGED envVars, ReadValue(u)
      PROVE  FInv' /\ AInv'
  BY <1>8, ReadValueFlights, ReadValueAwaited
<1>9. ASSUME NEW u \in Unit, UNCHANGED envVars, ReplyData(u) \/ ReplyValue(u)
      PROVE  FInv' /\ AInv'
  BY <1>9, ReplyDataAwaited, ReplyValueAwaited
<1>10. CASE OthersSend
  <2>1. FInv' /\ FlowStays /\ \A q, x : Lies(q, "in", x)' => Lies(q, "in", x)
    BY <1>10, OthersSendFlights
  <2>2. UNCHANGED <<mem_req_id_to_clause_task, value_waits, reading_tasks, answered>>
    BY <1>10 DEF OthersSend, tasks, values, envVars
  <2> QED BY <2>1, <2>2, AwaitedStays
<1> QED BY <1>1, <1>2, <1>3, <1>4, <1>5, <1>6, <1>7, <1>8, <1>9, <1>10
        DEF Next, EnvNext, Dispatch, UnitNext, Step

\* What the theorems below rest on.
RInv == PInv /\ FInv /\ AInv

LEMMA InitRInv == Start => RInv
BY InitPInv, InitFInv, InitAInv DEF RInv

LEMMA NextRInv == TypeOK /\ RInv /\ [Next]_vars => RInv'
BY NextPInv, NextAwaited DEF RInv

LEMMA SafeRepliesAwaited == TypeOK /\ RInv => RepliesAwaited
<1>1. ASSUME TypeOK, FInv, AInv, NEW u \in Unit, mem_in[u] # <<>>
      PROVE  IF Reply(u).type = "ClauseReadData"
               THEN Reply(u).task \in mem_req_id_to_clause_task[u]
               ELSE \E c \in ClauseTask : ReplyFor(u, Reply(u), c)
  <2>1. PICK r : r = Reply(u)
    OBVIOUS
  <2>2. r \in ClauseReq /\ r \in Range(mem_in[u])
    BY <1>1, <2>1, ReceivedType, TailRange DEF TypeOK, ClauseTypeOK, Reply
  <2>3. Lies(r, "in", u)
    BY <2>2, LiesIs
  <2>4. OnWay(r) /\ r.unit = u
    BY <1>1, <2>3 DEF OnWay, FInv, Addressed
  <2>5. CASE r \in DataReqs
    <3>1. r.type = "ClauseReadData" /\ r.task \in mem_req_id_to_clause_task[u]
      BY <1>1, <2>4, <2>5, ReqShape DEF AInv, DataAwaited
    <3> QED BY <2>1, <3>1
  <2>6. CASE r \in AllValueReqs
    <3>1. r.type = "ClauseReadValue" /\ r.task \in ClauseTask
      BY <2>6, ReqShape
    <3>2. r \in value_waits[u]
      BY <1>1, <2>4, <2>6 DEF AInv, ValuesAwaited
    <3>3. r.task \in reading_tasks[u]
      BY <1>1, <3>2 DEF AInv, ValuesOfReading
    <3>4. ReplyFor(u, r, r.task)
      BY <3>2, <3>3 DEF ReplyFor
    <3> QED BY <2>1, <3>1, <3>4
  <2> QED BY <2>2, <2>5, <2>6 DEF ClauseReq
<1> QED BY <1>1 DEF RepliesAwaited, UnwrapFails, RInv

(* A memory reply finds what waits for it: the unwraps of phase "reply"     *)
(* (clause.rs:308, 319, 323, 335) never panic, in both modes.               *)
THEOREM ClauseRepliesAwaited == Spec => []RepliesAwaited
BY SafeRepliesAwaited, InitStart, InitRInv, NextRInv, ClauseTypeCorrect, PTL DEF Spec
-----------------------------------------------------------------------------
(* The counters of the reads under way.                                     *)

ReadType == {"ClauseReadData", "ClauseReadValue"}

Count(u, type) == IF type = "ClauseReadData" THEN total_clause_data_mem_ongoing[u]
                                             ELSE total_clause_value_mem_ongoing[u]

Reads(u, type) == {r \in ClauseReq : OnWay(r) /\ r.unit = u /\ r.type = type}

CInv ==
  \A u \in Unit : \A type \in ReadType :
    IsFiniteSet(Reads(u, type)) /\ Count(u, type) = Cardinality(Reads(u, type))

LEMMA CountStays ==
  ASSUME CInv, \A q : OnWay(q)' <=> OnWay(q),
         UNCHANGED <<total_clause_data_mem_ongoing, total_clause_value_mem_ongoing>>
  PROVE  CInv'
<1>1. \A u, type : Reads(u, type)' = Reads(u, type)
  BY DEF Reads
<1>2. \A u, type : Count(u, type)' = Count(u, type)
  BY DEF Count
<1> QED BY <1>1, <1>2 DEF CInv

LEMMA CountRead ==
  ASSUME CInv, NEW r \in ClauseReq, ~OnWay(r), \A q : OnWay(q)' <=> q = r \/ OnWay(q),
         \A u \in Unit : \A type \in ReadType :
           Count(u, type)' = IF u = r.unit /\ type = r.type THEN Count(u, type) + 1
                                                            ELSE Count(u, type)
  PROVE  CInv'
<1> SUFFICES ASSUME NEW u \in Unit, NEW type \in ReadType
             PROVE  /\ IsFiniteSet(Reads(u, type)')
                    /\ Count(u, type)' = Cardinality(Reads(u, type)')
  BY DEF CInv
<1>1. IsFiniteSet(Reads(u, type)) /\ Count(u, type) = Cardinality(Reads(u, type))
  BY DEF CInv
<1>2. CASE u = r.unit /\ type = r.type
  <2>1. Reads(u, type)' = Reads(u, type) \cup {r} /\ r \notin Reads(u, type)
    BY <1>2 DEF Reads
  <2>2. Count(u, type)' = Count(u, type) + 1
    BY <1>2
  <2> QED BY <1>1, <2>1, <2>2, FS_AddElement
<1>3. CASE ~(u = r.unit /\ type = r.type)
  <2>1. Reads(u, type)' = Reads(u, type)
    BY <1>3 DEF Reads
  <2>2. Count(u, type)' = Count(u, type)
    BY <1>3
  <2> QED BY <1>1, <2>1, <2>2
<1> QED BY <1>2, <1>3

LEMMA CountReply ==
  ASSUME CInv, NEW r \in ClauseReq, OnWay(r), \A q : OnWay(q)' <=> q # r /\ OnWay(q),
         \A u \in Unit : \A type \in ReadType :
           Count(u, type)' = IF u = r.unit /\ type = r.type THEN Count(u, type) - 1
                                                            ELSE Count(u, type)
  PROVE  CInv'
<1> SUFFICES ASSUME NEW u \in Unit, NEW type \in ReadType
             PROVE  /\ IsFiniteSet(Reads(u, type)')
                    /\ Count(u, type)' = Cardinality(Reads(u, type)')
  BY DEF CInv
<1>1. IsFiniteSet(Reads(u, type)) /\ Count(u, type) = Cardinality(Reads(u, type))
  BY DEF CInv
<1>2. CASE u = r.unit /\ type = r.type
  <2>1. Reads(u, type)' = Reads(u, type) \ {r} /\ r \in Reads(u, type)
    BY <1>2 DEF Reads
  <2>2. Count(u, type)' = Count(u, type) - 1
    BY <1>2
  <2> QED BY <1>1, <2>1, <2>2, FS_RemoveElement
<1>3. CASE ~(u = r.unit /\ type = r.type)
  <2>1. Reads(u, type)' = Reads(u, type)
    BY <1>3 DEF Reads
  <2>2. Count(u, type)' = Count(u, type)
    BY <1>3
  <2> QED BY <1>1, <2>1, <2>2
<1> QED BY <1>2, <1>3

LEMMA ReplyOnWay ==
  ASSUME TypeOK, FInv, NEW u \in Unit, ReplyData(u) \/ ReplyValue(u), UNCHANGED envVars
  PROVE  \E r \in ClauseReq :
           /\ r.unit = u /\ r = Reply(u) /\ OnWay(r) /\ \A q : OnWay(q)' <=> q # r /\ OnWay(q)
<1>1. PICK r : r = Head(mem_in[u])
  OBVIOUS
<1>2. mem_in' = [mem_in EXCEPT ![u] = Received(mem_in[u])] /\ mem_in[u] # <<>>
  BY DEF ReplyData, ReplyValue
<1>3. UNCHANGED <<mem_out, memory>>
  BY DEF ReplyData, ReplyValue, envVars
<1>4. value_reqs' = value_reqs \/ value_reqs' = [value_reqs EXCEPT ![u] = <<>>]
  BY DEF ReplyData, ReplyValue, values
<1>5. /\ r \in ClauseReq /\ r.unit = u /\ OnWay(r)
      /\ \A q : OnWay(q)' <=> q # r /\ OnWay(q)
  BY <1>1, <1>2, <1>3, <1>4, ReplyFlights
<1> QED BY <1>1, <1>5 DEF Reply

LEMMA InitCInv == Start => CInv
<1> SUFFICES ASSUME Start PROVE CInv
  OBVIOUS
<1>1. Range(<<>>) = {}
  BY EmptySeq DEF Range
<1>2. \A r : ~OnWay(r)
  BY <1>1 DEF OnWay, Lies, Start, Init
<1>3. \A u, type : Reads(u, type) = {}
  BY <1>2 DEF Reads
<1>4. \A u \in Unit : \A type : Count(u, type) = 0
  BY DEF Count, Start, Init
<1> QED BY <1>3, <1>4, FS_EmptySet DEF CInv

LEMMA NextCInv == TypeOK /\ RInv /\ CInv /\ [Next]_vars => CInv'
<1> SUFFICES ASSUME TypeOK, PInv, FInv, AInv, CInv, [Next]_vars
             PROVE  CInv'
  BY DEF RInv
<1>1. CASE Dispatch /\ UNCHANGED <<mem_in, memory, answered>>
  <2>1. UNCHANGED <<value_reqs, mem_out, memory, mem_in>> /\ UNCHANGED ongoing
    BY <1>1 DEF Dispatch, values
  <2> QED BY <2>1, ShiftStaysFrom, CountStays DEF ongoing
<1>2. CASE MemoryTakes \/ OthersSend \/ (Dispatch /\ MemoryReplies)
  <2>1. Dispatch => UNCHANGED <<mem_out, value_reqs>>
    BY DEF Dispatch, values
  <2>2. \A q : OnWay(q)' <=> OnWay(q)
    BY <1>2, <2>1, MemoryTakesFlights, OthersSendFlights, MemoryRepliesFlights DEF FlowStays
  <2>3. UNCHANGED ongoing
    BY <1>2 DEF MemoryTakes, OthersSend, Dispatch
  <2> QED BY <2>2, <2>3, CountStays DEF ongoing
<1>3. CASE UNCHANGED vars
  <2>1. UNCHANGED <<value_reqs, mem_out, memory, mem_in>> /\ UNCHANGED ongoing
    BY <1>3 DEF vars, clauseVars, envVars, channels, values
  <2> QED BY <2>1, ShiftStaysFrom, CountStays DEF ongoing
<1>4. ASSUME NEW u \in Unit, UNCHANGED envVars,
             Process(u) \/ StartProcess(u) \/ Skip(u) \/ \E d \in Elapsed : Call(u, d)
      PROVE  CInv'
  <2>1. UNCHANGED <<value_reqs, mem_out, memory, mem_in>> /\ UNCHANGED ongoing
    BY <1>4 DEF Process, StartProcess, Skip, Call, channels, values, envVars
  <2> QED BY <2>1, ShiftStaysFrom, CountStays DEF ongoing
<1>5. ASSUME NEW u \in Unit, UNCHANGED envVars, ReadData(u)
      PROVE  CInv'
  <2>1. total_clause_value_mem_ongoing' = total_clause_value_mem_ongoing
    BY <1>5 DEF ReadData
  <2>2. CASE /\ total_clause_data_mem_ongoing' = total_clause_data_mem_ongoing
             /\ \A q : OnWay(q)' <=> OnWay(q)
    BY <2>1, <2>2, CountStays
  <2>3. ASSUME NEW c \in ClauseTask, ~OnWay(DataReq(u, c)),
               total_clause_data_mem_ongoing' =
                 [total_clause_data_mem_ongoing EXCEPT ![u] = total_clause_data_mem_ongoing[u] + 1],
               \A q : OnWay(q)' <=> q = DataReq(u, c) \/ OnWay(q)
        PROVE  CInv'
    <3>1. PICK r \in ClauseReq : r = DataReq(u, c) /\ r.unit = u /\ r.type = "ClauseReadData"
      BY ReqShape DEF ClauseReq
    <3>2. \A x \in Unit : total_clause_data_mem_ongoing'[x] =
                            IF x = u THEN total_clause_data_mem_ongoing[u] + 1
                                     ELSE total_clause_data_mem_ongoing[x]
      BY <2>3 DEF TypeOK, ClauseTypeOK
    <3>3. \A x \in Unit : \A type \in ReadType :
            Count(x, type)' = IF x = r.unit /\ type = r.type THEN Count(x, type) + 1
                                                             ELSE Count(x, type)
      BY <2>1, <3>1, <3>2 DEF Count, ReadType
    <3> QED BY <2>3, <3>1, <3>3, CountRead
  <2> QED BY <1>5, <2>2, <2>3, ReadDataFlights
<1>6. ASSUME NEW u \in Unit, UNCHANGED envVars, BeginValues(u)
      PROVE  CInv'
  <2>1. PICK c : c = Head(clause_data_ready_queue[u])
    OBVIOUS
  <2>2. \A q : OnWay(q)' <=> OnWay(q)
    BY <1>6, <2>1, BeginValuesFlights
  <2>3. UNCHANGED ongoing
    BY <1>6 DEF BeginValues
  <2> QED BY <2>2, <2>3, CountStays DEF ongoing
<1>7. ASSUME NEW u \in Unit, UNCHANGED envVars, ReadValue(u)
      PROVE  CInv'
  <2>1. total_clause_data_mem_ongoing' = total_clause_data_mem_ongoing
    BY <1>7 DEF ReadValue
  <2>2. CASE /\ total_clause_value_mem_ongoing' = total_clause_value_mem_ongoing
             /\ \A q : OnWay(q)' <=> OnWay(q)
    BY <2>1, <2>2, CountStays
  <2>3. ASSUME NEW r \in AllValueReqs, r.unit = u, ~OnWay(r),
               total_clause_value_mem_ongoing' =
                 [total_clause_value_mem_ongoing EXCEPT ![u] = total_clause_value_mem_ongoing[u] + 1],
               \A q : OnWay(q)' <=> q = r \/ OnWay(q)
        PROVE  CInv'
    <3>1. r \in ClauseReq /\ r.type = "ClauseReadValue"
      BY ReqShape
    <3>2. \A x \in Unit : total_clause_value_mem_ongoing'[x] =
                            IF x = u THEN total_clause_value_mem_ongoing[u] + 1
                                     ELSE total_clause_value_mem_ongoing[x]
      BY <2>3 DEF TypeOK, ClauseTypeOK
    <3>3. \A x \in Unit : \A type \in ReadType :
            Count(x, type)' = IF x = r.unit /\ type = r.type THEN Count(x, type) + 1
                                                             ELSE Count(x, type)
      BY <2>1, <2>3, <3>1, <3>2 DEF Count, ReadType
    <3> QED BY <2>3, <3>1, <3>3, CountRead
  <2> QED BY <1>7, <2>2, <2>3, ReadValueFlights
<1>8. ASSUME NEW u \in Unit, UNCHANGED envVars, ReplyData(u) \/ ReplyValue(u)
      PROVE  CInv'
  <2>1. PICK r \in ClauseReq : /\ r.unit = u /\ r = Reply(u) /\ OnWay(r)
                               /\ \A q : OnWay(q)' <=> q # r /\ OnWay(q)
    BY <1>8, ReplyOnWay
  <2>2. CASE ReplyData(u)
    <3>1. /\ r.type = "ClauseReadData"
          /\ total_clause_value_mem_ongoing' = total_clause_value_mem_ongoing
          /\ \A x \in Unit : total_clause_data_mem_ongoing'[x] =
                               IF x = u THEN total_clause_data_mem_ongoing[u] - 1
                                        ELSE total_clause_data_mem_ongoing[x]
      BY <2>1, <2>2 DEF ReplyData, CountDataReply, TypeOK, ClauseTypeOK
    <3>2. \A x \in Unit : \A type \in ReadType :
            Count(x, type)' = IF x = r.unit /\ type = r.type THEN Count(x, type) - 1
                                                             ELSE Count(x, type)
      BY <2>1, <3>1 DEF Count, ReadType
    <3> QED BY <2>1, <3>2, CountReply
  <2>3. CASE ReplyValue(u)
    <3>1. /\ r.type = "ClauseReadValue"
          /\ total_clause_data_mem_ongoing' = total_clause_data_mem_ongoing
          /\ \A x \in Unit : total_clause_value_mem_ongoing'[x] =
                               IF x = u THEN total_clause_value_mem_ongoing[u] - 1
                                        ELSE total_clause_value_mem_ongoing[x]
      BY <2>1, <2>3 DEF ReplyValue, CountValueReply, TypeOK, ClauseTypeOK
    <3>2. \A x \in Unit : \A type \in ReadType :
            Count(x, type)' = IF x = r.unit /\ type = r.type THEN Count(x, type) - 1
                                                             ELSE Count(x, type)
      BY <2>1, <3>1 DEF Count, ReadType
    <3> QED BY <2>1, <3>2, CountReply
  <2> QED BY <1>8, <2>2, <2>3
<1> QED BY <1>1, <1>2, <1>3, <1>4, <1>5, <1>6, <1>7, <1>8
        DEF Next, EnvNext, Dispatch, UnitNext, Step

(* The reads a unit counts are those between it and the memory network, none *)
(* of them there twice, in both modes: the tests of clause.rs:88 and 208     *)
(* never see a counter that drifted.                                       *)
THEOREM ClauseCountersMatch == Spec => []CountersMatch
<1>1. ASSUME TypeOK, FInv, CInv PROVE CountersMatch
  <2>1. \A s : ToSet(s) = Range(s)
    BY DEF ToSet, Range
  <2>2. ASSUME NEW p \in Pe
        PROVE  /\ AtPort(p) = Range(mem_out[p]) \cap ClauseReq
               /\ memory \cap AtPort(p) = {}
               /\ \A i, j \in DOMAIN mem_out[p] :
                    i # j /\ mem_out[p][i] = mem_out[p][j] => mem_out[p][i] \in OtherReq
    <3>1. mem_out[p] \in Seq(ClauseReq \cup OtherReq) /\ OnceIn(mem_out[p], ClauseReq)
      BY <1>1 DEF TypeOK, FInv, NoDoubleRequests
    <3>2. \A i \in DOMAIN mem_out[p] : mem_out[p][i] \in ClauseReq \cup OtherReq
      BY <3>1
    <3>3. AtPort(p) = Range(mem_out[p]) \cap ClauseReq
      <4>1. Range(mem_out[p]) \subseteq ClauseReq \cup OtherReq
        BY <3>2 DEF Range
      <4> QED BY <2>1, <4>1, EnvAssumption DEF AtPort
    <3>4. ASSUME NEW r, r \in memory, r \in AtPort(p) PROVE FALSE
      <4>1. Lies(r, "memory", None) /\ Lies(r, "out", p)
        BY <3>3, <3>4, LiesIs
      <4> QED BY <1>1, <4>1 DEF FInv, Apart
    <3>5. \A i, j \in DOMAIN mem_out[p] :
            i # j /\ mem_out[p][i] = mem_out[p][j] => mem_out[p][i] \in OtherReq
      BY <3>1, <3>2 DEF OnceIn
    <3> QED BY <3>3, <3>4, <3>5
  <2>3. ASSUME NEW u \in Unit, NEW type
        PROVE  UnderWay(u, type) = Reads(u, type)
    <3>1. PICK o \in Pe : o = PeOf[u]
      BY ClauseAssumption
    <3>2. ASSUME NEW r, r.unit = u
          PROVE  r \in AtPort(o) \/ r \in Range(mem_in[u]) \/ r \in memory
                   <=> r \in ClauseReq /\ OnWay(r)
      <4>1. /\ r \in AtPort(o) <=> Lies(r, "out", o)
            /\ r \in Range(mem_in[u]) <=> Lies(r, "in", u)
            /\ r \in memory <=> Lies(r, "memory", None)
        BY <2>2, LiesIs
      <4>2. \A i : /\ Lies(r, "out", i) => i = o
                   /\ Lies(r, "in", i) => i = u
                   /\ Lies(r, "memory", i) => i = None
        BY <1>1, <3>1, <3>2, LiesIs DEF FInv, Addressed
      <4>3. \A f, i : Lies(r, f, i) => r \in ClauseReq
        BY <1>1 DEF FInv, Addressed
      <4> QED BY <4>1, <4>2, <4>3 DEF OnWay
    <3>3. UnderWay(u, type) = {r \in AtPort(o) \cup Range(mem_in[u]) \cup memory :
                                 r.unit = u /\ r.type = type}
      BY <2>1, <3>1 DEF UnderWay
    <3> QED BY <3>2, <3>3 DEF Reads
  <2>4. ASSUME NEW u \in Unit
        PROVE  /\ total_clause_data_mem_ongoing[u] = Cardinality(UnderWay(u, "ClauseReadData"))
               /\ total_clause_value_mem_ongoing[u] = Cardinality(UnderWay(u, "ClauseReadValue"))
    <3>1. \A type \in ReadType : Count(u, type) = Cardinality(Reads(u, type))
      BY <1>1 DEF CInv
    <3> QED BY <2>3, <3>1 DEF Count, ReadType
  <2> QED BY <2>2, <2>4 DEF CountersMatch
<1>2. TypeOK /\ RInv /\ CInv => CountersMatch
  BY <1>1 DEF RInv
<1> QED BY <1>2, InitStart, InitRInv, NextRInv, InitCInv, NextCInv, ClauseTypeCorrect, PTL DEF Spec
-----------------------------------------------------------------------------
(* No value is ignored by the pipelined unit.                               *)

Early(c) == \E k \in EarlyKind : \E l : IsIn(c, k, l)

\* Once its values are to be read, each of them is awaited or answered.
AllRead ==
  \A c \in ClauseTask : Early(c) \/
    \A r \in SetOf(ValueReqs(HomeUnit[c], c)) : r \in value_waits[HomeUnit[c]] \/ r \in answered

LEMMA InitAllRead == EnvInit => AllRead
<1>1. ASSUME EnvInit, NEW c \in ClauseTask PROVE Early(c)
  <2>1. IsIn(c, "pending", None)
    BY <1>1 DEF IsIn, EnvInit
  <2> QED BY <2>1 DEF Early, EarlyKind
<1> QED BY <1>1 DEF AllRead

\* A value stops being awaited only when its answer is taken.
LEMMA AwaitedOrAnswered ==
  ASSUME TypeOK, RInv, [Next]_vars, NEW x \in Unit, NEW r, r \in value_waits[x] \/ r \in answered
  PROVE  r \in value_waits'[x] \/ r \in answered'
<1>1. answered \subseteq answered'
  BY DEF Next, EnvNext, Dispatch, MemoryReplies, MemoryTakes, OthersSend, envVars, vars
<1>2. CASE UNCHANGED value_waits
  BY <1>1, <1>2
<1>3. CASE EnvNext \/ UNCHANGED vars
  BY <1>2, <1>3
     DEF EnvNext, Dispatch, MemoryTakes, OthersSend, values, vars, clauseVars
<1>4. ASSUME NEW u \in Unit,
             \/ ReadData(u) \/ Process(u) \/ StartProcess(u) \/ Skip(u) \/ ReplyData(u)
             \/ \E d \in Elapsed : Call(u, d)
      PROVE  UNCHANGED value_waits
  BY <1>4 DEF ReadData, Process, StartProcess, Skip, ReplyData, Call, values
<1>5. ASSUME NEW u \in Unit, BeginValues(u) \/ ReadValue(u)
      PROVE  value_waits[x] \subseteq value_waits'[x]
  <2>1. value_waits \in [Unit -> SUBSET AllValueReqs]
    BY DEF TypeOK, ClauseTypeOK
  <2>2. \/ value_waits' = value_waits
        \/ \E S : value_waits' = [value_waits EXCEPT ![u] = value_waits[u] \cup S]
    <3>1. CASE BeginValues(u)
      BY <3>1 DEF BeginValues
    <3>2. CASE ReadValue(u)
      BY <3>2 DEF ReadValue
    <3> QED BY <1>5, <3>1, <3>2
  <2> QED BY <2>1, <2>2
<1>6. ASSUME NEW u \in Unit, ReplyValue(u)
      PROVE  r \in value_waits'[x] \/ r \in answered'
  <2>1. PICK q : q = Head(mem_in[u])
    OBVIOUS
  <2>2. mem_in[u] # <<>> /\ value_waits' = [value_waits EXCEPT ![u] = value_waits[u] \ {q}]
    BY <1>6, <2>1 DEF ReplyValue, Reply
  <2>3. q \in Range(mem_in[u])
    <3>1. mem_in[u] \in Seq(ClauseReq)
      BY DEF TypeOK, ClauseTypeOK
    <3> QED BY <2>1, <2>2, <3>1, TailRange
  <2>4. Lies(q, "in", u)
    BY <2>3, LiesIs
  <2>5. q \in answered
    BY <2>4 DEF RInv, AInv, InAnswered
  <2>6. r \in value_waits[x] /\ r # q => r \in value_waits'[x]
    BY <2>2 DEF TypeOK, ClauseTypeOK
  <2> QED BY <1>1, <2>5, <2>6
<1> QED BY <1>1, <1>2, <1>3, <1>4, <1>5, <1>6 DEF Next, UnitNext, Step

LEMMA NextAllRead ==
  ASSUME Pipelined, TypeOK, RInv, AllRead, [Next]_vars
  PROVE  AllRead'
<1> SUFFICES ASSUME NEW c \in ClauseTask, ~Early(c)',
                    NEW r \in SetOf(ValueReqs(HomeUnit[c], c))
             PROVE  r \in value_waits'[HomeUnit[c]] \/ r \in answered'
  BY DEF AllRead
<1>1. HomeUnit[c] \in Unit
  BY EnvAssumption
<1>2. CASE ~Early(c)
  <2>1. r \in value_waits[HomeUnit[c]] \/ r \in answered
    BY <1>2 DEF AllRead
  <2> QED BY <1>1, <2>1, AwaitedOrAnswered
<1>3. ASSUME NEW u \in Unit, NEW d, BeginValues(u), d = Head(clause_data_ready_queue[u]),
             Moves(d, "data_ready", u, "reading", u), Early(c)
      PROVE  r \in value_waits'[HomeUnit[c]]
  <2>1. c = d
    BY <1>3 DEF Moves, Early
  <2>2. u = HomeUnit[c]
    BY <1>3, <2>1 DEF Moves
  <2>3. value_waits' = [value_waits EXCEPT ![u] = value_waits[u] \cup SetOf(ValueReqs(u, c))]
    BY <1>3, <2>1 DEF BeginValues
  <2>4. value_waits \in [Unit -> SUBSET AllValueReqs]
    BY DEF TypeOK, ClauseTypeOK
  <2> QED BY <2>2, <2>3, <2>4
<1>4. ASSUME Placed, Early(c)
      PROVE  FALSE
  <2>1. CASE Stays
    BY <1>4, <2>1 DEF Stays, Early
  <2>2. ASSUME NEW d, NEW a, NEW i, NEW b, NEW j, Moves(d, a, i, b, j), a \in EarlyKind => b \in EarlyKind
        PROVE  FALSE
    <3>1. PICK k, l : k \in EarlyKind /\ IsIn(c, k, l)
      BY <1>4 DEF Early
    <3>2. CASE c = d
      <4>1. a = k
        BY <2>2, <3>1, <3>2 DEF Moves, RInv, PInv, OnePlace
      <4>2. IsIn(c, b, j)'
        BY <2>2, <3>2 DEF Moves
      <4> QED BY <2>2, <3>1, <4>1, <4>2 DEF Early
    <3>3. CASE c # d
      <4>1. IsIn(c, k, l)'
        BY <2>2, <3>1, <3>3 DEF Moves
      <4> QED BY <3>1, <4>1 DEF Early
    <3> QED BY <3>2, <3>3
  <2>3. ASSUME NEW d, Leaves(d)
        PROVE  FALSE
    <3>1. PICK k, l : k \in EarlyKind /\ IsIn(c, k, l)
      BY <1>4 DEF Early
    <3>2. c # d
      BY <2>3, <3>1 DEF Leaves, RInv, PInv, OnePlace, EarlyKind
    <3>3. IsIn(c, k, l)'
      BY <2>3, <3>1, <3>2 DEF Leaves
    <3> QED BY <3>1, <3>3 DEF Early
  <2> QED BY <1>4, <2>1, <2>2, <2>3 DEF Placed
<1> QED BY <1>2, <1>3, <1>4, NextPlaced DEF RInv

(* "never ignore any value, that's a bug!" (clause.rs:228): the pipelined    *)
(* unit processes a task only after each of its values has come.            *)
THEOREM ClauseAllValuesRead ==
  ASSUME Pipelined
  PROVE  Spec => []AllValuesRead
<1>1. ASSUME TypeOK, RInv, AllRead, NEW c \in ClauseTask, Taken(c) \/ c \in Finished
      PROVE  /\ ToSet(ValueReqs(HomeUnit[c], c)) \subseteq answered
             /\ ToSet(ValueReqs(HomeUnit[c], c)) \cap ToSet(mem_in[HomeUnit[c]]) = {}
  <2>1. PICK u \in Unit : u = HomeUnit[c]
    BY EnvAssumption
  <2>2. (\E i : IsIn(c, "value_ready", i) \/ IsIn(c, "process", i)) \/ c \in Gone
    <3>1. Finished = Gone
      BY <1>1, PlacesAre DEF Finished, Gone, RInv
    <3>2. ASSUME Taken(c)
          PROVE  \E i : IsIn(c, "value_ready", i) \/ IsIn(c, "process", i)
      <4>1. PICK i \in Unit : \/ Contains(clause_value_ready_queue[i], c)
                              \/ \E x \in {current_processing_task[i]} \ {None} : x.task = c
        BY <3>2 DEF Taken
      <4>2. Contains(clause_value_ready_queue[i], c) => c \in Range(clause_value_ready_queue[i])
        BY DEF Contains, Range
      <4> QED BY <4>1, <4>2, IsInIs
    <3> QED BY <1>1, <3>1, <3>2
  <2>3. ~Early(c) /\ \A i : ~IsIn(c, "reading", i)
    BY <1>1, <2>2 DEF Gone, Early, EarlyKind, RInv, PInv, OnePlace
  <2>4. ASSUME NEW r \in SetOf(ValueReqs(u, c))
        PROVE  r \in answered /\ r \notin Range(mem_in[u])
    <3>1. r \in AllValueReqs /\ r.unit = u /\ r.task = c
      BY ReqShape
    <3>2. c \notin reading_tasks[u]
      BY <2>3, IsInIs
    <3>3. r \notin value_waits[u]
      BY <1>1, <3>1, <3>2 DEF RInv, AInv, ValuesOfReading
    <3>4. ~OnWay(r)
      BY <1>1, <3>1, <3>3 DEF RInv, AInv, ValuesAwaited
    <3>5. r \notin Range(mem_in[u])
      BY <3>4, LiesIs DEF OnWay
    <3> QED BY <1>1, <2>1, <2>3, <3>3, <3>5 DEF AllRead
  <2>5. \A s : ToSet(s) = Range(s) /\ ToSet(s) = SetOf(s)
    BY DEF ToSet, Range, SetOf
  <2> QED BY <2>1, <2>4, <2>5
<1>2. TypeOK /\ RInv /\ AllRead => AllValuesRead
  BY <1>1 DEF AllValuesRead
<1>3. TypeOK /\ RInv /\ AllRead /\ [Next]_vars => AllRead'
  BY NextAllRead
<1> QED BY <1>2, <1>3, InitStart, InitAllRead, InitRInv, NextRInv, ClauseTypeCorrect, PTL DEF Spec
-----------------------------------------------------------------------------
(* What the phases of an update that reports no work have found.            *)

Quiet(u, ph) ==
  /\ current_processing_task[u] = None
  /\ ph \in Phase \ {"data", "begin"} =>
       \/ clause_data_ready_queue[u] = <<>>
       \/ ~Pipelined /\ reading_tasks[u] # {}
  /\ ph \in Phase \ {"data", "begin", "value"} => value_reqs[u] = <<>>
  /\ ph \in {"reply", "return"} => clause_value_ready_queue[u] = <<>>

QuietSoFar == \A u \in Unit : \A ph \in Phase : At(u, ph) /\ ~busy[u] => Quiet(u, ph)

LEMMA InitQuietSoFar == Start => QuietSoFar
BY DEF Start, Init, QuietSoFar, Quiet, At

\* A step that reports work says nothing about the rest of the update.
LEMMA BusyQuiet ==
  ASSUME TypeOK, NEW u \in Unit, NEW ph \in DOMAIN NextPhase, NEW b \in BOOLEAN,
         Report(u, b), Done(u, ph)
  PROVE  QuietSoFar'
<1>1. busy' = [busy EXCEPT ![u] = TRUE] /\ busy \in [Unit -> BOOLEAN]
  BY DEF Report, TypeOK, ClauseTypeOK
<1>2. \A x \in Unit : \A k : At(x, k)' => x = u
  BY DEF Done, At
<1> QED BY <1>1, <1>2 DEF QuietSoFar

LEMMA SkipQuiet ==
  ASSUME TypeOK, QuietSoFar, NEW u \in Unit, Skip(u)
  PROVE  QuietSoFar'
<1>1. PICK ph \in DOMAIN NextPhase :
        /\ At(u, ph) /\ ~HasWork(u, ph) /\ Done(u, ph)
        /\ busy' = [busy EXCEPT ![u] = busy[u] \/ StoppedByLimit(u, ph)]
  BY DEF Skip
<1>2. UNCHANGED <<current_processing_task, clause_data_ready_queue, reading_tasks, value_reqs,
                  clause_value_ready_queue>>
  BY DEF Skip, tasks, values
<1>3. PICK nx : nx = NextPhase[ph]
  OBVIOUS
<1>4. \A x \in Unit : \A k : At(x, k)' => x = u /\ k = nx
  BY <1>1, <1>3 DEF Done, At
<1>5. busy \in [Unit -> BOOLEAN]
  BY DEF TypeOK, ClauseTypeOK
<1>6. SUFFICES ASSUME ~busy[u], ~StoppedByLimit(u, ph)
               PROVE  Quiet(u, nx)'
  <2>1. busy'[u] = (busy[u] \/ StoppedByLimit(u, ph))
    BY <1>1, <1>5
  <2> QED BY <1>4, <1>6, <2>1 DEF QuietSoFar
<1>7. Quiet(u, ph)
  BY <1>1, <1>6, Phases DEF QuietSoFar, Phase
<1>8. Quiet(u, nx)
  <2>1. CASE ph = "data"
    BY <1>3, <1>7, <2>1 DEF NextPhase, Quiet
  <2>2. CASE ph = "begin"
    <3>1. clause_data_ready_queue[u] = <<>> \/ (~Pipelined /\ reading_tasks[u] # {})
      BY <1>1, <1>6, <2>2 DEF HasWork, CanBegin, StoppedByLimit, RoomToBegin
    <3> QED BY <1>3, <1>7, <2>2, <3>1 DEF NextPhase, Quiet
  <2>3. CASE ph = "value"
    <3>1. value_reqs[u] = <<>>
      BY <1>1, <1>6, <2>3 DEF HasWork, CanReadValue, StoppedByLimit
    <3> QED BY <1>3, <1>7, <2>3, <3>1 DEF NextPhase, Quiet, Phase
  <2>4. CASE ph = "process"
    BY <1>3, <1>7, <2>4 DEF NextPhase, Quiet, Phase
  <2>5. CASE ph = "start"
    <3>1. clause_value_ready_queue[u] = <<>>
      BY <1>1, <1>7, <2>5 DEF HasWork, CanStart, Quiet
    <3> QED BY <1>3, <1>7, <2>5, <3>1 DEF NextPhase, Quiet, Phase
  <2>6. CASE ph = "reply"
    BY <1>3, <1>7, <2>6 DEF NextPhase, Quiet, Phase
  <2> QED BY <2>1, <2>2, <2>3, <2>4, <2>5, <2>6 DEF NextPhase
<1> QED BY <1>2, <1>8 DEF Quiet

LEMMA NextQuietSoFar == TypeOK /\ QuietSoFar /\ [Next]_vars => QuietSoFar'
<1> SUFFICES ASSUME TypeOK, QuietSoFar, [Next]_vars
             PROVE  QuietSoFar'
  OBVIOUS
<1>1. CASE EnvNext \/ UNCHANGED vars
  <2>1. UNCHANGED <<pc, busy, current_processing_task, clause_data_ready_queue, reading_tasks,
                    value_reqs, clause_value_ready_queue>>
    BY <1>1 DEF EnvNext, Dispatch, MemoryTakes, OthersSend, vars, clauseVars, control, tasks,
                values
  <2> QED BY <2>1 DEF QuietSoFar, Quiet, At
<1>2. ASSUME NEW u \in Unit, NEW d \in Elapsed, Call(u, d)
      PROVE  QuietSoFar'
  <2>1. \A x \in Unit : \A k : At(x, k)' => x = u /\ k = "data"
    BY <1>2 DEF Call, At
  <2>2. busy'[u] = (current_processing_task[u] # None)
    BY <1>2 DEF Call, TypeOK, ClauseTypeOK
  <2>3. current_processing_task[u] = None => current_processing_task'[u] = None
    BY <1>2 DEF Call, TypeOK, ClauseTypeOK
  <2> QED BY <2>1, <2>2, <2>3 DEF QuietSoFar, Quiet
<1>3. ASSUME NEW u \in Unit, \/ ReadData(u) \/ BeginValues(u) \/ ReadValue(u) \/ Process(u)
                             \/ StartProcess(u) \/ ReplyData(u) \/ ReplyValue(u)
      PROVE  QuietSoFar'
  <2>1. \E b \in BOOLEAN : \E ph \in {"data", "begin", "value", "process", "start", "reply"} :
          Report(u, b) /\ Done(u, ph)
    BY <1>3 DEF ReadData, BeginValues, ReadValue, Process, StartProcess, ReplyData, ReplyValue
  <2>2. DOMAIN NextPhase = {"data", "begin", "value", "process", "start", "reply"}
    BY DEF NextPhase
  <2> QED BY <2>1, <2>2, BusyQuiet
<1>4. ASSUME NEW u \in Unit, Skip(u)
      PROVE  QuietSoFar'
  BY <1>4, SkipQuiet
<1> QED BY <1>1, <1>2, <1>3, <1>4 DEF Next, UnitNext, Step

\* A unit that was quiet and waits for no value holds no task that has its clause.
LEMMA QuietHoldsNothing ==
  ASSUME TypeOK, AInv, NEW u \in Unit, Quiet(u, "return"),
         \A r \in AllValueReqs : r.unit = u => ~OnWay(r)
  PROVE  /\ clause_data_ready_queue[u] = <<>> /\ clause_value_ready_queue[u] = <<>>
         /\ current_processing_task[u] = None /\ reading_tasks[u] = {}
<1>1. /\ current_processing_task[u] = None /\ clause_value_ready_queue[u] = <<>>
      /\ value_reqs[u] = <<>>
      /\ clause_data_ready_queue[u] = <<>> \/ reading_tasks[u] # {}
  <2>1. /\ "return" \in Phase /\ "return" \in Phase \ {"data", "begin"}
        /\ "return" \in Phase \ {"data", "begin", "value"}
    BY DEF Phase
  <2> QED BY <2>1 DEF Quiet
<1>2. ASSUME NEW c \in reading_tasks[u] PROVE FALSE
  <2>1. PICK r : r.task = c /\ (r \in value_waits[u] \/ Lies(r, "unsent", u))
    BY DEF AInv, ReadingHasValues
  <2>2. ~Lies(r, "unsent", u)
    <3>1. r \notin Range(<<>>)
      BY EmptySeq DEF Range
    <3> QED BY <1>1, <3>1, LiesIs
  <2>3. r \in value_waits[u] /\ r \in AllValueReqs /\ r.unit = u
    <3>1. r \in value_waits[u]
      BY <2>1, <2>2
    <3> QED BY <3>1 DEF TypeOK, ClauseTypeOK, AInv, ValuesAwaited
  <2>4. OnWay(r)
    BY <2>2, <2>3 DEF AInv, ValuesAwaited
  <2> QED BY <2>3, <2>4
<1> QED BY <1>1, <1>2

(* SimRunner::run ends when no component is busy (sim.rs:158): a clause unit *)
(* whose update reports no work holds work only while it waits for a reply, *)
(* in both modes.                                                          *)
THEOREM ClauseQuietOnlyIfWaiting == Spec => []QuietOnlyIfWaiting
<1>1. ASSUME TypeOK, RInv, CInv, QuietSoFar, NEW u \in Unit, At(u, "return"), ~busy[u],
             total_clause_data_mem_ongoing[u] = 0, total_clause_value_mem_ongoing[u] = 0
      PROVE  /\ clause_data_ready_queue[u] = <<>> /\ clause_value_ready_queue[u] = <<>>
             /\ current_processing_task[u] = None /\ reading_tasks[u] = {}
  <2>1. Quiet(u, "return")
    BY <1>1 DEF QuietSoFar, Phase
  <2>2. ASSUME NEW r \in AllValueReqs, r.unit = u, OnWay(r) PROVE FALSE
    <3>1. r \in Reads(u, "ClauseReadValue")
      BY <2>2, ReqShape DEF Reads
    <3>2. /\ IsFiniteSet(Reads(u, "ClauseReadValue"))
          /\ Cardinality(Reads(u, "ClauseReadValue")) = 0
      BY <1>1 DEF CInv, Count, ReadType
    <3> QED BY <3>1, <3>2, FS_EmptySet
  <2> QED BY <1>1, <2>1, <2>2, QuietHoldsNothing DEF RInv
<1>2. TypeOK /\ RInv /\ CInv /\ QuietSoFar => QuietOnlyIfWaiting
  BY <1>1 DEF QuietOnlyIfWaiting
<1> QED BY <1>2, InitStart, InitRInv, NextRInv, InitCInv, NextCInv, InitQuietSoFar, NextQuietSoFar,
           ClauseTypeCorrect, PTL DEF Spec
-----------------------------------------------------------------------------
(* What System needs of the clause units: their invariants together, which  *)
(* the counting of the trail and of the watchers keeps as well.             *)

SafeInv == IInv /\ OtherTypes /\ RInv /\ CInv /\ QuietSoFar

LEMMA SafeTypes == SafeInv => TypeOK
BY DEF SafeInv, IInv, QueueTypes, OtherTypes, TypeOK, ClauseTypeOK

LEMMA InitSafeInv == Start => SafeInv
BY InitIInv, InitOtherTypes, InitRInv, InitCInv, InitQuietSoFar DEF SafeInv

LEMMA NextSafeInv == SafeInv /\ [Next]_vars => SafeInv'
<1>1. SafeInv => QueueTypes /\ TypeOK
  BY SafeTypes DEF SafeInv, IInv
<1> QED BY <1>1, NextIInv, NextTypes, NextRInv, NextCInv, NextQuietSoFar DEF SafeInv

OthersCount ==
  /\ UNCHANGED <<control, channels, clause_data_ready_queue, clause_value_ready_queue,
                 current_processing_task, mem_req_id_to_clause_task, values, ongoing, envVars>>
  /\ current_level_finished_tasks' \in Nat

LEMMA OthersCountSafeInv == SafeInv /\ OthersCount => SafeInv'
<1> SUFFICES ASSUME IInv, OtherTypes, PInv, FInv, AInv, CInv, QuietSoFar, OthersCount
             PROVE  SafeInv'
  BY DEF SafeInv, RInv
<1>1. /\ UNCHANGED <<pc, busy, updated, clause_task_in, mem_out, mem_in,
                     clause_data_ready_queue, clause_value_ready_queue,
                     current_processing_task, mem_req_id_to_clause_task,
                     reading_tasks, value_reqs, value_waits,
                     total_clause_data_mem_ongoing, total_clause_value_mem_ongoing,
                     pending, memory, answered>>
      /\ current_level_finished_tasks' \in Nat
  BY DEF OthersCount, control, channels, values, ongoing, envVars
<1>2. IInv'
  BY <1>1 DEF IInv, QueueTypes, ClauseBounds
<1>3. OtherTypes'
  BY <1>1 DEF OtherTypes
<1>4. PInv'
  <2>1. \A c, a, i : IsIn(c, a, i)' <=> IsIn(c, a, i)
    BY <1>1 DEF IsIn
  <2>2. NoDoubles'
    BY <1>1 DEF PInv, NoDoubles
  <2>3. OnePlace'
    BY <2>1 DEF PInv, OnePlace
  <2>4. AtHome'
    BY <2>1 DEF PInv, AtHome
  <2> QED BY <2>2, <2>3, <2>4 DEF PInv
<1>5. FInv' /\ AInv'
  BY <1>1, OtherStepsAwaited
<1>6. CInv'
  <2>1. \A q : OnWay(q)' <=> OnWay(q)
    BY <1>1 DEF OnWay, Lies
  <2> QED BY <1>1, <2>1, CountStays
<1>7. QuietSoFar'
  BY <1>1 DEF QuietSoFar, Quiet, At
<1> QED BY <1>2, <1>3, <1>4, <1>5, <1>6, <1>7 DEF SafeInv, RInv

(* Units that were all quiet, with no request of theirs on its way, hold     *)
(* nothing.                                                                *)
LEMMA NothingHeld ==
  ASSUME SafeInv, \A u \in Unit : Quiet(u, "return") /\ ~CanReadData(u), \A r : ~OnWay(r)
  PROVE  \A u \in Unit :
           /\ clause_task_in[u] = <<>> /\ mem_req_id_to_clause_task[u] = {}
           /\ clause_data_ready_queue[u] = <<>> /\ reading_tasks[u] = {}
           /\ clause_value_ready_queue[u] = <<>> /\ current_processing_task[u] = None
<1>1. TypeOK /\ AInv /\ CInv
  BY SafeTypes DEF SafeInv, RInv
<1> TAKE u \in Unit
<1>2. /\ clause_data_ready_queue[u] = <<>> /\ clause_value_ready_queue[u] = <<>>
      /\ current_processing_task[u] = None /\ reading_tasks[u] = {}
  BY <1>1, QuietHoldsNothing
<1>3. mem_req_id_to_clause_task[u] = {}
  <2>1. ASSUME NEW c \in mem_req_id_to_clause_task[u] PROVE FALSE
    <3>1. c \in ClauseTask
      BY <1>1 DEF TypeOK, ClauseTypeOK
    <3>2. PICK r \in DataReqs : r.unit = u /\ r.task = c
      BY <3>1, ReqShape
    <3>3. OnWay(r)
      BY <1>1, <2>1, <3>2 DEF AInv, DataAwaited
    <3> QED BY <3>3
  <2> QED BY <2>1
<1>4. total_clause_data_mem_ongoing[u] = 0
  <2>1. Reads(u, "ClauseReadData") = {}
    BY DEF Reads
  <2> QED BY <1>1, <2>1, FS_EmptySet DEF CInv, Count, ReadType
<1>5. clause_task_in[u] = <<>>
  <2>1. Len(<<>>) = 0 /\ QueueLimit \in Nat \ {0}
    BY EmptySeq, ClauseAssumption
  <2> QED BY <1>2, <1>4, <2>1 DEF CanReadData
<1> QED BY <1>2, <1>3, <1>5

\* Units that find no work in any phase, with no request of theirs on its way,
\* hold nothing: what they have not begun they could begin.
LEMMA NoWorkHoldsNothing ==
  ASSUME SafeInv, \A u \in Unit, ph \in DOMAIN NextPhase : ~HasWork(u, ph), \A r : ~OnWay(r)
  PROVE  \A u \in Unit :
           /\ RoomToRead(u) /\ (Pipelined => RoomToBegin(u))
           /\ clause_task_in[u] = <<>> /\ mem_req_id_to_clause_task[u] = {}
           /\ clause_data_ready_queue[u] = <<>> /\ reading_tasks[u] = {}
           /\ clause_value_ready_queue[u] = <<>> /\ current_processing_task[u] = None
<1>1. TypeOK /\ AInv /\ CInv
  BY SafeTypes DEF SafeInv, RInv
<1>2. QueueLimit \in Nat \ {0} /\ Len(<<>>) = 0 /\ Cardinality({}) = 0
  BY ClauseAssumption, EmptySeq, FS_EmptySet
<1>3. ASSUME NEW u \in Unit
      PROVE  /\ Quiet(u, "return") /\ ~CanReadData(u)
             /\ RoomToRead(u) /\ (Pipelined => RoomToBegin(u))
  <2>1. /\ ~CanReadData(u) /\ ~CanBegin(u) /\ ~CanReadValue(u) /\ ~CanStart(u)
        /\ current_processing_task[u] = None
    BY DEF HasWork, NextPhase
  <2>2. clause_value_ready_queue[u] = <<>>
    BY <2>1 DEF CanStart
  <2>3. total_clause_value_mem_ongoing[u] = 0
    <3>1. Reads(u, "ClauseReadValue") = {}
      BY DEF Reads
    <3> QED BY <1>1, <3>1, FS_EmptySet DEF CInv, Count, ReadType
  <2>4. RoomToRead(u) /\ value_reqs[u] = <<>>
    BY <1>2, <2>1, <2>2, <2>3 DEF CanReadValue, RoomToRead
  <2>5. reading_tasks[u] = {}
    <3>1. ASSUME NEW c \in reading_tasks[u] PROVE FALSE
      <4>1. PICK r : r.task = c /\ (r \in value_waits[u] \/ Lies(r, "unsent", u))
        BY <1>1 DEF AInv, ReadingHasValues
      <4>2. ~Lies(r, "unsent", u)
        <5>1. r \notin Range(<<>>)
          BY EmptySeq DEF Range
        <5> QED BY <2>4, <5>1, LiesIs
      <4>3. r \in value_waits[u]
        BY <4>1, <4>2
      <4>4. OnWay(r)
        BY <1>1, <4>2, <4>3 DEF TypeOK, ClauseTypeOK, AInv, ValuesAwaited
      <4> QED BY <4>4
    <3> QED BY <3>1
  <2>6. RoomToBegin(u) /\ clause_data_ready_queue[u] = <<>>
    BY <1>2, <2>1, <2>5 DEF CanBegin, RoomToBegin
  <2> QED BY <2>1, <2>2, <2>4, <2>6 DEF Quiet
<1> QED BY <1>3, NothingHeld

(* What System needs for the level barrier: a task is in a place until it is *)
(* finished, and the counter goes up with each task that is.                *)
LEMMA NextGone ==
  ASSUME TypeOK, PInv, [Next]_vars
  PROVE  \/ /\ Gone' = Gone
            /\ current_level_finished_tasks' = current_level_finished_tasks
         \/ /\ \E c \in ClauseTask \ Gone : Gone' = Gone \cup {c}
            /\ current_level_finished_tasks' = current_level_finished_tasks + 1
<1>1. ASSUME NEW c, Leaves(c) PROVE c \in ClauseTask
  BY <1>1 DEF Leaves
<1> QED BY <1>1, NextPlaced, StaysPlaces, MovesPlaces, LeavesPlaces DEF Placed, PInv

LEMMA UnchangedGone ==
  ASSUME UNCHANGED <<pending, clause_task_in, mem_req_id_to_clause_task,
                     clause_data_ready_queue, reading_tasks, clause_value_ready_queue,
                     current_processing_task>>
  PROVE  Gone' = Gone
<1>1. \A c, a, i : IsIn(c, a, i)' <=> IsIn(c, a, i)
  BY DEF IsIn
<1> QED BY <1>1 DEF Gone

\* A task a clause unit has.
InSomeUnit(c) ==
  \E u \in Unit :
    \/ \E ch \in {clause_task_in[u], clause_data_ready_queue[u],
                  clause_value_ready_queue[u]} : Contains(ch, c)
    \/ c \in mem_req_id_to_clause_task[u] \cup reading_tasks[u]
    \/ \E x \in {current_processing_task[u]} \ {None} : x.task = c

LEMMA GoneIs ==
  ASSUME TypeOK, NEW c \in ClauseTask
  PROVE  /\ c \notin Gone <=> c \in pending \/ InSomeUnit(c)
         /\ PInv /\ c \in pending => ~InSomeUnit(c)
<1>1. c \notin Gone <=> \E a \in TaskKind : \E i : IsIn(c, a, i)
  BY IsInKind DEF Gone
<1>2. \A u \in Unit : /\ Contains(clause_task_in[u], c) <=> c \in Range(clause_task_in[u])
                      /\ Contains(clause_data_ready_queue[u], c)
                           <=> c \in Range(clause_data_ready_queue[u])
                      /\ Contains(clause_value_ready_queue[u], c)
                           <=> c \in Range(clause_value_ready_queue[u])
  <2>1. ASSUME NEW s \in Seq(ClauseTask) PROVE Contains(s, c) <=> c \in Range(s)
    BY DEF Contains, Range
  <2> QED BY <2>1 DEF TypeOK, ClauseTypeOK
<1>3. IsIn(c, "pending", None) <=> c \in pending
  BY IsInIs
<1>4. (\E a \in TaskKind : \E i : IsIn(c, a, i)) <=>
        c \in pending \/ \E a \in TaskKind \ {"pending"} : \E u \in Unit : IsIn(c, a, u)
  BY <1>3, IsInIs DEF TaskKind
<1>5. ASSUME NEW u \in Unit
      PROVE  (\E a \in TaskKind \ {"pending"} : IsIn(c, a, u)) <=>
               \/ \E ch \in {clause_task_in[u], clause_data_ready_queue[u],
                             clause_value_ready_queue[u]} : Contains(ch, c)
               \/ c \in mem_req_id_to_clause_task[u] \cup reading_tasks[u]
               \/ \E x \in {current_processing_task[u]} \ {None} : x.task = c
  BY <1>2, IsInIs DEF TaskKind
<1>6. InSomeUnit(c) <=> \E a \in TaskKind \ {"pending"} : \E u \in Unit : IsIn(c, a, u)
  BY <1>5 DEF InSomeUnit
<1>7. PInv /\ c \in pending => \A a, i : IsIn(c, a, i) => a = "pending"
  BY <1>3 DEF PInv, OnePlace
<1> QED BY <1>1, <1>4, <1>6, <1>7
=============================================================================
