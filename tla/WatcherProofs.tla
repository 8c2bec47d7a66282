---------------------------- MODULE WatcherProofs ----------------------------
(***************************************************************************)
(* Proofs about WatcherEnv, for any number of processing elements, tasks    *)
(* and limits: types (no counter underflows), the bounds of the queues,     *)
(* what an idle watcher can hold; every task is at one place, every read    *)
(* that is awaited is on its way once, replies come home; and the watcher   *)
(* implements WatcherStages.                                               *)
(***************************************************************************)
EXTENDS WatcherEnv, ChannelLemmas, FiniteSetTheorems

(* The counter of a kind of read is at least the number of tasks that wait *)
(* for one: that is why taking a reply cannot make it negative.            *)
WaitingCounted ==
  \A p \in Pe, k \in Read :
    /\ IsFiniteSet(mem_req_id_to_task[p][k])
    /\ Cardinality(mem_req_id_to_task[p][k]) <= total_ongoing[p][k]

IInv == TypeOK /\ QueueBounds /\ WaitingCounted

LEMMA Kinds ==
  /\ \A k \in Read : Output[k] \in Queue /\ ItemOf(Output[k]) = TaskOf(k)
  /\ \A k \in Read \ {"meta"} : /\ InputQueue[k] \in Queue
                                /\ ItemOf(InputQueue[k]) = TaskOf(k)
                                /\ InputQueue[k] # "process_finished"
                                /\ InputQueue[k] # Output[k]
  /\ \A k \in Read : Output[k] # "process_finished" /\ Output[k] # "single_task"
  /\ \A k, l \in Read : Output[k] = Output[l] => k = l
  /\ Read \subseteq DOMAIN NextPhase
  /\ \A phase \in DOMAIN NextPhase : NextPhase[phase] \in Phase
BY DEF Read, Queue, Output, InputQueue, ItemOf, TaskOf, NextPhase, Phase

LEMMA ReqType ==
  /\ \A r \in WatcherReq : r.type \in Read /\ r.pe \in Pe /\ r.task \in TaskOf(r.type)
  /\ \A p \in Pe, k \in Read : \A t \in TaskOf(k) : Request(p, k, t) \in WatcherReq
<1>1. ASSUME NEW r \in WatcherReq
      PROVE  r.type \in Read /\ r.pe \in Pe /\ r.task \in TaskOf(r.type)
  <2>1. PICK k \in Read : r \in [type : {k}, pe : Pe, task : TaskOf(k)]
    BY DEF WatcherReq
  <2> QED BY <2>1
<1>2. ASSUME NEW p \in Pe, NEW k \in Read, NEW t \in TaskOf(k)
      PROVE  Request(p, k, t) \in WatcherReq
  <2>1. k = "blocker" => ClausePe[t] \in Pe
    BY TasksAssumption DEF TaskOf
  <2>2. Request(p, k, t) \in [type : {k}, pe : Pe, task : TaskOf(k)]
    BY <2>1 DEF Request
  <2> QED BY <2>2 DEF WatcherReq
<1> QED BY <1>1, <1>2

(* Nothing sent yet, whatever part of the tasks will be.                    *)
Start == Init /\ pending \subseteq WatcherTask /\ memory = {}

LEMMA InitStart == EnvInit => Start
BY DEF EnvInit, Start

LEMMA InitIInv == Start => IInv
<1> SUFFICES ASSUME Start PROVE IInv
  OBVIOUS
<1> USE DEF Start, Init
<1>1. \A S : <<>> \in Seq(S) /\ Len(<<>>) = 0
  BY EmptySeq
<1>2. WatcherTypeOK
  <2>1. pc \in Pe \X Phase
    BY DEF Phase
  <2>2. /\ queue \in [Pe -> [Queue -> Seq(WatcherTask \cup ClauseTask)]]
        /\ \A p \in Pe, q \in Queue : queue[p][q] \in Seq(ItemOf(q))
    BY <1>1
  <2> QED BY <1>1, <2>1, <2>2 DEF WatcherTypeOK
<1>3. TypeOK
  BY <1>2 DEF TypeOK
<1>4. QueueBounds
  BY <1>1, Kinds, LimitAssumption DEF QueueBounds, Queue
<1>5. WaitingCounted
  BY FS_EmptySet DEF WaitingCounted
<1> QED BY <1>3, <1>4, <1>5 DEF IInv

(* Changing one queue to a sequence of the right items keeps their types.  *)
QueueType(f) ==
  /\ f \in [Pe -> [Queue -> Seq(WatcherTask \cup ClauseTask)]]
  /\ \A p \in Pe, q \in Queue : f[p][q] \in Seq(ItemOf(q)) /\ Len(f[p][q]) \in Nat

LEMMA QueueExcept ==
  ASSUME QueueType(queue), NEW p \in Pe, NEW q \in Queue, NEW s \in Seq(ItemOf(q)),
         queue' = [queue EXCEPT ![p][q] = s]
  PROVE  /\ QueueType(queue')
         /\ \A x \in Pe, y \in Queue :
              queue'[x][y] = IF x = p /\ y = q THEN s ELSE queue[x][y]
<1>1. s \in Seq(WatcherTask \cup ClauseTask)
  BY SeqMonotonic DEF ItemOf
<1>2. Len(s) \in Nat
  BY LenProperties
<1> QED BY <1>1, <1>2 DEF QueueType

LEMMA QueuesTyped ==
  WatcherTypeOK => QueueType(queue)
BY LenProperties DEF WatcherTypeOK, QueueType

(* A step that leaves the reads alone keeps the bounds when it lengthens no *)
(* queue that a read feeds, and the last queue not beyond its limit.       *)
LEMMA BoundsKept ==
  ASSUME IInv, QueueType(queue'), UNCHANGED <<total_ongoing, mem_req_id_to_task>>,
         \A p \in Pe, k \in Read : Len(queue'[p][Output[k]]) <= Len(queue[p][Output[k]]),
         \A p \in Pe : Len(queue'[p]["process_finished"]) <= QueueLimit
  PROVE  QueueBounds' /\ WaitingCounted'
<1>1. WaitingCounted'
  BY DEF IInv, WaitingCounted
<1>2. ASSUME NEW p \in Pe, NEW k \in Read
      PROVE  /\ total_ongoing'[p][k] <= QueueLimit
             /\ total_ongoing'[p][k] + Len(queue'[p][Output[k]]) <= 2 * QueueLimit - 1
  <2> DEFINE n == total_ongoing[p][k]
  <2>1. /\ total_ongoing'[p][k] = n /\ n \in Nat
        /\ Len(queue[p][Output[k]]) \in Nat /\ Len(queue'[p][Output[k]]) \in Nat
    BY Kinds, QueuesTyped DEF IInv, TypeOK, WatcherTypeOK, QueueType
  <2>2. n <= QueueLimit /\ n + Len(queue[p][Output[k]]) <= 2 * QueueLimit - 1
    BY DEF IInv, QueueBounds
  <2> DEFINE a == Len(queue[p][Output[k]])
             b == Len(queue'[p][Output[k]])
  <2>3. a \in Nat /\ b \in Nat /\ b <= a /\ QueueLimit \in Nat
    BY <2>1, LimitAssumption
  <2> HIDE DEF a, b
  <2>4. n + b <= 2 * QueueLimit - 1
    BY <2>1, <2>2, <2>3 DEF a
  <2> QED BY <2>1, <2>2, <2>4 DEF b
<1> QED BY <1>1, <1>2 DEF QueueBounds

(* Giving the input queue of a read another, not longer, content keeps its *)
(* type and lengthens no queue.                                            *)
LEMMA InputBecomesType ==
  ASSUME WatcherTypeOK, NEW p \in Pe, NEW k \in Read, NEW s \in Seq(TaskOf(k)),
         Len(s) <= Len(Input(p, k)), InputBecomes(p, k, s)
  PROVE  /\ QueueType(queue')
         /\ watcher_task_receiver' \in [Pe -> Seq(WatcherTask)]
         /\ \A x \in Pe, q \in Queue : Len(queue'[x][q]) <= Len(queue[x][q])
<1>1. QueueType(queue) /\ watcher_task_receiver \in [Pe -> Seq(WatcherTask)]
  BY QueuesTyped DEF WatcherTypeOK
<1>2. CASE k = "meta"
  <2>1. queue' = queue /\ watcher_task_receiver' = [watcher_task_receiver EXCEPT ![p] = s]
    BY <1>2 DEF InputBecomes
  <2>2. s \in Seq(WatcherTask)
    BY <1>2 DEF TaskOf
  <2>3. watcher_task_receiver' \in [Pe -> Seq(WatcherTask)]
    BY <1>1, <2>1, <2>2
  <2>4. \A x \in Pe, q \in Queue : Len(queue'[x][q]) <= Len(queue[x][q])
    BY <1>1, <2>1 DEF QueueType
  <2> QED BY <1>1, <2>1, <2>3, <2>4
<1>3. CASE k # "meta"
  <2> DEFINE i == InputQueue[k]
  <2>1. i \in Queue /\ ItemOf(i) = TaskOf(k) /\ Input(p, k) = queue[p][i]
    BY <1>3, Kinds DEF Input
  <2>2. queue' = [queue EXCEPT ![p][i] = s] /\ UNCHANGED watcher_task_receiver
    BY <1>3 DEF InputBecomes
  <2> HIDE DEF i
  <2>a. s \in Seq(ItemOf(i))
    BY <2>1
  <2>3. /\ QueueType(queue')
        /\ \A x \in Pe, q \in Queue :
             queue'[x][q] = IF x = p /\ q = i THEN s ELSE queue[x][q]
    BY <1>1, <2>1, <2>2, <2>a, QueueExcept
  <2>4. ASSUME NEW x \in Pe, NEW q \in Queue
        PROVE  Len(queue'[x][q]) <= Len(queue[x][q])
    <3>1. CASE x = p /\ q = i
      BY <2>1, <2>3, <3>1
    <3>2. CASE ~(x = p /\ q = i)
      BY <1>1, <2>3, <3>2 DEF QueueType
    <3> QED BY <3>1, <3>2
  <2> QED BY <1>1, <2>2, <2>3, <2>4
<1> QED BY <1>2, <1>3

LEMMA StartReadIInv ==
  ASSUME IInv, NEW p \in Pe, NEW k \in Read, StartRead(p, k), UNCHANGED envVars
  PROVE  IInv'
<1> DEFINE t == Head(Input(p, k))
<1> USE DEF IInv, TypeOK
<1>1. Input(p, k) \in Seq(TaskOf(k)) /\ Input(p, k) # <<>>
  BY Kinds DEF WatcherTypeOK, Input, StartRead, CountRead, CanRead, TaskOf, Read
<1>2. t \in TaskOf(k) /\ Received(Input(p, k)) \in Seq(TaskOf(k))
      /\ Len(Received(Input(p, k))) = Len(Input(p, k)) - 1
      /\ Len(Input(p, k)) \in Nat
  BY <1>1, ReceivedType
<1>3. mem_out' \in [Pe -> Seq(WatcherReq \cup OtherReq)]
  <2>1. Request(p, k, t) \in WatcherReq \cup OtherReq
    BY <1>2, ReqType
  <2>2. Sent(mem_out[p], Request(p, k, t)) \in Seq(WatcherReq \cup OtherReq)
    BY <2>1, SentType
  <2> QED BY <2>2 DEF StartRead
<1>4. /\ QueueType(queue')
      /\ watcher_task_receiver' \in [Pe -> Seq(WatcherTask)]
      /\ \A x \in Pe, q \in Queue : Len(queue'[x][q]) <= Len(queue[x][q])
  <2>1. InputBecomes(p, k, Received(Input(p, k)))
    BY DEF StartRead, CountRead
  <2>2. Len(Received(Input(p, k))) <= Len(Input(p, k))
    BY <1>2
  <2> QED BY <1>2, <2>1, <2>2, InputBecomesType
<1>5. /\ mem_req_id_to_task' \in [Pe -> [Read -> SUBSET (WatcherTask \cup ClauseTask)]]
      /\ \A x \in Pe, l \in Read : mem_req_id_to_task'[x][l] \subseteq TaskOf(l)
  BY <1>2 DEF StartRead, CountRead, TaskOf, WatcherTypeOK
<1>6. total_ongoing' \in [Pe -> [Read -> Nat]]
  BY DEF StartRead, CountRead, WatcherTypeOK
<1>7. TypeOK'
  <2>1. /\ pc' \in Pe \X Phase /\ busy' \in [Pe -> BOOLEAN]
        /\ updated' \in [Pe -> BOOLEAN]
    BY Kinds DEF StartRead, CountRead, Report, Done, WatcherTypeOK
  <2> QED BY <1>3, <1>4, <1>5, <1>6, <2>1
          DEF StartRead, CountRead, envVars, WatcherTypeOK, QueueType
<1>8. \A x \in Pe, l \in Read :
        /\ total_ongoing'[x][l] = IF x = p /\ l = k THEN total_ongoing[x][l] + 1
                                                   ELSE total_ongoing[x][l]
        /\ mem_req_id_to_task'[x][l] =
             IF x = p /\ l = k THEN mem_req_id_to_task[x][l] \cup {t}
                               ELSE mem_req_id_to_task[x][l]
  BY DEF StartRead, CountRead, WatcherTypeOK
<1>9. QueueBounds'
  <2>1. /\ total_ongoing[p][k] < QueueLimit
        /\ Len(queue[p][Output[k]]) < QueueLimit
    BY DEF StartRead, CountRead, CanRead
  <2>2. \A x \in Pe, q \in Queue : Len(queue[x][q]) \in Nat /\ Len(queue'[x][q]) \in Nat
    BY <1>4, QueuesTyped DEF QueueType
  <2>3. /\ \A x \in Pe, l \in Read : total_ongoing[x][l] \in Nat
        /\ \A l \in Read : Output[l] \in Queue
        /\ \A l, m \in Read : Output[l] = Output[m] => l = m
    BY Kinds DEF WatcherTypeOK
  <2>4. ASSUME NEW x \in Pe, NEW l \in Read
        PROVE  /\ total_ongoing'[x][l] <= QueueLimit
               /\ total_ongoing'[x][l] + Len(queue'[x][Output[l]]) <= 2 * QueueLimit - 1
    <3> DEFINE q == Output[l]
               n == total_ongoing[x][l]
    <3>1. /\ q \in Queue /\ n \in Nat
          /\ Len(queue[x][q]) \in Nat /\ Len(queue'[x][q]) \in Nat
          /\ Len(queue'[x][q]) <= Len(queue[x][q])
          /\ n <= QueueLimit /\ n + Len(queue[x][q]) <= 2 * QueueLimit - 1
      BY <1>4, <2>2, <2>3 DEF QueueBounds
    <3>2. CASE x = p /\ l = k
      <4>1. n < QueueLimit /\ Len(queue[x][q]) < QueueLimit /\ total_ongoing'[x][l] = n + 1
        BY <1>8, <2>1, <3>2
      <4>2. QueueLimit \in Nat /\ n + 1 <= QueueLimit /\ Len(queue'[x][q]) <= QueueLimit - 1
        BY <3>1, <4>1, LimitAssumption
      <4>3. \A a, b, m \in Nat : a + 1 <= m /\ b <= m - 1 => (a + 1) + b <= 2 * m - 1
        OBVIOUS
      <4>4. (n + 1) + Len(queue'[x][q]) <= 2 * QueueLimit - 1
        BY <3>1, <4>2, <4>3
      <4> QED BY <4>1, <4>2, <4>4
    <3>3. CASE ~(x = p /\ l = k)
      <4>1. total_ongoing'[x][l] = n
        BY <1>8, <3>3
      <4>2. n + Len(queue'[x][q]) <= n + Len(queue[x][q])
        BY <3>1
      <4> QED BY <3>1, <4>1, <4>2, LimitAssumption
    <3> QED BY <3>2, <3>3
  <2>5. ASSUME NEW x \in Pe PROVE Len(queue'[x]["process_finished"]) <= QueueLimit
    <3>1. "process_finished" \in Queue
      BY DEF Queue
    <3>2. Len(queue[x]["process_finished"]) <= QueueLimit
      BY DEF QueueBounds
    <3> QED BY <1>4, <2>2, <3>1, <3>2, LimitAssumption
  <2> QED BY <2>4, <2>5 DEF QueueBounds
<1>10. WaitingCounted'
  <2>1. ASSUME NEW x \in Pe, NEW l \in Read
        PROVE  /\ IsFiniteSet(mem_req_id_to_task'[x][l])
               /\ Cardinality(mem_req_id_to_task'[x][l]) <= total_ongoing'[x][l]
    <3>1. /\ IsFiniteSet(mem_req_id_to_task[x][l])
          /\ Cardinality(mem_req_id_to_task[x][l]) <= total_ongoing[x][l]
          /\ Cardinality(mem_req_id_to_task[x][l]) \in Nat
          /\ total_ongoing[x][l] \in Nat
      BY FS_CardinalityType DEF WaitingCounted, WatcherTypeOK
    <3>2. /\ IsFiniteSet(mem_req_id_to_task[x][l] \cup {t})
          /\ Cardinality(mem_req_id_to_task[x][l] \cup {t})
               <= Cardinality(mem_req_id_to_task[x][l]) + 1
          /\ Cardinality(mem_req_id_to_task[x][l] \cup {t}) \in Nat
      <4> DEFINE S == mem_req_id_to_task[x][l]
      <4>1. IsFiniteSet(S \cup {t}) /\ (Cardinality(S \cup {t}) =
              IF t \in S THEN Cardinality(S) ELSE Cardinality(S) + 1)
        BY <3>1, FS_AddElement
      <4> HIDE DEF S, t
      <4> QED BY <3>1, <4>1 DEF S
    <3> HIDE DEF IInv, TypeOK, t
    <3>3. CASE x = p /\ l = k
      BY <1>8, <3>1, <3>2, <3>3
    <3>4. CASE ~(x = p /\ l = k)
      BY <1>8, <3>1, <3>4
    <3> QED BY <3>3, <3>4
  <2> QED BY <2>1 DEF WaitingCounted
<1> QED BY <1>7, <1>9, <1>10

LEMMA ReadBlockedIInv ==
  ASSUME IInv, NEW p \in Pe, NEW k \in Read, ReadBlocked(p, k), UNCHANGED envVars
  PROVE  IInv'
<1> USE DEF IInv, TypeOK
<1>1. Input(p, k) \in Seq(TaskOf(k)) /\ Input(p, k) # <<>>
  BY Kinds DEF WatcherTypeOK, Input, ReadBlocked, CanRead, TaskOf, Read
<1>2. InputBecomes(p, k, Input(p, k))
  BY <1>1, RetRestores DEF ReadBlocked
<1>3. /\ QueueType(queue')
      /\ watcher_task_receiver' \in [Pe -> Seq(WatcherTask)]
      /\ \A x \in Pe, q \in Queue : Len(queue'[x][q]) <= Len(queue[x][q])
  BY <1>1, <1>2, LenProperties, InputBecomesType
<1>4. TypeOK'
  <2>1. /\ pc' \in Pe \X Phase /\ busy' \in [Pe -> BOOLEAN]
        /\ updated' \in [Pe -> BOOLEAN]
    BY Kinds DEF ReadBlocked, Report, Done, WatcherTypeOK
  <2> QED BY <1>3, <2>1 DEF ReadBlocked, envVars, WatcherTypeOK, QueueType
<1>5. QueueBounds' /\ WaitingCounted'
  <2>1. ASSUME NEW x \in Pe PROVE Len(queue'[x]["process_finished"]) <= QueueLimit
    <3>1. "process_finished" \in Queue
      BY DEF Queue
    <3>2. Len(queue[x]["process_finished"]) <= QueueLimit
      BY DEF QueueBounds
    <3> QED BY <1>3, <3>1, <3>2, LimitAssumption, QueuesTyped DEF QueueType
  <2>2. \A k_1 \in Read : Output[k_1] \in Queue
    BY Kinds
  <2>3. UNCHANGED <<total_ongoing, mem_req_id_to_task>>
    BY DEF ReadBlocked
  <2> QED BY <1>3, <2>1, <2>2, <2>3, BoundsKept
<1> QED BY <1>4, <1>5

LEMMA ExpandIInv ==
  ASSUME IInv, NEW p \in Pe, Expand(p), UNCHANGED envVars
  PROVE  IInv'
<1> DEFINE d == "data_finished"
           n == "single_task"
           t == Head(queue[p][d])
<1> USE DEF IInv, TypeOK
<1>1. QueueType(queue) /\ d \in Queue /\ n \in Queue
      /\ ItemOf(d) = WatcherTask /\ ItemOf(n) = ClauseTask
  BY QueuesTyped DEF Queue, ItemOf
<1>2. /\ t \in WatcherTask /\ Tail(queue[p][d]) \in Seq(WatcherTask)
      /\ Len(Tail(queue[p][d])) = Len(queue[p][d]) - 1
      /\ Len(queue[p][d]) \in Nat
  <2>1. queue[p][d] \in Seq(WatcherTask) /\ queue[p][d] # <<>>
    BY <1>1 DEF QueueType, Expand, CanExpand
  <2> QED BY <2>1, ReceivedType
<1>3. queue[p][n] \o Singles[t] \in Seq(ClauseTask)
  <2>1. queue[p][n] \in Seq(ClauseTask) /\ Singles[t] \in Seq(ClauseTask)
    BY <1>1, <1>2, TasksAssumption DEF QueueType
  <2> QED BY <2>1, ConcatProperties
<1>4. /\ queue' \in [Pe -> [Queue -> Seq(WatcherTask \cup ClauseTask)]]
      /\ \A x \in Pe, y \in Queue :
           queue'[x][y] = IF x = p /\ y = d THEN Tail(queue[p][d])
                          ELSE IF x = p /\ y = n THEN queue[p][n] \o Singles[t]
                          ELSE queue[x][y]
  <2>1. /\ Tail(queue[p][d]) \in Seq(WatcherTask \cup ClauseTask)
        /\ queue[p][n] \o Singles[t] \in Seq(WatcherTask \cup ClauseTask)
    BY <1>2, <1>3, SeqMonotonic
  <2> QED BY <1>1, <2>1 DEF Expand, QueueType
<1>5. QueueType(queue')
  <2>1. \A x \in Pe, y \in Queue : queue'[x][y] \in Seq(ItemOf(y))
    BY <1>1, <1>2, <1>3, <1>4 DEF QueueType
  <2> QED BY <1>4, <2>1, LenProperties DEF QueueType
<1>6. TypeOK'
  <2>1. /\ pc' \in Pe \X Phase /\ busy' \in [Pe -> BOOLEAN]
        /\ updated' \in [Pe -> BOOLEAN] /\ current_level_finished_tasks' \in Nat
    BY Kinds DEF Expand, Report, Done, WatcherTypeOK, NextPhase, Phase
  <2> QED BY <1>5, <2>1 DEF Expand, envVars, WatcherTypeOK, QueueType
<1>7. QueueBounds' /\ WaitingCounted'
  <2>1. ASSUME NEW x \in Pe, NEW k \in Read
        PROVE  Len(queue'[x][Output[k]]) <= Len(queue[x][Output[k]])
    <3>1. Output[k] \in Queue /\ Output[k] # n
      BY Kinds
    <3>2. Len(queue[x][Output[k]]) \in Nat
      BY <1>1, <3>1 DEF QueueType
    <3>3. CASE x = p /\ Output[k] = d
      <4>1. queue'[x][Output[k]] = Tail(queue[p][d]) /\ queue[x][Output[k]] = queue[p][d]
        BY <1>4, <3>1, <3>3
      <4>2. Len(Tail(queue[p][d])) <= Len(queue[p][d])
        BY <1>2
      <4> QED BY <4>1, <4>2
    <3>4. CASE ~(x = p /\ Output[k] = d)
      BY <1>4, <3>1, <3>2, <3>4
    <3> QED BY <3>3, <3>4
  <2>2. ASSUME NEW x \in Pe PROVE Len(queue'[x]["process_finished"]) <= QueueLimit
    BY <1>4 DEF Queue, QueueBounds
  <2>3. UNCHANGED <<total_ongoing, mem_req_id_to_task>>
    BY DEF Expand
  <2> QED BY <1>5, <2>1, <2>2, <2>3, BoundsKept
<1> QED BY <1>6, <1>7

LEMMA ProcessIInv ==
  ASSUME IInv, NEW p \in Pe, Process(p), UNCHANGED envVars
  PROVE  IInv'
<1> DEFINE f == "process_finished"
           task == current_processing_task[p].task
<1> USE DEF IInv, TypeOK
<1>1. QueueType(queue) /\ f \in Queue /\ ItemOf(f) = ClauseTask
  BY QueuesTyped DEF Queue, ItemOf
<1>2. current_processing_task[p] \in Processing
  BY DEF Process, CanProcess, WatcherTypeOK
<1>3. Append(queue[p][f], task) \in Seq(ItemOf(f))
      /\ Len(Append(queue[p][f], task)) = Len(queue[p][f]) + 1
  <2>1. queue[p][f] \in Seq(ClauseTask) /\ task \in ClauseTask
    BY <1>1, <1>2 DEF QueueType, Processing
  <2> QED BY <1>1, <2>1, SentType
<1>4. /\ QueueType(queue')
      /\ current_processing_task' \in [Pe -> Processing \cup {None}]
      /\ \A x \in Pe, y \in Queue : \/ queue'[x][y] = queue[x][y]
                                     \/ /\ x = p /\ y = f
                                        /\ queue'[x][y] = Append(queue[p][f], task)
  <2>1. CASE UNCHANGED <<current_processing_task, queue>>
    BY <1>1, <2>1 DEF WatcherTypeOK
  <2>2. CASE /\ current_processing_task' = [current_processing_task EXCEPT ![p] = None]
             /\ queue' = [queue EXCEPT ![p][f] = Append(@, task)]
    <3>1. queue' = [queue EXCEPT ![p][f] = Append(queue[p][f], task)]
      BY <1>1, <2>2
    <3>2. /\ QueueType(queue')
          /\ \A x \in Pe, y \in Queue :
               queue'[x][y] = IF x = p /\ y = f THEN Append(queue[p][f], task)
                                                ELSE queue[x][y]
      BY <1>1, <1>3, <3>1, QueueExcept
    <3> QED BY <2>2, <3>2 DEF WatcherTypeOK
  <2> QED BY <2>1, <2>2 DEF Process
<1>5. TypeOK'
  <2>1. /\ pc' \in Pe \X Phase /\ busy' \in [Pe -> BOOLEAN]
        /\ updated' \in [Pe -> BOOLEAN]
    BY Kinds DEF Process, Report, Done, WatcherTypeOK, NextPhase, Phase
  <2> QED BY <1>4, <2>1 DEF Process, envVars, WatcherTypeOK, QueueType
<1>6. QueueBounds' /\ WaitingCounted'
  <2>1. ASSUME NEW x \in Pe, NEW k \in Read
        PROVE  Len(queue'[x][Output[k]]) <= Len(queue[x][Output[k]])
    BY <1>1, <1>4, Kinds DEF QueueType
  <2>2. ASSUME NEW x \in Pe PROVE Len(queue'[x][f]) <= QueueLimit
    <3>1. /\ Len(queue[p][f]) < QueueLimit /\ Len(queue[x][f]) <= QueueLimit
          /\ Len(queue[p][f]) \in Nat
      BY <1>1 DEF Process, CanProcess, QueueBounds, QueueType
    <3>2. Len(Append(queue[p][f], task)) <= QueueLimit
      BY <1>3, <3>1, LimitAssumption
    <3>3. \/ queue'[x][f] = queue[x][f]
          \/ queue'[x][f] = Append(queue[p][f], task)
      BY <1>1, <1>4
    <3> QED BY <3>1, <3>2, <3>3
  <2>3. UNCHANGED <<total_ongoing, mem_req_id_to_task>>
    BY DEF Process
  <2> QED BY <1>4, <2>1, <2>2, <2>3, BoundsKept
<1> QED BY <1>5, <1>6

LEMMA StartProcessIInv ==
  ASSUME IInv, NEW p \in Pe, StartProcess(p), UNCHANGED envVars
  PROVE  IInv'
<1> DEFINE v == "value_finished"
<1> USE DEF IInv, TypeOK
<1>1. QueueType(queue) /\ v \in Queue /\ ItemOf(v) = ClauseTask
  BY QueuesTyped DEF Queue, ItemOf
<1>2. /\ Head(queue[p][v]) \in ClauseTask /\ Tail(queue[p][v]) \in Seq(ItemOf(v))
      /\ Len(Tail(queue[p][v])) = Len(queue[p][v]) - 1
  <2>1. queue[p][v] \in Seq(ClauseTask) /\ queue[p][v] # <<>>
    BY <1>1 DEF QueueType, StartProcess, CanStart
  <2> QED BY <1>1, <2>1, ReceivedType
<1>3. /\ QueueType(queue')
      /\ \A x \in Pe, y \in Queue :
           queue'[x][y] = IF x = p /\ y = v THEN Tail(queue[p][v]) ELSE queue[x][y]
  <2>1. queue' = [queue EXCEPT ![p][v] = Tail(queue[p][v])]
    BY <1>1 DEF StartProcess
  <2> QED BY <1>1, <1>2, <2>1, QueueExcept
<1>4. current_processing_task' \in [Pe -> Processing \cup {None}]
  BY <1>2 DEF StartProcess, Processing, ProcessTime, WatcherTypeOK
<1>5. TypeOK'
  <2>1. /\ pc' \in Pe \X Phase /\ busy' \in [Pe -> BOOLEAN]
        /\ updated' \in [Pe -> BOOLEAN]
    BY Kinds DEF StartProcess, Report, Done, WatcherTypeOK, NextPhase, Phase
  <2> QED BY <1>3, <1>4, <2>1 DEF StartProcess, envVars, WatcherTypeOK, QueueType
<1>6. QueueBounds' /\ WaitingCounted'
  <2>1. ASSUME NEW x \in Pe, NEW k \in Read
        PROVE  Len(queue'[x][Output[k]]) <= Len(queue[x][Output[k]])
    <3>1. Output[k] \in Queue
      BY Kinds
    <3>2. Len(queue[x][Output[k]]) \in Nat
      BY <1>1, <3>1 DEF QueueType
    <3>3. CASE x = p /\ Output[k] = v
      <4>1. queue'[x][Output[k]] = Tail(queue[p][v]) /\ queue[x][Output[k]] = queue[p][v]
        BY <1>3, <3>1, <3>3
      <4>2. Len(Tail(queue[p][v])) <= Len(queue[p][v])
        BY <1>2, <3>2, <3>3
      <4> QED BY <4>1, <4>2
    <3>4. CASE ~(x = p /\ Output[k] = v)
      BY <1>3, <3>1, <3>2, <3>4
    <3> QED BY <3>3, <3>4
  <2>2. ASSUME NEW x \in Pe PROVE Len(queue'[x]["process_finished"]) <= QueueLimit
    BY <1>3 DEF Queue, QueueBounds
  <2>3. UNCHANGED <<total_ongoing, mem_req_id_to_task>>
    BY DEF StartProcess
  <2> QED BY <1>3, <2>1, <2>2, <2>3, BoundsKept
<1> QED BY <1>5, <1>6

LEMMA SendClauseIInv ==
  ASSUME IInv, NEW p \in Pe, SendClause(p), UNCHANGED envVars
  PROVE  IInv'
<1> DEFINE f == "process_finished"
           c == Head(queue[p][f])
<1> USE DEF IInv, TypeOK
<1>1. QueueType(queue) /\ f \in Queue /\ ItemOf(f) = ClauseTask
  BY QueuesTyped DEF Queue, ItemOf
<1>2. queue[p][f] \in Seq(ClauseTask) /\ queue[p][f] # <<>>
  BY <1>1 DEF QueueType, SendClause, CanSend
<1>3. /\ c \in ClauseTask /\ Tail(queue[p][f]) \in Seq(ClauseTask)
      /\ Len(Tail(queue[p][f])) = Len(queue[p][f]) - 1
      /\ RecvThenRet(queue[p][f]) = queue[p][f]
      /\ Len(queue[p][f]) \in Nat
  BY <1>2, ReceivedType, RetRestores
<1>4. PICK s \in {Tail(queue[p][f]), queue[p][f]} :
        queue' = [queue EXCEPT ![p][f] = s]
  BY <1>1, <1>3 DEF SendClause, QueueType
<1>5. s \in Seq(ItemOf(f)) /\ Len(s) <= Len(queue[p][f])
  <2>1. CASE s = Tail(queue[p][f])
    <3>1. Len(Tail(queue[p][f])) <= Len(queue[p][f])
      BY <1>3
    <3> QED BY <1>1, <1>3, <2>1, <3>1
  <2>2. CASE s = queue[p][f]
    BY <1>1, <1>2, <1>3, <2>2
  <2> QED BY <2>1, <2>2
<1>6. /\ QueueType(queue')
      /\ \A x \in Pe, y \in Queue :
           queue'[x][y] = IF x = p /\ y = f THEN s ELSE queue[x][y]
  BY <1>1, <1>4, <1>5, QueueExcept
<1>7. clause_icnt_sender' \in [Pe -> Seq(ClauseTask)]
  <2>1. Sent(clause_icnt_sender[p], c) \in Seq(ClauseTask)
    BY <1>3, SentType DEF WatcherTypeOK
  <2> QED BY <2>1 DEF SendClause, WatcherTypeOK
<1>8. TypeOK'
  <2>1. /\ pc' \in Pe \X Phase /\ busy' \in [Pe -> BOOLEAN]
        /\ updated' \in [Pe -> BOOLEAN] /\ current_level_finished_tasks' \in Nat
    <3>1. pc' \in Pe \X Phase
      BY DEF SendClause, Done, WatcherTypeOK, NextPhase, Phase
    <3>2. Report(p, TRUE) \/ Report(p, FALSE)
      BY DEF SendClause
    <3>3. busy' \in [Pe -> BOOLEAN] /\ updated' \in [Pe -> BOOLEAN]
      BY <3>2 DEF Report, WatcherTypeOK
    <3>4. \/ current_level_finished_tasks' = current_level_finished_tasks
          \/ current_level_finished_tasks' = current_level_finished_tasks + 1
      BY DEF SendClause
    <3>5. current_level_finished_tasks' \in Nat
      BY <3>4 DEF WatcherTypeOK
    <3> QED BY <3>1, <3>3, <3>5
  <2> QED BY <1>6, <1>7, <2>1 DEF SendClause, envVars, WatcherTypeOK, QueueType
<1>9. QueueBounds' /\ WaitingCounted'
  <2>1. ASSUME NEW x \in Pe, NEW k \in Read
        PROVE  Len(queue'[x][Output[k]]) <= Len(queue[x][Output[k]])
    <3>1. Output[k] \in Queue /\ Output[k] # f
      BY Kinds
    <3> QED BY <1>1, <1>6, <3>1 DEF QueueType
  <2>2. ASSUME NEW x \in Pe PROVE Len(queue'[x][f]) <= QueueLimit
    <3>1. Len(queue[p][f]) <= QueueLimit /\ Len(queue[x][f]) <= QueueLimit
      BY DEF QueueBounds
    <3>2. Len(s) \in Nat
      BY <1>5, LenProperties
    <3> QED BY <1>1, <1>3, <1>5, <1>6, <3>1, <3>2, LimitAssumption
  <2>3. UNCHANGED <<total_ongoing, mem_req_id_to_task>>
    BY DEF SendClause
  <2> QED BY <1>6, <2>1, <2>2, <2>3, BoundsKept
<1> QED BY <1>8, <1>9

LEMMA ReplyIInv ==
  ASSUME IInv, NEW p \in Pe, Reply(p), UNCHANGED envVars
  PROVE  IInv'
<1> DEFINE k == Head(mem_in[p]).type
           t == Head(mem_in[p]).task
           o == Output[k]
<1> USE DEF IInv, TypeOK
<1>1. /\ Head(mem_in[p]) \in WatcherReq /\ Received(mem_in[p]) \in Seq(WatcherReq)
      /\ k \in Read /\ t \in TaskOf(k)
  <2>1. mem_in[p] \in Seq(WatcherReq) /\ mem_in[p] # <<>>
    BY DEF Reply, CountReply, CanReply, WatcherTypeOK
  <2>2. Head(mem_in[p]) \in WatcherReq /\ Received(mem_in[p]) \in Seq(WatcherReq)
    BY <2>1, ReceivedType
  <2> QED BY <2>2, ReqType
<1>2. t \in mem_req_id_to_task[p][k]
  BY DEF Reply, CountReply, UnwrapFails
<1>3. /\ mem_req_id_to_task' = [mem_req_id_to_task EXCEPT ![p][k] = @ \ {t}]
      /\ queue' = [queue EXCEPT ![p][o] = Append(@, t)]
      /\ total_ongoing' = [total_ongoing EXCEPT ![p][k] = @ - 1]
      /\ mem_in' = [mem_in EXCEPT ![p] = Received(@)]
  BY DEF Reply, CountReply
<1>4. /\ QueueType(queue) /\ o \in Queue /\ ItemOf(o) = TaskOf(k)
      /\ o # "process_finished"
      /\ queue[p][o] \in Seq(ItemOf(o)) /\ Len(queue[p][o]) \in Nat
  <2>1. QueueType(queue) /\ o \in Queue /\ ItemOf(o) = TaskOf(k)
        /\ o # "process_finished"
    BY <1>1, QueuesTyped, Kinds
  <2> QED BY <2>1 DEF QueueType
<1> HIDE DEF k, t, o
<1>5. /\ Append(queue[p][o], t) \in Seq(ItemOf(o))
      /\ Len(Append(queue[p][o], t)) = Len(queue[p][o]) + 1
  BY <1>1, <1>4, SentType
<1>6. /\ QueueType(queue')
      /\ \A x \in Pe, y \in Queue :
           queue'[x][y] = IF x = p /\ y = o THEN Append(queue[p][o], t) ELSE queue[x][y]
  <2>1. queue' = [queue EXCEPT ![p][o] = Append(queue[p][o], t)]
    BY <1>3, <1>4 DEF QueueType
  <2> QED BY <1>4, <1>5, <2>1, QueueExcept
<1>7. /\ \A x \in Pe, l \in Read :
           /\ total_ongoing'[x][l] = IF x = p /\ l = k THEN total_ongoing[x][l] - 1
                                                      ELSE total_ongoing[x][l]
           /\ mem_req_id_to_task'[x][l] =
                IF x = p /\ l = k THEN mem_req_id_to_task[x][l] \ {t}
                                  ELSE mem_req_id_to_task[x][l]
      /\ total_ongoing' \in [Pe -> [Read -> Int]]
  <2>1. /\ total_ongoing \in [Pe -> [Read -> Nat]]
        /\ mem_req_id_to_task \in [Pe -> [Read -> SUBSET (WatcherTask \cup ClauseTask)]]
    BY DEF WatcherTypeOK
  <2>2. total_ongoing' = [total_ongoing EXCEPT ![p][k] = total_ongoing[p][k] - 1]
    BY <1>3
  <2>3. mem_req_id_to_task' =
          [mem_req_id_to_task EXCEPT ![p][k] = mem_req_id_to_task[p][k] \ {t}]
    BY <1>3
  <2>4. total_ongoing[p][k] \in Nat
    BY <1>1, <2>1
  <2>5. ASSUME NEW x \in Pe, NEW l \in Read
        PROVE  total_ongoing'[x][l] = IF x = p /\ l = k THEN total_ongoing[x][l] - 1
                                                       ELSE total_ongoing[x][l]
    BY <1>1, <2>1, <2>2
  <2>6. ASSUME NEW x \in Pe, NEW l \in Read
        PROVE  mem_req_id_to_task'[x][l] =
                 IF x = p /\ l = k THEN mem_req_id_to_task[x][l] \ {t}
                                   ELSE mem_req_id_to_task[x][l]
    BY <1>1, <2>1, <2>3
  <2>7. total_ongoing' \in [Pe -> [Read -> Int]]
    BY <1>1, <2>1, <2>2, <2>4
  <2> QED BY <2>5, <2>6, <2>7
<1>8. ASSUME NEW x \in Pe, NEW l \in Read
      PROVE  /\ IsFiniteSet(mem_req_id_to_task'[x][l])
             /\ Cardinality(mem_req_id_to_task'[x][l]) \in Nat
             /\ Cardinality(mem_req_id_to_task'[x][l]) <= total_ongoing'[x][l]
  <2> DEFINE S == mem_req_id_to_task[x][l]
  <2>1. /\ IsFiniteSet(S) /\ Cardinality(S) \in Nat
        /\ Cardinality(S) <= total_ongoing[x][l] /\ total_ongoing[x][l] \in Nat
    BY FS_CardinalityType DEF WaitingCounted, WatcherTypeOK
  <2>2. CASE x = p /\ l = k
    <3>1. t \in S
      BY <1>2, <2>2
    <3>2. /\ IsFiniteSet(S \ {t})
          /\ Cardinality(S \ {t}) = IF t \in S THEN Cardinality(S) - 1 ELSE Cardinality(S)
      BY <2>1, FS_RemoveElement
    <3>3. Cardinality(S \ {t}) \in Nat
      BY <3>2, FS_CardinalityType
    <3>4. mem_req_id_to_task'[x][l] = S \ {t} /\ total_ongoing'[x][l] = total_ongoing[x][l] - 1
      BY <1>7, <2>2
    <3> HIDE DEF S
    <3> QED BY <2>1, <3>1, <3>2, <3>3, <3>4
  <2>3. CASE ~(x = p /\ l = k)
    BY <1>7, <2>1, <2>3
  <2> QED BY <2>2, <2>3
<1>9. TypeOK'
  <2>1. /\ pc' \in Pe \X Phase /\ busy' \in [Pe -> BOOLEAN]
        /\ updated' \in [Pe -> BOOLEAN]
    BY Kinds DEF Reply, CountReply, Report, Done, WatcherTypeOK, NextPhase, Phase
  <2>2. ASSUME NEW x \in Pe, NEW l \in Read PROVE total_ongoing'[x][l] \in Nat
    <3>1. total_ongoing'[x][l] \in Int
      BY <1>7
    <3> QED BY <1>8, <3>1
  <2>3. total_ongoing' \in [Pe -> [Read -> Nat]]
    BY <1>7, <2>2
  <2>4. mem_in' \in [Pe -> Seq(WatcherReq)]
    BY <1>1, <1>3 DEF WatcherTypeOK
  <2>5. /\ mem_req_id_to_task' \in [Pe -> [Read -> SUBSET (WatcherTask \cup ClauseTask)]]
        /\ \A x \in Pe, l \in Read : mem_req_id_to_task'[x][l] \subseteq TaskOf(l)
    BY <1>3, <1>7 DEF WatcherTypeOK
  <2> QED BY <1>6, <2>1, <2>3, <2>4, <2>5 DEF Reply, CountReply, envVars, WatcherTypeOK, QueueType
<1>10. QueueBounds'
  <2>1. ASSUME NEW x \in Pe, NEW l \in Read
        PROVE  /\ total_ongoing'[x][l] <= QueueLimit
               /\ total_ongoing'[x][l] + Len(queue'[x][Output[l]]) <= 2 * QueueLimit - 1
    <3> DEFINE n == total_ongoing[x][l]
               a == Len(queue[x][Output[l]])
    <3>1. /\ n \in Nat /\ a \in Nat /\ QueueLimit \in Nat /\ Output[l] \in Queue
          /\ n <= QueueLimit /\ n + a <= 2 * QueueLimit - 1
      <4>1. Output[l] \in Queue
        BY Kinds
      <4>2. a \in Nat
        BY <1>4, <4>1 DEF QueueType
      <4>3. n \in Nat /\ QueueLimit \in Nat
        BY LimitAssumption DEF WatcherTypeOK
      <4>4. n <= QueueLimit /\ n + a <= 2 * QueueLimit - 1
        BY DEF QueueBounds
      <4> QED BY <4>1, <4>2, <4>3, <4>4
    <3>2. CASE x = p /\ l = k
      <4>1. total_ongoing'[x][l] = n - 1 /\ Len(queue'[x][Output[l]]) = a + 1
        BY <1>5, <1>6, <1>7, <3>1, <3>2 DEF o
      <4> HIDE DEF n, a
      <4> QED BY <3>1, <4>1
    <3>3. CASE ~(x = p /\ l = k)
      <4>1. ~(x = p /\ Output[l] = o)
        BY <1>1, <3>3, Kinds DEF o
      <4>2. total_ongoing'[x][l] = n /\ Len(queue'[x][Output[l]]) = a
        BY <1>6, <1>7, <3>1, <3>3, <4>1
      <4> HIDE DEF n, a
      <4> QED BY <3>1, <4>2
    <3> QED BY <3>2, <3>3
  <2>2. ASSUME NEW x \in Pe PROVE Len(queue'[x]["process_finished"]) <= QueueLimit
    BY <1>4, <1>6 DEF Queue, QueueBounds
  <2> QED BY <2>1, <2>2 DEF QueueBounds
<1>11. WaitingCounted'
  BY <1>8 DEF WaitingCounted
<1> QED BY <1>9, <1>10, <1>11

LEMMA SkipIInv ==
  ASSUME IInv, NEW p \in Pe, Skip(p), UNCHANGED envVars
  PROVE  IInv'
<1>1. /\ UNCHANGED <<busy, updated, watcher_task_receiver, mem_out, mem_in,
                     clause_icnt_sender, queue, mem_req_id_to_task, total_ongoing,
                     current_processing_task, current_level_finished_tasks>>
      /\ pc' \in Pe \X Phase
  BY Kinds DEF Skip, Done
<1>2. TypeOK'
  BY <1>1 DEF IInv, TypeOK, WatcherTypeOK, envVars
<1>3. QueueBounds' /\ WaitingCounted'
  BY <1>1 DEF IInv, QueueBounds, WaitingCounted
<1> QED BY <1>2, <1>3 DEF IInv

(* The time that passes leaves a task in process what it is.                *)
LEMMA TimePasses ==
  ASSUME WatcherTypeOK, NEW p \in Pe, NEW d \in Elapsed, NEW c, c = current_processing_task[p]
  PROVE  /\ c # None =>
              [task |-> c.task, left |-> IF c.left > d THEN c.left - d ELSE 0] \in Processing
         /\ c = None \/ c.task \in ClauseTask
<1>1. c \in Processing \cup {None} /\ d \in Nat
  BY EnvAssumption DEF WatcherTypeOK
<1> SUFFICES ASSUME c # None
             PROVE  /\ [task |-> c.task, left |-> IF c.left > d THEN c.left - d ELSE 0]
                          \in Processing
                    /\ c.task \in ClauseTask
  OBVIOUS
<1>2. c.task \in ClauseTask /\ c.left \in 0 .. ProcessTime
  BY <1>1 DEF Processing
<1>3. (IF c.left > d THEN c.left - d ELSE 0) \in 0 .. ProcessTime
  BY <1>1, <1>2 DEF ProcessTime
<1> QED BY <1>2, <1>3 DEF Processing

LEMMA CallIInv ==
  ASSUME IInv, NEW p \in Pe, NEW d \in Elapsed, Call(p, d), UNCHANGED envVars
  PROVE  IInv'
<1> USE DEF IInv, TypeOK
<1>1. current_processing_task' \in [Pe -> Processing \cup {None}]
  <2> DEFINE c == current_processing_task[p]
             n == IF c = None THEN None
                  ELSE [task |-> c.task, left |-> IF c.left > d THEN c.left - d ELSE 0]
  <2>1. n \in Processing \cup {None}
    BY TimePasses
  <2>2. current_processing_task' = [current_processing_task EXCEPT ![p] = n]
    BY DEF Call, WatcherTypeOK
  <2> HIDE DEF n
  <2> QED BY <2>1, <2>2 DEF WatcherTypeOK
<1>2. TypeOK'
  <2>1. pc' \in Pe \X Phase
    BY DEF Call, NextPhase, Phase
  <2> QED BY <1>1, <2>1 DEF Call, envVars, WatcherTypeOK
<1>3. QueueBounds' /\ WaitingCounted'
  BY DEF Call, QueueBounds, WaitingCounted
<1> QED BY <1>2, <1>3

LEMMA EnvIInv ==
  ASSUME IInv, EnvNext
  PROVE  IInv'
<1> USE DEF IInv, TypeOK
<1>1. QueueBounds' /\ WaitingCounted'
  BY DEF EnvNext, TrailSends, NetworksTake, MemoryReplies, OthersSend,
         QueueBounds, WaitingCounted
<1>2. CASE TrailSends
  <2>1. PICK t \in pending :
          /\ watcher_task_receiver' =
               [watcher_task_receiver EXCEPT
                  ![HomePe[t]] = Sent(watcher_task_receiver[HomePe[t]], t)]
          /\ pending' = pending \ {t}
    BY <1>2 DEF TrailSends
  <2>2. HomePe[t] \in Pe /\ t \in WatcherTask
    BY EnvAssumption
  <2>3. Sent(watcher_task_receiver[HomePe[t]], t) \in Seq(WatcherTask)
    BY <2>2, SentType DEF WatcherTypeOK
  <2>4. watcher_task_receiver' \in [Pe -> Seq(WatcherTask)]
    BY <2>1, <2>2, <2>3 DEF WatcherTypeOK
  <2>5. TypeOK'
    BY <1>2, <2>1, <2>4 DEF TrailSends, control, WatcherTypeOK
  <2> QED BY <1>1, <2>5
<1>3. CASE NetworksTake
  <2>1. mem_out' \in [Pe -> Seq(WatcherReq \cup OtherReq)] /\ memory' \subseteq WatcherReq
    <3>1. ASSUME NEW p \in Pe, mem_out[p] # <<>>
          PROVE  /\ Head(mem_out[p]) \in WatcherReq \cup OtherReq
                 /\ Received(mem_out[p]) \in Seq(WatcherReq \cup OtherReq)
      BY <3>1, ReceivedType
    <3>2. <<>> \in Seq(WatcherReq \cup OtherReq)
      BY EmptySeq
    <3> QED BY <1>3, <3>1, <3>2 DEF NetworksTake, MemoryTakes
  <2>2. clause_icnt_sender' \in [Pe -> Seq(ClauseTask)]
    <3>1. ASSUME NEW p \in Pe, clause_icnt_sender[p] # <<>>
          PROVE  Received(clause_icnt_sender[p]) \in Seq(ClauseTask)
      BY <3>1, ReceivedType DEF WatcherTypeOK
    <3>2. <<>> \in Seq(ClauseTask)
      BY EmptySeq
    <3> QED BY <1>3, <3>1, <3>2 DEF NetworksTake, ClauseNetworkTakes, WatcherTypeOK
  <2>3. TypeOK'
    BY <1>3, <2>1, <2>2 DEF NetworksTake, control, WatcherTypeOK
  <2> QED BY <1>1, <2>3
<1>4. CASE MemoryReplies
  <2>1. PICK r \in memory :
          /\ mem_in' = [mem_in EXCEPT ![r.pe] = Sent(mem_in[r.pe], r)]
          /\ memory' = memory \ {r}
    BY <1>4 DEF MemoryReplies
  <2>2. r \in WatcherReq /\ r.pe \in Pe
    BY ReqType
  <2>3. Sent(mem_in[r.pe], r) \in Seq(WatcherReq)
    BY <2>2, SentType DEF WatcherTypeOK
  <2>4. mem_in' \in [Pe -> Seq(WatcherReq)] /\ memory' \subseteq WatcherReq
    BY <2>1, <2>2, <2>3 DEF WatcherTypeOK
  <2>5. TypeOK'
    BY <1>4, <2>4 DEF MemoryReplies, control, WatcherTypeOK
  <2> QED BY <1>1, <2>5
<1>5. CASE OthersSend
  <2>1. PICK r \in OtherReq : mem_out' = [mem_out EXCEPT ![OtherPe[r]] =
                                            Sent(mem_out[OtherPe[r]], r)]
    BY <1>5 DEF OthersSend
  <2>2. OtherPe[r] \in Pe
    BY EnvAssumption
  <2>3. Sent(mem_out[OtherPe[r]], r) \in Seq(WatcherReq \cup OtherReq)
    BY <2>2, SentType
  <2>4. mem_out' \in [Pe -> Seq(WatcherReq \cup OtherReq)]
    BY <2>1, <2>2, <2>3
  <2>5. TypeOK'
    BY <1>5, <2>4 DEF OthersSend, control, envVars, WatcherTypeOK
  <2> QED BY <1>1, <2>5
<1> QED BY <1>2, <1>3, <1>4, <1>5 DEF EnvNext

LEMMA NextIInv == IInv /\ [Next]_vars => IInv'
<1> SUFFICES ASSUME IInv, [Next]_vars PROVE IInv'
  OBVIOUS
<1>1. CASE EnvNext
  BY <1>1, EnvIInv
<1>2. ASSUME NEW p \in Pe, Step(p), UNCHANGED envVars PROVE IInv'
  <2>1. CASE \E k \in Read : StartRead(p, k) \/ ReadBlocked(p, k)
    BY <1>2, <2>1, StartReadIInv, ReadBlockedIInv
  <2>2. CASE Expand(p)
    BY <1>2, <2>2, ExpandIInv
  <2>3. CASE Process(p)
    BY <1>2, <2>3, ProcessIInv
  <2>4. CASE StartProcess(p)
    BY <1>2, <2>4, StartProcessIInv
  <2>5. CASE SendClause(p)
    BY <1>2, <2>5, SendClauseIInv
  <2>6. CASE Reply(p)
    BY <1>2, <2>6, ReplyIInv
  <2>7. CASE Skip(p)
    BY <1>2, <2>7, SkipIInv
  <2> QED BY <1>2, <2>1, <2>2, <2>3, <2>4, <2>5, <2>6, <2>7 DEF Step
<1>3. ASSUME NEW p \in Pe, NEW d \in Elapsed, Call(p, d), UNCHANGED envVars PROVE IInv'
  BY <1>3, CallIInv
<1>4. CASE UNCHANGED vars
  BY <1>4 DEF vars, watcherVars, envVars, control, IInv, TypeOK, WatcherTypeOK,
              QueueBounds, WaitingCounted
<1> QED BY <1>1, <1>2, <1>3, <1>4 DEF Next, WatcherNext

(* In every reachable state every variable has its type; in particular no   *)
(* counter of reads under way (watcher.rs:289, 299, 307) is ever taken      *)
(* below zero, where the usize of the code would panic or wrap around.     *)
THEOREM WatcherTypeCorrect == Spec => []TypeOK
<1>1. IInv => TypeOK
  BY DEF IInv
<1> QED BY InitStart, InitIInv, NextIInv, <1>1, PTL DEF Spec

(* The two separate tests of watcher.rs before each read keep each queue,   *)
(* with the reads that will fill it, below twice the limit.                *)
THEOREM WatcherQueuesBounded == Spec => []QueueBounds
<1>1. IInv => QueueBounds
  BY DEF IInv
<1> QED BY InitStart, InitIInv, NextIInv, <1>1, PTL DEF Spec

(* The phases whose work depends on nothing another component changes       *)
(* between two updates, and the place of each phase in update.              *)
Own == {"data", "expand", "blocker", "process", "start", "send"}
Place == [meta |-> 0, data |-> 1, expand |-> 2, blocker |-> 3, process |-> 4,
          start |-> 5, send |-> 6, reply |-> 7, return |-> 8]

(* An update that is not busy yet has found no work in the phases behind it, *)
(* and there still is none.                                                 *)
SkippedHasNoWork ==
  \A p \in Pe : pc[1] = p /\ ~busy[p] =>
    \A f \in Own : Place[f] < Place[pc[2]] => ~HasWork(p, f)

LEMMA PlaceNext ==
  ASSUME NEW f \in Own, NEW phase \in DOMAIN NextPhase,
         Place[f] < Place[NextPhase[phase]]
  PROVE  Place[f] < Place[phase] \/ f = phase
BY DEF Own, Place, NextPhase

LEMMA NextSkipped == TypeOK /\ SkippedHasNoWork /\ [Next]_vars => SkippedHasNoWork'
<1> SUFFICES ASSUME TypeOK, SkippedHasNoWork, [Next]_vars PROVE SkippedHasNoWork'
  OBVIOUS
<1>0. busy \in [Pe -> BOOLEAN] /\ pc \in Pe \X Phase
  BY DEF TypeOK, WatcherTypeOK
<1> DEFINE own == <<queue, total_ongoing, current_processing_task>>
<1>1. ASSUME UNCHANGED own, NEW p \in Pe, NEW f \in Own PROVE HasWork(p, f)' <=> HasWork(p, f)
  <2>1. f # "meta" /\ f # "reply"
    BY DEF Own
  <2> QED
    BY <1>1, <2>1 DEF Own, HasWork, Read, CanRead, Input, CanExpand, CanProcess,
                      CanStart, CanSend
<1>2. CASE EnvNext
  <2>1. UNCHANGED <<own, pc, busy>>
    BY <1>2 DEF EnvNext, TrailSends, NetworksTake, MemoryReplies, OthersSend, control
  <2> QED BY <1>1, <2>1 DEF SkippedHasNoWork
<1>3. ASSUME NEW p \in Pe, NEW d \in Elapsed, Call(p, d) PROVE SkippedHasNoWork'
  <2>1. pc' = <<p, "meta">>
    BY <1>3 DEF Call
  <2>2. \A f \in Own : ~(Place[f] < Place["meta"])
    BY DEF Own, Place
  <2> QED BY <2>1, <2>2 DEF SkippedHasNoWork
<1>4. ASSUME NEW p \in Pe, Step(p), ~Skip(p) PROVE SkippedHasNoWork'
  <2>1. \E f \in DOMAIN NextPhase : Done(p, f)
    BY <1>4, Kinds DEF Step, StartRead, ReadBlocked, Expand, Process, StartProcess,
                       SendClause, Reply, NextPhase
  <2>2. \E u \in BOOLEAN : Report(p, u)
    BY <1>4 DEF Step, StartRead, ReadBlocked, Expand, Process, StartProcess,
                SendClause, Reply
  <2>3. pc'[1] = p /\ busy'[p] = TRUE
    BY <1>0, <2>1, <2>2 DEF Done, Report
  <2> QED BY <2>3 DEF SkippedHasNoWork
<1>5. ASSUME NEW p \in Pe, Skip(p) PROVE SkippedHasNoWork'
  <2>1. PICK phase \in DOMAIN NextPhase :
          /\ pc = <<p, phase>> /\ pc' = <<p, NextPhase[phase]>> /\ ~HasWork(p, phase)
          /\ UNCHANGED <<own, busy>>
    BY <1>5 DEF Skip, At, Done
  <2>2. ASSUME ~busy[p], NEW f \in Own, Place[f] < Place[NextPhase[phase]]
        PROVE  ~HasWork(p, f)'
    <3>1. Place[f] < Place[phase] => ~HasWork(p, f)
      BY <2>1, <2>2 DEF SkippedHasNoWork
    <3> QED BY <1>1, <2>1, <2>2, <3>1, PlaceNext
  <2> QED BY <2>1, <2>2 DEF SkippedHasNoWork
<1>6. CASE UNCHANGED vars
  <2>1. UNCHANGED <<own, pc, busy>>
    BY <1>6 DEF vars, watcherVars, control
  <2> QED BY <1>1, <2>1 DEF SkippedHasNoWork
<1> QED BY <1>2, <1>3, <1>4, <1>5, <1>6 DEF Next, WatcherNext

(* Without work in any phase and without reads under way, the last queue is *)
(* empty, hence nothing is in process, hence each queue before is empty:    *)
(* what a full queue would stop cannot be stopped by an empty one.          *)
LEMMA NoWorkIsEmpty ==
  ASSUME TypeOK, NEW p \in Pe, \A f \in Own : ~HasWork(p, f),
         \A k \in Read : total_ongoing[p][k] = 0
  PROVE  current_processing_task[p] = None /\ \A q \in Queue : queue[p][q] = <<>>
<1>1. /\ ~CanRead(p, "data") /\ ~CanRead(p, "blocker") /\ ~CanExpand(p)
      /\ ~CanProcess(p) /\ ~CanStart(p) /\ ~CanSend(p)
  BY DEF Own, HasWork, Read
<1>2. QueueLimit \in Nat \ {0} /\ Len(<<>>) = 0
  BY LimitAssumption, EmptySeq
<1>3. queue[p]["process_finished"] = <<>>
  BY <1>1 DEF CanSend
<1>4. current_processing_task[p] = None
  BY <1>1, <1>2, <1>3 DEF CanProcess
<1>5. queue[p]["value_finished"] = <<>>
  BY <1>1, <1>4 DEF CanStart
<1>6. queue[p]["single_task"] = <<>>
  <2>1. Input(p, "blocker") = queue[p]["single_task"] /\ Output["blocker"] = "value_finished"
    BY DEF Input, InputQueue, Output
  <2>2. total_ongoing[p]["blocker"] = 0
    BY DEF Read
  <2> QED BY <1>1, <1>2, <1>5, <2>1, <2>2 DEF CanRead
<1>7. queue[p]["data_finished"] = <<>>
  BY <1>1, <1>2, <1>6 DEF CanExpand
<1>8. queue[p]["meta_finished"] = <<>>
  <2>1. Input(p, "data") = queue[p]["meta_finished"] /\ Output["data"] = "data_finished"
    BY DEF Input, InputQueue, Output
  <2>2. total_ongoing[p]["data"] = 0
    BY DEF Read
  <2> QED BY <1>1, <1>2, <1>7, <2>1, <2>2 DEF CanRead
<1> QED BY <1>3, <1>4, <1>5, <1>6, <1>7, <1>8 DEF Queue

LEMMA InitSkipped == Start => SkippedHasNoWork
<1> SUFFICES ASSUME Start, NEW p \in Pe, NEW f \in Own PROVE ~HasWork(p, f)
  BY DEF SkippedHasNoWork
<1>1. /\ \A q \in Queue : queue[p][q] = <<>>
      /\ current_processing_task[p] = None
  BY DEF Start, Init
<1>2. ~CanExpand(p) /\ ~CanProcess(p) /\ ~CanStart(p) /\ ~CanSend(p)
  BY <1>1 DEF CanExpand, CanProcess, CanStart, CanSend, Queue
<1>3. \A k \in {"data", "blocker"} : ~CanRead(p, k)
  BY <1>1 DEF CanRead, Input, InputQueue, Queue
<1> QED BY <1>2, <1>3 DEF Own, HasWork, Read

(* A watcher that reports to be idle at the end of its update holds a task  *)
(* only while it waits for a reply, for every limit and number of tasks.    *)
THEOREM WatcherQuietOnlyIfWaiting == Spec => []QuietOnlyIfWaiting
<1>1. TypeOK /\ SkippedHasNoWork => QuietOnlyIfWaiting
  <2> SUFFICES ASSUME TypeOK, SkippedHasNoWork, NEW p \in Pe, At(p, "return"), ~busy[p],
                      \A k \in Read : total_ongoing[p][k] = 0
               PROVE  current_processing_task[p] = None /\ \A q \in Queue : queue[p][q] = <<>>
    BY DEF QuietOnlyIfWaiting
  <2>1. pc = <<p, "return">> /\ \A f \in Own : Place[f] < Place["return"]
    BY DEF At, Own, Place
  <2>2. \A f \in Own : ~HasWork(p, f)
    BY <2>1 DEF SkippedHasNoWork
  <2> QED BY <2>2, NoWorkIsEmpty
<1> QED BY <1>1, InitStart, InitSkipped, NextSkipped, WatcherTypeCorrect, PTL DEF Spec
-----------------------------------------------------------------------------
(* Where the tasks are.  Every task is at one place of one watcher: before  *)
(* it is expanded, a watcher task is with the trail, in the channel from    *)
(* it, waiting for a read or in a queue; a single watcher that was taken    *)
(* from its list is in a queue, waiting for its blocker or in process.     *)

TaskPlace == {"trail", "arrived", "meta", "meta_finished", "data", "data_finished"}
SinglePlace == {"single_task", "blocker", "value_finished", "process", "process_finished"}
HeldPlace == TaskPlace \cup SinglePlace

Held(p, s) ==
  CASE s = "trail" -> {t \in pending : HomePe[t] = p}
    [] s = "arrived" -> Range(watcher_task_receiver[p])
    [] s \in Read -> mem_req_id_to_task[p][s]
    [] s \in Queue -> Range(queue[p][s])
    [] s = "process" -> IF current_processing_task[p] = None THEN {}
                        ELSE {current_processing_task[p].task}

\* The watcher tasks of processing element p with their single watchers.
TasksOf(p) == UNION {{t} \cup Range(Singles[t]) : t \in {u \in WatcherTask : HomePe[u] = p}}

AtHome == \A p \in Pe, s \in HeldPlace : Held(p, s) \subseteq TasksOf(p)

OnePlace == \A p \in Pe, s, u \in HeldPlace : s # u => Held(p, s) \cap Held(p, u) = {}

\* The single watchers of a task that is not expanded are nowhere yet.
NotBorn ==
  \A p \in Pe, s \in TaskPlace, u \in SinglePlace :
    \A t \in Held(p, s) : Range(Singles[t]) \cap Held(p, u) = {}

NoDoubles ==
  \A p \in Pe : /\ IsInjective(watcher_task_receiver[p])
                /\ \A q \in Queue : IsInjective(queue[p][q])

Places == AtHome /\ OnePlace /\ NotBorn

PInv == Places /\ NoDoubles

LEMMA TasksOfDisjoint ==
  ASSUME NEW p \in Pe, NEW o \in Pe, p # o
  PROVE  TasksOf(p) \cap TasksOf(o) = {}
<1> SUFFICES ASSUME NEW x \in TasksOf(p), x \in TasksOf(o) PROVE FALSE
  OBVIOUS
<1>1. PICK t \in WatcherTask : HomePe[t] = p /\ x \in {t} \cup Range(Singles[t])
  BY DEF TasksOf
<1>2. PICK u \in WatcherTask : HomePe[u] = o /\ x \in {u} \cup Range(Singles[u])
  BY DEF TasksOf
<1>3. Range(Singles[t]) \subseteq ClauseTask /\ Range(Singles[u]) \subseteq ClauseTask
  BY TasksAssumption, RangeOfSeq
<1>4. t # u
  BY <1>1, <1>2
<1> QED BY <1>1, <1>2, <1>3, <1>4, DistinctTasks

(* A task is held by one watcher.                                          *)
LEMMA OneHolder ==
  ASSUME Places, NEW p \in Pe, NEW o \in Pe, NEW s \in HeldPlace, NEW u \in HeldPlace,
         NEW x \in Held(p, s), x \in Held(o, u)
  PROVE  p = o /\ s = u
<1>1. x \in TasksOf(p) /\ x \in TasksOf(o)
  BY DEF Places, AtHome
<1>2. p = o
  BY <1>1, TasksOfDisjoint
<1> QED BY <1>2 DEF Places, OnePlace

(* The steps move tasks: X goes from s to u, or leaves the watcher.        *)
Moves(p, X, s, u) ==
  /\ X \subseteq Held(p, s)
  /\ Held(p, s)' = Held(p, s) \ X
  /\ Held(p, u)' = Held(p, u) \cup X
  /\ \A o \in Pe, v \in HeldPlace : o # p \/ v \notin {s, u} => Held(o, v)' = Held(o, v)

Leaves(p, X, s) ==
  /\ Held(p, s)' = Held(p, s) \ X
  /\ \A o \in Pe, v \in HeldPlace : o # p \/ v # s => Held(o, v)' = Held(o, v)

LEMMA MovesPlaces ==
  ASSUME Places, NEW p \in Pe, NEW s \in HeldPlace, NEW u \in HeldPlace, s # u,
         s \in TaskPlace <=> u \in TaskPlace, NEW X, Moves(p, X, s, u)
  PROVE  Places'
<1>1. \A o \in Pe, v \in HeldPlace :
        Held(o, v)' = IF o # p THEN Held(o, v)
                      ELSE IF v = s THEN Held(p, s) \ X
                      ELSE IF v = u THEN Held(p, u) \cup X
                      ELSE Held(o, v)
  BY DEF Moves
<1>2. X \subseteq Held(p, s)
  BY DEF Moves
<1>3. \A x \in HeldPlace : x \in TaskPlace <=> x \notin SinglePlace
  BY DEF HeldPlace, TaskPlace, SinglePlace
<1>4. TaskPlace \subseteq HeldPlace /\ SinglePlace \subseteq HeldPlace
  BY DEF HeldPlace
<1>5. AtHome'
  <2>1. ASSUME NEW o \in Pe, NEW v \in HeldPlace PROVE Held(o, v)' \subseteq TasksOf(o)
    BY <1>1, <1>2 DEF Places, AtHome
  <2> QED BY <2>1 DEF AtHome, TasksOf
<1>6. OnePlace'
  <2>1. ASSUME NEW o \in Pe, NEW v \in HeldPlace, NEW w \in HeldPlace, v # w
        PROVE  Held(o, v)' \cap Held(o, w)' = {}
    <3>1. /\ Held(o, v) \cap Held(o, w) = {}
          /\ Held(o, s) \cap Held(o, v) = {} \/ v = s
          /\ Held(o, s) \cap Held(o, w) = {} \/ w = s
      BY <2>1 DEF Places, OnePlace
    <3>2. /\ v # s => Held(o, s) \cap Held(o, v) = {}
          /\ w # s => Held(o, s) \cap Held(o, w) = {}
      BY DEF Places, OnePlace
    <3>3. Held(o, v) \cap Held(o, w) = {}
      BY <2>1 DEF Places, OnePlace
    <3> QED BY <1>1, <1>2, <2>1, <3>2, <3>3
  <2> QED BY <2>1 DEF OnePlace
<1>7. NotBorn'
  <2>1. ASSUME NEW o \in Pe, NEW v \in TaskPlace, NEW w \in SinglePlace,
               NEW t \in Held(o, v)'
        PROVE  Range(Singles[t]) \cap Held(o, w)' = {}
    <3>1. PICK x \in TaskPlace : t \in Held(o, x)
      BY <1>1, <1>2, <1>3, <1>4, <2>1
    <3>2. \A y \in SinglePlace : Range(Singles[t]) \cap Held(o, y) = {}
      BY <3>1 DEF Places, NotBorn
    <3>3. Held(o, w)' \subseteq UNION {Held(o, y) : y \in SinglePlace}
      BY <1>1, <1>2, <1>3, <1>4, <2>1
    <3> QED BY <3>2, <3>3
  <2> QED BY <2>1 DEF NotBorn
<1> QED BY <1>5, <1>6, <1>7 DEF Places

LEMMA LeavesPlaces ==
  ASSUME Places, NEW p \in Pe, NEW s \in HeldPlace, NEW X, Leaves(p, X, s)
  PROVE  Places'
<1>1. \A o \in Pe, v \in HeldPlace : Held(o, v)' \subseteq Held(o, v)
  BY DEF Leaves
<1>2. TaskPlace \subseteq HeldPlace /\ SinglePlace \subseteq HeldPlace
  BY DEF HeldPlace
<1>3. AtHome'
  BY <1>1 DEF Places, AtHome, TasksOf
<1>4. OnePlace'
  <2>1. ASSUME NEW o \in Pe, NEW v \in HeldPlace, NEW w \in HeldPlace, v # w
        PROVE  Held(o, v)' \cap Held(o, w)' = {}
    BY <1>1, <2>1 DEF Places, OnePlace
  <2> QED BY <2>1 DEF OnePlace
<1>5. NotBorn'
  <2>1. ASSUME NEW o \in Pe, NEW v \in TaskPlace, NEW w \in SinglePlace,
               NEW t \in Held(o, v)'
        PROVE  Range(Singles[t]) \cap Held(o, w)' = {}
    <3>1. t \in Held(o, v) /\ Held(o, w)' \subseteq Held(o, w)
      BY <1>1, <1>2, <2>1
    <3>2. Range(Singles[t]) \cap Held(o, w) = {}
      BY <3>1 DEF Places, NotBorn
    <3> QED BY <3>1, <3>2
  <2> QED BY <2>1 DEF NotBorn
<1> QED BY <1>3, <1>4, <1>5 DEF Places

LEMMA SamePlaces ==
  ASSUME Places, \A o \in Pe, v \in HeldPlace : Held(o, v)' = Held(o, v)
  PROVE  Places'
<1>1. AtHome'
  BY DEF Places, AtHome, TasksOf
<1>2. OnePlace'
  BY DEF Places, OnePlace
<1>3. NotBorn'
  BY DEF Places, NotBorn, HeldPlace
<1> QED BY <1>1, <1>2, <1>3 DEF Places

(* What the places hold, one by one.                                       *)
LEMMA HeldValues ==
  ASSUME NEW p \in Pe
  PROVE  /\ Held(p, "trail") = {t \in pending : HomePe[t] = p}
         /\ Held(p, "arrived") = Range(watcher_task_receiver[p])
         /\ \A k \in Read : k \in HeldPlace /\ Held(p, k) = mem_req_id_to_task[p][k]
         /\ \A q \in Queue : q \in HeldPlace /\ Held(p, q) = Range(queue[p][q])
         /\ Held(p, "process") = IF current_processing_task[p] = None THEN {}
                                 ELSE {current_processing_task[p].task}
         /\ Held(p, "trail")' = {t \in pending' : HomePe[t] = p}
         /\ Held(p, "arrived")' = Range(watcher_task_receiver'[p])
         /\ \A k \in Read : Held(p, k)' = mem_req_id_to_task'[p][k]
         /\ \A q \in Queue : Held(p, q)' = Range(queue'[p][q])
         /\ Held(p, "process")' = IF current_processing_task'[p] = None THEN {}
                                  ELSE {current_processing_task'[p].task}
         /\ HeldPlace = {"trail", "arrived", "process"} \cup Read \cup Queue
BY DEF Held, Read, Queue, HeldPlace, TaskPlace, SinglePlace

(* A place changes with the variable it stands for.                        *)
LEMMA SameHeld ==
  ASSUME NEW p \in Pe
  PROVE  /\ pending' = pending => Held(p, "trail")' = Held(p, "trail")
         /\ watcher_task_receiver'[p] = watcher_task_receiver[p] =>
              Held(p, "arrived")' = Held(p, "arrived")
         /\ \A k \in Read : mem_req_id_to_task'[p][k] = mem_req_id_to_task[p][k] =>
              Held(p, k)' = Held(p, k)
         /\ \A q \in Queue : queue'[p][q] = queue[p][q] => Held(p, q)' = Held(p, q)
         /\ current_processing_task'[p] = current_processing_task[p] =>
              Held(p, "process")' = Held(p, "process")
         /\ \A v \in HeldPlace : v \in {"trail", "arrived", "process"} \/ v \in Read \cup Queue
<1> USE HeldValues
<1>1. pending' = pending => Held(p, "trail")' = Held(p, "trail")
  OBVIOUS
<1>2. watcher_task_receiver'[p] = watcher_task_receiver[p] =>
        Held(p, "arrived")' = Held(p, "arrived")
  OBVIOUS
<1>3. \A k \in Read : mem_req_id_to_task'[p][k] = mem_req_id_to_task[p][k] =>
        Held(p, k)' = Held(p, k)
  OBVIOUS
<1>4. \A q \in Queue : queue'[p][q] = queue[p][q] => Held(p, q)' = Held(p, q)
  OBVIOUS
<1>5. current_processing_task'[p] = current_processing_task[p] =>
        Held(p, "process")' = Held(p, "process")
  OBVIOUS
<1>6. \A v \in HeldPlace : v \in {"trail", "arrived", "process"} \/ v \in Read \cup Queue
  OBVIOUS
<1> QED BY <1>1, <1>2, <1>3, <1>4, <1>5, <1>6

(* Giving a queue another content changes what its place holds.            *)
LEMMA QueueHeld ==
  ASSUME QueueType(queue), NoDoubles, NEW p \in Pe, NEW q \in Queue, NEW s \in Seq(ItemOf(q)),
         queue' = [queue EXCEPT ![p][q] = s], IsInjective(s),
         UNCHANGED <<pending, watcher_task_receiver, mem_req_id_to_task,
                     current_processing_task>>
  PROVE  /\ Held(p, q)' = Range(s)
         /\ \A o \in Pe, v \in HeldPlace : o # p \/ v # q => Held(o, v)' = Held(o, v)
         /\ NoDoubles'
<1>1. \A x \in Pe, y \in Queue : queue'[x][y] = IF x = p /\ y = q THEN s ELSE queue[x][y]
  BY QueueExcept
<1>2. Held(p, q)' = Range(s)
  BY <1>1, HeldValues
<1>3. ASSUME NEW o \in Pe, NEW v \in HeldPlace, o # p \/ v # q
      PROVE  Held(o, v)' = Held(o, v)
  <2>1. CASE v \in Queue
    BY <1>1, <1>3, <2>1, HeldValues
  <2>2. CASE v \notin Queue
    BY <2>2, SameHeld
  <2> QED BY <2>1, <2>2
<1>4. NoDoubles'
  BY <1>1 DEF NoDoubles
<1> QED BY <1>2, <1>3, <1>4

(* The place of the tasks that a phase reads memory for.                   *)
Source(k) == IF k = "meta" THEN "arrived" ELSE InputQueue[k]

LEMMA SourcePlace ==
  ASSUME NEW k \in Read
  PROVE  /\ Source(k) \in HeldPlace /\ k \in HeldPlace /\ Source(k) # k
         /\ Output[k] \in HeldPlace /\ Output[k] # k /\ Output[k] \in Queue
         /\ Source(k) \in TaskPlace <=> k \in TaskPlace
         /\ Output[k] \in TaskPlace <=> k \in TaskPlace
         /\ Source(k) \notin Read
         /\ \A p \in Pe : Held(p, Source(k)) = Range(Input(p, k))
BY HeldValues DEF Source, Read, InputQueue, Output, HeldPlace, TaskPlace, SinglePlace, Input,
                  Queue

(* Taking a task from the input of a read.                                 *)
LEMMA InputHeld ==
  ASSUME TypeOK, NoDoubles, NEW p \in Pe, NEW k \in Read, NEW s \in Seq(TaskOf(k)),
         InputBecomes(p, k, s), IsInjective(s), UNCHANGED <<pending, current_processing_task>>
  PROVE  /\ Held(p, Source(k))' = Range(s)
         /\ \A o \in Pe, v \in HeldPlace \ Read :
              o # p \/ v # Source(k) => Held(o, v)' = Held(o, v)
         /\ NoDoubles'
<1>1. QueueType(queue) /\ watcher_task_receiver \in [Pe -> Seq(WatcherTask)]
  BY QueuesTyped DEF TypeOK, WatcherTypeOK
<1>2. CASE k = "meta"
  <2>1. /\ Source(k) = "arrived" /\ queue' = queue
        /\ watcher_task_receiver' = [watcher_task_receiver EXCEPT ![p] = s]
    BY <1>2 DEF InputBecomes, Source
  <2>2. \A o \in Pe : watcher_task_receiver'[o] = IF o = p THEN s ELSE watcher_task_receiver[o]
    BY <1>1, <2>1
  <2>3. Held(p, Source(k))' = Range(s)
    BY <2>1, <2>2, HeldValues
  <2>4. ASSUME NEW o \in Pe, NEW v \in HeldPlace \ Read, o # p \/ v # Source(k)
        PROVE  Held(o, v)' = Held(o, v)
    <3>1. CASE v = "arrived"
      BY <2>1, <2>2, <2>4, <3>1, HeldValues
    <3>2. CASE v # "arrived"
      BY <2>1, <3>2, SameHeld
    <3> QED BY <3>1, <3>2
  <2>5. NoDoubles'
    BY <2>1, <2>2 DEF NoDoubles
  <2> QED BY <2>3, <2>4, <2>5
<1>3. CASE k # "meta"
  <2> DEFINE i == InputQueue[k]
  <2>1. i \in Queue /\ ItemOf(i) = TaskOf(k) /\ Source(k) = i
    BY <1>3, Kinds DEF Source
  <2>2. queue' = [queue EXCEPT ![p][i] = s] /\ UNCHANGED watcher_task_receiver
    BY <1>3 DEF InputBecomes
  <2> HIDE DEF i
  <2>3. s \in Seq(ItemOf(i))
    BY <2>1
  <2>4. \A x \in Pe, y \in Queue : queue'[x][y] = IF x = p /\ y = i THEN s ELSE queue[x][y]
    BY <1>1, <2>1, <2>2, <2>3, QueueExcept
  <2>5. Held(p, Source(k))' = Range(s)
    BY <2>1, <2>4, HeldValues
  <2>6. ASSUME NEW o \in Pe, NEW v \in HeldPlace \ Read, o # p \/ v # Source(k)
        PROVE  Held(o, v)' = Held(o, v)
    <3>1. CASE v \in Queue
      BY <2>1, <2>4, <2>6, <3>1, HeldValues
    <3>2. CASE v \notin Queue
      BY <2>2, <3>2, SameHeld
    <3> QED BY <3>1, <3>2
  <2>7. NoDoubles'
    BY <2>2, <2>4 DEF NoDoubles
  <2> QED BY <2>5, <2>6, <2>7
<1> QED BY <1>2, <1>3

(* A read moves its task from its source to those waiting.                 *)
LEMMA StartReadMoves ==
  ASSUME TypeOK, PInv, NEW p \in Pe, NEW k \in Read, StartRead(p, k), UNCHANGED envVars
  PROVE  /\ Head(Input(p, k)) \in TaskOf(k) /\ Head(Input(p, k)) \in Held(p, Source(k))
         /\ Moves(p, {Head(Input(p, k))}, Source(k), k) /\ PInv'
         /\ \A x \in Pe, l \in Read : mem_req_id_to_task'[x][l] =
              IF x = p /\ l = k THEN mem_req_id_to_task[x][l] \cup {Head(Input(p, k))}
                                ELSE mem_req_id_to_task[x][l]
<1> DEFINE t == Head(Input(p, k))
           s == Received(Input(p, k))
<1>1. Input(p, k) \in Seq(TaskOf(k)) /\ Input(p, k) # <<>>
  BY Kinds DEF TypeOK, WatcherTypeOK, Input, StartRead, CountRead, CanRead, TaskOf, Read
<1>2. IsInjective(Input(p, k))
  <2>1. k # "meta" => InputQueue[k] \in Queue
    BY Kinds
  <2> QED BY <2>1 DEF PInv, NoDoubles, Input
<1>3. /\ t \in TaskOf(k) /\ s \in Seq(TaskOf(k)) /\ t \in Range(Input(p, k))
      /\ Range(s) = Range(Input(p, k)) \ {t} /\ IsInjective(s)
  BY <1>1, <1>2, ReceivedType, TailRange DEF Received
<1>4. /\ InputBecomes(p, k, s) /\ UNCHANGED <<pending, current_processing_task>>
      /\ mem_req_id_to_task' = [mem_req_id_to_task EXCEPT ![p][k] = @ \cup {t}]
  BY DEF StartRead, CountRead, envVars
<1>5. \A x \in Pe, l \in Read : mem_req_id_to_task'[x][l] =
        IF x = p /\ l = k THEN mem_req_id_to_task[x][l] \cup {t} ELSE mem_req_id_to_task[x][l]
  BY <1>4 DEF TypeOK, WatcherTypeOK
<1>6. /\ Held(p, Source(k))' = Range(s) /\ NoDoubles'
      /\ \A o \in Pe, v \in HeldPlace \ Read :
           o # p \/ v # Source(k) => Held(o, v)' = Held(o, v)
  BY <1>3, <1>4, InputHeld DEF PInv
<1>7. ASSUME NEW o \in Pe, NEW v \in Read, o # p \/ v # k PROVE Held(o, v)' = Held(o, v)
  <2>1. mem_req_id_to_task'[o][v] = mem_req_id_to_task[o][v]
    BY <1>5, <1>7
  <2> QED BY <2>1, SameHeld
<1>8. Held(p, k)' = Held(p, k) \cup {t}
  BY <1>5, HeldValues
<1>9. Moves(p, {t}, Source(k), k) /\ t \in Held(p, Source(k))
  BY <1>3, <1>6, <1>7, <1>8, SourcePlace DEF Moves
<1> QED BY <1>3, <1>5, <1>6, <1>9, SourcePlace, MovesPlaces DEF PInv

LEMMA ReadBlockedPInv ==
  ASSUME TypeOK, PInv, NEW p \in Pe, NEW k \in Read, ReadBlocked(p, k), UNCHANGED envVars
  PROVE  UNCHANGED <<queue, watcher_task_receiver>>
<1>1. Input(p, k) \in Seq(TaskOf(k)) /\ Input(p, k) # <<>>
  BY Kinds DEF TypeOK, WatcherTypeOK, Input, ReadBlocked, CanRead, TaskOf, Read
<1>2. InputBecomes(p, k, Input(p, k))
  BY <1>1, RetRestores DEF ReadBlocked
<1> QED BY <1>2, Kinds DEF InputBecomes, Input, TypeOK, WatcherTypeOK

(* What the places hold depends on these variables only.                   *)
LEMMA UnchangedPlaces ==
  ASSUME PInv, UNCHANGED <<pending, watcher_task_receiver, mem_req_id_to_task, queue,
                           current_processing_task>>
  PROVE  PInv' /\ \A o \in Pe, v \in HeldPlace : Held(o, v)' = Held(o, v)
<1>1. \A o \in Pe, v \in HeldPlace : Held(o, v)' = Held(o, v)
  BY DEF Held
<1>2. NoDoubles'
  BY DEF PInv, NoDoubles
<1> QED BY <1>1, <1>2, SamePlaces DEF PInv

(* A reply moves its task from those waiting to the queue of the next phase. *)
LEMMA ReplyMoves ==
  ASSUME TypeOK, PInv, NEW p \in Pe, Reply(p), UNCHANGED envVars
  PROVE  /\ PInv'
         /\ \E k \in Read : \E t \in TaskOf(k) :
              /\ k = Head(mem_in[p]).type /\ t = Head(mem_in[p]).task
              /\ t \in mem_req_id_to_task[p][k] /\ Moves(p, {t}, k, Output[k])
              /\ \A x \in Pe, l \in Read : mem_req_id_to_task'[x][l] =
                   IF x = p /\ l = k THEN mem_req_id_to_task[x][l] \ {t}
                                     ELSE mem_req_id_to_task[x][l]
<1>0. PICK k, t : k = Head(mem_in[p]).type /\ t = Head(mem_in[p]).task
  OBVIOUS
<1> DEFINE o == Output[k]
<1>1. mem_in[p] \in Seq(WatcherReq) /\ mem_in[p] # <<>>
  BY DEF Reply, CountReply, CanReply, TypeOK, WatcherTypeOK
<1>2. k \in Read /\ t \in TaskOf(k)
  BY <1>0, <1>1, ReceivedType, ReqType
<1>3. /\ t \in mem_req_id_to_task[p][k]
      /\ mem_req_id_to_task' = [mem_req_id_to_task EXCEPT ![p][k] = @ \ {t}]
      /\ queue' = [queue EXCEPT ![p][o] = Append(queue[p][o], t)]
      /\ UNCHANGED <<pending, watcher_task_receiver, current_processing_task>>
  BY <1>0 DEF Reply, CountReply, UnwrapFails, envVars
<1>4. \A x \in Pe, l \in Read : mem_req_id_to_task'[x][l] =
        IF x = p /\ l = k THEN mem_req_id_to_task[x][l] \ {t} ELSE mem_req_id_to_task[x][l]
  BY <1>2, <1>3 DEF TypeOK, WatcherTypeOK
<1>5. /\ o \in Queue /\ o \in HeldPlace /\ o # k /\ k \in HeldPlace /\ ItemOf(o) = TaskOf(k)
      /\ o \in TaskPlace <=> k \in TaskPlace
  BY <1>2, SourcePlace, Kinds
<1> HIDE DEF o
<1>6. queue[p][o] \in Seq(ItemOf(o)) /\ QueueType(queue)
  BY <1>5, QueuesTyped DEF TypeOK, WatcherTypeOK
<1>7. t \in Held(p, k) /\ t \notin Range(queue[p][o]) /\ IsInjective(queue[p][o])
  <2>1. t \in Held(p, k) /\ Held(p, o) = Range(queue[p][o])
    BY <1>2, <1>3, <1>5, HeldValues
  <2>2. Held(p, k) \cap Held(p, o) = {}
    BY <1>5 DEF PInv, Places, OnePlace
  <2> QED BY <1>5, <2>1, <2>2 DEF PInv, NoDoubles
<1>8. /\ Append(queue[p][o], t) \in Seq(ItemOf(o))
      /\ Range(Append(queue[p][o], t)) = Range(queue[p][o]) \cup {t}
      /\ IsInjective(Append(queue[p][o], t))
  BY <1>2, <1>5, <1>6, <1>7, AppendRange, AppendProperties
<1>9. \A x \in Pe, y \in Queue :
        queue'[x][y] = IF x = p /\ y = o THEN Append(queue[p][o], t) ELSE queue[x][y]
  BY <1>3, <1>5, <1>6 DEF QueueType
<1>10. NoDoubles'
  BY <1>3, <1>8, <1>9 DEF PInv, NoDoubles
<1>11. Moves(p, {t}, k, o)
  <2>1. Held(p, k)' = Held(p, k) \ {t}
    <3>1. Held(p, k) = mem_req_id_to_task[p][k] /\ Held(p, k)' = mem_req_id_to_task'[p][k]
      BY <1>2, HeldValues
    <3> QED BY <1>2, <1>4, <3>1
  <2>3. Held(p, o)' = Held(p, o) \cup {t}
    <3>1. Held(p, o) = Range(queue[p][o]) /\ Held(p, o)' = Range(queue'[p][o])
      BY <1>5, HeldValues
    <3>2. queue'[p][o] = Append(queue[p][o], t)
      BY <1>5, <1>9
    <3> QED BY <1>8, <3>1, <3>2
  <2>2. ASSUME NEW x \in Pe, NEW v \in HeldPlace, x # p \/ v \notin {k, o}
        PROVE  Held(x, v)' = Held(x, v)
    <3>1. CASE v \in Read
      BY <1>4, <2>2, <3>1, SameHeld
    <3>2. CASE v \in Queue
      BY <1>9, <2>2, <3>2, HeldValues
    <3>3. CASE v \notin Read \cup Queue
      BY <1>3, <3>3, SameHeld
    <3> QED BY <3>1, <3>2, <3>3
  <2> QED BY <1>7, <2>1, <2>2, <2>3 DEF Moves
<1>12. PInv'
  BY <1>5, <1>10, <1>11, MovesPlaces DEF PInv
<1> QED BY <1>0, <1>2, <1>3, <1>4, <1>11, <1>12 DEF o

(* The task in process moves to the last queue, or nothing moves.          *)
LEMMA ProcessMoves ==
  ASSUME TypeOK, PInv, NEW p \in Pe, Process(p), UNCHANGED envVars
  PROVE  /\ PInv'
         /\ \/ \A o \in Pe, v \in HeldPlace : Held(o, v)' = Held(o, v)
            \/ /\ current_processing_task[p].task \in Held(p, "process")
               /\ Moves(p, {current_processing_task[p].task}, "process", "process_finished")
<1>1. CASE UNCHANGED <<current_processing_task, queue>>
  BY <1>1, UnchangedPlaces DEF Process, envVars
<1>2. ASSUME current_processing_task' = [current_processing_task EXCEPT ![p] = None],
             queue' = [queue EXCEPT ![p]["process_finished"] =
                         Append(@, current_processing_task[p].task)]
      PROVE  /\ PInv' /\ current_processing_task[p].task \in Held(p, "process")
             /\ Moves(p, {current_processing_task[p].task}, "process", "process_finished")
  <2> DEFINE c == current_processing_task[p].task
             s == queue[p]["process_finished"]
  <2>1. /\ current_processing_task[p] # None
        /\ UNCHANGED <<pending, watcher_task_receiver, mem_req_id_to_task>>
    BY DEF Process, CanProcess, envVars
  <2>2. c \in ClauseTask
    BY <2>1 DEF TypeOK, WatcherTypeOK, Processing
  <2>3. /\ "process_finished" \in Queue /\ ItemOf("process_finished") = ClauseTask
        /\ s \in Seq(ClauseTask) /\ QueueType(queue)
    BY QueuesTyped DEF TypeOK, WatcherTypeOK, Queue, ItemOf
  <2>4. /\ Held(p, "process") = {c} /\ Held(p, "process_finished") = Range(s)
        /\ Held(p, "process") \cap Held(p, "process_finished") = {}
    BY <2>1, <2>3, HeldValues DEF PInv, Places, OnePlace, HeldPlace, SinglePlace
  <2>5. IsInjective(s) /\ c \notin Range(s)
    BY <2>3, <2>4 DEF PInv, NoDoubles
  <2>6. /\ Append(s, c) \in Seq(ItemOf("process_finished")) /\ IsInjective(Append(s, c))
        /\ Range(Append(s, c)) = Range(s) \cup {c}
    BY <2>2, <2>3, <2>5, AppendRange, AppendProperties
  <2>7. \A x \in Pe, y \in Queue : queue'[x][y] =
          IF x = p /\ y = "process_finished" THEN Append(s, c) ELSE queue[x][y]
    BY <1>2, <2>3, <2>6, QueueExcept
  <2>8. NoDoubles'
    BY <2>1, <2>6, <2>7 DEF PInv, NoDoubles
  <2>9. \A o \in Pe : current_processing_task'[o] =
          IF o = p THEN None ELSE current_processing_task[o]
    BY <1>2 DEF TypeOK, WatcherTypeOK
  <2>10. Moves(p, {c}, "process", "process_finished")
    <3>1. Held(p, "process")' = {} /\ Held(p, "process_finished")' = Range(s) \cup {c}
      BY <2>3, <2>6, <2>7, <2>9, HeldValues
    <3>2. ASSUME NEW o \in Pe, NEW v \in HeldPlace, o # p \/ v \notin {"process", "process_finished"}
          PROVE  Held(o, v)' = Held(o, v)
      <4>1. CASE v \in Queue
        BY <2>7, <3>2, <4>1, HeldValues
      <4>2. CASE v = "process"
        BY <2>9, <3>2, <4>2, HeldValues
      <4>3. CASE v \notin Queue /\ v # "process"
        BY <2>1, <4>3, SameHeld
      <4> QED BY <4>1, <4>2, <4>3
    <3> QED BY <2>4, <3>1, <3>2 DEF Moves
  <2>11. Places'
    BY <2>10, MovesPlaces DEF PInv, HeldPlace, SinglePlace, TaskPlace
  <2> QED BY <2>4, <2>8, <2>10, <2>11 DEF PInv
<1> QED BY <1>1, <1>2 DEF Process

LEMMA StartProcessMoves ==
  ASSUME TypeOK, PInv, NEW p \in Pe, StartProcess(p), UNCHANGED envVars
  PROVE  /\ PInv' /\ Head(queue[p]["value_finished"]) \in Held(p, "value_finished")
         /\ Moves(p, {Head(queue[p]["value_finished"])}, "value_finished", "process")
<1> DEFINE s == queue[p]["value_finished"]
           c == Head(s)
<1>1. /\ s # <<>> /\ current_processing_task[p] = None
      /\ current_processing_task' =
           [current_processing_task EXCEPT ![p] = [task |-> c, left |-> ProcessTime]]
      /\ queue' = [queue EXCEPT ![p]["value_finished"] = Tail(s)]
      /\ UNCHANGED <<pending, watcher_task_receiver, mem_req_id_to_task>>
  BY DEF StartProcess, CanStart, envVars
<1>2. /\ "value_finished" \in Queue /\ ItemOf("value_finished") = ClauseTask
      /\ s \in Seq(ClauseTask) /\ QueueType(queue)
  BY QueuesTyped DEF TypeOK, WatcherTypeOK, Queue, ItemOf
<1>3. /\ c \in ClauseTask /\ c \in Range(s) /\ Tail(s) \in Seq(ItemOf("value_finished"))
      /\ IsInjective(Tail(s)) /\ Range(Tail(s)) = Range(s) \ {c}
  BY <1>1, <1>2, TailRange, HeadTailProperties DEF PInv, NoDoubles
<1>4. \A x \in Pe, y \in Queue : queue'[x][y] =
        IF x = p /\ y = "value_finished" THEN Tail(s) ELSE queue[x][y]
  BY <1>1, <1>2, <1>3, QueueExcept
<1>5. NoDoubles'
  BY <1>1, <1>3, <1>4 DEF PInv, NoDoubles
<1> DEFINE r == [task |-> c, left |-> ProcessTime]
<1>6. \A o \in Pe : current_processing_task'[o] = IF o = p THEN r ELSE current_processing_task[o]
  BY <1>1 DEF TypeOK, WatcherTypeOK
<1>7. r # None /\ r.task = c
  <2>1. r \in Processing
    BY <1>3 DEF Processing, ProcessTime
  <2> QED BY <2>1, DistinctTasks
<1> HIDE DEF r
<1>8. Moves(p, {c}, "value_finished", "process")
  <2>1. /\ Held(p, "value_finished") = Range(s) /\ Held(p, "value_finished")' = Range(Tail(s))
        /\ Held(p, "process") = {} /\ Held(p, "process")' = {c}
    BY <1>1, <1>2, <1>4, <1>6, <1>7, HeldValues
  <2>2. ASSUME NEW o \in Pe, NEW v \in HeldPlace, o # p \/ v \notin {"value_finished", "process"}
        PROVE  Held(o, v)' = Held(o, v)
    <3>1. CASE v \in Queue
      BY <1>4, <2>2, <3>1, SameHeld
    <3>2. CASE v = "process"
      BY <1>6, <2>2, <3>2, HeldValues
    <3>3. CASE v \notin Queue /\ v # "process"
      BY <1>1, <3>3, SameHeld
    <3> QED BY <3>1, <3>2, <3>3
  <2> QED BY <1>3, <2>1, <2>2 DEF Moves
<1>9. Places'
  BY <1>8, MovesPlaces DEF PInv, HeldPlace, SinglePlace, TaskPlace
<1>10. c \in Held(p, "value_finished")
  BY <1>2, <1>3, HeldValues
<1> QED BY <1>5, <1>8, <1>9, <1>10 DEF PInv

(* A clause task leaves the watcher, or goes back to its place.            *)
LEMMA SendClauseLeaves ==
  ASSUME TypeOK, PInv, NEW p \in Pe, SendClause(p), UNCHANGED envVars
  PROVE  /\ PInv'
         /\ \/ /\ \A o \in Pe, v \in HeldPlace : Held(o, v)' = Held(o, v)
               /\ UNCHANGED current_level_finished_tasks
            \/ /\ Head(queue[p]["process_finished"]) \in Held(p, "process_finished")
               /\ Leaves(p, {Head(queue[p]["process_finished"])}, "process_finished")
               /\ current_level_finished_tasks' =
                    IF Head(queue[p]["process_finished"]) \in HasClauseData
                      THEN current_level_finished_tasks ELSE current_level_finished_tasks + 1
<1> DEFINE s == queue[p]["process_finished"]
<1>1. /\ s # <<>>
      /\ UNCHANGED <<pending, watcher_task_receiver, mem_req_id_to_task,
                     current_processing_task>>
      /\ \/ /\ queue' = [queue EXCEPT ![p]["process_finished"] = Tail(s)]
            /\ current_level_finished_tasks' =
                 IF Head(s) \in HasClauseData
                   THEN current_level_finished_tasks ELSE current_level_finished_tasks + 1
         \/ /\ queue' = [queue EXCEPT ![p]["process_finished"] = RecvThenRet(s)]
            /\ UNCHANGED current_level_finished_tasks
  BY DEF SendClause, CanSend, envVars
<1>2. /\ "process_finished" \in Queue /\ ItemOf("process_finished") = ClauseTask
      /\ s \in Seq(ClauseTask) /\ QueueType(queue)
  BY QueuesTyped DEF TypeOK, WatcherTypeOK, Queue, ItemOf
<1>3. /\ Head(s) \in Range(s) /\ Tail(s) \in Seq(ItemOf("process_finished"))
      /\ IsInjective(Tail(s)) /\ Range(Tail(s)) = Range(s) \ {Head(s)}
  BY <1>1, <1>2, TailRange, HeadTailProperties DEF PInv, NoDoubles
<1>4. Held(p, "process_finished") = Range(s) /\ "process_finished" \in HeldPlace
  BY <1>2, HeldValues
<1>5. CASE /\ queue' = [queue EXCEPT ![p]["process_finished"] = Tail(s)]
           /\ current_level_finished_tasks' =
                IF Head(s) \in HasClauseData
                  THEN current_level_finished_tasks ELSE current_level_finished_tasks + 1
  <2>1. /\ Held(p, "process_finished")' = Range(Tail(s)) /\ NoDoubles'
        /\ \A o \in Pe, v \in HeldPlace :
             o # p \/ v # "process_finished" => Held(o, v)' = Held(o, v)
    BY <1>1, <1>2, <1>3, <1>5, QueueHeld DEF PInv
  <2>2. Leaves(p, {Head(s)}, "process_finished")
    BY <1>3, <1>4, <2>1 DEF Leaves
  <2>3. Places'
    BY <1>4, <2>2, LeavesPlaces DEF PInv
  <2> QED BY <1>3, <1>4, <1>5, <2>1, <2>2, <2>3 DEF PInv
<1>6. CASE /\ queue' = [queue EXCEPT ![p]["process_finished"] = RecvThenRet(s)]
           /\ UNCHANGED current_level_finished_tasks
  <2>1. RecvThenRet(s) = s
    BY <1>1, <1>2, RetRestores
  <2>2. queue' = queue
    BY <1>2, <1>6, <2>1 DEF QueueType
  <2> QED BY <1>1, <1>6, <2>2, UnchangedPlaces
<1> QED BY <1>1, <1>5, <1>6

(* An expanded task is gone, and its single watchers are in their queue.    *)
Expands(p, t) ==
  /\ t \in Held(p, "data_finished")
  /\ Held(p, "data_finished")' = Held(p, "data_finished") \ {t}
  /\ Held(p, "single_task")' = Held(p, "single_task") \cup Range(Singles[t])
  /\ \A o \in Pe, v \in HeldPlace :
       o # p \/ v \notin {"data_finished", "single_task"} => Held(o, v)' = Held(o, v)

LEMMA HeldTypes ==
  ASSUME TypeOK, NEW p \in Pe
  PROVE  /\ \A v \in TaskPlace : Held(p, v) \subseteq WatcherTask
         /\ \A v \in SinglePlace : Held(p, v) \subseteq ClauseTask
<1>1. \A q \in Queue : queue[p][q] \in Seq(ItemOf(q)) /\ Held(p, q) \subseteq ItemOf(q)
  <2>1. \A q \in Queue : queue[p][q] \in Seq(ItemOf(q)) /\ Held(p, q) = Range(queue[p][q])
    BY HeldValues DEF TypeOK, WatcherTypeOK
  <2> QED BY <2>1, RangeOfSeq
<1>2. \A k \in Read : Held(p, k) \subseteq TaskOf(k)
  BY HeldValues DEF TypeOK, WatcherTypeOK
<1>3. Held(p, "trail") \subseteq WatcherTask /\ Held(p, "arrived") \subseteq WatcherTask
  <2>1. Range(watcher_task_receiver[p]) \subseteq WatcherTask
    BY RangeOfSeq DEF TypeOK, WatcherTypeOK
  <2> QED BY <2>1, HeldValues DEF TypeOK
<1>4. Held(p, "process") \subseteq ClauseTask
  <2>1. current_processing_task[p] # None => current_processing_task[p].task \in ClauseTask
    BY DEF TypeOK, WatcherTypeOK, Processing
  <2> QED BY <2>1, HeldValues
<1> QED BY <1>1, <1>2, <1>3, <1>4 DEF TaskPlace, SinglePlace, Queue, Read, ItemOf, TaskOf

LEMMA ExpandPlaces ==
  ASSUME TypeOK, Places, NEW p \in Pe, NEW t \in WatcherTask, Expands(p, t)
  PROVE  Places'
<1> DEFINE C == Range(Singles[t])
<1>1. \A o \in Pe, v \in HeldPlace :
        Held(o, v)' = IF o # p THEN Held(o, v)
                      ELSE IF v = "data_finished" THEN Held(o, v) \ {t}
                      ELSE IF v = "single_task" THEN Held(o, v) \cup C
                      ELSE Held(o, v)
  BY DEF Expands
<1>2. /\ "data_finished" \in TaskPlace /\ "single_task" \in SinglePlace
      /\ "data_finished" \notin SinglePlace /\ "single_task" \notin TaskPlace
      /\ HeldPlace = TaskPlace \cup SinglePlace /\ TaskPlace \cap SinglePlace = {}
  BY DEF TaskPlace, SinglePlace, HeldPlace
<1>3. t \in Held(p, "data_finished") /\ C \subseteq ClauseTask
  BY TasksAssumption, RangeOfSeq DEF Expands
<1>4. \A v \in HeldPlace : C \cap Held(p, v) = {}
  <2>1. \A v \in SinglePlace : C \cap Held(p, v) = {}
    BY <1>2, <1>3 DEF Places, NotBorn
  <2>2. \A v \in TaskPlace : Held(p, v) \cap ClauseTask = {}
    BY HeldTypes, DistinctTasks
  <2> HIDE DEF C
  <2> QED BY <1>2, <1>3, <2>1, <2>2
<1>5. HomePe[t] = p
  <2>1. t \in TasksOf(p)
    BY <1>2, <1>3 DEF Places, AtHome
  <2>2. PICK u \in WatcherTask : HomePe[u] = p /\ t \in {u} \cup Range(Singles[u])
    BY <2>1 DEF TasksOf
  <2>3. Range(Singles[u]) \subseteq ClauseTask
    BY TasksAssumption, RangeOfSeq
  <2> QED BY <2>2, <2>3, DistinctTasks
<1>6. C \subseteq TasksOf(p)
  BY <1>5 DEF TasksOf
<1>7. \A u \in WatcherTask : u # t => Range(Singles[u]) \cap C = {}
  BY DistinctTasks
<1> HIDE DEF C
<1>8. AtHome'
  <2>1. ASSUME NEW o \in Pe, NEW v \in HeldPlace PROVE Held(o, v)' \subseteq TasksOf(o)
    <3>1. Held(o, v) \subseteq TasksOf(o)
      BY DEF Places, AtHome
    <3> QED BY <1>1, <1>6, <3>1
  <2> QED BY <2>1 DEF AtHome, TasksOf
<1>9. OnePlace'
  <2>1. ASSUME NEW o \in Pe, NEW v \in HeldPlace, NEW w \in HeldPlace, v # w
        PROVE  Held(o, v)' \cap Held(o, w)' = {}
    <3>1. Held(o, v) \cap Held(o, w) = {}
      BY <2>1 DEF Places, OnePlace
    <3> QED BY <1>1, <1>4, <2>1, <3>1
  <2> QED BY <2>1 DEF OnePlace
<1>10. NotBorn'
  <2>1. ASSUME NEW o \in Pe, NEW v \in TaskPlace, NEW w \in SinglePlace,
               NEW u \in Held(o, v)'
        PROVE  Range(Singles[u]) \cap Held(o, w)' = {}
    <3>1. u \in Held(o, v) /\ u \in WatcherTask
      BY <1>1, <1>2, HeldTypes
    <3>2. u # t
      <4>1. CASE v = "data_finished" /\ o = p
        BY <1>1, <1>2, <4>1
      <4>2. CASE ~(v = "data_finished" /\ o = p)
        BY <1>2, <1>3, <3>1, <4>2, OneHolder
      <4> QED BY <4>1, <4>2
    <3>3. Range(Singles[u]) \cap Held(o, w) = {}
      BY <3>1 DEF Places, NotBorn
    <3>4. Range(Singles[u]) \cap C = {}
      BY <1>7, <3>1, <3>2
    <3> QED BY <1>1, <1>2, <3>3, <3>4
  <2> QED BY <2>1 DEF NotBorn
<1> QED BY <1>8, <1>9, <1>10 DEF Places

LEMMA ExpandExpands ==
  ASSUME TypeOK, PInv, NEW p \in Pe, Expand(p), UNCHANGED envVars
  PROVE  /\ PInv' /\ Head(queue[p]["data_finished"]) \in WatcherTask
         /\ Expands(p, Head(queue[p]["data_finished"]))
<1> DEFINE s == queue[p]["data_finished"]
           t == Head(s)
           a == queue[p]["single_task"]
           b == a \o Singles[t]
<1>1. /\ s # <<>>
      /\ queue' = [queue EXCEPT ![p]["data_finished"] = Tail(s), ![p]["single_task"] = b]
      /\ UNCHANGED <<pending, watcher_task_receiver, mem_req_id_to_task,
                     current_processing_task>>
  BY DEF Expand, CanExpand, envVars
<1>2. /\ "data_finished" \in Queue /\ ItemOf("data_finished") = WatcherTask
      /\ "single_task" \in Queue /\ ItemOf("single_task") = ClauseTask
      /\ s \in Seq(WatcherTask) /\ a \in Seq(ClauseTask) /\ QueueType(queue)
  BY QueuesTyped DEF TypeOK, WatcherTypeOK, Queue, ItemOf
<1>3. /\ t \in WatcherTask /\ t \in Range(s) /\ Tail(s) \in Seq(WatcherTask)
      /\ IsInjective(Tail(s)) /\ Range(Tail(s)) = Range(s) \ {t}
  BY <1>1, <1>2, TailRange, HeadTailProperties DEF PInv, NoDoubles
<1>4. /\ Held(p, "data_finished") = Range(s) /\ Held(p, "single_task") = Range(a)
      /\ Range(Singles[t]) \cap Range(a) = {}
  <2>1. Held(p, "data_finished") = Range(s) /\ Held(p, "single_task") = Range(a)
    BY <1>2, HeldValues
  <2>2. "data_finished" \in TaskPlace /\ "single_task" \in SinglePlace
    BY DEF TaskPlace, SinglePlace
  <2>3. Range(Singles[t]) \cap Held(p, "single_task") = {}
    BY <1>3, <2>1, <2>2 DEF PInv, Places, NotBorn
  <2> QED BY <2>1, <2>3
<1>5. b \in Seq(ClauseTask) /\ Range(b) = Range(a) \cup Range(Singles[t]) /\ IsInjective(b)
  <2>1. Singles[t] \in Seq(ClauseTask) /\ IsInjective(Singles[t]) /\ IsInjective(a)
    BY <1>2, <1>3, TasksAssumption, DistinctTasks DEF PInv, NoDoubles
  <2>2. b \in Seq(ClauseTask) /\ Range(b) = Range(a) \cup Range(Singles[t])
    BY <1>2, <2>1, ConcatProperties, RangeConcatenation
  <2>3. IsInjective(b)
    BY <1>2, <1>4, <2>1, ConcatInjective
  <2> QED BY <2>2, <2>3
<1>6. \A x \in Pe, y \in Queue : queue'[x][y] =
        IF x = p /\ y = "data_finished" THEN Tail(s)
        ELSE IF x = p /\ y = "single_task" THEN b ELSE queue[x][y]
  <2> HIDE DEF b, s
  <2> QED BY <1>1, <1>2 DEF QueueType
<1>7. NoDoubles'
  <2>1. ASSUME NEW x \in Pe, NEW y \in Queue PROVE IsInjective(queue'[x][y])
    <3>1. \/ queue'[x][y] = Tail(s) \/ queue'[x][y] = b \/ queue'[x][y] = queue[x][y]
      BY <1>6
    <3>2. IsInjective(queue[x][y])
      BY DEF PInv, NoDoubles
    <3> HIDE DEF b, s
    <3> QED BY <1>3, <1>5, <3>1, <3>2
  <2> QED BY <1>1, <2>1 DEF PInv, NoDoubles
<1>8. Expands(p, t)
  <2>1. /\ Held(p, "data_finished")' = Held(p, "data_finished") \ {t}
        /\ Held(p, "single_task")' = Held(p, "single_task") \cup Range(Singles[t])
    <3>1. /\ Held(p, "data_finished")' = Range(queue'[p]["data_finished"])
          /\ Held(p, "single_task")' = Range(queue'[p]["single_task"])
      BY <1>2, HeldValues
    <3>2. queue'[p]["data_finished"] = Tail(s) /\ queue'[p]["single_task"] = b
      BY <1>2, <1>6
    <3> QED BY <1>3, <1>4, <1>5, <3>1, <3>2
  <2>2. ASSUME NEW o \in Pe, NEW v \in HeldPlace,
               o # p \/ v \notin {"data_finished", "single_task"}
        PROVE  Held(o, v)' = Held(o, v)
    <3>1. CASE v \in Queue
      <4>1. queue'[o][v] = queue[o][v]
        BY <1>6, <2>2, <3>1
      <4> QED BY <3>1, <4>1, HeldValues
    <3>2. CASE v \notin Queue
      BY <1>1, <3>2, SameHeld
    <3> QED BY <3>1, <3>2
  <2> QED BY <1>3, <1>4, <2>1, <2>2 DEF Expands
<1>9. Places'
  BY <1>3, <1>8, ExpandPlaces DEF PInv
<1> QED BY <1>3, <1>7, <1>8, <1>9 DEF PInv

(* The trail hands a task over to the watcher it belongs to.                *)
LEMMA TrailSendsMoves ==
  ASSUME TypeOK, PInv, TrailSends
  PROVE  /\ PInv'
         /\ \E t \in pending : Moves(HomePe[t], {t}, "trail", "arrived")
<1>1. PICK t \in pending :
        /\ watcher_task_receiver' =
             [watcher_task_receiver EXCEPT
                ![HomePe[t]] = Sent(watcher_task_receiver[HomePe[t]], t)]
        /\ pending' = pending \ {t}
  BY DEF TrailSends
<1> DEFINE p == HomePe[t]
           s == watcher_task_receiver[p]
<1>2. /\ p \in Pe /\ t \in WatcherTask /\ s \in Seq(WatcherTask)
      /\ watcher_task_receiver \in [Pe -> Seq(WatcherTask)]
      /\ UNCHANGED <<queue, mem_req_id_to_task, current_processing_task>>
  BY EnvAssumption DEF TypeOK, WatcherTypeOK, TrailSends
<1>3. /\ Held(p, "trail") = {u \in pending : HomePe[u] = p} /\ t \in Held(p, "trail")
      /\ Held(p, "arrived") = Range(s) /\ "trail" # "arrived"
      /\ {"trail", "arrived"} \subseteq HeldPlace /\ {"trail", "arrived"} \subseteq TaskPlace
  BY <1>2, HeldValues DEF HeldPlace, TaskPlace
<1>4. t \notin Range(s) /\ IsInjective(s)
  BY <1>2, <1>3 DEF PInv, NoDoubles, Places, OnePlace
<1>5. Range(Append(s, t)) = Range(s) \cup {t} /\ IsInjective(Append(s, t))
  BY <1>2, <1>4, AppendRange
<1> HIDE DEF p
<1>6. \A o \in Pe : watcher_task_receiver'[o] =
        IF o = p THEN Append(s, t) ELSE watcher_task_receiver[o]
  BY <1>1, <1>2 DEF Sent, p
<1>7. NoDoubles'
  BY <1>2, <1>5, <1>6 DEF PInv, NoDoubles
<1>8. Moves(p, {t}, "trail", "arrived")
  <2>1. /\ Held(p, "trail")' = {u \in pending' : HomePe[u] = p}
        /\ Held(p, "arrived")' = Range(Append(s, t))
    BY <1>2, <1>6, HeldValues
  <2>2. ASSUME NEW o \in Pe, NEW v \in HeldPlace, o # p \/ v \notin {"trail", "arrived"}
        PROVE  Held(o, v)' = Held(o, v)
    <3>1. CASE v = "trail"
      <4>1. o # HomePe[t]
        BY <2>2, <3>1 DEF p
      <4>2. {u \in pending' : HomePe[u] = o} = {u \in pending : HomePe[u] = o}
        BY <1>1, <4>1
      <4> QED BY <3>1, <4>2, HeldValues
    <3>2. CASE v = "arrived"
      BY <1>6, <2>2, <3>2, HeldValues
    <3>3. CASE v \notin {"trail", "arrived"}
      BY <1>2, <3>3, SameHeld
    <3> QED BY <3>1, <3>2, <3>3
  <2> QED BY <1>1, <1>3, <1>5, <2>1, <2>2 DEF Moves
<1>9. Places'
  BY <1>2, <1>3, <1>8, MovesPlaces DEF PInv
<1> QED BY <1>7, <1>8, <1>9 DEF PInv, p

LEMMA InitPInv == Start => PInv
<1> SUFFICES ASSUME Start PROVE PInv
  OBVIOUS
<1> USE DEF Start, Init
<1>1. Range(<<>>) = {} /\ IsInjective(<<>>)
  BY EmptySeq DEF Range, IsInjective
<1>2. \A p \in Pe : /\ Held(p, "trail") = {t \in pending : HomePe[t] = p}
                    /\ \A v \in HeldPlace \ {"trail"} : Held(p, v) = {}
  <2>1. ASSUME NEW p \in Pe, NEW v \in HeldPlace \ {"trail"} PROVE Held(p, v) = {}
    <3>1. CASE v \in Read
      BY <3>1, HeldValues
    <3>2. CASE v \in Queue
      BY <1>1, <3>2, HeldValues
    <3>3. CASE v \in {"arrived", "process"}
      BY <1>1, <3>3, HeldValues
    <3> QED BY <3>1, <3>2, <3>3, SameHeld
  <2> QED BY <2>1, HeldValues
<1>3. \A t \in WatcherTask : t \in TasksOf(HomePe[t])
  BY DEF TasksOf
<1>4. AtHome
  <2>1. ASSUME NEW p \in Pe, NEW v \in HeldPlace, NEW x \in Held(p, v) PROVE x \in TasksOf(p)
    <3>1. v = "trail"
      BY <1>2, <2>1
    <3>2. x \in WatcherTask /\ HomePe[x] = p
      BY <1>2, <2>1, <3>1
    <3> QED BY <1>3, <3>2
  <2> QED BY <2>1 DEF AtHome
<1>7. OnePlace
  <2>1. ASSUME NEW p \in Pe, NEW s \in HeldPlace, NEW u \in HeldPlace, s # u
        PROVE  Held(p, s) \cap Held(p, u) = {}
    <3>1. s # "trail" \/ u # "trail"
      BY <2>1
    <3> QED BY <1>2, <3>1
  <2> QED BY <2>1 DEF OnePlace
<1>5. NotBorn
  BY <1>2 DEF NotBorn, HeldPlace, SinglePlace
<1>6. NoDoubles
  BY <1>1 DEF NoDoubles
<1> QED BY <1>4, <1>5, <1>6, <1>7 DEF PInv, Places

(* The time that passes moves nothing.                                     *)
LEMMA CallHeld ==
  ASSUME TypeOK, NEW p \in Pe, NEW d \in Elapsed, Call(p, d), UNCHANGED envVars
  PROVE  \A o \in Pe, v \in HeldPlace : Held(o, v)' = Held(o, v)
<1>1. UNCHANGED <<pending, watcher_task_receiver, mem_req_id_to_task, queue>>
  BY DEF Call, envVars
<1>2. \A o \in Pe : /\ current_processing_task'[o] = None <=> current_processing_task[o] = None
                    /\ current_processing_task[o] # None =>
                         current_processing_task'[o].task = current_processing_task[o].task
  <2> DEFINE c == current_processing_task[p]
             n == IF c = None THEN None
                  ELSE [task |-> c.task, left |-> IF c.left > d THEN c.left - d ELSE 0]
  <2>1. \A o \in Pe : current_processing_task'[o] =
          IF o = p THEN n ELSE current_processing_task[o]
    BY DEF Call, TypeOK, WatcherTypeOK
  <2>2. c # None => n # None /\ n.task = c.task
    <3>1. c # None => n \in Processing
      BY TimePasses DEF TypeOK
    <3> QED BY <3>1, DistinctTasks
  <2> HIDE DEF n
  <2> QED BY <2>1, <2>2 DEF n
<1>3. ASSUME NEW o \in Pe, NEW v \in HeldPlace PROVE Held(o, v)' = Held(o, v)
  <2>1. CASE v = "process"
    BY <1>2, <2>1, HeldValues
  <2>2. CASE v # "process"
    BY <1>1, <2>2, SameHeld
  <2> QED BY <2>1, <2>2
<1> QED BY <1>3

LEMMA NextPInv == TypeOK /\ PInv /\ [Next]_vars => PInv'
<1> SUFFICES ASSUME TypeOK, PInv, [Next]_vars PROVE PInv'
  OBVIOUS
<1>1. CASE TrailSends
  BY <1>1, TrailSendsMoves
<1>2. CASE NetworksTake \/ MemoryReplies \/ OthersSend
  BY <1>2, UnchangedPlaces DEF NetworksTake, MemoryReplies, OthersSend, envVars
<1>3. ASSUME NEW p \in Pe, Step(p), UNCHANGED envVars PROVE PInv'
  <2>1. ASSUME NEW k \in Read, ReadBlocked(p, k) PROVE PInv'
    <3>1. UNCHANGED <<queue, watcher_task_receiver>>
      BY <1>3, <2>1, ReadBlockedPInv
    <3> QED BY <1>3, <2>1, <3>1, UnchangedPlaces DEF ReadBlocked, envVars
  <2>2. CASE Skip(p)
    BY <1>3, <2>2, UnchangedPlaces DEF Skip, envVars
  <2>3. ASSUME Reply(p) PROVE PInv'
    BY <1>3, <2>3, ReplyMoves
  <2> QED BY <1>3, <2>1, <2>2, <2>3, StartReadMoves, ExpandExpands, ProcessMoves,
             StartProcessMoves, SendClauseLeaves DEF Step
<1>4. ASSUME NEW p \in Pe, NEW d \in Elapsed, Call(p, d), UNCHANGED envVars PROVE PInv'
  <2>1. \A o \in Pe, v \in HeldPlace : Held(o, v)' = Held(o, v)
    BY <1>4, CallHeld
  <2>2. NoDoubles'
    BY <1>4 DEF Call, PInv, NoDoubles
  <2> QED BY <2>1, <2>2, SamePlaces DEF PInv
<1>5. CASE UNCHANGED vars
  BY <1>5, UnchangedPlaces DEF vars, watcherVars, envVars
<1> QED BY <1>1, <1>2, <1>3, <1>4, <1>5 DEF Next, EnvNext, WatcherNext

(* Every task is at one place of its own watcher, and nothing holds it      *)
(* twice (watcher.rs:84-311): no phase doubles a task or passes it on       *)
(* without taking it from where it was.                                     *)
THEOREM WatcherTasksInOnePlace == Spec => [](Places /\ NoDoubles)
<1>1. PInv => Places /\ NoDoubles
  BY DEF PInv
<1> QED BY InitStart, InitPInv, NextPInv, WatcherTypeCorrect, <1>1, PTL DEF Spec

(* A task that starts a read was not waiting, one whose reply came was: so  *)
(* the counter of reads and the tasks that wait change together.            *)
LEMMA NextCounters ==
  IInv /\ PInv /\ CountersMatch /\ [Next]_vars => CountersMatch'
<1> SUFFICES ASSUME IInv, PInv, CountersMatch, [Next]_vars PROVE CountersMatch'
  OBVIOUS
<1>0. TypeOK /\ \A p \in Pe, k \in Read : IsFiniteSet(mem_req_id_to_task[p][k])
  BY DEF IInv, WaitingCounted
<1>1. CASE UNCHANGED <<mem_req_id_to_task, total_ongoing>>
  BY <1>1 DEF CountersMatch
<1>2. ASSUME NEW p \in Pe, NEW k \in Read, StartRead(p, k), UNCHANGED envVars
      PROVE  CountersMatch'
  <2> DEFINE t == Head(Input(p, k))
  <2>1. /\ t \in Held(p, Source(k)) /\ t \notin Held(p, k)
        /\ \A x \in Pe, l \in Read : mem_req_id_to_task'[x][l] =
             IF x = p /\ l = k THEN mem_req_id_to_task[x][l] \cup {t}
                               ELSE mem_req_id_to_task[x][l]
    BY <1>0, <1>2, StartReadMoves, SourcePlace DEF PInv, Places, OnePlace
  <2>2. \A x \in Pe, l \in Read : total_ongoing'[x][l] =
          IF x = p /\ l = k THEN total_ongoing[x][l] + 1 ELSE total_ongoing[x][l]
    BY <1>0, <1>2 DEF StartRead, CountRead, TypeOK, WatcherTypeOK
  <2>3. Cardinality(mem_req_id_to_task[p][k] \cup {t}) = Cardinality(mem_req_id_to_task[p][k]) + 1
    <3>1. t \notin mem_req_id_to_task[p][k]
      BY <2>1, HeldValues
    <3> QED BY <1>0, <3>1, FS_AddElement
  <2> HIDE DEF t
  <2> QED BY <2>1, <2>2, <2>3 DEF CountersMatch
<1>3. ASSUME NEW p \in Pe, Reply(p), UNCHANGED envVars PROVE CountersMatch'
  <2>1. PICK k \in Read : \E t \in TaskOf(k) :
          /\ k = Head(mem_in[p]).type /\ t = Head(mem_in[p]).task
          /\ t \in mem_req_id_to_task[p][k] /\ Moves(p, {t}, k, Output[k])
          /\ \A x \in Pe, l \in Read : mem_req_id_to_task'[x][l] =
               IF x = p /\ l = k THEN mem_req_id_to_task[x][l] \ {t}
                                 ELSE mem_req_id_to_task[x][l]
    BY <1>0, <1>3, ReplyMoves
  <2>2. PICK t \in TaskOf(k) :
          /\ k = Head(mem_in[p]).type /\ t \in mem_req_id_to_task[p][k]
          /\ \A x \in Pe, l \in Read : mem_req_id_to_task'[x][l] =
               IF x = p /\ l = k THEN mem_req_id_to_task[x][l] \ {t}
                                 ELSE mem_req_id_to_task[x][l]
    BY <2>1
  <2>3. \A x \in Pe, l \in Read : total_ongoing'[x][l] =
          IF x = p /\ l = k THEN total_ongoing[x][l] - 1 ELSE total_ongoing[x][l]
    BY <1>0, <1>3, <2>2 DEF Reply, CountReply, TypeOK, WatcherTypeOK
  <2>4. Cardinality(mem_req_id_to_task[p][k] \ {t}) = Cardinality(mem_req_id_to_task[p][k]) - 1
    <3>1. IsFiniteSet(mem_req_id_to_task[p][k]) /\ t \in mem_req_id_to_task[p][k]
      BY <1>0, <2>2
    <3> QED BY <3>1, FS_RemoveElement
  <2>5. ASSUME NEW x \in Pe, NEW l \in Read
        PROVE  total_ongoing'[x][l] = Cardinality(mem_req_id_to_task'[x][l])
    <3>1. total_ongoing[x][l] = Cardinality(mem_req_id_to_task[x][l])
      BY DEF CountersMatch
    <3>2. CASE x = p /\ l = k
      <4>1. mem_req_id_to_task'[x][l] = mem_req_id_to_task[p][k] \ {t}
        BY <2>2, <3>2
      <4>2. total_ongoing'[x][l] = total_ongoing[x][l] - 1
        BY <2>3, <3>2
      <4> QED BY <2>4, <3>1, <3>2, <4>1, <4>2
    <3>3. CASE ~(x = p /\ l = k)
      BY <2>2, <2>3, <3>1, <3>3
    <3> QED BY <3>2, <3>3
  <2> QED BY <2>5 DEF CountersMatch
<1>4. CASE EnvNext
  BY <1>1, <1>4 DEF EnvNext, TrailSends, NetworksTake, MemoryReplies, OthersSend
<1>5. ASSUME NEW p \in Pe, Step(p), UNCHANGED envVars PROVE CountersMatch'
  BY <1>1, <1>2, <1>3, <1>5 DEF Step, ReadBlocked, Expand, Process, StartProcess, SendClause, Skip
<1>6. ASSUME NEW p \in Pe, NEW d \in Elapsed, Call(p, d) PROVE CountersMatch'
  BY <1>1, <1>6 DEF Call
<1>7. CASE UNCHANGED vars
  BY <1>1, <1>7 DEF vars, watcherVars
<1> QED BY <1>4, <1>5, <1>6, <1>7 DEF Next, WatcherNext

(* Each counter of reads under way is the number of tasks that wait for one *)
(* (watcher.rs:97-311), for every limit and number of tasks.                *)
THEOREM WatcherCountersMatch == Spec => []CountersMatch
<1>1. EnvInit => CountersMatch
  BY FS_EmptySet DEF EnvInit, Init, CountersMatch
<1> QED BY InitStart, InitIInv, NextIInv, InitPInv, NextPInv, NextCounters, WatcherTypeCorrect,
           <1>1, PTL DEF Spec
-----------------------------------------------------------------------------
(* Where the requests are: in the channel to the memory network, in the     *)
(* network, or in the channel back, once each; and a request is on its way  *)
(* exactly while its task waits.                                           *)

Flight == {"out", "memory", "in"}

Flying(p, f) ==
  CASE f = "out" -> Range(mem_out[p]) \cap WatcherReq
    [] f = "memory" -> {r \in memory : r.pe = p}
    [] f = "in" -> Range(mem_in[p])

Flies(r) == \E p \in Pe, f \in Flight : r \in Flying(p, f)

FlightsDisjoint ==
  \A p, o \in Pe, f, g \in Flight : p # o \/ f # g => Flying(p, f) \cap Flying(o, g) = {}

NoDoubleRequests ==
  \A p \in Pe : OnceIn(mem_out[p], WatcherReq) /\ IsInjective(mem_in[p])

RepliesAddressed == \A p \in Pe : \A r \in Flying(p, "in") : r.pe = p

FlightIsAwaited == \A r \in WatcherReq : Flies(r) <=> Awaited(r)

FInv == FlightsDisjoint /\ NoDoubleRequests /\ RepliesAddressed /\ FlightIsAwaited

LEMMA FlyingValues ==
  ASSUME NEW p \in Pe
  PROVE  /\ Flying(p, "out") = Range(mem_out[p]) \cap WatcherReq
         /\ Flying(p, "memory") = {r \in memory : r.pe = p}
         /\ Flying(p, "in") = Range(mem_in[p])
         /\ Flying(p, "out")' = Range(mem_out'[p]) \cap WatcherReq
         /\ Flying(p, "memory")' = {r \in memory' : r.pe = p}
         /\ Flying(p, "in")' = Range(mem_in'[p])
BY DEF Flying

LEMMA FlyingType ==
  ASSUME TypeOK, NEW p \in Pe, NEW f \in Flight
  PROVE  Flying(p, f) \subseteq WatcherReq
<1>1. Range(mem_in[p]) \subseteq WatcherReq
  BY RangeOfSeq DEF TypeOK, WatcherTypeOK
<1> QED BY <1>1, FlyingValues DEF Flight, TypeOK

(* A request stands for its task, the kind of its read and who reads.      *)
LEMMA AwaitedIs ==
  ASSUME NEW r
  PROVE  /\ Awaited(r) <=> \E p \in Pe : /\ r.task \in mem_req_id_to_task[p][r.type]
                                         /\ r = Request(p, r.type, r.task)
         /\ Awaited(r)' <=> \E p \in Pe : /\ r.task \in mem_req_id_to_task'[p][r.type]
                                          /\ r = Request(p, r.type, r.task)
BY DEF Awaited, Request

LEMMA RequestFields ==
  ASSUME NEW p, NEW k, NEW t
  PROVE  /\ Request(p, k, t).type = k /\ Request(p, k, t).task = t
         /\ Request(p, k, t).pe = IF k = "blocker" THEN ClausePe[t] ELSE p
BY DEF Request

(* A request that goes from f of p to g of o.                              *)
LEMMA FlightMoves ==
  ASSUME FInv, NEW p \in Pe, NEW o \in Pe, NEW f \in Flight, NEW g \in Flight, p # o \/ f # g,
         NEW r \in Flying(p, f), UNCHANGED mem_req_id_to_task,
         Flying(p, f)' = Flying(p, f) \ {r}, Flying(o, g)' = Flying(o, g) \cup {r},
         \A x \in Pe, h \in Flight :
           (x # p \/ h # f) /\ (x # o \/ h # g) => Flying(x, h)' = Flying(x, h)
  PROVE  FlightsDisjoint' /\ FlightIsAwaited'
<1>1. \A x \in Pe, h \in Flight :
        Flying(x, h)' = IF x = p /\ h = f THEN Flying(x, h) \ {r}
                        ELSE IF x = o /\ h = g THEN Flying(x, h) \cup {r}
                        ELSE Flying(x, h)
  OBVIOUS
<1>2. FlightsDisjoint'
  <2>1. ASSUME NEW x \in Pe, NEW y \in Pe, NEW h \in Flight, NEW i \in Flight, x # y \/ h # i
        PROVE  Flying(x, h)' \cap Flying(y, i)' = {}
    <3>1. Flying(x, h) \cap Flying(y, i) = {}
      BY <2>1 DEF FInv, FlightsDisjoint
    <3>2. (x # p \/ h # f) => r \notin Flying(x, h)
      BY DEF FInv, FlightsDisjoint
    <3>3. (y # p \/ i # f) => r \notin Flying(y, i)
      BY DEF FInv, FlightsDisjoint
    <3> QED BY <1>1, <2>1, <3>1, <3>2, <3>3
  <2> QED BY <2>1 DEF FlightsDisjoint
<1>3. ASSUME NEW s \in WatcherReq PROVE Flies(s)' <=> Flies(s)
  <2>1. CASE s = r
    BY <1>1, <2>1 DEF Flies
  <2>2. CASE s # r
    <3>1. \A x \in Pe, h \in Flight : s \in Flying(x, h)' <=> s \in Flying(x, h)
      BY <1>1, <2>2
    <3> QED BY <3>1 DEF Flies
  <2> QED BY <2>1, <2>2
<1>4. FlightIsAwaited'
  BY <1>3, AwaitedIs DEF FInv, FlightIsAwaited
<1> QED BY <1>2, <1>4

LEMMA StartReadFlight ==
  ASSUME TypeOK, PInv, FInv, NEW p \in Pe, NEW k \in Read, StartRead(p, k), UNCHANGED envVars
  PROVE  FInv'
<1> DEFINE t == Head(Input(p, k))
           r == Request(p, k, t)
<1>1. /\ t \in TaskOf(k) /\ t \in Held(p, Source(k))
      /\ \A x \in Pe, l \in Read : mem_req_id_to_task'[x][l] =
           IF x = p /\ l = k THEN mem_req_id_to_task[x][l] \cup {t}
                             ELSE mem_req_id_to_task[x][l]
  BY StartReadMoves
<1>2. /\ mem_out' = [mem_out EXCEPT ![p] = Append(mem_out[p], r)]
      /\ UNCHANGED <<mem_in, memory>>
      /\ mem_out[p] \in Seq(WatcherReq \cup OtherReq)
      /\ mem_out \in [Pe -> Seq(WatcherReq \cup OtherReq)]
  BY DEF StartRead, CountRead, Sent, envVars, TypeOK, WatcherTypeOK
<1>3. r \in WatcherReq /\ r.type = k /\ r.task = t
  BY <1>1, ReqType, RequestFields
<1>4. \A x \in Pe : t \notin mem_req_id_to_task[x][k]
  <2> SUFFICES ASSUME NEW x \in Pe, t \in mem_req_id_to_task[x][k] PROVE FALSE
    OBVIOUS
  <2>1. t \in Held(x, k)
    BY HeldValues
  <2>2. Source(k) = k
    BY <1>1, <2>1, OneHolder, SourcePlace DEF PInv
  <2> QED BY <2>2, SourcePlace
<1>5. ~Flies(r)
  <2>1. ~Awaited(r)
    BY <1>3, <1>4 DEF Awaited
  <2> QED BY <1>3, <2>1 DEF FInv, FlightIsAwaited
<1> HIDE DEF r
<1>6. r \notin Range(mem_out[p])
  BY <1>3, <1>5, FlyingValues DEF Flies, Flight
<1>7. /\ Range(Append(mem_out[p], r)) = Range(mem_out[p]) \cup {r}
      /\ OnceIn(Append(mem_out[p], r), WatcherReq)
  <2>1. r \in WatcherReq \cup OtherReq /\ OnceIn(mem_out[p], WatcherReq)
    BY <1>3 DEF FInv, NoDoubleRequests
  <2>2. OnceIn(Append(mem_out[p], r), WatcherReq)
    BY <1>2, <1>6, <2>1, AppendOnce
  <2> QED BY <1>2, <2>1, <2>2, AppendRange
<1>8. \A x \in Pe : mem_out'[x] = IF x = p THEN Append(mem_out[p], r) ELSE mem_out[x]
  BY <1>2
<1>9. \A x \in Pe, f \in Flight :
        Flying(x, f)' = IF x = p /\ f = "out" THEN Flying(x, f) \cup {r} ELSE Flying(x, f)
  <2>1. ASSUME NEW x \in Pe
        PROVE  Flying(x, "out")' = IF x = p THEN Flying(x, "out") \cup {r} ELSE Flying(x, "out")
    BY <1>3, <1>7, <1>8, FlyingValues
  <2>2. ASSUME NEW x \in Pe
        PROVE  Flying(x, "memory")' = Flying(x, "memory") /\ Flying(x, "in")' = Flying(x, "in")
    BY <1>2, FlyingValues
  <2> QED BY <2>1, <2>2 DEF Flight
<1>10. FlightsDisjoint'
  <2>1. \A x \in Pe, f \in Flight : r \notin Flying(x, f)
    BY <1>5 DEF Flies
  <2>2. ASSUME NEW x \in Pe, NEW y \in Pe, NEW f \in Flight, NEW g \in Flight, x # y \/ f # g
        PROVE  Flying(x, f)' \cap Flying(y, g)' = {}
    <3>1. Flying(x, f) \cap Flying(y, g) = {}
      BY <2>2 DEF FInv, FlightsDisjoint
    <3> QED BY <1>9, <2>1, <2>2, <3>1
  <2> QED BY <2>2 DEF FlightsDisjoint
<1>11. NoDoubleRequests'
  BY <1>2, <1>7, <1>8 DEF FInv, NoDoubleRequests
<1>12. RepliesAddressed'
  BY <1>9 DEF FInv, RepliesAddressed, Flight
<1>13. FlightIsAwaited'
  <2>1. ASSUME NEW s \in WatcherReq PROVE Flies(s)' <=> Awaited(s)'
    <3>1. Flies(s)' <=> Flies(s) \/ s = r
      BY <1>9 DEF Flies, Flight
    <3>2. Awaited(s)' <=> Awaited(s) \/ s = r
      <4>1. s.type \in Read
        BY ReqType
      <4>2. CASE s = r
        <5>1. s.task \in mem_req_id_to_task'[p][s.type] /\ s = Request(p, s.type, s.task)
          BY <1>1, <1>3, <4>2 DEF r
        <5> QED BY <4>2, <5>1, AwaitedIs
      <4>3. CASE s # r
        <5>1. ASSUME NEW x \in Pe, s = Request(x, s.type, s.task)
              PROVE  s.task \in mem_req_id_to_task'[x][s.type]
                       <=> s.task \in mem_req_id_to_task[x][s.type]
          <6>1. ~(x = p /\ s.type = k /\ s.task = t)
            BY <4>3, <5>1 DEF r
          <6> QED BY <1>1, <4>1, <6>1
        <5> QED BY <4>3, <5>1, AwaitedIs
      <4> QED BY <4>2, <4>3
    <3> QED BY <3>1, <3>2 DEF FInv, FlightIsAwaited
  <2> QED BY <2>1 DEF FlightIsAwaited
<1> QED BY <1>10, <1>11, <1>12, <1>13 DEF FInv

LEMMA ReplyFlight ==
  ASSUME TypeOK, PInv, FInv, NEW p \in Pe, Reply(p), UNCHANGED envVars
  PROVE  FInv'
<1> DEFINE r == Head(mem_in[p])
<1>1. PICK k \in Read : \E t \in TaskOf(k) :
        /\ k = Head(mem_in[p]).type /\ t = Head(mem_in[p]).task
        /\ t \in mem_req_id_to_task[p][k] /\ Moves(p, {t}, k, Output[k])
        /\ \A x \in Pe, l \in Read : mem_req_id_to_task'[x][l] =
             IF x = p /\ l = k THEN mem_req_id_to_task[x][l] \ {t}
                               ELSE mem_req_id_to_task[x][l]
  BY ReplyMoves
<1>2. PICK t \in TaskOf(k) :
        /\ k = r.type /\ t = r.task /\ t \in mem_req_id_to_task[p][k]
        /\ \A x \in Pe, l \in Read : mem_req_id_to_task'[x][l] =
             IF x = p /\ l = k THEN mem_req_id_to_task[x][l] \ {t}
                               ELSE mem_req_id_to_task[x][l]
  BY <1>1
<1>3. /\ mem_in[p] \in Seq(WatcherReq) /\ mem_in[p] # <<>>
      /\ mem_in' = [mem_in EXCEPT ![p] = Tail(mem_in[p])]
      /\ UNCHANGED <<mem_out, memory>> /\ mem_in \in [Pe -> Seq(WatcherReq)]
  BY DEF Reply, CountReply, CanReply, Received, envVars, TypeOK, WatcherTypeOK
<1>4. /\ r \in Range(mem_in[p]) /\ IsInjective(Tail(mem_in[p])) /\ r \in WatcherReq
      /\ Range(Tail(mem_in[p])) = Range(mem_in[p]) \ {r}
  BY <1>3, TailRange, HeadTailProperties DEF FInv, NoDoubleRequests
<1> HIDE DEF r
<1>5. r \in Flying(p, "in") /\ Flies(r)
  BY <1>4, FlyingValues DEF Flies, Flight
<1>6. \A x \in Pe : t \in mem_req_id_to_task[x][k] => x = p
  <2>1. \A x \in Pe : Held(x, k) = mem_req_id_to_task[x][k] /\ k \in HeldPlace
    BY HeldValues
  <2> QED BY <1>2, <2>1, OneHolder DEF PInv
<1>7. r = Request(p, k, t)
  <2>1. Awaited(r)
    BY <1>4, <1>5 DEF FInv, FlightIsAwaited
  <2>2. PICK x \in Pe : t \in mem_req_id_to_task[x][k] /\ r = Request(x, k, t)
    BY <1>2, <2>1, AwaitedIs
  <2> QED BY <1>6, <2>2
<1>8. \A x \in Pe : mem_in'[x] = IF x = p THEN Tail(mem_in[p]) ELSE mem_in[x]
  BY <1>3
<1>9. \A x \in Pe, f \in Flight :
        Flying(x, f)' = IF x = p /\ f = "in" THEN Flying(x, f) \ {r} ELSE Flying(x, f)
  <2>1. ASSUME NEW x \in Pe
        PROVE  Flying(x, "in")' = IF x = p THEN Flying(x, "in") \ {r} ELSE Flying(x, "in")
    BY <1>4, <1>8, FlyingValues
  <2>2. ASSUME NEW x \in Pe
        PROVE  Flying(x, "memory")' = Flying(x, "memory") /\ Flying(x, "out")' = Flying(x, "out")
    BY <1>3, FlyingValues
  <2> QED BY <2>1, <2>2 DEF Flight
<1>10. FlightsDisjoint'
  <2>1. ASSUME NEW x \in Pe, NEW y \in Pe, NEW f \in Flight, NEW g \in Flight, x # y \/ f # g
        PROVE  Flying(x, f)' \cap Flying(y, g)' = {}
    <3>1. Flying(x, f) \cap Flying(y, g) = {}
      BY <2>1 DEF FInv, FlightsDisjoint
    <3> QED BY <1>9, <3>1
  <2> QED BY <2>1 DEF FlightsDisjoint
<1>11. NoDoubleRequests'
  BY <1>3, <1>4, <1>8 DEF FInv, NoDoubleRequests
<1>12. RepliesAddressed'
  BY <1>9 DEF FInv, RepliesAddressed, Flight
<1>13. FlightIsAwaited'
  <2>1. ASSUME NEW s \in WatcherReq PROVE Flies(s)' <=> Awaited(s)'
    <3>1. Flies(s)' <=> Flies(s) /\ s # r
      <4>1. \A x \in Pe, f \in Flight : r \in Flying(x, f) => x = p /\ f = "in"
        BY <1>5 DEF FInv, FlightsDisjoint, Flight
      <4>2. CASE s = r
        BY <1>9, <4>1, <4>2 DEF Flies
      <4>3. CASE s # r
        <5>1. \A x \in Pe, f \in Flight : s \in Flying(x, f)' <=> s \in Flying(x, f)
          BY <1>9, <4>3
        <5> QED BY <4>3, <5>1 DEF Flies
      <4> QED BY <4>2, <4>3
    <3>2. Awaited(s)' <=> Awaited(s) /\ s # r
      <4>1. s.type \in Read
        BY ReqType
      <4>2. CASE s = r
        <5>1. \A x \in Pe : t \notin mem_req_id_to_task'[x][k]
          BY <1>2, <1>6
        <5> QED BY <1>2, <4>2, <5>1, AwaitedIs
      <4>3. CASE s # r
        <5>1. ASSUME NEW x \in Pe, s = Request(x, s.type, s.task)
              PROVE  s.task \in mem_req_id_to_task'[x][s.type]
                       <=> s.task \in mem_req_id_to_task[x][s.type]
          <6>1. ~(x = p /\ s.type = k /\ s.task = t)
            BY <1>7, <4>3, <5>1
          <6> QED BY <1>2, <4>1, <6>1
        <5> QED BY <4>3, <5>1, AwaitedIs
      <4> QED BY <4>2, <4>3
    <3> QED BY <3>1, <3>2 DEF FInv, FlightIsAwaited
  <2> QED BY <2>1 DEF FlightIsAwaited
<1> QED BY <1>10, <1>11, <1>12, <1>13 DEF FInv

(* The network takes the first request of every port.                      *)
LEMMA MemoryTakesFlight ==
  ASSUME TypeOK, FInv, MemoryTakes, UNCHANGED <<mem_in, mem_req_id_to_task>>
  PROVE  FInv'
<1> DEFINE heads == {Head(mem_out[p]) : p \in {q \in Pe : mem_out[q] # <<>>}} \cap WatcherReq
<1>1. ASSUME NEW p \in Pe
      PROVE  /\ mem_out[p] \in Seq(WatcherReq \cup OtherReq)
             /\ OnceIn(mem_out[p], WatcherReq)
             /\ mem_out'[p] = IF mem_out[p] = <<>> THEN <<>> ELSE Tail(mem_out[p])
  BY DEF TypeOK, FInv, NoDoubleRequests, MemoryTakes, Received
<1>2. ASSUME NEW p \in Pe, mem_out[p] # <<>>
      PROVE  /\ Range(mem_out'[p]) \cap WatcherReq =
                  (Range(mem_out[p]) \cap WatcherReq) \ {Head(mem_out[p])}
             /\ OnceIn(mem_out'[p], WatcherReq)
             /\ Head(mem_out[p]) \in Range(mem_out[p])
  BY <1>1, <1>2, TailOnce, TailRange
<1>3. ASSUME NEW r \in heads
      PROVE  \E p \in Pe : mem_out[p] # <<>> /\ r = Head(mem_out[p]) /\ r \in Flying(p, "out")
  BY <1>2, FlyingValues
<1>4. heads \subseteq WatcherReq
  OBVIOUS
<1>5. memory' = memory \cup heads
  <2>1. ASSUME NEW p \in Pe, mem_out[p] # <<>>
        PROVE  Head(mem_out[p]) \in OtherReq <=> Head(mem_out[p]) \notin WatcherReq
    BY <1>1, <2>1, ReceivedType, EnvAssumption
  <2> QED BY <2>1 DEF MemoryTakes
<1>6. ASSUME NEW p \in Pe, mem_out[p] # <<>>, Head(mem_out[p]) \in WatcherReq
      PROVE  Head(mem_out[p]) \in heads
  BY <1>6
<1> HIDE DEF heads
<1>7. ASSUME NEW x \in Pe PROVE Flying(x, "out")' = Flying(x, "out") \ heads
  <2>1. CASE mem_out[x] = <<>>
    <3>1. mem_out'[x] = <<>> /\ Range(<<>>) = {}
      BY <1>1, <2>1, EmptySeq DEF Range
    <3> QED BY <2>1, <3>1, FlyingValues
  <2>2. CASE mem_out[x] # <<>>
    <3>1. ASSUME NEW r \in heads, r \in Flying(x, "out") PROVE r = Head(mem_out[x])
      <4>1. PICK p \in Pe : mem_out[p] # <<>> /\ r = Head(mem_out[p]) /\ r \in Flying(p, "out")
        BY <1>3
      <4>2. p = x
        BY <3>1, <4>1 DEF FInv, FlightsDisjoint, Flight
      <4> QED BY <4>1, <4>2
    <3>2. Flying(x, "out")' = Flying(x, "out") \ {Head(mem_out[x])}
      BY <1>2, <2>2, FlyingValues
    <3>3. Head(mem_out[x]) \in Flying(x, "out") => Head(mem_out[x]) \in heads
      BY <1>6, <2>2, FlyingValues
    <3> QED BY <3>1, <3>2, <3>3
  <2> QED BY <2>1, <2>2
<1>8. ASSUME NEW x \in Pe
      PROVE  /\ Flying(x, "memory")' = Flying(x, "memory") \cup {r \in heads : r.pe = x}
             /\ Flying(x, "in")' = Flying(x, "in")
  BY <1>5, FlyingValues
<1>9. ASSUME NEW r \in heads PROVE \E p \in Pe : r \in Flying(p, "out")
  BY <1>3
<1>10. FlightsDisjoint'
  <2>1. ASSUME NEW x \in Pe, NEW y \in Pe, NEW f \in Flight, NEW g \in Flight, x # y \/ f # g,
               NEW r \in Flying(x, f)', r \in Flying(y, g)'
        PROVE  FALSE
    <3>1. CASE r \notin heads
      <4>1. r \in Flying(x, f) /\ r \in Flying(y, g)
        BY <1>7, <1>8, <2>1, <3>1 DEF Flight
      <4> QED BY <2>1, <4>1 DEF FInv, FlightsDisjoint
    <3>2. CASE r \in heads
      <4>1. PICK p \in Pe : r \in Flying(p, "out")
        BY <1>9, <3>2
      <4>2. \A z \in Pe, h \in Flight : r \in Flying(z, h) => z = p /\ h = "out"
        BY <4>1 DEF FInv, FlightsDisjoint, Flight
      <4>3. \A z \in Pe, h \in Flight : r \in Flying(z, h)' => h = "memory" /\ z = r.pe
        BY <1>7, <1>8, <3>2, <4>2 DEF Flight
      <4> QED BY <2>1, <4>3
    <3> QED BY <3>1, <3>2
  <2> QED BY <2>1 DEF FlightsDisjoint
<1>11. NoDoubleRequests'
  <2>1. OnceIn(<<>>, WatcherReq)
    BY EmptySeq DEF OnceIn
  <2>2. ASSUME NEW p \in Pe PROVE OnceIn(mem_out'[p], WatcherReq)
    BY <1>1, <1>2, <2>1
  <2> QED BY <2>2 DEF FInv, NoDoubleRequests
<1>12. RepliesAddressed'
  BY <1>8 DEF FInv, RepliesAddressed
<1>13. FlightIsAwaited'
  <2>1. ASSUME NEW r \in WatcherReq PROVE Flies(r)' <=> Flies(r)
    <3>1. CASE r \notin heads
      <4>1. \A x \in Pe, f \in Flight : r \in Flying(x, f)' <=> r \in Flying(x, f)
        BY <1>7, <1>8, <3>1 DEF Flight
      <4> QED BY <4>1 DEF Flies
    <3>2. CASE r \in heads
      <4>1. Flies(r)
        BY <1>9, <3>2 DEF Flies, Flight
      <4>2. r.pe \in Pe /\ r \in Flying(r.pe, "memory")'
        BY <1>8, <3>2, ReqType
      <4>3. Flies(r)'
        BY <4>2 DEF Flies, Flight
      <4> QED BY <4>1, <4>3
    <3> QED BY <3>1, <3>2
  <2> QED BY <2>1, AwaitedIs DEF FInv, FlightIsAwaited
<1> QED BY <1>10, <1>11, <1>12, <1>13 DEF FInv

(* A request of a clause unit is none of a watcher.                         *)
LEMMA OthersSendFlight ==
  ASSUME TypeOK, FInv, OthersSend
  PROVE  FInv'
<1>1. PICK r \in OtherReq : mem_out' = [mem_out EXCEPT ![OtherPe[r]] =
                                          Append(mem_out[OtherPe[r]], r)]
  BY DEF OthersSend, Sent
<1> DEFINE p == OtherPe[r]
<1>2. /\ p \in Pe /\ r \notin WatcherReq /\ UNCHANGED <<mem_in, memory, mem_req_id_to_task>>
      /\ mem_out \in [Pe -> Seq(WatcherReq \cup OtherReq)]
  BY EnvAssumption DEF OthersSend, envVars, TypeOK
<1>3. \A x \in Pe : mem_out'[x] = IF x = p THEN Append(mem_out[p], r) ELSE mem_out[x]
  BY <1>1, <1>2
<1>4. /\ Range(Append(mem_out[p], r)) = Range(mem_out[p]) \cup {r}
      /\ OnceIn(Append(mem_out[p], r), WatcherReq)
  <2>1. mem_out[p] \in Seq(WatcherReq \cup OtherReq) /\ OnceIn(mem_out[p], WatcherReq)
    BY <1>2 DEF FInv, NoDoubleRequests
  <2> QED BY <1>2, <2>1, AppendRange, AppendOnce
<1> HIDE DEF p
<1>5. \A x \in Pe, f \in Flight : Flying(x, f)' = Flying(x, f)
  <2>1. ASSUME NEW x \in Pe PROVE Flying(x, "out")' = Flying(x, "out")
    <3>1. CASE x = p
      <4>1. mem_out'[x] = Append(mem_out[p], r)
        BY <1>3, <3>1
      <4>2. Range(mem_out'[x]) \cap WatcherReq = Range(mem_out[x]) \cap WatcherReq
        BY <1>2, <1>4, <3>1, <4>1
      <4> QED BY <4>2, FlyingValues
    <3>2. CASE x # p
      BY <1>3, <3>2, FlyingValues
    <3> QED BY <3>1, <3>2
  <2> QED BY <1>2, <2>1, FlyingValues DEF Flight
<1>6. NoDoubleRequests'
  BY <1>2, <1>3, <1>4 DEF FInv, NoDoubleRequests
<1>7. \A s : (Flies(s)' <=> Flies(s)) /\ (Awaited(s)' <=> Awaited(s))
  BY <1>2, <1>5, AwaitedIs DEF Flies
<1> QED BY <1>5, <1>6, <1>7
        DEF FInv, FlightsDisjoint, RepliesAddressed, FlightIsAwaited, Flight

LEMMA MemoryRepliesFlight ==
  ASSUME TypeOK, FInv, MemoryReplies
  PROVE  FInv'
<1>1. PICK r \in memory :
        /\ mem_in' = [mem_in EXCEPT ![r.pe] = Append(mem_in[r.pe], r)]
        /\ memory' = memory \ {r}
  BY DEF MemoryReplies, Sent
<1> DEFINE p == r.pe
           s == mem_in[p]
<1>2. /\ r \in WatcherReq /\ p \in Pe /\ mem_in \in [Pe -> Seq(WatcherReq)]
      /\ s \in Seq(WatcherReq) /\ UNCHANGED <<mem_out, mem_req_id_to_task>>
  BY ReqType DEF MemoryReplies, TypeOK, WatcherTypeOK
<1>3. r \in Flying(p, "memory")
  BY <1>2, FlyingValues
<1>4. r \notin Range(s) /\ IsInjective(s)
  <2>1. Flying(p, "memory") \cap Flying(p, "in") = {}
    BY <1>2 DEF FInv, FlightsDisjoint, Flight
  <2> QED BY <1>2, <1>3, <2>1, FlyingValues DEF FInv, NoDoubleRequests
<1>5. Range(Append(s, r)) = Range(s) \cup {r} /\ IsInjective(Append(s, r))
  BY <1>2, <1>4, AppendRange
<1>6. \A x \in Pe : mem_in'[x] = IF x = p THEN Append(s, r) ELSE mem_in[x]
  BY <1>1, <1>2
<1>7. Flying(p, "in")' = Flying(p, "in") \cup {r}
  <2>1. Flying(p, "in")' = Range(mem_in'[p]) /\ Flying(p, "in") = Range(s)
    BY <1>2, FlyingValues
  <2>2. mem_in'[p] = Append(s, r)
    BY <1>2, <1>6
  <2> QED BY <1>5, <2>1, <2>2
<1>8. Flying(p, "memory")' = Flying(p, "memory") \ {r}
  BY <1>1, <1>2, FlyingValues
<1>9. ASSUME NEW x \in Pe, NEW h \in Flight, x # p \/ h # "memory", x # p \/ h # "in"
      PROVE  Flying(x, h)' = Flying(x, h)
  <2>1. CASE h = "in"
    BY <1>6, <1>9, <2>1, FlyingValues
  <2>2. CASE h = "memory"
    <3>1. {u \in memory' : u.pe = x} = {u \in memory : u.pe = x}
      BY <1>1, <1>9, <2>2
    <3> QED BY <2>2, <3>1, FlyingValues
  <2>3. CASE h = "out"
    BY <1>2, <2>3, FlyingValues
  <2> QED BY <2>1, <2>2, <2>3 DEF Flight
<1>10. FlightsDisjoint' /\ FlightIsAwaited'
  BY <1>2, <1>3, <1>7, <1>8, <1>9, FlightMoves DEF Flight
<1>11. NoDoubleRequests'
  BY <1>2, <1>5, <1>6 DEF FInv, NoDoubleRequests
<1>12. RepliesAddressed'
  <2>1. ASSUME NEW x \in Pe, NEW u \in Flying(x, "in")' PROVE u.pe = x
    <3>1. CASE x = p
      BY <1>2, <1>7, <2>1, <3>1 DEF FInv, RepliesAddressed
    <3>2. CASE x # p
      BY <1>9, <2>1, <3>2 DEF FInv, RepliesAddressed, Flight
    <3> QED BY <3>1, <3>2
  <2> QED BY <2>1 DEF RepliesAddressed
<1> QED BY <1>10, <1>11, <1>12 DEF FInv

LEMMA InitFInv == Start => FInv
<1> SUFFICES ASSUME Start PROVE FInv
  OBVIOUS
<1>1. \A p \in Pe : mem_out[p] = <<>> /\ mem_in[p] = <<>>
  BY DEF Start, Init
<1>2. Range(<<>>) = {} /\ IsInjective(<<>>) /\ OnceIn(<<>>, WatcherReq)
  BY EmptySeq DEF Range, IsInjective, OnceIn
<1>3. \A p \in Pe, f \in Flight : Flying(p, f) = {}
  BY <1>1, <1>2, FlyingValues DEF Flight, Start
<1>4. \A r \in WatcherReq : ~Flies(r) /\ ~Awaited(r)
  BY <1>3, ReqType DEF Flies, Awaited, Start, Init
<1> QED BY <1>1, <1>2, <1>3, <1>4
        DEF FInv, FlightsDisjoint, NoDoubleRequests, RepliesAddressed, FlightIsAwaited, Flight

LEMMA UnchangedFlight ==
  ASSUME FInv, UNCHANGED <<mem_out, mem_in, memory, mem_req_id_to_task>>
  PROVE  FInv'
<1>1. \A p \in Pe, f \in Flight : Flying(p, f)' = Flying(p, f)
  BY FlyingValues DEF Flight
<1>2. \A r : Flies(r)' <=> Flies(r)
  BY <1>1 DEF Flies
<1>3. \A r : Awaited(r)' <=> Awaited(r)
  BY AwaitedIs
<1> QED BY <1>1, <1>2, <1>3
        DEF FInv, FlightsDisjoint, NoDoubleRequests, RepliesAddressed, FlightIsAwaited, Flight

LEMMA NextFInv == TypeOK /\ PInv /\ FInv /\ [Next]_vars => FInv'
<1> SUFFICES ASSUME TypeOK, PInv, FInv, [Next]_vars PROVE FInv'
  OBVIOUS
<1>1. ASSUME NEW p \in Pe, Step(p), UNCHANGED envVars PROVE FInv'
  <2>1. ASSUME NEW k \in Read, StartRead(p, k) PROVE FInv'
    BY <1>1, <2>1, StartReadFlight
  <2>2. CASE Reply(p)
    BY <1>1, <2>2, ReplyFlight
  <2>3. CASE UNCHANGED <<mem_out, mem_in, memory, mem_req_id_to_task>>
    BY <2>3, UnchangedFlight
  <2> QED BY <1>1, <2>1, <2>2, <2>3
          DEF Step, ReadBlocked, Expand, Process, StartProcess, SendClause, Skip, envVars
<1>2. CASE NetworksTake
  BY <1>2, MemoryTakesFlight, UnchangedFlight DEF NetworksTake
<1>3. CASE MemoryReplies
  BY <1>3, MemoryRepliesFlight
<1>4. CASE TrailSends \/ OthersSend
  BY <1>4, UnchangedFlight, OthersSendFlight DEF TrailSends
<1>5. ASSUME NEW p \in Pe, NEW d \in Elapsed, Call(p, d), UNCHANGED envVars PROVE FInv'
  BY <1>5, UnchangedFlight DEF Call, envVars
<1>6. CASE UNCHANGED vars
  BY <1>6, UnchangedFlight DEF vars, watcherVars, envVars
<1> QED BY <1>1, <1>2, <1>3, <1>4, <1>5, <1>6 DEF Next, EnvNext, WatcherNext

(* The places InFlight counts are those of Flying, one per occurrence.      *)
LEMMA InFlightIs ==
  ASSUME TypeOK, FInv, NEW r \in WatcherReq
  PROVE  Cardinality(InFlight(r)) = IF Flies(r) THEN 1 ELSE 0
<1> DEFINE O(p) == {"out"} \X {p} \X {i \in DOMAIN mem_out[p] : mem_out[p][i] = r}
           I(p) == {"in"} \X {p} \X {i \in DOMAIN mem_in[p] : mem_in[p][i] = r}
           M == {"memory"} \X ({r} \cap memory)
<1>0. PICK C : C = UNION {O(p) \cup I(p) : p \in Pe}
  OBVIOUS
<1>1. InFlight(r) = C \cup M
  BY <1>0 DEF InFlight
<1>2. ASSUME NEW p \in Pe
      PROVE  /\ mem_out[p] \in Seq(WatcherReq \cup OtherReq) /\ OnceIn(mem_out[p], WatcherReq)
             /\ mem_in[p] \in Seq(WatcherReq) /\ IsInjective(mem_in[p])
  BY DEF TypeOK, WatcherTypeOK, FInv, NoDoubleRequests
<1>3. ASSUME NEW p \in Pe, r \in Flying(p, "out") PROVE \E x : O(p) = {x}
  <2>1. \E i : {j \in DOMAIN mem_out[p] : mem_out[p][j] = r} = {i}
    <3> DEFINE s == mem_out[p]
    <3>0. s \in Seq(WatcherReq \cup OtherReq) /\ OnceIn(s, WatcherReq)
      BY <1>2
    <3>1. r \in Range(s) \cap WatcherReq
      BY <1>3, FlyingValues
    <3> HIDE DEF s
    <3>2. \E i \in DOMAIN s : {j \in DOMAIN s : s[j] = r} = {i}
      BY <3>0, <3>1, OnceIndex
    <3> QED BY <3>2 DEF s
  <2>2. PICK i : {j \in DOMAIN mem_out[p] : mem_out[p][j] = r} = {i}
    BY <2>1
  <2>3. O(p) = {<<"out", p, i>>}
    BY <2>2
  <2> QED BY <2>3
<1>4. ASSUME NEW p \in Pe, r \in Flying(p, "in") PROVE \E x : I(p) = {x}
  <2>1. \E i : {j \in DOMAIN mem_in[p] : mem_in[p][j] = r} = {i}
    <3> DEFINE s == mem_in[p]
    <3>0. s \in Seq(WatcherReq) /\ IsInjective(s)
      BY <1>2
    <3>1. r \in Range(s)
      BY <1>4, FlyingValues
    <3> HIDE DEF s
    <3>2. \E i \in DOMAIN s : {j \in DOMAIN s : s[j] = r} = {i}
      BY <3>0, <3>1, OneIndex
    <3> QED BY <3>2 DEF s
  <2>2. PICK i : {j \in DOMAIN mem_in[p] : mem_in[p][j] = r} = {i}
    BY <2>1
  <2>3. I(p) = {<<"in", p, i>>}
    BY <2>2
  <2> QED BY <2>3
<1>5. ASSUME NEW p \in Pe, r \notin Flying(p, "out") PROVE O(p) = {}
  <2>1. {j \in DOMAIN mem_out[p] : mem_out[p][j] = r} = {}
    BY <1>5, FlyingValues DEF Range
  <2> QED BY <2>1
<1>6. ASSUME NEW p \in Pe, r \notin Flying(p, "in") PROVE I(p) = {}
  <2>1. {j \in DOMAIN mem_in[p] : mem_in[p][j] = r} = {}
    BY <1>6, FlyingValues DEF Range
  <2> QED BY <2>1
<1>7. r \in memory <=> \E p \in Pe : r \in Flying(p, "memory")
  BY ReqType, FlyingValues
<1>8. M = IF r \in memory THEN {<<"memory", r>>} ELSE {}
  OBVIOUS
<1>9. \A p, o \in Pe, f, g \in Flight :
        p # o \/ f # g => ~(r \in Flying(p, f) /\ r \in Flying(o, g))
  BY DEF FInv, FlightsDisjoint
<1> HIDE DEF O, I, M
<1>10. CASE ~Flies(r)
  <2>1. InFlight(r) = {}
    BY <1>0, <1>1, <1>5, <1>6, <1>7, <1>8, <1>10 DEF Flies, Flight
  <2> QED BY <1>10, <2>1, FS_EmptySet
<1>11. CASE Flies(r)
  <2>1. \E x : InFlight(r) = {x}
    <3>1. PICK p \in Pe, f \in Flight : r \in Flying(p, f)
      BY <1>11 DEF Flies
    <3>2. CASE f = "out"
      <4>1. PICK x : O(p) = {x}
        BY <1>3, <3>1, <3>2
      <4>2. \A o \in Pe : I(o) = {} /\ (o # p => O(o) = {})
        BY <1>5, <1>6, <1>9, <3>1, <3>2 DEF Flight
      <4>3. M = {}
        BY <1>7, <1>8, <1>9, <3>1, <3>2 DEF Flight
      <4>4. C = {x}
        BY <1>0, <4>1, <4>2
      <4> QED BY <1>1, <4>3, <4>4
    <3>3. CASE f = "in"
      <4>1. PICK x : I(p) = {x}
        BY <1>4, <3>1, <3>3
      <4>2. \A o \in Pe : O(o) = {} /\ (o # p => I(o) = {})
        BY <1>5, <1>6, <1>9, <3>1, <3>3 DEF Flight
      <4>3. M = {}
        BY <1>7, <1>8, <1>9, <3>1, <3>3 DEF Flight
      <4>4. C = {x}
        BY <1>0, <4>1, <4>2
      <4> QED BY <1>1, <4>3, <4>4
    <3>4. CASE f = "memory"
      <4>1. M = {<<"memory", r>>}
        BY <1>7, <1>8, <3>1, <3>4
      <4>2. \A o \in Pe : O(o) = {} /\ I(o) = {}
        BY <1>5, <1>6, <1>9, <3>1, <3>4 DEF Flight
      <4>3. C = {}
        BY <1>0, <4>2
      <4> QED BY <1>1, <4>1, <4>3
    <3> QED BY <3>2, <3>3, <3>4 DEF Flight
  <2> QED BY <1>11, <2>1, FS_Singleton
<1> QED BY <1>10, <1>11

(* A read some watcher waits for is on its way exactly once, and no other   *)
(* request is (watcher.rs:97-311, the channels to and from the network):    *)
(* with single watchers of any processing element in a task's list, too.    *)
THEOREM WatcherReadsMatch == Spec => []ReadsMatch
<1>1. TypeOK /\ FInv => ReadsMatch
  BY InFlightIs DEF ReadsMatch, FInv, FlightIsAwaited
<1> QED BY InitStart, InitPInv, NextPInv, InitFInv, NextFInv, WatcherTypeCorrect, <1>1, PTL DEF Spec

(* Every single watcher is in a list of its own processing element.         *)
OwnLists == \A t \in WatcherTask : \A c \in Range(Singles[t]) : ClausePe[c] = HomePe[t]

LEMMA SafeRepliesComeHome == OwnLists /\ TypeOK /\ PInv /\ FInv => RepliesComeHome
<1>1. ASSUME OwnLists, TypeOK, PInv, FInv, NEW p \in Pe, UnwrapFails(p) PROVE FALSE
  <2>1. PICK r : r = Head(mem_in[p])
    OBVIOUS
  <2>2. /\ mem_in[p] \in Seq(WatcherReq) /\ mem_in[p] # <<>>
        /\ r.task \notin mem_req_id_to_task[p][r.type]
    BY <1>1, <2>1 DEF UnwrapFails, CanReply, TypeOK, WatcherTypeOK
  <2>3. r \in Range(mem_in[p]) /\ r \in WatcherReq
    BY <2>1, <2>2, TailRange, HeadTailProperties
  <2>4. r.pe = p /\ Awaited(r)
    BY <1>1, <2>3, FlyingValues DEF FInv, RepliesAddressed, FlightIsAwaited, Flies, Flight
  <2>5. PICK x \in Pe : r.task \in mem_req_id_to_task[x][r.type] /\ r = Request(x, r.type, r.task)
    BY <2>4, AwaitedIs
  <2>6. r.type \in Read /\ r.task \in TaskOf(r.type)
    BY <2>3, ReqType
  <2>7. CASE r.type # "blocker"
    BY <2>2, <2>4, <2>5, <2>7, RequestFields
  <2>8. CASE r.type = "blocker"
    <3>1. ClausePe[r.task] = p
      BY <2>4, <2>5, <2>8, RequestFields
    <3>2. r.task \in Held(x, "blocker") /\ "blocker" \in HeldPlace
      <4>1. r.task \in mem_req_id_to_task[x]["blocker"] /\ "blocker" \in Read
        BY <2>5, <2>8 DEF Read
      <4> QED BY <4>1, HeldValues
    <3>3. r.task \in TasksOf(x) /\ r.task \notin WatcherTask
      BY <1>1, <2>6, <2>8, <3>2, DistinctTasks DEF PInv, Places, AtHome, TaskOf
    <3>4. PICK u \in WatcherTask : HomePe[u] = x /\ r.task \in Range(Singles[u])
      BY <3>3 DEF TasksOf
    <3> QED BY <1>1, <2>2, <2>5, <3>1, <3>4 DEF OwnLists
  <2> QED BY <2>7, <2>8
<1> QED BY <1>1 DEF RepliesComeHome

(* With such lists the unwrap of a reply's task never panics                *)
(* (watcher.rs:287, 297, 305): the waiting task is the addressee's own.     *)
(* MCWatcher_cross shows that it panics with others.                        *)
THEOREM WatcherRepliesComeHome ==
  ASSUME OwnLists
  PROVE  Spec => []RepliesComeHome
<1>1. TypeOK /\ PInv /\ FInv => RepliesComeHome
  BY SafeRepliesComeHome
<1> QED BY InitStart, InitPInv, NextPInv, InitFInv, NextFInv, WatcherTypeCorrect, <1>1, PTL DEF Spec
-----------------------------------------------------------------------------
(* What System needs of the watchers: their invariants together, which the  *)
(* counting of the trail and of the clause units keeps as well, and the     *)
(* single watchers they have not passed on.                                *)

SafeInv == IInv /\ PInv /\ FInv /\ CountersMatch /\ SkippedHasNoWork

LEMMA InitSafeInv == Start => SafeInv
<1>1. Start => CountersMatch
  BY FS_EmptySet DEF Start, Init, CountersMatch
<1> QED BY <1>1, InitIInv, InitPInv, InitFInv, InitSkipped DEF SafeInv

LEMMA NextSafeInv == SafeInv /\ [Next]_vars => SafeInv'
BY NextIInv, NextPInv, NextFInv, NextCounters, NextSkipped DEF SafeInv, IInv

OthersCount ==
  /\ UNCHANGED <<control, watcher_task_receiver, mem_out, mem_in, clause_icnt_sender, queue,
                 mem_req_id_to_task, total_ongoing, current_processing_task, envVars>>
  /\ current_level_finished_tasks' \in Nat

LEMMA OthersCountSafeInv == SafeInv /\ OthersCount => SafeInv'
<1> SUFFICES ASSUME IInv, PInv, FInv, CountersMatch, SkippedHasNoWork, OthersCount
             PROVE  SafeInv'
  BY DEF SafeInv
<1>1. IInv'
  BY DEF IInv, TypeOK, WatcherTypeOK, QueueBounds, WaitingCounted, OthersCount, control, envVars
<1>2. PInv' /\ FInv'
  BY UnchangedPlaces, UnchangedFlight DEF OthersCount, envVars
<1>3. CountersMatch'
  BY DEF CountersMatch, OthersCount
<1>4. SkippedHasNoWork'
  BY DEF SkippedHasNoWork, OthersCount, control, Own, HasWork, Read, CanRead, Input, CanExpand,
         CanProcess, CanStart, CanSend
<1> QED BY <1>1, <1>2, <1>3, <1>4 DEF SafeInv

(* A watcher that found nothing to do, with no request of a watcher on its  *)
(* way, holds nothing.                                                     *)
LEMMA NothingHeld ==
  ASSUME SafeInv, NEW p \in Pe, \A f \in Own : ~HasWork(p, f), ~CanRead(p, "meta"),
         \A q \in Pe, f \in Flight : Flying(q, f) = {}
  PROVE  /\ watcher_task_receiver[p] = <<>> /\ \A q \in Queue : queue[p][q] = <<>>
         /\ current_processing_task[p] = None
         /\ \A k \in Read : mem_req_id_to_task[p][k] = {}
<1>1. TypeOK /\ IInv /\ FInv /\ CountersMatch
  BY DEF SafeInv, IInv
<1>2. ASSUME NEW k \in Read PROVE mem_req_id_to_task[p][k] = {} /\ total_ongoing[p][k] = 0
  <2>1. ASSUME NEW t \in mem_req_id_to_task[p][k] PROVE FALSE
    <3>1. t \in TaskOf(k)
      BY <1>1 DEF TypeOK, WatcherTypeOK
    <3>2. PICK r : r = Request(p, k, t)
      OBVIOUS
    <3>3. r \in WatcherReq
      BY <3>1, <3>2, ReqType
    <3>4. Awaited(r)
      BY <3>2, <2>1, RequestFields, AwaitedIs
    <3>5. Flies(r)
      BY <1>1, <3>3, <3>4 DEF FInv, FlightIsAwaited
    <3> QED BY <3>5 DEF Flies
  <2>2. mem_req_id_to_task[p][k] = {}
    BY <2>1
  <2> QED BY <1>1, <2>2, FS_EmptySet DEF CountersMatch
<1>3. current_processing_task[p] = None /\ \A q \in Queue : queue[p][q] = <<>>
  BY <1>1, <1>2, NoWorkIsEmpty
<1>4. watcher_task_receiver[p] = <<>>
  <2>1. /\ total_ongoing[p]["meta"] = 0 /\ queue[p][Output["meta"]] = <<>>
        /\ Input(p, "meta") = watcher_task_receiver[p] /\ Len(<<>>) = 0
    BY <1>2, <1>3, EmptySeq DEF Read, Output, Queue, Input
  <2> QED BY <2>1, LimitAssumption DEF CanRead
<1> QED BY <1>2, <1>3, <1>4

(* In the list of a task that is not expanded yet, or in a place of its own. *)
Upstream ==
  {c \in ClauseTask : \E p \in Pe :
     \/ \E s \in SinglePlace : c \in Held(p, s)
     \/ \E s \in TaskPlace : \E t \in Held(p, s) : c \in Range(Singles[t])}

LEMMA SameHeldUpstream ==
  ASSUME \A o \in Pe, v \in HeldPlace : Held(o, v)' = Held(o, v)
  PROVE  Upstream' = Upstream
BY DEF Upstream, HeldPlace

LEMMA MovesUpstream ==
  ASSUME NEW p \in Pe, NEW s \in HeldPlace, NEW u \in HeldPlace, s # u,
         s \in TaskPlace <=> u \in TaskPlace, NEW X, Moves(p, X, s, u)
  PROVE  Upstream' = Upstream
<1>1. /\ TaskPlace \cap SinglePlace = {} /\ HeldPlace = TaskPlace \cup SinglePlace
  BY DEF TaskPlace, SinglePlace, HeldPlace
<1>2. /\ X \subseteq Held(p, s) /\ Held(p, s)' = Held(p, s) \ X
      /\ Held(p, u)' = Held(p, u) \cup X
      /\ \A o \in Pe, v \in HeldPlace : o # p \/ v \notin {s, u} => Held(o, v)' = Held(o, v)
  BY DEF Moves
<1>3. ASSUME NEW P, P \in {TaskPlace, SinglePlace}, NEW x
      PROVE  (\E o \in Pe : \E v \in P : x \in Held(o, v)') <=>
             (\E o \in Pe : \E v \in P : x \in Held(o, v))
  <2>1. s \in P <=> u \in P
    BY <1>1, <1>3
  <2>2. P \subseteq HeldPlace
    BY <1>1, <1>3
  <2>3. CASE s \notin P
    BY <1>2, <2>1, <2>2, <2>3
  <2>4. CASE s \in P
    BY <1>2, <2>1, <2>2, <2>4
  <2> QED BY <2>3, <2>4
<1>4. \A x : (\E o \in Pe : \E v \in TaskPlace : x \in Held(o, v)') <=>
             (\E o \in Pe : \E v \in TaskPlace : x \in Held(o, v))
  BY <1>3
<1>5. \A x : (\E o \in Pe : \E v \in SinglePlace : x \in Held(o, v)') <=>
             (\E o \in Pe : \E v \in SinglePlace : x \in Held(o, v))
  BY <1>3
<1> QED BY <1>4, <1>5 DEF Upstream

LEMMA ExpandsUpstream ==
  ASSUME TypeOK, NEW p \in Pe, NEW t \in WatcherTask, Expands(p, t)
  PROVE  Upstream' = Upstream
<1>1. /\ "data_finished" \in TaskPlace /\ "single_task" \in SinglePlace
      /\ "data_finished" \notin SinglePlace /\ "single_task" \notin TaskPlace
      /\ HeldPlace = TaskPlace \cup SinglePlace
  BY DEF TaskPlace, SinglePlace, HeldPlace
<1>2. /\ t \in Held(p, "data_finished")
      /\ Held(p, "data_finished")' = Held(p, "data_finished") \ {t}
      /\ Held(p, "single_task")' = Held(p, "single_task") \cup Range(Singles[t])
      /\ \A o \in Pe, v \in HeldPlace :
           o # p \/ v \notin {"data_finished", "single_task"} => Held(o, v)' = Held(o, v)
  BY DEF Expands
<1>3. ASSUME NEW c \in Upstream' PROVE c \in Upstream
  <2>1. PICK o \in Pe : \/ \E v \in SinglePlace : c \in Held(o, v)'
                        \/ \E v \in TaskPlace : \E x \in Held(o, v)' : c \in Range(Singles[x])
    BY <1>3 DEF Upstream
  <2>2. c \in ClauseTask
    BY <1>3 DEF Upstream
  <2>3. ASSUME NEW v \in SinglePlace, c \in Held(o, v)' PROVE c \in Upstream
    <3>1. c \in Held(o, v) \/ (o = p /\ c \in Range(Singles[t]))
      BY <1>1, <1>2, <2>3
    <3> QED BY <1>1, <1>2, <2>2, <2>3, <3>1 DEF Upstream
  <2>4. ASSUME NEW v \in TaskPlace, NEW x \in Held(o, v)', c \in Range(Singles[x])
        PROVE  c \in Upstream
    <3>1. x \in Held(o, v)
      BY <1>1, <1>2, <2>4
    <3> QED BY <2>2, <2>4, <3>1 DEF Upstream
  <2> QED BY <2>1, <2>3, <2>4
<1>4. ASSUME NEW c \in Upstream PROVE c \in Upstream'
  <2>1. PICK o \in Pe : \/ \E v \in SinglePlace : c \in Held(o, v)
                        \/ \E v \in TaskPlace : \E x \in Held(o, v) : c \in Range(Singles[x])
    BY <1>4 DEF Upstream
  <2>2. c \in ClauseTask
    BY <1>4 DEF Upstream
  <2>3. ASSUME NEW v \in SinglePlace, c \in Held(o, v) PROVE c \in Upstream'
    <3>1. c \in Held(o, v)'
      BY <1>1, <1>2, <2>3
    <3> QED BY <2>2, <2>3, <3>1 DEF Upstream
  <2>4. ASSUME NEW v \in TaskPlace, NEW x \in Held(o, v), c \in Range(Singles[x])
        PROVE  c \in Upstream'
    <3>1. CASE x \in Held(o, v)'
      BY <2>2, <2>4, <3>1 DEF Upstream
    <3>2. CASE x \notin Held(o, v)'
      <4>1. o = p /\ x = t
        BY <1>1, <1>2, <2>4, <3>2
      <4> QED BY <1>1, <1>2, <2>2, <2>4, <4>1 DEF Upstream
    <3> QED BY <3>1, <3>2
  <2> QED BY <2>1, <2>3, <2>4
<1> QED BY <1>3, <1>4

LEMMA LeavesUpstream ==
  ASSUME TypeOK, PInv, NEW p \in Pe, NEW s \in SinglePlace, NEW c \in Held(p, s),
         Leaves(p, {c}, s)
  PROVE  c \in Upstream /\ Upstream' = Upstream \ {c}
<1>1. /\ TaskPlace \cap SinglePlace = {} /\ HeldPlace = TaskPlace \cup SinglePlace
  BY DEF TaskPlace, SinglePlace, HeldPlace
<1>2. /\ Held(p, s)' = Held(p, s) \ {c}
      /\ \A o \in Pe, v \in HeldPlace : o # p \/ v # s => Held(o, v)' = Held(o, v)
  BY DEF Leaves
<1>3. c \in ClauseTask /\ c \in Upstream
  BY HeldTypes DEF Upstream
<1>4. ASSUME NEW o \in Pe, NEW v \in SinglePlace PROVE c \notin Held(o, v)'
  <2>1. c \in Held(o, v) => o = p /\ v = s
    BY <1>1, OneHolder DEF PInv
  <2> QED BY <1>1, <1>2, <2>1
<1>5. ASSUME NEW o \in Pe, NEW v \in TaskPlace, NEW t \in Held(o, v)
      PROVE  c \notin Range(Singles[t])
  <2>1. t \in WatcherTask
    BY HeldTypes
  <2>2. t \in TasksOf(o) /\ c \in TasksOf(p)
    BY <1>1 DEF PInv, Places, AtHome
  <2>3. PICK w \in WatcherTask : HomePe[w] = o /\ t \in {w} \cup Range(Singles[w])
    BY <2>2 DEF TasksOf
  <2>4. Range(Singles[w]) \subseteq ClauseTask
    BY TasksAssumption, RangeOfSeq
  <2>5. t = w
    BY <2>1, <2>3, <2>4, DistinctTasks
  <2>6. Range(Singles[t]) \subseteq TasksOf(o)
    BY <2>1, <2>3, <2>5 DEF TasksOf
  <2>7. CASE o # p
    BY <2>2, <2>6, <2>7, TasksOfDisjoint
  <2>8. CASE o = p
    BY <1>5, <2>8 DEF PInv, Places, NotBorn
  <2> QED BY <2>7, <2>8
<1>6. \A o \in Pe, v \in TaskPlace : Held(o, v)' = Held(o, v)
  BY <1>1, <1>2
<1>7. c \notin Upstream'
  BY <1>4, <1>5, <1>6 DEF Upstream
<1>8. \A o \in Pe, v \in SinglePlace : \A x : x # c => (x \in Held(o, v)' <=> x \in Held(o, v))
  BY <1>1, <1>2
<1>9. \A x : x # c => (x \in Upstream' <=> x \in Upstream)
  BY <1>6, <1>8 DEF Upstream
<1> QED BY <1>3, <1>7, <1>9

(* Only phase "send" passes a single watcher on.                            *)
LEMMA StepUpstream ==
  ASSUME TypeOK, PInv, NEW p \in Pe, Step(p), ~SendClause(p), UNCHANGED envVars
  PROVE  Upstream' = Upstream
<1>0. /\ TaskPlace \cap SinglePlace = {} /\ HeldPlace = TaskPlace \cup SinglePlace
      /\ "process" \in SinglePlace /\ "process_finished" \in SinglePlace
      /\ "value_finished" \in SinglePlace
  BY DEF TaskPlace, SinglePlace, HeldPlace
<1>1. ASSUME NEW k \in Read, StartRead(p, k) PROVE Upstream' = Upstream
  <2>1. Moves(p, {Head(Input(p, k))}, Source(k), k)
    BY <1>1, StartReadMoves
  <2> QED BY <2>1, MovesUpstream, SourcePlace
<1>2. ASSUME NEW k \in Read, ReadBlocked(p, k) PROVE Upstream' = Upstream
  <2>1. UNCHANGED <<queue, watcher_task_receiver>>
    BY <1>2, ReadBlockedPInv
  <2> QED BY <1>2, <2>1, UnchangedPlaces, SameHeldUpstream DEF ReadBlocked, envVars
<1>3. CASE Expand(p)
  BY <1>3, ExpandExpands, ExpandsUpstream
<1>4. CASE Process(p)
  BY <1>0, <1>4, ProcessMoves, SameHeldUpstream, MovesUpstream
<1>5. CASE StartProcess(p)
  BY <1>0, <1>5, StartProcessMoves, MovesUpstream
<1>6. CASE Reply(p)
  <2>1. PICK k \in Read : \E t \in TaskOf(k) : Moves(p, {t}, k, Output[k])
    BY <1>6, ReplyMoves
  <2>2. /\ k \in HeldPlace /\ Output[k] \in HeldPlace /\ k # Output[k]
        /\ k \in TaskPlace <=> Output[k] \in TaskPlace
    BY DEF Read, Output, HeldPlace, TaskPlace, SinglePlace
  <2> QED BY <2>1, <2>2, MovesUpstream
<1>7. CASE Skip(p)
  BY <1>7, UnchangedPlaces, SameHeldUpstream DEF Skip, envVars
<1> QED BY <1>1, <1>2, <1>3, <1>4, <1>5, <1>6, <1>7 DEF Step

LEMMA SendClauseUpstream ==
  ASSUME TypeOK, PInv, NEW p \in Pe, NEW c, c = Head(queue[p]["process_finished"]),
         SendClause(p), UNCHANGED envVars
  PROVE  \/ /\ c \in Upstream /\ Upstream' = Upstream \ {c}
            /\ \/ c \notin HasClauseData /\ UNCHANGED clause_icnt_sender
               \/ /\ c \in HasClauseData
                  /\ clause_icnt_sender' = [clause_icnt_sender EXCEPT ![p] = Append(@, c)]
         \/ Upstream' = Upstream /\ UNCHANGED clause_icnt_sender
<1> DEFINE s == queue[p]["process_finished"]
<1>1. "process_finished" \in Queue /\ "process_finished" \in SinglePlace
  BY DEF Queue, SinglePlace
<1>2. s \in Seq(ClauseTask) /\ s # <<>> /\ IsInjective(s)
  <2>1. s \in Seq(ItemOf("process_finished")) /\ IsInjective(s)
    BY <1>1 DEF TypeOK, WatcherTypeOK, PInv, NoDoubles
  <2> QED BY <2>1 DEF ItemOf, SendClause, CanSend
<1>3. CASE c \in HasClauseData /\ ~HaveSpace(clause_icnt_sender[p], ChannelSize)
  <2>1. RecvThenRet(s) = s
    BY <1>2, RetRestores
  <2>2. queue' = [queue EXCEPT ![p]["process_finished"] = RecvThenRet(s)]
    BY <1>3 DEF SendClause
  <2>3. queue' = queue
    BY <1>1, <2>1, <2>2 DEF TypeOK, WatcherTypeOK
  <2>4. UNCHANGED <<pending, watcher_task_receiver, mem_req_id_to_task, queue,
                    current_processing_task>>
    BY <2>3 DEF SendClause, envVars
  <2>5. UNCHANGED clause_icnt_sender
    BY <1>3 DEF SendClause
  <2> QED BY <2>4, <2>5, UnchangedPlaces, SameHeldUpstream
<1>4. CASE ~(c \in HasClauseData /\ ~HaveSpace(clause_icnt_sender[p], ChannelSize))
  <2>1. /\ queue' = [queue EXCEPT ![p]["process_finished"] = Tail(s)]
        /\ \/ c \notin HasClauseData /\ UNCHANGED clause_icnt_sender
           \/ /\ c \in HasClauseData
              /\ clause_icnt_sender' = [clause_icnt_sender EXCEPT ![p] = Append(@, c)]
    BY <1>4 DEF SendClause, Sent
  <2>2. Held(p, "process_finished") = Range(s) /\ Held(p, "process_finished")' = Range(Tail(s))
    <3>1. queue'[p]["process_finished"] = Tail(s)
      BY <1>1, <2>1 DEF TypeOK, WatcherTypeOK
    <3> QED BY <1>1, <3>1, HeldValues
  <2>3. c \in Range(s) /\ Range(Tail(s)) = Range(s) \ {c}
    BY <1>2, TailRange
  <2>4. Leaves(p, {c}, "process_finished")
    <3>1. \/ \A o \in Pe, v \in HeldPlace : Held(o, v)' = Held(o, v)
          \/ Leaves(p, {c}, "process_finished")
      BY SendClauseLeaves
    <3>2. "process_finished" \in HeldPlace
      BY <1>1 DEF HeldPlace
    <3> QED BY <2>2, <2>3, <3>1, <3>2
  <2> QED BY <1>1, <2>1, <2>2, <2>3, <2>4, LeavesUpstream
<1> QED BY <1>3, <1>4

LEMMA TrailSendsUpstream ==
  ASSUME TypeOK, PInv, TrailSends
  PROVE  Upstream' = Upstream
<1>1. PICK t \in pending : Moves(HomePe[t], {t}, "trail", "arrived")
  BY TrailSendsMoves
<1>2. /\ "trail" \in TaskPlace /\ "arrived" \in TaskPlace /\ TaskPlace \subseteq HeldPlace
      /\ "trail" # "arrived"
  BY DEF TaskPlace, HeldPlace
<1>3. HomePe[t] \in Pe
  BY EnvAssumption DEF TypeOK
<1> QED BY <1>1, <1>2, <1>3, MovesUpstream

LEMMA CallUpstream ==
  ASSUME TypeOK, NEW p \in Pe, NEW d \in Elapsed, Call(p, d), UNCHANGED envVars
  PROVE  Upstream' = Upstream
BY CallHeld, SameHeldUpstream

LEMMA UnchangedUpstream ==
  ASSUME UNCHANGED <<pending, watcher_task_receiver, mem_req_id_to_task, queue,
                     current_processing_task>>
  PROVE  Upstream' = Upstream
<1>1. \A o \in Pe, v \in HeldPlace : Held(o, v)' = Held(o, v)
  BY DEF Held
<1> QED BY <1>1, SameHeldUpstream
-----------------------------------------------------------------------------
(* The watcher implements WatcherStages: the stage of a task is where it    *)
(* is, and every step takes one task to its next stage or none anywhere.    *)

StageOf(s) ==
  CASE s = "meta" -> "meta_read"
    [] s = "data" -> "data_read"
    [] s = "blocker" -> "blocker_read"
    [] s = "process" -> "in_process"
    [] OTHER -> s

IsAt(x, s) == \E p \in Pe : x \in Held(p, s)

NotExpanded(t) == \E s \in TaskPlace : IsAt(t, s)

StagesArePlaces ==
  /\ \A t \in WatcherTask, s \in TaskPlace : IsAt(t, s) => TaskStage(t) = StageOf(s)
  /\ \A t \in WatcherTask : ~NotExpanded(t) => TaskStage(t) = "expanded"
  /\ \A c \in ClauseTask, s \in SinglePlace : IsAt(c, s) => SingleStage(c) = StageOf(s)
  /\ \A c \in ClauseTask :
       (\A s \in SinglePlace : ~IsAt(c, s)) =>
         SingleStage(c) = IF \E t \in WatcherTask : c \in Range(Singles[t]) /\ NotExpanded(t)
                            THEN "unborn" ELSE "left"

LEMMA ContainsRange ==
  ASSUME NEW S, NEW s \in Seq(S), NEW x
  PROVE  Contains(s, x) <=> x \in Range(s)
BY DEF Contains, Range

LEMMA PlacesAre ==
  TypeOK =>
    /\ \A t \in WatcherTask :
         /\ t \in pending <=> IsAt(t, "trail")
         /\ (\E p \in Pe : Contains(watcher_task_receiver[p], t)) <=> IsAt(t, "arrived")
    /\ \A x, k : k \in Read => (Reading(x, k) <=> IsAt(x, k))
    /\ \A x, q : q \in Queue => (InQueue(x, q) <=> IsAt(x, q))
    /\ \A c : (\E p \in Pe : current_processing_task[p] # None
                              /\ current_processing_task[p].task = c) <=> IsAt(c, "process")
<1> SUFFICES ASSUME TypeOK
             PROVE  /\ \A t \in WatcherTask :
                         /\ t \in pending <=> IsAt(t, "trail")
                         /\ (\E p \in Pe : Contains(watcher_task_receiver[p], t))
                              <=> IsAt(t, "arrived")
                    /\ \A x, k : k \in Read => (Reading(x, k) <=> IsAt(x, k))
                    /\ \A x, q : q \in Queue => (InQueue(x, q) <=> IsAt(x, q))
                    /\ \A c : (\E p \in Pe : current_processing_task[p] # None
                                 /\ current_processing_task[p].task = c) <=> IsAt(c, "process")
  OBVIOUS
<1>1. \A t \in WatcherTask : t \in pending <=> IsAt(t, "trail")
  BY HeldValues, EnvAssumption DEF IsAt
<1>2. ASSUME NEW t
      PROVE  (\E p \in Pe : Contains(watcher_task_receiver[p], t)) <=> IsAt(t, "arrived")
  <2>1. \A p \in Pe : Contains(watcher_task_receiver[p], t) <=> t \in Held(p, "arrived")
    <3>1. ASSUME NEW p \in Pe
          PROVE  Contains(watcher_task_receiver[p], t) <=> t \in Range(watcher_task_receiver[p])
      BY ContainsRange DEF TypeOK, WatcherTypeOK
    <3> QED BY <3>1, HeldValues
  <2> QED BY <2>1 DEF IsAt
<1>3. \A x, k : k \in Read => (Reading(x, k) <=> IsAt(x, k))
  BY HeldValues DEF Reading, IsAt
<1>4. ASSUME NEW x, NEW q \in Queue PROVE InQueue(x, q) <=> IsAt(x, q)
  <2>1. \A p \in Pe : Contains(queue[p][q], x) <=> x \in Held(p, q)
    <3>1. ASSUME NEW p \in Pe PROVE Contains(queue[p][q], x) <=> x \in Range(queue[p][q])
      BY ContainsRange DEF TypeOK, WatcherTypeOK
    <3> QED BY <3>1, HeldValues
  <2> QED BY <2>1 DEF InQueue, IsAt
<1>5. ASSUME NEW c
      PROVE  (\E p \in Pe : current_processing_task[p] # None
                /\ current_processing_task[p].task = c) <=> IsAt(c, "process")
  BY HeldValues DEF IsAt
<1> QED BY <1>1, <1>2, <1>3, <1>4, <1>5

LEMMA OneStage ==
  ASSUME Places, NEW x, NEW s \in HeldPlace, NEW u \in HeldPlace, IsAt(x, s), IsAt(x, u)
  PROVE  s = u
BY OneHolder DEF IsAt

LEMMA StagesRead == TypeOK /\ Places => StagesArePlaces
<1> SUFFICES ASSUME TypeOK, Places PROVE StagesArePlaces
  OBVIOUS
<1>1. /\ {"meta", "data", "blocker"} \subseteq Read /\ Queue \subseteq HeldPlace
      /\ {"meta_finished", "data_finished", "single_task", "value_finished",
          "process_finished"} \subseteq Queue
      /\ TaskPlace \subseteq HeldPlace /\ SinglePlace \subseteq HeldPlace
  BY DEF Read, Queue, HeldPlace, TaskPlace, SinglePlace
<1>2. ASSUME NEW t \in WatcherTask
      PROVE  TaskStage(t) = CASE IsAt(t, "trail") -> "trail"
                              [] IsAt(t, "arrived") -> "arrived"
                              [] IsAt(t, "meta") -> "meta_read"
                              [] IsAt(t, "meta_finished") -> "meta_finished"
                              [] IsAt(t, "data") -> "data_read"
                              [] IsAt(t, "data_finished") -> "data_finished"
                              [] OTHER -> "expanded"
  BY <1>1, PlacesAre DEF TaskStage
<1>3. ASSUME NEW t \in WatcherTask
      PROVE  /\ \A s \in TaskPlace : IsAt(t, s) => TaskStage(t) = StageOf(s)
             /\ ~NotExpanded(t) <=> TaskStage(t) = "expanded"
  <2>1. \A s, u \in TaskPlace : IsAt(t, s) /\ IsAt(t, u) => s = u
    BY <1>1, OneStage
  <2>2. ASSUME NEW s \in TaskPlace, IsAt(t, s) PROVE TaskStage(t) = StageOf(s)
    <3>1. \A u \in TaskPlace \ {s} : ~IsAt(t, u)
      BY <2>1, <2>2
    <3> QED BY <1>2, <2>2, <3>1 DEF TaskPlace, StageOf
  <2>3. ~NotExpanded(t) => TaskStage(t) = "expanded"
    BY <1>2 DEF NotExpanded, TaskPlace
  <2>4. \A s \in TaskPlace : StageOf(s) # "expanded"
    BY DEF TaskPlace, StageOf
  <2>5. NotExpanded(t) => TaskStage(t) # "expanded"
    BY <2>2, <2>4 DEF NotExpanded
  <2> QED BY <2>2, <2>3, <2>5
<1>4. ASSUME NEW c \in ClauseTask
      PROVE  /\ \A s \in SinglePlace : IsAt(c, s) => SingleStage(c) = StageOf(s)
             /\ (\A s \in SinglePlace : ~IsAt(c, s)) =>
                  SingleStage(c) =
                    IF \E t \in WatcherTask : c \in Range(Singles[t]) /\ NotExpanded(t)
                      THEN "unborn" ELSE "left"
  <2> DEFINE U == \E t \in WatcherTask : c \in Range(Singles[t]) /\ NotExpanded(t)
  <2>1. U <=> \E t \in WatcherTask : Contains(Singles[t], c) /\ TaskStage(t) # "expanded"
    <3>1. \A t \in WatcherTask : Contains(Singles[t], c) <=> c \in Range(Singles[t])
      BY ContainsRange, TasksAssumption
    <3> QED BY <1>3, <3>1
  <2> HIDE DEF U
  <2>2. SingleStage(c) = CASE IsAt(c, "single_task") -> "single_task"
                           [] IsAt(c, "blocker") -> "blocker_read"
                           [] IsAt(c, "value_finished") -> "value_finished"
                           [] IsAt(c, "process") -> "in_process"
                           [] IsAt(c, "process_finished") -> "process_finished"
                           [] OTHER -> IF U THEN "unborn" ELSE "left"
    BY <1>1, <2>1, PlacesAre DEF SingleStage
  <2>3. \A s, u \in SinglePlace : IsAt(c, s) /\ IsAt(c, u) => s = u
    BY <1>1, OneStage
  <2>4. ASSUME NEW s \in SinglePlace, IsAt(c, s) PROVE SingleStage(c) = StageOf(s)
    <3>1. \A u \in SinglePlace \ {s} : ~IsAt(c, u)
      BY <2>3, <2>4
    <3> QED BY <2>2, <2>4, <3>1 DEF SinglePlace, StageOf
  <2>5. (\A s \in SinglePlace : ~IsAt(c, s)) => SingleStage(c) = IF U THEN "unborn" ELSE "left"
    BY <2>2 DEF SinglePlace
  <2> QED BY <2>4, <2>5 DEF U
<1> QED BY <1>3, <1>4 DEF StagesArePlaces

LEMMA StagesReadNext == (TypeOK /\ Places => StagesArePlaces)'
BY StagesRead, PTL

(* The effect of the steps on where a task is.                             *)
LEMMA MovesAre ==
  ASSUME Places, NEW p \in Pe, NEW s \in HeldPlace, NEW u \in HeldPlace, s # u,
         NEW t, t \in Held(p, s), Moves(p, {t}, s, u)
  PROVE  /\ IsAt(t, s) /\ IsAt(t, u)'
         /\ \A x : \A v \in HeldPlace : x # t => (IsAt(x, v)' <=> IsAt(x, v))
         /\ \A x : \A v \in HeldPlace : v \notin {s, u} => (IsAt(x, v)' <=> IsAt(x, v))
         /\ ~IsAt(t, s)'
<1>1. \A o \in Pe, v \in HeldPlace :
        Held(o, v)' = IF o = p /\ v = s THEN Held(o, v) \ {t}
                      ELSE IF o = p /\ v = u THEN Held(o, v) \cup {t}
                      ELSE Held(o, v)
  BY DEF Moves
<1>2. \A o \in Pe : t \in Held(o, s) => o = p
  BY OneHolder
<1> QED BY <1>1, <1>2 DEF IsAt

LEMMA SamePlacesSameStage ==
  ASSUME StagesArePlaces, StagesArePlaces', \A x : \A v \in HeldPlace : IsAt(x, v)' <=> IsAt(x, v)
  PROVE  /\ \A t \in WatcherTask : TaskStage(t)' = TaskStage(t)
         /\ \A c \in ClauseTask : SingleStage(c)' = SingleStage(c)
<1>1. TaskPlace \subseteq HeldPlace /\ SinglePlace \subseteq HeldPlace
  BY DEF HeldPlace
<1>2. \A t : NotExpanded(t)' <=> NotExpanded(t)
  BY <1>1 DEF NotExpanded
<1>3. ASSUME NEW t \in WatcherTask PROVE TaskStage(t)' = TaskStage(t)
  <2>1. CASE NotExpanded(t)
    <3>1. PICK s \in TaskPlace : IsAt(t, s)
      BY <2>1 DEF NotExpanded
    <3> QED BY <1>1, <3>1 DEF StagesArePlaces
  <2>2. CASE ~NotExpanded(t)
    BY <1>2, <2>2 DEF StagesArePlaces
  <2> QED BY <2>1, <2>2
<1>4. ASSUME NEW c \in ClauseTask PROVE SingleStage(c)' = SingleStage(c)
  <2>1. ASSUME NEW s \in SinglePlace, IsAt(c, s) PROVE SingleStage(c)' = SingleStage(c)
    BY <1>1, <2>1 DEF StagesArePlaces
  <2>2. CASE \A s \in SinglePlace : ~IsAt(c, s)
    BY <1>1, <1>2, <2>2 DEF StagesArePlaces
  <2> QED BY <2>1, <2>2
<1> QED BY <1>3, <1>4

LEMMA AfterTaskIs ==
  \A s, u : <<s, u>> \in {<<"trail", "arrived">>, <<"arrived", "meta">>, <<"meta", "meta_finished">>,
                          <<"meta_finished", "data">>, <<"data", "data_finished">>} =>
    /\ s \in TaskPlace /\ u \in TaskPlace /\ s # u
    /\ StageOf(s) \in DOMAIN Stages!AfterTask \ {"data_finished"}
    /\ Stages!AfterTask[StageOf(s)] = StageOf(u)
BY DEF Stages!AfterTask, StageOf, TaskPlace

LEMMA AfterSingleIs ==
  \A s, u : <<s, u>> \in {<<"single_task", "blocker">>, <<"blocker", "value_finished">>,
                          <<"value_finished", "process">>, <<"process", "process_finished">>} =>
    /\ s \in SinglePlace /\ u \in SinglePlace /\ s # u
    /\ StageOf(s) \in DOMAIN Stages!AfterSingle \ {"process_finished"}
    /\ Stages!AfterSingle[StageOf(s)] = StageOf(u)
BY DEF Stages!AfterSingle, StageOf, SinglePlace

LEMMA TaskAdvances ==
  ASSUME Places, StagesArePlaces, StagesArePlaces',
         NEW p \in Pe, NEW s \in TaskPlace, NEW u \in TaskPlace, s # u,
         StageOf(s) \in DOMAIN Stages!AfterTask \ {"data_finished"},
         Stages!AfterTask[StageOf(s)] = StageOf(u),
         NEW t \in WatcherTask, t \in Held(p, s), Moves(p, {t}, s, u),
         UNCHANGED current_level_finished_tasks
  PROVE  Stages!AdvanceTask(t)
<1>1. /\ TaskPlace \subseteq HeldPlace /\ SinglePlace \subseteq HeldPlace
      /\ TaskPlace \cap SinglePlace = {}
  BY DEF HeldPlace, TaskPlace, SinglePlace
<1>2. /\ IsAt(t, s) /\ IsAt(t, u)'
      /\ \A x : \A v \in HeldPlace : x # t => (IsAt(x, v)' <=> IsAt(x, v))
      /\ \A x : \A v \in SinglePlace : IsAt(x, v)' <=> IsAt(x, v)
  BY <1>1, MovesAre
<1>3. TaskStage(t) = StageOf(s) /\ TaskStage(t)' = StageOf(u)
  BY <1>2 DEF StagesArePlaces
<1>4. \A x : NotExpanded(x)' <=> NotExpanded(x)
  BY <1>1, <1>2 DEF NotExpanded
<1>5. ASSUME NEW x \in WatcherTask, x # t PROVE TaskStage(x)' = TaskStage(x)
  <2>1. CASE NotExpanded(x)
    <3>1. PICK v \in TaskPlace : IsAt(x, v)
      BY <2>1 DEF NotExpanded
    <3> QED BY <1>1, <1>2, <1>5, <3>1 DEF StagesArePlaces
  <2>2. CASE ~NotExpanded(x)
    BY <1>4, <2>2 DEF StagesArePlaces
  <2> QED BY <2>1, <2>2
<1>6. ASSUME NEW c \in ClauseTask PROVE SingleStage(c)' = SingleStage(c)
  <2>1. ASSUME NEW v \in SinglePlace, IsAt(c, v) PROVE SingleStage(c)' = SingleStage(c)
    BY <1>2, <2>1 DEF StagesArePlaces
  <2>2. CASE \A v \in SinglePlace : ~IsAt(c, v)
    BY <1>2, <1>4, <2>2 DEF StagesArePlaces
  <2> QED BY <2>1, <2>2
<1> QED BY <1>3, <1>5, <1>6 DEF Stages!AdvanceTask

LEMMA SingleAdvances ==
  ASSUME Places, StagesArePlaces, StagesArePlaces',
         NEW p \in Pe, NEW s \in SinglePlace, NEW u \in SinglePlace, s # u,
         StageOf(s) \in DOMAIN Stages!AfterSingle \ {"process_finished"},
         Stages!AfterSingle[StageOf(s)] = StageOf(u),
         NEW c \in ClauseTask, c \in Held(p, s), Moves(p, {c}, s, u),
         UNCHANGED current_level_finished_tasks
  PROVE  Stages!AdvanceSingle(c)
<1>1. /\ TaskPlace \subseteq HeldPlace /\ SinglePlace \subseteq HeldPlace
      /\ TaskPlace \cap SinglePlace = {}
  BY DEF HeldPlace, TaskPlace, SinglePlace
<1>2. /\ IsAt(c, s) /\ IsAt(c, u)'
      /\ \A x : \A v \in HeldPlace : x # c => (IsAt(x, v)' <=> IsAt(x, v))
      /\ \A x : \A v \in TaskPlace : IsAt(x, v)' <=> IsAt(x, v)
  <2>1. s \in HeldPlace /\ u \in HeldPlace
    BY <1>1
  <2>2. /\ IsAt(c, s) /\ IsAt(c, u)'
        /\ \A x : \A v \in HeldPlace : x # c => (IsAt(x, v)' <=> IsAt(x, v))
        /\ \A x : \A v \in HeldPlace : v \notin {s, u} => (IsAt(x, v)' <=> IsAt(x, v))
    BY <2>1, MovesAre
  <2> QED BY <1>1, <2>2
<1>3. SingleStage(c) = StageOf(s) /\ SingleStage(c)' = StageOf(u)
  BY <1>2 DEF StagesArePlaces
<1>4. \A x : NotExpanded(x)' <=> NotExpanded(x)
  BY <1>2 DEF NotExpanded
<1>5. ASSUME NEW x \in WatcherTask PROVE TaskStage(x)' = TaskStage(x)
  <2>1. CASE NotExpanded(x)
    <3>1. PICK v \in TaskPlace : IsAt(x, v)
      BY <2>1 DEF NotExpanded
    <3> QED BY <1>2, <3>1 DEF StagesArePlaces
  <2>2. CASE ~NotExpanded(x)
    BY <1>4, <2>2 DEF StagesArePlaces
  <2> QED BY <2>1, <2>2
<1>6. ASSUME NEW x \in ClauseTask, x # c PROVE SingleStage(x)' = SingleStage(x)
  <2>1. ASSUME NEW v \in SinglePlace, IsAt(x, v) PROVE SingleStage(x)' = SingleStage(x)
    BY <1>1, <1>2, <1>6, <2>1 DEF StagesArePlaces
  <2>2. CASE \A v \in SinglePlace : ~IsAt(x, v)
    BY <1>1, <1>2, <1>4, <1>6, <2>2 DEF StagesArePlaces
  <2> QED BY <2>1, <2>2
<1> QED BY <1>3, <1>5, <1>6 DEF Stages!AdvanceSingle

(* The list of a single watcher that is somewhere has been expanded, and    *)
(* the single watchers of a list that has not are nowhere.                  *)
LEMMA BornAreExpanded ==
  ASSUME Places, NEW c \in ClauseTask, NEW w \in SinglePlace, IsAt(c, w),
         NEW t \in WatcherTask, c \in Range(Singles[t]), NotExpanded(t)
  PROVE  FALSE
<1>1. TaskPlace \subseteq HeldPlace /\ SinglePlace \subseteq HeldPlace
  BY DEF HeldPlace
<1>2. PICK o \in Pe : c \in Held(o, w)
  BY DEF IsAt
<1>3. PICK v \in TaskPlace : IsAt(t, v)
  BY DEF NotExpanded
<1>4. PICK p \in Pe : t \in Held(p, v)
  BY <1>3 DEF IsAt
<1>5. t \in TasksOf(p) /\ c \in TasksOf(o)
  BY <1>1, <1>2, <1>4 DEF Places, AtHome
<1>6. HomePe[t] = p
  <2>1. PICK u \in WatcherTask : HomePe[u] = p /\ t \in {u} \cup Range(Singles[u])
    BY <1>5 DEF TasksOf
  <2>2. Range(Singles[u]) \subseteq ClauseTask
    BY RangeOfSeq, TasksAssumption
  <2> QED BY <2>1, <2>2, DistinctTasks
<1>7. c \in TasksOf(p)
  BY <1>6 DEF TasksOf
<1>8. o = p
  BY <1>5, <1>7, TasksOfDisjoint
<1> QED BY <1>2, <1>4, <1>8 DEF Places, NotBorn

LEMMA SingleLeaves ==
  ASSUME Places, StagesArePlaces, StagesArePlaces',
         NEW p \in Pe, NEW c \in ClauseTask, c \in Held(p, "process_finished"),
         Leaves(p, {c}, "process_finished"),
         current_level_finished_tasks' =
           IF c \in HasClauseData THEN current_level_finished_tasks
                                  ELSE current_level_finished_tasks + 1
  PROVE  Stages!AdvanceSingle(c)
<1>1. /\ TaskPlace \subseteq HeldPlace /\ SinglePlace \subseteq HeldPlace
      /\ TaskPlace \cap SinglePlace = {} /\ "process_finished" \in SinglePlace
  BY DEF HeldPlace, TaskPlace, SinglePlace
<1>2. \A o \in Pe : \A v \in HeldPlace :
        Held(o, v)' = IF o = p /\ v = "process_finished" THEN Held(o, v) \ {c} ELSE Held(o, v)
  BY DEF Leaves
<1>3. \A o \in Pe, v \in HeldPlace : c \in Held(o, v) => o = p /\ v = "process_finished"
  BY <1>1, OneHolder
<1>4. /\ IsAt(c, "process_finished") /\ \A v \in HeldPlace : ~IsAt(c, v)'
      /\ \A x : \A v \in HeldPlace : x # c => (IsAt(x, v)' <=> IsAt(x, v))
      /\ \A x : \A v \in TaskPlace : IsAt(x, v)' <=> IsAt(x, v)
  BY <1>1, <1>2, <1>3 DEF IsAt
<1>5. \A x : NotExpanded(x)' <=> NotExpanded(x)
  BY <1>4 DEF NotExpanded
<1>6. SingleStage(c) = "process_finished"
  BY <1>1, <1>4 DEF StagesArePlaces, StageOf
<1>7. SingleStage(c)' = "left"
  <2>1. \A t \in WatcherTask : c \in Range(Singles[t]) => ~NotExpanded(t)
    BY <1>1, <1>4, BornAreExpanded
  <2> QED BY <1>1, <1>4, <1>5, <2>1 DEF StagesArePlaces
<1>8. ASSUME NEW x \in WatcherTask PROVE TaskStage(x)' = TaskStage(x)
  <2>1. CASE NotExpanded(x)
    <3>1. PICK v \in TaskPlace : IsAt(x, v)
      BY <2>1 DEF NotExpanded
    <3> QED BY <1>4, <3>1 DEF StagesArePlaces
  <2>2. CASE ~NotExpanded(x)
    BY <1>5, <2>2 DEF StagesArePlaces
  <2> QED BY <2>1, <2>2
<1>9. ASSUME NEW x \in ClauseTask, x # c PROVE SingleStage(x)' = SingleStage(x)
  <2>1. ASSUME NEW v \in SinglePlace, IsAt(x, v) PROVE SingleStage(x)' = SingleStage(x)
    BY <1>1, <1>4, <1>9, <2>1 DEF StagesArePlaces
  <2>2. CASE \A v \in SinglePlace : ~IsAt(x, v)
    BY <1>1, <1>4, <1>5, <1>9, <2>2 DEF StagesArePlaces
  <2> QED BY <2>1, <2>2
<1>10. "process_finished" \in DOMAIN Stages!AfterSingle
       /\ Stages!AfterSingle["process_finished"] = "left"
  BY DEF Stages!AfterSingle
<1> QED BY <1>6, <1>7, <1>8, <1>9, <1>10 DEF Stages!AdvanceSingle

LEMMA TaskExpands ==
  ASSUME Places, StagesArePlaces, StagesArePlaces',
         NEW p \in Pe, NEW t \in WatcherTask, Expands(p, t),
         current_level_finished_tasks' = current_level_finished_tasks + 1
  PROVE  Stages!ExpandTask(t)
<1>1. /\ TaskPlace \subseteq HeldPlace /\ SinglePlace \subseteq HeldPlace
      /\ TaskPlace \cap SinglePlace = {}
      /\ "data_finished" \in TaskPlace /\ "single_task" \in SinglePlace
  BY DEF HeldPlace, TaskPlace, SinglePlace
<1>2. \A o \in Pe : \A v \in HeldPlace :
        Held(o, v)' = IF o = p /\ v = "data_finished" THEN Held(o, v) \ {t}
                      ELSE IF o = p /\ v = "single_task" THEN Held(o, v) \cup Range(Singles[t])
                      ELSE Held(o, v)
  BY DEF Expands
<1>3. /\ t \in Held(p, "data_finished")
      /\ \A o \in Pe, v \in HeldPlace : t \in Held(o, v) => o = p /\ v = "data_finished"
  BY <1>1, OneHolder DEF Expands
<1>4. /\ IsAt(t, "data_finished") /\ \A v \in TaskPlace : ~IsAt(t, v)'
      /\ \A x : \A v \in TaskPlace : x # t => (IsAt(x, v)' <=> IsAt(x, v))
  BY <1>1, <1>2, <1>3 DEF IsAt
<1>5. \A x : \A v \in SinglePlace : x \notin Range(Singles[t]) => (IsAt(x, v)' <=> IsAt(x, v))
  BY <1>1, <1>2 DEF IsAt
<1>6. \A x \in Range(Singles[t]) : IsAt(x, "single_task")'
  BY <1>1, <1>2 DEF IsAt
<1>7. NotExpanded(t) /\ ~NotExpanded(t)' /\ \A x : x # t => (NotExpanded(x)' <=> NotExpanded(x))
  BY <1>1, <1>4 DEF NotExpanded
<1>8. TaskStage(t) = "data_finished" /\ TaskStage(t)' = "expanded"
  BY <1>1, <1>4, <1>7 DEF StagesArePlaces, StageOf
<1>9. ASSUME NEW x \in WatcherTask, x # t PROVE TaskStage(x)' = TaskStage(x)
  <2>1. CASE NotExpanded(x)
    <3>1. PICK v \in TaskPlace : IsAt(x, v)
      BY <2>1 DEF NotExpanded
    <3> QED BY <1>4, <1>9, <3>1 DEF StagesArePlaces
  <2>2. CASE ~NotExpanded(x)
    BY <1>7, <1>9, <2>2 DEF StagesArePlaces
  <2> QED BY <2>1, <2>2
<1>10. Range(Singles[t]) \subseteq ClauseTask
  BY RangeOfSeq, TasksAssumption
<1>11. ASSUME NEW c \in Range(Singles[t])
       PROVE  SingleStage(c) = "unborn" /\ SingleStage(c)' = "single_task"
  <2>1. c \in ClauseTask
    BY <1>10
  <2>2. \A w \in SinglePlace : ~IsAt(c, w)
    BY <1>7, <2>1, BornAreExpanded
  <2>3. SingleStage(c) = "unborn"
    BY <1>7, <2>1, <2>2 DEF StagesArePlaces
  <2>4. SingleStage(c)' = "single_task"
    BY <1>1, <1>6, <2>1 DEF StagesArePlaces, StageOf
  <2> QED BY <2>3, <2>4
<1>12. ASSUME NEW c \in ClauseTask, c \notin Range(Singles[t])
       PROVE  SingleStage(c)' = SingleStage(c)
  <2>1. ASSUME NEW v \in SinglePlace, IsAt(c, v) PROVE SingleStage(c)' = SingleStage(c)
    BY <1>5, <1>12, <2>1 DEF StagesArePlaces
  <2>2. CASE \A v \in SinglePlace : ~IsAt(c, v)
    BY <1>5, <1>7, <1>12, <2>2 DEF StagesArePlaces
  <2> QED BY <2>1, <2>2
<1>13. ToSet(Singles[t]) = Range(Singles[t])
  BY DEF ToSet, Range
<1> QED BY <1>8, <1>9, <1>10, <1>11, <1>12, <1>13 DEF Stages!ExpandTask

LEMMA InitStages == EnvInit => Stages!StagesInit
<1> SUFFICES ASSUME EnvInit PROVE Stages!StagesInit
  OBVIOUS
<1>1. StagesArePlaces
  BY InitStart, InitIInv, InitPInv, StagesRead DEF IInv, PInv
<1>2. \A p \in Pe : /\ Held(p, "trail") = {t \in WatcherTask : HomePe[t] = p}
                    /\ \A v \in SinglePlace : Held(p, v) = {}
  <2>1. Range(<<>>) = {}
    BY EmptySeq DEF Range
  <2> QED BY <2>1, HeldValues DEF SinglePlace, Read, Queue, EnvInit, Init
<1>3. \A t \in WatcherTask : IsAt(t, "trail") /\ "trail" \in TaskPlace
  BY <1>2, EnvAssumption DEF IsAt, TaskPlace
<1>4. \A t \in WatcherTask : TaskStage(t) = "trail"
  BY <1>1, <1>3 DEF StagesArePlaces, StageOf
<1>5. ASSUME NEW c \in ClauseTask PROVE SingleStage(c) = "unborn"
  <2>1. PICK t \in WatcherTask : Contains(Singles[t], c)
    BY SinglesListed
  <2>2. c \in Range(Singles[t])
    BY <2>1, ContainsRange, TasksAssumption
  <2>3. NotExpanded(t) /\ \A w \in SinglePlace : ~IsAt(c, w)
    BY <1>2, <1>3 DEF NotExpanded, IsAt
  <2> QED BY <1>1, <2>2, <2>3 DEF StagesArePlaces
<1> QED BY <1>4, <1>5 DEF Stages!StagesInit, EnvInit, Init

LEMMA NextStages ==
  TypeOK /\ PInv /\ StagesArePlaces /\ StagesArePlaces' /\ [Next]_vars
    => [Stages!StagesNext]_(Stages!stagesVars)
<1> SUFFICES ASSUME TypeOK, PInv, StagesArePlaces, StagesArePlaces', [Next]_vars
             PROVE  Stages!StagesNext \/ UNCHANGED Stages!stagesVars
  OBVIOUS
<1>0. Places
  BY DEF PInv
<1>1. ASSUME \A p \in Pe : \A v \in HeldPlace : Held(p, v)' = Held(p, v),
             UNCHANGED current_level_finished_tasks
      PROVE  UNCHANGED Stages!stagesVars
  <2>1. \A x : \A v \in HeldPlace : IsAt(x, v)' <=> IsAt(x, v)
    BY <1>1 DEF IsAt
  <2>2. /\ \A t \in WatcherTask : TaskStage(t)' = TaskStage(t)
        /\ \A c \in ClauseTask : SingleStage(c)' = SingleStage(c)
    BY <2>1, SamePlacesSameStage
  <2> QED BY <1>1, <2>2 DEF Stages!stagesVars
<1>2. ASSUME NEW p \in Pe, NEW s, NEW u, NEW t \in WatcherTask,
             <<s, u>> \in {<<"trail", "arrived">>, <<"arrived", "meta">>, <<"meta", "meta_finished">>,
                           <<"meta_finished", "data">>, <<"data", "data_finished">>},
             t \in Held(p, s), Moves(p, {t}, s, u), UNCHANGED current_level_finished_tasks
      PROVE  Stages!StagesNext
  <2>1. Stages!AdvanceTask(t)
    BY <1>0, <1>2, AfterTaskIs, TaskAdvances
  <2> QED BY <2>1 DEF Stages!StagesNext
<1>3. ASSUME NEW p \in Pe, NEW s, NEW u, NEW c \in ClauseTask,
             <<s, u>> \in {<<"single_task", "blocker">>, <<"blocker", "value_finished">>,
                           <<"value_finished", "process">>, <<"process", "process_finished">>},
             c \in Held(p, s), Moves(p, {c}, s, u), UNCHANGED current_level_finished_tasks
      PROVE  Stages!StagesNext
  <2>1. Stages!AdvanceSingle(c)
    BY <1>0, <1>3, AfterSingleIs, SingleAdvances
  <2> QED BY <2>1 DEF Stages!StagesNext
<1>4. CASE TrailSends
  <2>1. PICK t \in pending : Moves(HomePe[t], {t}, "trail", "arrived")
    BY <1>4, TrailSendsMoves
  <2>2. t \in WatcherTask /\ HomePe[t] \in Pe
    BY EnvAssumption DEF TypeOK
  <2>3. t \in Held(HomePe[t], "trail")
    BY <2>1 DEF Moves
  <2> QED BY <1>2, <1>4, <2>1, <2>2, <2>3 DEF TrailSends
<1>5. CASE NetworksTake \/ MemoryReplies \/ OthersSend \/ UNCHANGED vars
  <2>1. UNCHANGED <<pending, watcher_task_receiver, mem_req_id_to_task, queue,
                    current_processing_task, current_level_finished_tasks>>
    BY <1>5 DEF NetworksTake, MemoryReplies, OthersSend, vars, watcherVars, envVars
  <2>2. \A p \in Pe : \A v \in HeldPlace : Held(p, v)' = Held(p, v)
    BY <2>1, SameHeld
  <2> QED BY <1>1, <2>1, <2>2
<1>6. ASSUME NEW p \in Pe, Step(p), UNCHANGED envVars
      PROVE  Stages!StagesNext \/ UNCHANGED Stages!stagesVars
  <2>1. ASSUME NEW k \in Read, StartRead(p, k) PROVE Stages!StagesNext
    <3>1. PICK t : t = Head(Input(p, k))
      OBVIOUS
    <3>2. /\ t \in TaskOf(k) /\ t \in Held(p, Source(k)) /\ Moves(p, {t}, Source(k), k)
          /\ UNCHANGED current_level_finished_tasks
      BY <1>6, <2>1, <3>1, StartReadMoves DEF StartRead
    <3>3. CASE k = "blocker"
      BY <1>3, <3>2, <3>3 DEF TaskOf, Source, InputQueue
    <3>4. CASE k \in {"meta", "data"}
      BY <1>2, <3>2, <3>4 DEF TaskOf, Source, InputQueue
    <3> QED BY <3>3, <3>4 DEF Read
  <2>2. CASE Reply(p)
    <3>1. PICK k \in Read : \E t \in TaskOf(k) :
            t \in mem_req_id_to_task[p][k] /\ Moves(p, {t}, k, Output[k])
      BY <1>6, <2>2, ReplyMoves
    <3>2. PICK t \in TaskOf(k) : Moves(p, {t}, k, Output[k])
      BY <3>1
    <3>3. t \in Held(p, k) /\ UNCHANGED current_level_finished_tasks
      BY <2>2, <3>2 DEF Moves, Reply
    <3>4. CASE k = "blocker"
      BY <1>3, <3>2, <3>3, <3>4 DEF TaskOf, Output
    <3>5. CASE k \in {"meta", "data"}
      BY <1>2, <3>2, <3>3, <3>5 DEF TaskOf, Output
    <3> QED BY <3>4, <3>5 DEF Read
  <2>3. CASE Expand(p)
    <3>1. PICK t : t = Head(queue[p]["data_finished"])
      OBVIOUS
    <3>2. t \in WatcherTask /\ Expands(p, t)
      BY <1>6, <2>3, <3>1, ExpandExpands
    <3>3. Stages!ExpandTask(t)
      BY <1>0, <2>3, <3>2, TaskExpands DEF Expand
    <3> QED BY <3>2, <3>3 DEF Stages!StagesNext
  <2>4. CASE Process(p)
    <3>1. PICK c : c = current_processing_task[p].task
      OBVIOUS
    <3>2. UNCHANGED current_level_finished_tasks
      BY <2>4 DEF Process
    <3>3. \/ \A o \in Pe : \A v \in HeldPlace : Held(o, v)' = Held(o, v)
          \/ c \in Held(p, "process") /\ Moves(p, {c}, "process", "process_finished")
      BY <1>6, <2>4, <3>1, ProcessMoves
    <3>4. Held(p, "process") \subseteq ClauseTask
      BY HeldTypes DEF SinglePlace
    <3> QED BY <1>1, <1>3, <3>2, <3>3, <3>4
  <2>5. CASE StartProcess(p)
    <3>1. PICK c : c = Head(queue[p]["value_finished"])
      OBVIOUS
    <3>2. UNCHANGED current_level_finished_tasks
      BY <2>5 DEF StartProcess
    <3>3. c \in Held(p, "value_finished") /\ Moves(p, {c}, "value_finished", "process")
      BY <1>6, <2>5, <3>1, StartProcessMoves
    <3>4. Held(p, "value_finished") \subseteq ClauseTask
      BY HeldTypes DEF SinglePlace
    <3> QED BY <1>3, <3>2, <3>3, <3>4
  <2>6. CASE SendClause(p)
    <3>1. PICK c : c = Head(queue[p]["process_finished"])
      OBVIOUS
    <3>2. \/ /\ \A o \in Pe : \A v \in HeldPlace : Held(o, v)' = Held(o, v)
             /\ UNCHANGED current_level_finished_tasks
          \/ /\ c \in Held(p, "process_finished") /\ Leaves(p, {c}, "process_finished")
             /\ current_level_finished_tasks' =
                  IF c \in HasClauseData THEN current_level_finished_tasks
                                         ELSE current_level_finished_tasks + 1
      BY <1>6, <2>6, <3>1, SendClauseLeaves
    <3>3. Held(p, "process_finished") \subseteq ClauseTask
      BY HeldTypes DEF SinglePlace
    <3> QED BY <1>0, <1>1, <3>2, <3>3, SingleLeaves DEF Stages!StagesNext
  <2>7. ASSUME \/ \E k \in Read : ReadBlocked(p, k)
               \/ Skip(p)
        PROVE  UNCHANGED Stages!stagesVars
    <3>1. UNCHANGED <<queue, watcher_task_receiver>>
      BY <1>6, <2>7, ReadBlockedPInv DEF Skip
    <3>2. UNCHANGED <<pending, mem_req_id_to_task, current_processing_task,
                      current_level_finished_tasks>>
      BY <1>6, <2>7 DEF Skip, ReadBlocked, envVars
    <3>3. \A o \in Pe : \A v \in HeldPlace : Held(o, v)' = Held(o, v)
      BY <3>1, <3>2, SameHeld
    <3> QED BY <1>1, <3>2, <3>3
  <2> QED BY <1>6, <2>1, <2>2, <2>3, <2>4, <2>5, <2>6, <2>7 DEF Step
<1>7. ASSUME NEW p \in Pe, NEW d \in Elapsed, Call(p, d), UNCHANGED envVars
      PROVE  UNCHANGED Stages!stagesVars
  <2>1. \A o \in Pe : \A v \in HeldPlace : Held(o, v)' = Held(o, v)
    BY <1>7, CallHeld
  <2> QED BY <1>1, <1>7, <2>1 DEF Call
<1> QED BY <1>4, <1>5, <1>6, <1>7 DEF Next, EnvNext, WatcherNext

(* The watcher implements its promise (watcher.rs:84-311): no task is lost, *)
(* doubled or put back, its single watchers come to be when it is expanded, *)
(* and the counter of finished tasks counts exactly the work ended here.    *)
THEOREM WatcherImplementsStages == Spec => ImplementsStages
<1>1. TypeOK /\ PInv => StagesArePlaces
  BY StagesRead DEF PInv
<1>2. IInv => TypeOK
  BY DEF IInv
<1>3. Spec => [](TypeOK /\ PInv)
  BY InitStart, InitIInv, NextIInv, InitPInv, NextPInv, <1>2, PTL DEF Spec
<1> QED BY InitStages, NextStages, <1>1, <1>3, PTL
        DEF Spec, ImplementsStages, Stages!StagesSpec
-----------------------------------------------------------------------------
(* What System needs for the level barrier: the work that is to be finished  *)
(* here, and that the counter goes up with each piece of it that is.         *)

Unfinished == {t \in WatcherTask : NotExpanded(t)} \cup (Upstream \ HasClauseData)

LEMMA UnfinishedStages ==
  ASSUME TypeOK, StagesArePlaces
  PROVE  /\ Unfinished \subseteq WatcherTask \cup (ClauseTask \ HasClauseData)
         /\ \A t \in WatcherTask : t \in Unfinished <=> TaskStage(t) # "expanded"
         /\ \A c \in ClauseTask \ HasClauseData : c \in Unfinished <=> SingleStage(c) # "left"
<1>1. Upstream \subseteq ClauseTask
  BY DEF Upstream
<1>2. /\ \A s \in TaskPlace : StageOf(s) # "expanded"
      /\ \A s \in SinglePlace : StageOf(s) # "left"
  BY DEF TaskPlace, SinglePlace, StageOf
<1>3. ASSUME NEW t \in WatcherTask PROVE NotExpanded(t) <=> TaskStage(t) # "expanded"
  BY <1>2 DEF StagesArePlaces, NotExpanded
<1>4. ASSUME NEW c \in ClauseTask PROVE c \in Upstream <=> SingleStage(c) # "left"
  <2>1. c \in Upstream <=> \/ \E s \in SinglePlace : IsAt(c, s)
                          \/ \E s \in TaskPlace : \E t : IsAt(t, s) /\ c \in Range(Singles[t])
    BY DEF Upstream, IsAt
  <2>2. CASE \E s \in SinglePlace : IsAt(c, s)
    BY <1>2, <2>1, <2>2 DEF StagesArePlaces
  <2>3. CASE \A s \in SinglePlace : ~IsAt(c, s)
    <3>1. SingleStage(c) # "left" <=>
            \E t \in WatcherTask : c \in Range(Singles[t]) /\ NotExpanded(t)
      BY <2>3 DEF StagesArePlaces
    <3>2. \A s \in TaskPlace : \A t : IsAt(t, s) => t \in WatcherTask
      BY HeldTypes DEF IsAt
    <3> QED BY <2>1, <2>3, <3>1, <3>2 DEF NotExpanded
  <2> QED BY <2>2, <2>3
<1> QED BY <1>1, <1>3, <1>4, DistinctTasks DEF Unfinished

LEMMA UnfinishedStagesNext ==
  ASSUME TypeOK', StagesArePlaces'
  PROVE  /\ Unfinished' \subseteq WatcherTask \cup (ClauseTask \ HasClauseData)
         /\ \A t \in WatcherTask : t \in Unfinished' <=> TaskStage(t)' # "expanded"
         /\ \A c \in ClauseTask \ HasClauseData : c \in Unfinished' <=> SingleStage(c)' # "left"
<1>1. (TypeOK /\ StagesArePlaces =>
        /\ Unfinished \subseteq WatcherTask \cup (ClauseTask \ HasClauseData)
        /\ \A t \in WatcherTask : t \in Unfinished <=> TaskStage(t) # "expanded"
        /\ \A c \in ClauseTask \ HasClauseData : c \in Unfinished <=> SingleStage(c) # "left")'
  BY UnfinishedStages, PTL
<1> QED BY <1>1

LEMMA NextUnfinished ==
  ASSUME TypeOK, PInv, TypeOK', PInv', [Next]_vars
  PROVE  \/ /\ Unfinished' = Unfinished
            /\ current_level_finished_tasks' = current_level_finished_tasks
         \/ /\ \E w \in Unfinished : Unfinished' = Unfinished \ {w}
            /\ current_level_finished_tasks' = current_level_finished_tasks + 1
<1>1. StagesArePlaces /\ StagesArePlaces'
  BY StagesRead, StagesReadNext DEF PInv
<1>2. /\ Unfinished \subseteq WatcherTask \cup (ClauseTask \ HasClauseData)
      /\ Unfinished' \subseteq WatcherTask \cup (ClauseTask \ HasClauseData)
      /\ \A t \in WatcherTask : (t \in Unfinished <=> TaskStage(t) # "expanded")
                              /\ (t \in Unfinished' <=> TaskStage(t)' # "expanded")
      /\ \A c \in ClauseTask \ HasClauseData : (c \in Unfinished <=> SingleStage(c) # "left")
                                             /\ (c \in Unfinished' <=> SingleStage(c)' # "left")
  BY <1>1, UnfinishedStages, UnfinishedStagesNext
<1>3. [Stages!StagesNext]_(Stages!stagesVars)
  BY <1>1, NextStages
<1>4. ASSUME \A t \in WatcherTask : TaskStage(t)' # "expanded" <=> TaskStage(t) # "expanded",
             \A c \in ClauseTask \ HasClauseData :
               SingleStage(c)' # "left" <=> SingleStage(c) # "left"
      PROVE  Unfinished' = Unfinished
  BY <1>2, <1>4
<1>5. ASSUME UNCHANGED <<[t \in WatcherTask |-> TaskStage(t)],
                         [c \in ClauseTask |-> SingleStage(c)]>>
      PROVE  Unfinished' = Unfinished
  <2>1. \A t \in WatcherTask : TaskStage(t)' = TaskStage(t)
    BY <1>5
  <2>2. \A c \in ClauseTask : SingleStage(c)' = SingleStage(c)
    BY <1>5
  <2> QED BY <1>4, <2>1, <2>2
<1>6. ASSUME NEW t \in WatcherTask, Stages!AdvanceTask(t)
      PROVE  Unfinished' = Unfinished /\ UNCHANGED current_level_finished_tasks
  <2>1. /\ TaskStage(t) \in DOMAIN Stages!AfterTask \ {"data_finished"}
        /\ TaskStage(t)' = Stages!AfterTask[TaskStage(t)]
        /\ \A u \in WatcherTask \ {t} : TaskStage(u)' = TaskStage(u)
    BY <1>6 DEF Stages!AdvanceTask
  <2>2. \A c \in ClauseTask : SingleStage(c)' = SingleStage(c)
    BY <1>6 DEF Stages!AdvanceTask
  <2>3. TaskStage(t)' # "expanded" /\ TaskStage(t) # "expanded"
    BY <2>1 DEF Stages!AfterTask
  <2> QED BY <1>4, <1>6, <2>1, <2>2, <2>3 DEF Stages!AdvanceTask
<1>7. ASSUME NEW t \in WatcherTask, Stages!ExpandTask(t)
      PROVE  /\ t \in Unfinished /\ Unfinished' = Unfinished \ {t}
             /\ current_level_finished_tasks' = current_level_finished_tasks + 1
  <2>1. /\ TaskStage(t) = "data_finished" /\ TaskStage(t)' = "expanded"
        /\ \A u \in WatcherTask \ {t} : TaskStage(u)' = TaskStage(u)
    BY <1>7 DEF Stages!ExpandTask
  <2>2. /\ \A c \in ToSet(Singles[t]) : c \in ClauseTask => SingleStage(c) = "unborn"
        /\ \A c \in ClauseTask :
             SingleStage(c)' = IF c \in ToSet(Singles[t]) THEN "single_task" ELSE SingleStage(c)
    BY <1>7 DEF Stages!ExpandTask
  <2>3. \A c \in ClauseTask : SingleStage(c)' # "left" <=> SingleStage(c) # "left"
    BY <2>2
  <2>4. Unfinished' = Unfinished \ {t} /\ t \in Unfinished
    BY <1>2, <2>1, <2>3, DistinctTasks
  <2> QED BY <1>7, <2>4 DEF Stages!ExpandTask
<1>8. ASSUME NEW c \in ClauseTask, Stages!AdvanceSingle(c)
      PROVE  \/ /\ Unfinished' = Unfinished /\ UNCHANGED current_level_finished_tasks
             \/ /\ c \in Unfinished /\ Unfinished' = Unfinished \ {c}
                /\ current_level_finished_tasks' = current_level_finished_tasks + 1
  <2>1. /\ SingleStage(c) \in DOMAIN Stages!AfterSingle
        /\ SingleStage(c)' = Stages!AfterSingle[SingleStage(c)]
        /\ \A d \in ClauseTask \ {c} : SingleStage(d)' = SingleStage(d)
        /\ current_level_finished_tasks' =
             IF SingleStage(c) = "process_finished" /\ c \notin HasClauseData
               THEN current_level_finished_tasks + 1 ELSE current_level_finished_tasks
    BY <1>8 DEF Stages!AdvanceSingle
  <2>2. \A t \in WatcherTask : TaskStage(t)' = TaskStage(t)
    BY <1>8 DEF Stages!AdvanceSingle
  <2>3. SingleStage(c) # "left"
        /\ (SingleStage(c)' = "left" <=> SingleStage(c) = "process_finished")
    BY <2>1 DEF Stages!AfterSingle
  <2>4. CASE SingleStage(c) = "process_finished" /\ c \notin HasClauseData
    <3>1. c \in Unfinished /\ Unfinished' = Unfinished \ {c}
      BY <1>2, <2>1, <2>2, <2>3, <2>4, DistinctTasks
    <3> QED BY <2>1, <2>4, <3>1
  <2>5. CASE ~(SingleStage(c) = "process_finished" /\ c \notin HasClauseData)
    <3>1. Unfinished' = Unfinished
      BY <1>4, <2>1, <2>2, <2>3, <2>5
    <3> QED BY <2>1, <2>5, <3>1
  <2> QED BY <2>4, <2>5
<1> QED BY <1>3, <1>5, <1>6, <1>7, <1>8 DEF Stages!StagesNext, Stages!stagesVars

LEMMA UnfinishedTypes ==
  ASSUME TypeOK, PInv
  PROVE  Unfinished \subseteq WatcherTask \cup (ClauseTask \ HasClauseData)
BY UnfinishedStages, StagesRead DEF PInv

LEMMA UnchangedUnfinished ==
  ASSUME UNCHANGED <<pending, watcher_task_receiver, mem_req_id_to_task, queue,
                     current_processing_task>>
  PROVE  Unfinished' = Unfinished
<1>1. Upstream' = Upstream
  BY UnchangedUpstream
<1>2. \A p, s : Held(p, s)' = Held(p, s)
  BY DEF Held
<1> QED BY <1>1, <1>2 DEF Unfinished, NotExpanded, IsAt

\* A task the trail has sent, and a single watcher that has come to be.
Started(t) == \E s \in TaskPlace \ {"trail"} : IsAt(t, s)
Born(c) == \E s \in SinglePlace : IsAt(c, s)

LEMMA StartedBorn ==
  ASSUME TypeOK
  PROVE  /\ \A t : Started(t) <=>
              \E p \in Pe :
                \/ \E ch \in {watcher_task_receiver[p], queue[p]["meta_finished"],
                              queue[p]["data_finished"]} : Contains(ch, t)
                \/ \E k \in {"meta", "data"} : t \in mem_req_id_to_task[p][k]
         /\ \A c : Born(c) <=>
              \E p \in Pe :
                \/ \E ch \in {queue[p]["single_task"], queue[p]["value_finished"],
                              queue[p]["process_finished"]} : Contains(ch, c)
                \/ c \in mem_req_id_to_task[p]["blocker"]
                \/ /\ current_processing_task[p] # None
                   /\ current_processing_task[p].task = c
<1>1. /\ {"meta", "data", "blocker"} \subseteq Read
      /\ {"meta_finished", "data_finished", "single_task", "value_finished",
          "process_finished"} \subseteq Queue
      /\ TaskPlace \ {"trail"} = {"arrived", "meta", "meta_finished", "data", "data_finished"}
  BY DEF Read, Queue, TaskPlace
<1>2. ASSUME NEW p \in Pe, NEW x
      PROVE  /\ x \in Held(p, "arrived") <=> Contains(watcher_task_receiver[p], x)
             /\ \A q \in Queue : x \in Held(p, q) <=> Contains(queue[p][q], x)
             /\ \A k \in Read : x \in Held(p, k) <=> x \in mem_req_id_to_task[p][k]
             /\ x \in Held(p, "process") <=>
                  current_processing_task[p] # None /\ current_processing_task[p].task = x
  <2>1. /\ x \in Range(watcher_task_receiver[p]) <=> Contains(watcher_task_receiver[p], x)
        /\ \A q \in Queue : x \in Range(queue[p][q]) <=> Contains(queue[p][q], x)
    BY ContainsRange DEF TypeOK, WatcherTypeOK
  <2> QED BY <2>1, HeldValues
<1>3. ASSUME NEW t
      PROVE  Started(t) <=>
              \E p \in Pe :
                \/ \E ch \in {watcher_task_receiver[p], queue[p]["meta_finished"],
                              queue[p]["data_finished"]} : Contains(ch, t)
                \/ \E k \in {"meta", "data"} : t \in mem_req_id_to_task[p][k]
  BY <1>1, <1>2 DEF Started, IsAt
<1>4. ASSUME NEW c
      PROVE  Born(c) <=>
              \E p \in Pe :
                \/ \E ch \in {queue[p]["single_task"], queue[p]["value_finished"],
                              queue[p]["process_finished"]} : Contains(ch, c)
                \/ c \in mem_req_id_to_task[p]["blocker"]
                \/ /\ current_processing_task[p] # None
                   /\ current_processing_task[p].task = c
  <2>1. Born(c) <=> \E p \in Pe : \E s \in SinglePlace : c \in Held(p, s)
    BY DEF Born, IsAt
  <2>2. ASSUME NEW p \in Pe
        PROVE  (\E s \in SinglePlace : c \in Held(p, s)) <=>
                \/ \E ch \in {queue[p]["single_task"], queue[p]["value_finished"],
                              queue[p]["process_finished"]} : Contains(ch, c)
                \/ c \in mem_req_id_to_task[p]["blocker"]
                \/ /\ current_processing_task[p] # None
                   /\ current_processing_task[p].task = c
    BY <1>1, <1>2 DEF SinglePlace
  <2> QED BY <2>1, <2>2
<1> QED BY <1>3, <1>4

LEMMA WorkApart ==
  ASSUME TypeOK, PInv
  PROVE  /\ \A t \in WatcherTask : NotExpanded(t) <=> t \in pending \/ Started(t)
         /\ \A t \in pending : ~Started(t)
         /\ \A c \in ClauseTask : c \in Upstream <=>
              Born(c) \/ \E t \in WatcherTask : NotExpanded(t) /\ c \in Range(Singles[t])
         /\ \A t \in WatcherTask : NotExpanded(t) => \A c \in Range(Singles[t]) : ~Born(c)
<1>1. /\ "trail" \in TaskPlace /\ TaskPlace \subseteq HeldPlace /\ SinglePlace \subseteq HeldPlace
  BY DEF TaskPlace, HeldPlace
<1>2. \A t \in WatcherTask : t \in pending <=> IsAt(t, "trail")
  BY PlacesAre
<1>3. \A t \in WatcherTask : NotExpanded(t) <=> t \in pending \/ Started(t)
  BY <1>1, <1>2 DEF NotExpanded, Started
<1>4. \A t \in pending : ~Started(t)
  BY <1>1, <1>2, OneStage DEF Started, TypeOK, PInv
<1>5. \A s \in TaskPlace : \A t : IsAt(t, s) => t \in WatcherTask
  BY HeldTypes DEF IsAt
<1>6. \A c \in ClauseTask : c \in Upstream <=>
        Born(c) \/ \E t \in WatcherTask : NotExpanded(t) /\ c \in Range(Singles[t])
  BY <1>5 DEF Upstream, Born, NotExpanded, IsAt
<1>7. ASSUME NEW o \in Pe, NEW v \in TaskPlace, NEW t \in Held(o, v),
             NEW c \in Range(Singles[t]), NEW p \in Pe, NEW s \in SinglePlace, c \in Held(p, s)
      PROVE  FALSE
  <2>1. t \in WatcherTask
    BY HeldTypes
  <2>2. t \in TasksOf(o) /\ c \in TasksOf(p)
    BY <1>1, <1>7 DEF PInv, Places, AtHome
  <2>3. PICK w \in WatcherTask : HomePe[w] = o /\ t \in {w} \cup Range(Singles[w])
    BY <2>2 DEF TasksOf
  <2>4. Range(Singles[w]) \subseteq ClauseTask
    BY TasksAssumption, RangeOfSeq
  <2>5. t = w
    BY <2>1, <2>3, <2>4, DistinctTasks
  <2>6. Range(Singles[t]) \subseteq TasksOf(o)
    BY <2>1, <2>3, <2>5 DEF TasksOf
  <2>7. CASE o # p
    BY <2>2, <2>6, <2>7, TasksOfDisjoint
  <2>8. CASE o = p
    BY <1>7, <2>8 DEF PInv, Places, NotBorn
  <2> QED BY <2>7, <2>8
<1>8. \A t \in WatcherTask : NotExpanded(t) => \A c \in Range(Singles[t]) : ~Born(c)
  BY <1>7 DEF NotExpanded, Born, IsAt
<1> QED BY <1>3, <1>4, <1>6, <1>8
=============================================================================
