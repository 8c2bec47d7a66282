---------------------------- MODULE SystemProofs ----------------------------
(***************************************************************************)
(* Proofs about System, for any number of processing elements and clause    *)
(* units, any tasks and limits.  The watchers and the clause units are the *)
(* instances WP and CP of the modules that prove their invariants: every    *)
(* step of System is a step of WatcherEnv and one of ClauseEnv, with what   *)
(* surrounds a component played by the rest of the system, or changes      *)
(* nothing but the counter of finished tasks.                              *)
(***************************************************************************)
EXTENDS System, ChannelLemmas, FiniteSetTheorems

\* The watcher tasks the trail and the caller still have.
TasksIn(rs) == UNION {Range(rs[i]) : i \in DOMAIN rs}
InRound == IF current_working_task = None THEN {} ELSE Range(current_working_task)
Unsent == InRound \cup TasksIn(task_receiver) \cup TasksIn(rounds)

\* The requests that were taken and have not been handed to their reader: to
\* the watchers and units the network, the channel of replies and the loss
\* of a request are one.
InReplies == UNION {Range(mem_icnt_receiver[p]) : p \in Pe}
Held == memory \cup lost \cup InReplies

WP == INSTANCE WatcherProofs WITH
       pc <- wpc, busy <- wbusy, updated <- wupdated, mem_in <- watcher_mem,
       current_processing_task <- watcher_processing, Elapsed <- Nat,
       OtherReq <- U!ClauseReq, OtherPe <- [r \in U!ClauseReq |-> r.unit[1]],
       pending <- Unsent, memory <- Held \cap W!WatcherReq

\* The clauses on their way to a unit.
InSenders == UNION {Range(clause_icnt_sender[p]) : p \in Pe}
InReceivers == UNION {Range(task_icnt_receiver[p]) : p \in Pe}
Coming == (WP!Upstream \cap HasClauseData) \cup InSenders \cup clause_net \cup InReceivers

CP == INSTANCE ClauseProofs WITH
       ClauseTask <- HasClauseData, PeOf <- [u \in Unit |-> u[1]], ProcessTime <- ClauseTime,
       HomeUnit <- [c \in HasClauseData |-> <<ClausePe[c], InnerClause[c]>>],
       OtherReq <- W!WatcherReq, Elapsed <- Nat,
       pc <- upc, busy <- ubusy, updated <- uupdated, mem_in <- clause_mem,
       current_processing_task <- clause_processing,
       pending <- Coming, memory <- Held \cap U!ClauseReq, answered <- U!ClauseReq
-----------------------------------------------------------------------------
(* The instances satisfy the assumptions of their modules, and what the     *)
(* modules prove holds of them.                                            *)

LEMMA ReqKinds ==
  /\ \A r \in W!WatcherReq : /\ r.type \in W!Read /\ r.pe \in Pe /\ ToWatcher(r)
                             /\ AnswerPe(r) = r.pe
  /\ \A r \in U!ClauseReq : /\ r.type \in {"ClauseReadData", "ClauseReadValue"}
                            /\ r.unit \in Unit /\ ~ToWatcher(r) /\ AnswerPe(r) = r.unit[1]
  /\ W!WatcherReq \cap U!ClauseReq = {}
<1>1. \A r \in W!WatcherReq : r.type \in W!Read /\ r.pe \in Pe
  BY DEF W!WatcherReq
<1>2. ASSUME NEW r \in U!ClauseReq
      PROVE  r.type \in {"ClauseReadData", "ClauseReadValue"} /\ r.unit \in Unit
  <2>1. CASE r \in U!DataReqs
    BY <2>1 DEF U!DataReqs, U!DataReq
  <2>2. CASE r \in U!AllValueReqs
    <3>1. PICK u \in Unit, c \in HasClauseData : r \in U!SetOf(U!ValueReqs(u, c))
      BY <2>2 DEF U!AllValueReqs
    <3>2. PICK i \in 1 .. Len(Values[c]) : r = U!ValueReq(u, c, i)
      BY <3>1 DEF U!SetOf, U!ValueReqs
    <3> QED BY <3>2 DEF U!ValueReq
  <2> QED BY <2>1, <2>2 DEF U!ClauseReq
<1> QED BY <1>1, <1>2 DEF ToWatcher, AnswerPe, W!Read

LEMMA SameWords ==
  /\ \A f : WP!Range(f) = Range(f) /\ CP!Range(f) = Range(f)
  /\ \A f : (WP!IsInjective(f) <=> IsInjective(f)) /\ (CP!IsInjective(f) <=> IsInjective(f))
  /\ WP!WatcherReq = W!WatcherReq /\ CP!ClauseReq = U!ClauseReq
<1>1. /\ \A f : WP!Range(f) = Range(f) /\ CP!Range(f) = Range(f)
      /\ \A f : (WP!IsInjective(f) <=> IsInjective(f)) /\ (CP!IsInjective(f) <=> IsInjective(f))
  BY DEF Range, WP!Range, CP!Range, IsInjective, WP!IsInjective, CP!IsInjective
<1>2. WP!WatcherReq = W!WatcherReq
  BY DEF WP!WatcherReq, W!WatcherReq, WP!Read, W!Read, WP!TaskOf, W!TaskOf
<1>3. CP!ClauseReq = U!ClauseReq
  BY DEF CP!ClauseReq, U!ClauseReq, CP!DataReqs, U!DataReqs, CP!DataReq, U!DataReq,
         CP!AllValueReqs, U!AllValueReqs, CP!SetOf, U!SetOf, CP!ValueReqs, U!ValueReqs,
         CP!ValueReq, U!ValueReq
<1> QED BY <1>1, <1>2, <1>3

LEMMA WatcherAssumptions ==
  /\ WP!TasksAssumption /\ WP!LimitAssumption /\ WP!EnvAssumption
  /\ WP!DistinctTasks /\ WP!SinglesListed
<1>1. WP!TasksAssumption /\ WP!LimitAssumption
  BY InterfaceAssumption DEF W!TasksAssumption, WP!TasksAssumption, W!LimitAssumption,
                             WP!LimitAssumption
<1>2. WP!EnvAssumption
  <2>1. \A r \in U!ClauseReq : r.unit[1] \in Pe
    BY ReqKinds DEF Unit
  <2> QED BY <2>1, SystemAssumption, ReqKinds, SameWords DEF WP!EnvAssumption
<1>3. WP!DistinctTasks
  <2>1. WP!Processing = W!Processing
    BY DEF WP!Processing, W!Processing, WP!ProcessTime, W!ProcessTime
  <2> QED BY <2>1, DistinctTasks, InterfaceAssumption, SameWords DEF WP!DistinctTasks
<1>4. WP!SinglesListed
  BY DistinctTasks DEF WP!SinglesListed, WP!Contains, Contains
<1> QED BY <1>1, <1>2, <1>3, <1>4

LEMMA UnitAssumptions == CP!ClauseAssumption /\ CP!ValuesAssumption /\ CP!EnvAssumption
<1>1. CP!ClauseAssumption /\ CP!ValuesAssumption
  BY InterfaceAssumption DEF U!ClauseAssumption, CP!ClauseAssumption, U!ValuesAssumption,
                             CP!ValuesAssumption
<1>2. CP!EnvAssumption
  <2>1. \A c \in HasClauseData : <<ClausePe[c], InnerClause[c]>> \in Unit
    BY InterfaceAssumption DEF W!TasksAssumption, Unit
  <2>2. CP!Processing = U!Processing
    BY DEF CP!Processing, U!Processing
  <2> QED BY <2>1, <2>2, InterfaceAssumption, ReqKinds, SameWords DEF CP!EnvAssumption
<1> QED BY <1>1, <1>2

LEMMA WatcherStart ==
  WP!Start => WP!SafeInv
BY WatcherAssumptions, WP!InitSafeInv
   DEF WP!InitSafeInv, WP!TasksAssumption, WP!LimitAssumption, WP!EnvAssumption,
       WP!DistinctTasks, WP!SinglesListed

LEMMA WatcherKeeps ==
  WP!SafeInv /\ [WP!Next]_(WP!vars) => WP!SafeInv'
BY WatcherAssumptions, WP!NextSafeInv
   DEF WP!NextSafeInv, WP!TasksAssumption, WP!LimitAssumption, WP!EnvAssumption,
       WP!DistinctTasks, WP!SinglesListed

LEMMA WatcherUncounted ==
  WP!SafeInv /\ WP!OthersCount => WP!SafeInv'
BY WatcherAssumptions, WP!OthersCountSafeInv
   DEF WP!OthersCountSafeInv, WP!TasksAssumption, WP!LimitAssumption, WP!EnvAssumption,
       WP!DistinctTasks, WP!SinglesListed

LEMMA WatcherFindsReplies ==
  WP!OwnLists /\ WP!TypeOK /\ WP!PInv /\ WP!FInv => WP!RepliesComeHome
BY WatcherAssumptions, WP!SafeRepliesComeHome
   DEF WP!SafeRepliesComeHome, WP!TasksAssumption, WP!LimitAssumption, WP!EnvAssumption,
       WP!DistinctTasks, WP!SinglesListed

LEMMA StepKeepsUpstream ==
  ASSUME WP!TypeOK, WP!PInv, NEW p \in Pe, WP!Step(p), ~WP!SendClause(p), UNCHANGED WP!envVars
  PROVE  WP!Upstream' = WP!Upstream
BY WatcherAssumptions, WP!StepUpstream
   DEF WP!StepUpstream, WP!TasksAssumption, WP!LimitAssumption, WP!EnvAssumption,
       WP!DistinctTasks, WP!SinglesListed

LEMMA SendLeavesUpstream ==
  ASSUME WP!TypeOK, WP!PInv, NEW p \in Pe, NEW c, c = Head(queue[p]["process_finished"]),
         WP!SendClause(p), UNCHANGED WP!envVars
  PROVE  \/ /\ c \in WP!Upstream /\ WP!Upstream' = WP!Upstream \ {c}
            /\ \/ c \notin HasClauseData /\ UNCHANGED clause_icnt_sender
               \/ /\ c \in HasClauseData
                  /\ clause_icnt_sender' = [clause_icnt_sender EXCEPT ![p] = Append(@, c)]
         \/ WP!Upstream' = WP!Upstream /\ UNCHANGED clause_icnt_sender
BY WatcherAssumptions, WP!SendClauseUpstream
   DEF WP!SendClauseUpstream, WP!TasksAssumption, WP!LimitAssumption, WP!EnvAssumption,
       WP!DistinctTasks, WP!SinglesListed

LEMMA TrailKeepsUpstream ==
  WP!TypeOK /\ WP!PInv /\ WP!TrailSends => WP!Upstream' = WP!Upstream
BY WatcherAssumptions, WP!TrailSendsUpstream
   DEF WP!TrailSendsUpstream, WP!TasksAssumption, WP!LimitAssumption, WP!EnvAssumption,
       WP!DistinctTasks, WP!SinglesListed

LEMMA CallKeepsUpstream ==
  ASSUME WP!TypeOK, NEW p \in Pe, NEW d \in Nat, WP!Call(p, d), UNCHANGED WP!envVars
  PROVE  WP!Upstream' = WP!Upstream
BY WatcherAssumptions, WP!CallUpstream
   DEF WP!CallUpstream, WP!TasksAssumption, WP!LimitAssumption, WP!EnvAssumption,
       WP!DistinctTasks, WP!SinglesListed

LEMMA SameUpstream ==
  ASSUME UNCHANGED <<Unsent, watcher_task_receiver, mem_req_id_to_task, queue,
                     watcher_processing>>
  PROVE  WP!Upstream' = WP!Upstream
BY WatcherAssumptions, WP!UnchangedUpstream
   DEF WP!UnchangedUpstream, WP!TasksAssumption, WP!LimitAssumption, WP!EnvAssumption,
       WP!DistinctTasks, WP!SinglesListed

LEMMA UnitStart ==
  CP!Start => CP!SafeInv
BY UnitAssumptions, CP!InitSafeInv
   DEF CP!InitSafeInv, CP!ClauseAssumption, CP!ValuesAssumption,
       CP!EnvAssumption

LEMMA UnitKeeps ==
  CP!SafeInv /\ [CP!Next]_(CP!vars) => CP!SafeInv'
BY UnitAssumptions, CP!NextSafeInv
   DEF CP!NextSafeInv, CP!ClauseAssumption, CP!ValuesAssumption,
       CP!EnvAssumption

LEMMA UnitUncounted ==
  CP!SafeInv /\ CP!OthersCount => CP!SafeInv'
BY UnitAssumptions, CP!OthersCountSafeInv
   DEF CP!OthersCountSafeInv, CP!ClauseAssumption, CP!ValuesAssumption,
       CP!EnvAssumption

LEMMA UnitTypes ==
  CP!SafeInv => CP!TypeOK
BY UnitAssumptions, CP!SafeTypes
   DEF CP!SafeTypes, CP!ClauseAssumption, CP!ValuesAssumption,
       CP!EnvAssumption

LEMMA UnitFindsReplies ==
  CP!TypeOK /\ CP!RInv => CP!RepliesAwaited
BY UnitAssumptions, CP!SafeRepliesAwaited
   DEF CP!SafeRepliesAwaited, CP!ClauseAssumption, CP!ValuesAssumption,
       CP!EnvAssumption

LEMMA WatcherFinishes ==
  ASSUME WP!TypeOK, WP!PInv, WP!TypeOK', WP!PInv', [WP!Next]_(WP!vars)
  PROVE  \/ /\ WP!Unfinished' = WP!Unfinished
            /\ current_level_finished_tasks' = current_level_finished_tasks
         \/ /\ \E w \in WP!Unfinished : WP!Unfinished' = WP!Unfinished \ {w}
            /\ current_level_finished_tasks' = current_level_finished_tasks + 1
BY WatcherAssumptions, WP!NextUnfinished
   DEF WP!NextUnfinished, WP!TasksAssumption, WP!LimitAssumption, WP!EnvAssumption,
       WP!DistinctTasks, WP!SinglesListed

LEMMA WatcherWorkTypes ==
  ASSUME WP!TypeOK, WP!PInv
  PROVE  WP!Unfinished \subseteq WatcherTask \cup (ClauseTask \ HasClauseData)
BY WatcherAssumptions, WP!UnfinishedTypes
   DEF WP!UnfinishedTypes, WP!TasksAssumption, WP!LimitAssumption, WP!EnvAssumption,
       WP!DistinctTasks, WP!SinglesListed

LEMMA SameWatcherWork ==
  ASSUME UNCHANGED <<Unsent, watcher_task_receiver, mem_req_id_to_task, queue,
                     watcher_processing>>
  PROVE  WP!Unfinished' = WP!Unfinished
BY WatcherAssumptions, WP!UnchangedUnfinished
   DEF WP!UnchangedUnfinished, WP!TasksAssumption, WP!LimitAssumption, WP!EnvAssumption,
       WP!DistinctTasks, WP!SinglesListed

LEMMA StartedTasks ==
  ASSUME WP!TypeOK
  PROVE  /\ \A t : WP!Started(t) <=>
              \E p \in Pe :
                \/ \E ch \in {watcher_task_receiver[p], queue[p]["meta_finished"],
                              queue[p]["data_finished"]} : WP!Contains(ch, t)
                \/ \E k \in {"meta", "data"} : t \in mem_req_id_to_task[p][k]
         /\ \A c : WP!Born(c) <=>
              \E p \in Pe :
                \/ \E ch \in {queue[p]["single_task"], queue[p]["value_finished"],
                              queue[p]["process_finished"]} : WP!Contains(ch, c)
                \/ c \in mem_req_id_to_task[p]["blocker"]
                \/ /\ watcher_processing[p] # None
                   /\ watcher_processing[p].task = c
BY WatcherAssumptions, WP!StartedBorn
   DEF WP!StartedBorn, WP!TasksAssumption, WP!LimitAssumption, WP!EnvAssumption,
       WP!DistinctTasks, WP!SinglesListed

LEMMA WatcherWorkApart ==
  ASSUME WP!TypeOK, WP!PInv
  PROVE  /\ \A t \in WatcherTask : WP!NotExpanded(t) <=> t \in Unsent \/ WP!Started(t)
         /\ \A t \in Unsent : ~WP!Started(t)
         /\ \A c \in ClauseTask : c \in WP!Upstream <=>
              WP!Born(c) \/ \E t \in WatcherTask :
                               WP!NotExpanded(t) /\ c \in WP!Range(Singles[t])
         /\ \A t \in WatcherTask : WP!NotExpanded(t) =>
              \A c \in WP!Range(Singles[t]) : ~WP!Born(c)
BY WatcherAssumptions, WP!WorkApart
   DEF WP!WorkApart, WP!TasksAssumption, WP!LimitAssumption, WP!EnvAssumption,
       WP!DistinctTasks, WP!SinglesListed

LEMMA UnitFinishes ==
  ASSUME CP!TypeOK, CP!PInv, [CP!Next]_(CP!vars)
  PROVE  \/ /\ CP!Gone' = CP!Gone
            /\ current_level_finished_tasks' = current_level_finished_tasks
         \/ /\ \E c \in HasClauseData \ CP!Gone : CP!Gone' = CP!Gone \cup {c}
            /\ current_level_finished_tasks' = current_level_finished_tasks + 1
BY UnitAssumptions, CP!NextGone
   DEF CP!NextGone, CP!ClauseAssumption, CP!ValuesAssumption, CP!EnvAssumption

LEMMA SameUnitWork ==
  ASSUME UNCHANGED <<Coming, clause_task_in, mem_req_id_to_clause_task,
                     clause_data_ready_queue, reading_tasks, clause_value_ready_queue,
                     clause_processing>>
  PROVE  CP!Gone' = CP!Gone
BY UnitAssumptions, CP!UnchangedGone
   DEF CP!UnchangedGone, CP!ClauseAssumption, CP!ValuesAssumption, CP!EnvAssumption

LEMMA UnitWorkIs ==
  ASSUME CP!TypeOK, NEW c \in HasClauseData
  PROVE  /\ c \notin CP!Gone <=> c \in Coming \/ CP!InSomeUnit(c)
         /\ CP!PInv /\ c \in Coming => ~CP!InSomeUnit(c)
BY UnitAssumptions, CP!GoneIs
   DEF CP!GoneIs, CP!ClauseAssumption, CP!ValuesAssumption, CP!EnvAssumption

-----------------------------------------------------------------------------
(* The actions of the instances W and U and those of WP and CP are the same *)
(* formulas, from the same source.                                         *)

LEMMA SameWStartRead == ASSUME NEW p, NEW k PROVE W!StartRead(p, k) <=> WP!StartRead(p, k)
BY DEF
  W!StartRead, WP!StartRead, W!At, WP!At, W!CanRead, WP!CanRead, W!HaveSpace, WP!HaveSpace,
  W!Input, WP!Input, W!InputBecomes, WP!InputBecomes, W!Received, WP!Received, W!Sent, WP!Sent,
  W!Request, WP!Request, W!CountRead, WP!CountRead, W!Report, WP!Report, W!Done, WP!Done,
  W!Output, WP!Output, W!InputQueue, WP!InputQueue, W!NextPhase, WP!NextPhase

LEMMA SameWReadBlocked == ASSUME NEW p, NEW k PROVE W!ReadBlocked(p, k) <=> WP!ReadBlocked(p, k)
BY DEF
  W!ReadBlocked, WP!ReadBlocked, W!At, WP!At, W!CanRead, WP!CanRead, W!HaveSpace, WP!HaveSpace,
  W!InputBecomes, WP!InputBecomes, W!RecvThenRet, WP!RecvThenRet, W!Input, WP!Input, W!Report,
  WP!Report, W!Done, WP!Done, W!Output, WP!Output, W!InputQueue, WP!InputQueue, W!Returned,
  WP!Returned, W!Received, WP!Received, W!NextPhase, WP!NextPhase

LEMMA SameWExpand == ASSUME NEW p PROVE W!Expand(p) <=> WP!Expand(p)
BY DEF
  W!Expand, WP!Expand, W!At, WP!At, W!CanExpand, WP!CanExpand, W!Report, WP!Report, W!Done,
  WP!Done, W!NextPhase, WP!NextPhase

LEMMA SameWProcess == ASSUME NEW p PROVE W!Process(p) <=> WP!Process(p)
BY DEF
  W!Process, WP!Process, W!At, WP!At, W!CanProcess, WP!CanProcess, W!Report, WP!Report, W!Done,
  WP!Done, W!NextPhase, WP!NextPhase

LEMMA SameWStartProcess == ASSUME NEW p PROVE W!StartProcess(p) <=> WP!StartProcess(p)
BY DEF
  W!StartProcess, WP!StartProcess, W!At, WP!At, W!CanStart, WP!CanStart, W!ProcessTime,
  WP!ProcessTime, W!Report, WP!Report, W!Done, WP!Done, W!NextPhase, WP!NextPhase

LEMMA SameWSendClause == ASSUME NEW p PROVE W!SendClause(p) <=> WP!SendClause(p)
BY DEF
  W!SendClause, WP!SendClause, W!At, WP!At, W!CanSend, WP!CanSend, W!HaveSpace, WP!HaveSpace,
  W!Sent, WP!Sent, W!Report, WP!Report, W!RecvThenRet, WP!RecvThenRet, W!Done, WP!Done,
  W!Returned, WP!Returned, W!Received, WP!Received, W!NextPhase, WP!NextPhase

LEMMA SameWReply == ASSUME NEW p PROVE W!Reply(p) <=> WP!Reply(p)
BY DEF
  W!Reply, WP!Reply, W!At, WP!At, W!CanReply, WP!CanReply, W!UnwrapFails, WP!UnwrapFails,
  W!Output, WP!Output, W!CountReply, WP!CountReply, W!Report, WP!Report, W!Received, WP!Received,
  W!Done, WP!Done, W!NextPhase, WP!NextPhase

LEMMA SameWSkip == ASSUME NEW p PROVE W!Skip(p) <=> WP!Skip(p)
BY DEF
  W!Skip, WP!Skip, W!NextPhase, WP!NextPhase, W!At, WP!At, W!HasWork, WP!HasWork, W!Done,
  WP!Done, W!Read, WP!Read, W!CanRead, WP!CanRead, W!CanExpand, WP!CanExpand, W!CanProcess,
  WP!CanProcess, W!CanStart, WP!CanStart, W!CanSend, WP!CanSend, W!CanReply, WP!CanReply,
  W!Output, WP!Output, W!Input, WP!Input, W!InputQueue, WP!InputQueue

LEMMA SameWCall == ASSUME NEW p, NEW d PROVE W!Call(p, d) <=> WP!Call(p, d)
BY DEF
  W!Call, WP!Call, W!BetweenUpdates, WP!BetweenUpdates

LEMMA SameWUnwrapFails == ASSUME NEW p PROVE W!UnwrapFails(p) <=> WP!UnwrapFails(p)
BY DEF
  W!UnwrapFails, WP!UnwrapFails, W!At, WP!At, W!CanReply, WP!CanReply

LEMMA SameUReadData == ASSUME NEW u PROVE U!ReadData(u) <=> CP!ReadData(u)
BY DEF
  U!ReadData, CP!ReadData, U!At, CP!At, U!CanReadData, CP!CanReadData, U!HaveSpace, CP!HaveSpace,
  U!Received, CP!Received, U!Sent, CP!Sent, U!DataReq, CP!DataReq, U!CountDataRead,
  CP!CountDataRead, U!Report, CP!Report, U!RecvThenRet, CP!RecvThenRet, U!Done, CP!Done,
  U!values, CP!values, U!Returned, CP!Returned, U!NextPhase, CP!NextPhase

LEMMA SameUCardinality == ASSUME NEW S PROVE U!Cardinality(S) = CP!Cardinality(S)
BY DEF U!Cardinality, CP!Cardinality

LEMMA SameURoom == ASSUME NEW u PROVE U!RoomToBegin(u) <=> CP!RoomToBegin(u)
BY SameUCardinality DEF U!RoomToBegin, CP!RoomToBegin

LEMMA SameUBeginValues == ASSUME NEW u PROVE U!BeginValues(u) <=> CP!BeginValues(u)
BY SameURoom DEF
  U!BeginValues, CP!BeginValues, U!At, CP!At, U!CanBegin, CP!CanBegin, U!ValueReqs, CP!ValueReqs,
  U!SetOf, CP!SetOf, U!Report, CP!Report, U!Done, CP!Done, U!channels, CP!channels, U!ongoing,
  CP!ongoing, U!ValueReq, CP!ValueReq, U!NextPhase, CP!NextPhase

LEMMA SameUReadValue == ASSUME NEW u PROVE U!ReadValue(u) <=> CP!ReadValue(u)
BY DEF
  U!ReadValue, CP!ReadValue, U!At, CP!At, U!CanReadValue, CP!CanReadValue, U!HaveSpace,
  CP!HaveSpace, U!Sent, CP!Sent, U!CountValueRead, CP!CountValueRead, U!Report, CP!Report,
  U!RecvThenRet, CP!RecvThenRet, U!Done, CP!Done, U!tasks, CP!tasks, U!RoomToRead, CP!RoomToRead,
  U!Returned, CP!Returned, U!Received, CP!Received, U!NextPhase, CP!NextPhase

LEMMA SameUProcess == ASSUME NEW u PROVE U!Process(u) <=> CP!Process(u)
BY DEF
  U!Process, CP!Process, U!At, CP!At, U!Report, CP!Report, U!Done, CP!Done, U!channels,
  CP!channels, U!values, CP!values, U!ongoing, CP!ongoing, U!NextPhase, CP!NextPhase

LEMMA SameUStartProcess == ASSUME NEW u PROVE U!StartProcess(u) <=> CP!StartProcess(u)
BY DEF
  U!StartProcess, CP!StartProcess, U!At, CP!At, U!CanStart, CP!CanStart, U!Report, CP!Report,
  U!Done, CP!Done, U!channels, CP!channels, U!values, CP!values, U!ongoing, CP!ongoing,
  U!NextPhase, CP!NextPhase

LEMMA SameUReplyData == ASSUME NEW u PROVE U!ReplyData(u) <=> CP!ReplyData(u)
BY DEF
  U!ReplyData, CP!ReplyData, U!At, CP!At, U!Reply, CP!Reply, U!Received, CP!Received,
  U!CountDataReply, CP!CountDataReply, U!Report, CP!Report, U!Done, CP!Done, U!values, CP!values,
  U!NextPhase, CP!NextPhase

LEMMA SameUReplyValue == ASSUME NEW u PROVE U!ReplyValue(u) <=> CP!ReplyValue(u)
BY DEF
  U!ReplyValue, CP!ReplyValue, U!Reply, CP!Reply, U!At, CP!At, U!Received, CP!Received,
  U!CountValueReply, CP!CountValueReply, U!ReplyFor, CP!ReplyFor, U!LastValue, CP!LastValue,
  U!Report, CP!Report, U!Done, CP!Done, U!ReqsOf, CP!ReqsOf, U!NextPhase, CP!NextPhase

LEMMA SameUSkip == ASSUME NEW u PROVE U!Skip(u) <=> CP!Skip(u)
BY SameURoom DEF
  U!Skip, CP!Skip, U!NextPhase, CP!NextPhase, U!At, CP!At, U!HasWork, CP!HasWork,
  U!StoppedByLimit, CP!StoppedByLimit, U!Done, CP!Done, U!channels, CP!channels, U!tasks,
  CP!tasks, U!values, CP!values, U!ongoing, CP!ongoing, U!CanReadData, CP!CanReadData,
  U!CanBegin, CP!CanBegin, U!CanReadValue, CP!CanReadValue, U!CanStart, CP!CanStart,
  U!RoomToRead, CP!RoomToRead

LEMMA SameUCall == ASSUME NEW u, NEW d PROVE U!Call(u, d) <=> CP!Call(u, d)
BY DEF
  U!Call, CP!Call, U!BetweenUpdates, CP!BetweenUpdates, U!channels, CP!channels, U!values,
  CP!values, U!ongoing, CP!ongoing

LEMMA SameUUnwrapFails == ASSUME NEW u PROVE U!UnwrapFails(u) <=> CP!UnwrapFails(u)
BY DEF
  U!UnwrapFails, CP!UnwrapFails, U!At, CP!At, U!Reply, CP!Reply, U!ReplyFor, CP!ReplyFor


-----------------------------------------------------------------------------
(* The rounds: what the caller still has, what waits for the trail and what  *)
(* the trail works on share no task.                                       *)

Once(rs) ==
  \A i, k \in DOMAIN rs :
    IsInjective(rs[i]) /\ (i # k => Range(rs[i]) \cap Range(rs[k]) = {})

RoundsInv ==
  /\ current_working_task \in Seq(WatcherTask) \cup {None}
  /\ task_receiver \in Seq(Seq(WatcherTask)) /\ rounds \in Seq(Seq(WatcherTask))
  /\ Once(task_receiver) /\ Once(rounds)
  /\ current_working_task # None => IsInjective(current_working_task)
  /\ InRound \cap TasksIn(task_receiver) = {}
  /\ InRound \cap TasksIn(rounds) = {}
  /\ TasksIn(task_receiver) \cap TasksIn(rounds) = {}

LEMMA TasksInTail ==
  ASSUME NEW T, NEW rs \in Seq(Seq(T)), rs # <<>>, Once(rs)
  PROVE  /\ Head(rs) \in Seq(T) /\ IsInjective(Head(rs))
         /\ Tail(rs) \in Seq(Seq(T)) /\ Once(Tail(rs))
         /\ TasksIn(rs) = Range(Head(rs)) \cup TasksIn(Tail(rs))
         /\ Range(Head(rs)) \cap TasksIn(Tail(rs)) = {}
<1>1. /\ Head(rs) \in Seq(T) /\ Tail(rs) \in Seq(Seq(T))
      /\ Len(Tail(rs)) = Len(rs) - 1 /\ Len(rs) \in Nat \ {0} /\ Head(rs) = rs[1]
      /\ \A i \in 1 .. Len(Tail(rs)) : Tail(rs)[i] = rs[i + 1]
  BY HeadTailProperties, EmptySeq
<1>2. DOMAIN rs = 1 .. Len(rs) /\ DOMAIN Tail(rs) = 1 .. Len(Tail(rs))
  BY <1>1, LenProperties
<1>3. \A i \in DOMAIN Tail(rs) : i + 1 \in DOMAIN rs /\ i + 1 # 1 /\ Tail(rs)[i] = rs[i + 1]
  BY <1>1, <1>2
<1>4. \A i \in DOMAIN rs : i = 1 \/ (i - 1 \in DOMAIN Tail(rs) /\ rs[i] = Tail(rs)[i - 1])
  <2> SUFFICES ASSUME NEW i \in DOMAIN rs, i # 1
               PROVE  i - 1 \in DOMAIN Tail(rs) /\ rs[i] = Tail(rs)[i - 1]
    OBVIOUS
  <2>1. i - 1 \in 1 .. Len(Tail(rs)) /\ (i - 1) + 1 = i
    BY <1>1, <1>2
  <2> QED BY <1>1, <1>2, <2>1
<1>5. 1 \in DOMAIN rs
  BY <1>1, <1>2
<1>6. TasksIn(rs) = Range(rs[1]) \cup TasksIn(Tail(rs))
  <2>1. ASSUME NEW x \in TasksIn(rs) PROVE x \in Range(rs[1]) \cup TasksIn(Tail(rs))
    BY <1>4, <2>1 DEF TasksIn
  <2>2. ASSUME NEW x \in TasksIn(Tail(rs)) PROVE x \in TasksIn(rs)
    BY <1>3, <2>2 DEF TasksIn
  <2>3. Range(rs[1]) \subseteq TasksIn(rs)
    BY <1>5 DEF TasksIn
  <2> QED BY <2>1, <2>2, <2>3
<1>7. Range(rs[1]) \cap TasksIn(Tail(rs)) = {}
  BY <1>3, <1>5 DEF TasksIn, Once
<1>8. Once(Tail(rs))
  <2> SUFFICES ASSUME NEW i \in DOMAIN Tail(rs), NEW k \in DOMAIN Tail(rs)
               PROVE  /\ IsInjective(Tail(rs)[i])
                      /\ i # k => Range(Tail(rs)[i]) \cap Range(Tail(rs)[k]) = {}
    BY DEF Once
  <2>1. i # k => i + 1 # k + 1
    BY <1>1, <1>2
  <2> QED BY <1>3, <2>1 DEF Once
<1> QED BY <1>1, <1>5, <1>6, <1>7, <1>8 DEF Once

LEMMA TasksInAppend ==
  ASSUME NEW T, NEW rs \in Seq(Seq(T)), NEW r \in Seq(T), Once(rs), IsInjective(r),
         Range(r) \cap TasksIn(rs) = {}
  PROVE  /\ Append(rs, r) \in Seq(Seq(T)) /\ Once(Append(rs, r))
         /\ TasksIn(Append(rs, r)) = TasksIn(rs) \cup Range(r)
<1> DEFINE n == Len(rs) + 1  a == Append(rs, r)
<1>1. /\ a \in Seq(Seq(T)) /\ Len(a) = n /\ Len(rs) \in Nat
      /\ \A i \in 1 .. Len(rs) : a[i] = rs[i]
      /\ a[n] = r
  BY AppendProperties, LenProperties
<1>2. DOMAIN rs = 1 .. Len(rs) /\ DOMAIN a = 1 .. n
  BY <1>1, LenProperties
<1>3. n \notin DOMAIN rs /\ DOMAIN a = DOMAIN rs \cup {n} /\ \A i \in DOMAIN rs : a[i] = rs[i]
  BY <1>1, <1>2
<1> HIDE DEF n, a
<1>4. TasksIn(a) = TasksIn(rs) \cup Range(r)
  <2>1. ASSUME NEW x \in TasksIn(a) PROVE x \in TasksIn(rs) \cup Range(r)
    BY <1>1, <1>3, <2>1 DEF TasksIn
  <2>2. ASSUME NEW x \in TasksIn(rs) PROVE x \in TasksIn(a)
    BY <1>3, <2>2 DEF TasksIn
  <2>3. ASSUME NEW x \in Range(r) PROVE x \in TasksIn(a)
    BY <1>1, <1>3, <2>3 DEF TasksIn
  <2> QED BY <2>1, <2>2, <2>3
<1>5. \A i \in DOMAIN rs : Range(rs[i]) \subseteq TasksIn(rs)
  BY DEF TasksIn
<1>6. Once(a)
  BY <1>1, <1>3, <1>5 DEF Once
<1> QED BY <1>1, <1>4, <1>6 DEF a

LEMMA NoTasks == TasksIn(<<>>) = {} /\ Once(<<>>) /\ Range(<<>>) = {} /\ IsInjective(<<>>)
BY EmptySeq DEF TasksIn, Once, Range, IsInjective

(* What an update of the trail does with its round, in both settings of     *)
(* level_sync.                                                             *)
TrailSends(t) ==
  /\ current_working_task # None /\ current_working_task # <<>> /\ t = Head(current_working_task)
  /\ HaveSpace(watcher_task_receiver[HomePe[t]], ChannelSize)
  /\ watcher_task_receiver' = [watcher_task_receiver EXCEPT ![HomePe[t]] = Sent(@, t)]
  /\ current_working_task' = Tail(current_working_task)
  /\ UNCHANGED <<task_receiver, current_level_finished_tasks>>
  /\ trail_busy' = TRUE

TrailSendsNot ==
  /\ UNCHANGED watcher_task_receiver
  /\ current_level_finished_tasks' \in {current_level_finished_tasks, 0}
  /\ \/ /\ current_working_task # None /\ current_working_task # <<>>
        /\ current_working_task' = RecvThenRet(current_working_task)
        /\ UNCHANGED task_receiver
        /\ trail_busy' = TRUE
     \/ /\ current_working_task \in {None, <<>>} /\ task_receiver # <<>>
        /\ current_working_task' = Head(task_receiver)
        /\ task_receiver' = Tail(task_receiver)
        /\ trail_busy' = TRUE
     \/ /\ current_working_task = <<>> /\ task_receiver = <<>>
        /\ current_working_task' = None /\ task_receiver' = task_receiver
        /\ trail_busy' = TRUE
     \/ /\ current_working_task = None /\ task_receiver = <<>>
        /\ UNCHANGED <<current_working_task, task_receiver>>
        /\ trail_busy' = FALSE

LEMMA SyncUpdate ==
  /\ Sync!SendTask => TrailSends(Head(current_working_task))
  /\ Sync!UpdateOtherwise => TrailSendsNot
<1>1. Sync!SendTask => TrailSends(Head(current_working_task))
  BY DEF Sync!SendTask, Sync!HasNextTask, Sync!NextTask, Sync!Target, Sync!Returns,
         Sync!HaveSpace, Sync!Sent, Sync!Received, TrailSends, HaveSpace, Sent
<1>2. /\ Sync!SwitchLevel => TrailSendsNot
      /\ Sync!WaitForLevel \/ Sync!SendTaskBlocked => TrailSendsNot
  BY DEF Sync!SwitchLevel, Sync!WaitForLevel, Sync!SendTaskBlocked, Sync!HasNextTask,
         Sync!Returns, Sync!RecvThenRet, Sync!Returned, Sync!Received, Sync!levelState,
         TrailSendsNot, RecvThenRet, Returned, Received
<1>3. Sync!StartRound \/ Sync!EndRound \/ Sync!NoRound => TrailSendsNot
  BY DEF Sync!StartRound, Sync!EndRound, Sync!NoRound, Sync!HasNextTask, Sync!Returns,
         Sync!Received, Sync!levelState, TrailSendsNot
<1> QED BY <1>1, <1>2, <1>3 DEF Sync!UpdateOtherwise

LEMMA FreeUpdate ==
  /\ Free!SendTask => TrailSends(Head(current_working_task))
  /\ Free!UpdateOtherwise => TrailSendsNot
<1>1. Free!SendTask => TrailSends(Head(current_working_task))
  BY DEF Free!SendTask, Free!HasNextTask, Free!NextTask, Free!Target, Free!Returns,
         Free!HaveSpace, Free!Sent, Free!Received, TrailSends, HaveSpace, Sent
<1>2. /\ Free!SwitchLevel => TrailSendsNot
      /\ Free!WaitForLevel \/ Free!SendTaskBlocked => TrailSendsNot
  BY DEF Free!SwitchLevel, Free!WaitForLevel, Free!SendTaskBlocked, Free!HasNextTask,
         Free!Returns, Free!RecvThenRet, Free!Returned, Free!Received, Free!levelState,
         TrailSendsNot, RecvThenRet, Returned, Received
<1>3. Free!StartRound \/ Free!EndRound \/ Free!NoRound => TrailSendsNot
  BY DEF Free!StartRound, Free!EndRound, Free!NoRound, Free!HasNextTask, Free!Returns,
         Free!Received, Free!levelState, TrailSendsNot
<1> QED BY <1>1, <1>2, <1>3 DEF Free!UpdateOtherwise

LEMMA TrailUpdateIs ==
  TrailUpdate => TrailSends(Head(current_working_task)) \/ TrailSendsNot
BY SyncUpdate, FreeUpdate DEF TrailUpdate

-----------------------------------------------------------------------------
(* The invariant.                                                          *)

\* A round waits for the trail only between its being sent and the trail's next
\* update, which takes it at once.
CallInv ==
  /\ task_receiver # <<>> =>
       turn = <<"trail", 0>> /\ current_working_task = None /\ Len(task_receiver) = 1
  /\ Waits => turn = <<"caller", 0>> /\ ~trail_busy
  /\ turn = <<"caller", 0>> /\ result = "Ok" => ~trail_busy
  /\ ~trail_busy => current_working_task = None

\* An update that has begun runs to its end.
TurnInv ==
  /\ \A p \in Pe : turn = <<"watcher", p>> <=> wpc[1] = p /\ wpc[2] # "return"
  /\ \A u \in Unit : turn = <<"unit", u>> <=> upc[1] = u /\ upc[2] # "return"
  /\ elapsed \in Nat

\* A reply given to a watcher is taken by its update that follows.
DrainInv ==
  \A p \in Pe :
    /\ watcher_mem[p] # <<>> => turn \in {<<"call watcher", p>>, <<"watcher", p>>}
    /\ Len(watcher_mem[p]) <= 1

AnyReq == W!WatcherReq \cup U!ClauseReq

\* A request that was taken is in one place until it is handed over.
ReqInv ==
  /\ memory \subseteq AnyReq /\ lost \subseteq AnyReq /\ memory \cap lost = {}
  /\ mem_icnt_receiver \in [Pe -> Seq(AnyReq)]
  /\ \A p \in Pe : /\ IsInjective(mem_icnt_receiver[p])
                   /\ Range(mem_icnt_receiver[p]) \cap (memory \cup lost) = {}
                   /\ \A r \in Range(mem_icnt_receiver[p]) : AnswerPe(r) = p

\* A clause on its way to a unit is in one place.
WayInv ==
  /\ clause_net \subseteq HasClauseData
  /\ clause_icnt_sender \in [Pe -> Seq(HasClauseData)]
  /\ task_icnt_receiver \in [Pe -> Seq(HasClauseData)]
  /\ \A p \in Pe : /\ IsInjective(clause_icnt_sender[p]) /\ IsInjective(task_icnt_receiver[p])
                   /\ \A c \in Range(task_icnt_receiver[p]) : ClausePe[c] = p
  /\ \A p, q \in Pe :
       p # q => Range(clause_icnt_sender[p]) \cap Range(clause_icnt_sender[q]) = {}
  /\ WP!Upstream \cap (InSenders \cup clause_net \cup InReceivers) = {}
  /\ InSenders \cap (clause_net \cup InReceivers) = {}
  /\ clause_net \cap InReceivers = {}

SystemInv ==
  /\ WP!SafeInv /\ CP!SafeInv
  /\ RoundsInv /\ CallInv /\ TurnInv /\ DrainInv /\ ReqInv /\ WayInv

-----------------------------------------------------------------------------
(* The tasks the trail and the caller still have.                           *)

LEMMA SameRounds ==
  ASSUME RoundsInv, UNCHANGED <<task_receiver, current_working_task, rounds>>
  PROVE  RoundsInv' /\ Unsent' = Unsent
BY DEF RoundsInv, Unsent, InRound, TasksIn, Once

LEMMA SendRoundRounds ==
  ASSUME RoundsInv, SendRound, UNCHANGED current_working_task
  PROVE  RoundsInv' /\ Unsent' = Unsent
<1>1. /\ rounds # <<>> /\ rounds' = Tail(rounds)
      /\ task_receiver' = Append(task_receiver, Head(rounds))
  BY DEF SendRound, Sent
<1>2. /\ task_receiver \in Seq(Seq(WatcherTask)) /\ rounds \in Seq(Seq(WatcherTask))
      /\ Once(task_receiver) /\ Once(rounds)
      /\ TasksIn(task_receiver) \cap TasksIn(rounds) = {}
      /\ InRound \cap TasksIn(task_receiver) = {} /\ InRound \cap TasksIn(rounds) = {}
  BY DEF RoundsInv
<1>3. /\ Head(rounds) \in Seq(WatcherTask) /\ IsInjective(Head(rounds))
      /\ Tail(rounds) \in Seq(Seq(WatcherTask)) /\ Once(Tail(rounds))
      /\ TasksIn(rounds) = Range(Head(rounds)) \cup TasksIn(Tail(rounds))
      /\ Range(Head(rounds)) \cap TasksIn(Tail(rounds)) = {}
  BY <1>1, <1>2, TasksInTail
<1>4. Range(Head(rounds)) \cap TasksIn(task_receiver) = {}
  BY <1>2, <1>3
<1>5. /\ task_receiver' \in Seq(Seq(WatcherTask)) /\ Once(task_receiver')
      /\ TasksIn(task_receiver') = TasksIn(task_receiver) \cup Range(Head(rounds))
  BY <1>1, <1>2, <1>3, <1>4, TasksInAppend
<1>6. InRound' = InRound /\ TasksIn(rounds)' = TasksIn(rounds')
      /\ TasksIn(task_receiver)' = TasksIn(task_receiver')
      /\ (Once(rounds)' <=> Once(rounds')) /\ (Once(task_receiver)' <=> Once(task_receiver'))
  BY DEF InRound, TasksIn, Once
<1>7. Unsent' = Unsent
  BY <1>1, <1>3, <1>5, <1>6 DEF Unsent
<1>8. RoundsInv'
  <2>1. /\ InRound' \cap TasksIn(task_receiver)' = {} /\ InRound' \cap TasksIn(rounds)' = {}
        /\ TasksIn(task_receiver)' \cap TasksIn(rounds)' = {}
    BY <1>1, <1>2, <1>3, <1>5, <1>6
  <2> QED BY <1>1, <1>3, <1>5, <1>6, <2>1 DEF RoundsInv
<1> QED BY <1>7, <1>8

LEMMA TrailSendsRounds ==
  ASSUME RoundsInv, NEW t, TrailSends(t), UNCHANGED rounds
  PROVE  RoundsInv' /\ t \in WatcherTask /\ t \in Unsent /\ Unsent' = Unsent \ {t}
<1> DEFINE s == current_working_task
<1>1. s # None /\ s # <<>> /\ t = Head(s) /\ s' = Tail(s) /\ UNCHANGED task_receiver
  BY DEF TrailSends
<1>2. s \in Seq(WatcherTask) /\ IsInjective(s)
  BY <1>1 DEF RoundsInv
<1>3. /\ t \in WatcherTask /\ Tail(s) \in Seq(WatcherTask) /\ IsInjective(Tail(s))
      /\ Range(s) = {t} \cup Range(Tail(s)) /\ Range(Tail(s)) = Range(s) \ {t}
  BY <1>1, <1>2, TailRange, HeadTailProperties
<1>4. Tail(s) # None
  BY <1>3, DistinctTasks
<1>5. /\ InRound = Range(s) /\ InRound' = Range(Tail(s))
      /\ TasksIn(task_receiver)' = TasksIn(task_receiver) /\ TasksIn(rounds)' = TasksIn(rounds)
      /\ (Once(rounds)' <=> Once(rounds)) /\ (Once(task_receiver)' <=> Once(task_receiver))
  BY <1>1, <1>4 DEF InRound, TasksIn, Once
<1>6. Range(s) \cap TasksIn(task_receiver) = {} /\ Range(s) \cap TasksIn(rounds) = {}
  BY <1>5 DEF RoundsInv
<1>7. t \in Unsent /\ Unsent' = Unsent \ {t}
  BY <1>3, <1>5, <1>6 DEF Unsent
<1>8. RoundsInv'
  BY <1>1, <1>3, <1>5, <1>6 DEF RoundsInv
<1> QED BY <1>3, <1>7, <1>8

LEMMA TrailSendsNotRounds ==
  ASSUME RoundsInv, TrailSendsNot, UNCHANGED rounds
  PROVE  RoundsInv' /\ Unsent' = Unsent
<1> DEFINE s == current_working_task
<1>0. None \notin Seq(WatcherTask) /\ TasksIn(rounds)' = TasksIn(rounds)
      /\ (Once(rounds)' <=> Once(rounds)) /\ <<>> \in Seq(WatcherTask)
  BY DistinctTasks, EmptySeq DEF TasksIn, Once
<1>1. CASE s # None /\ s # <<>> /\ s' = RecvThenRet(s) /\ UNCHANGED task_receiver
  <2>1. s' = s
    BY <1>1, RetRestores DEF RoundsInv
  <2> QED BY <1>1, <2>1, SameRounds
<1>2. CASE s \in {None, <<>>} /\ task_receiver # <<>> /\ s' = Head(task_receiver)
           /\ task_receiver' = Tail(task_receiver)
  <2>1. /\ s' \in Seq(WatcherTask) /\ IsInjective(s')
        /\ task_receiver' \in Seq(Seq(WatcherTask)) /\ Once(task_receiver')
        /\ TasksIn(task_receiver) = Range(s') \cup TasksIn(task_receiver')
        /\ Range(s') \cap TasksIn(task_receiver') = {}
    BY <1>2, TasksInTail DEF RoundsInv
  <2>2. /\ InRound = {} /\ InRound' = Range(s')
        /\ TasksIn(task_receiver)' = TasksIn(task_receiver')
        /\ (Once(task_receiver)' <=> Once(task_receiver'))
    BY <1>0, <1>2, <2>1, NoTasks DEF InRound, TasksIn, Once
  <2>3. TasksIn(task_receiver) \cap TasksIn(rounds) = {} /\ Once(rounds)
    BY DEF RoundsInv
  <2>4. Unsent' = Unsent
    BY <1>0, <2>1, <2>2 DEF Unsent
  <2>5. RoundsInv'
    BY <1>0, <2>1, <2>2, <2>3 DEF RoundsInv
  <2> QED BY <2>4, <2>5
<1>3. CASE s = <<>> /\ s' = None /\ UNCHANGED task_receiver
  <2>1. /\ InRound = {} /\ InRound' = {} /\ TasksIn(task_receiver)' = TasksIn(task_receiver)
        /\ (Once(task_receiver)' <=> Once(task_receiver))
    BY <1>0, <1>3, NoTasks DEF InRound, TasksIn, Once
  <2> QED BY <1>0, <1>3, <2>1 DEF RoundsInv, Unsent
<1>4. CASE UNCHANGED <<current_working_task, task_receiver>>
  BY <1>4, SameRounds
<1> QED BY <1>1, <1>2, <1>3, <1>4 DEF TrailSendsNot

-----------------------------------------------------------------------------
(* Whose turn it is.                                                        *)

\* A step that is not the caller's, the trail's or the last of a cycle.
LEMMA QuietForCaller ==
  ASSUME CallInv, turn \notin {<<"caller", 0>>, <<"trail", 0>>},
         turn' \notin {<<"caller", 0>>, <<"trail", 0>>},
         UNCHANGED <<task_receiver, current_working_task, trail_busy, call, result>>
  PROVE  CallInv'
BY DEF CallInv, Waits

LEMMA InterfaceTurns ==
  InterfaceStep => /\ turn \notin {<<"caller", 0>>, <<"trail", 0>>}
                   /\ turn' \notin {<<"caller", 0>>, <<"trail", 0>>}
<1> DEFINE Outside(x) == x \in {<<"caller", 0>>, <<"trail", 0>>}
<1>0. ASSUME NEW p \in Pe, Dispatch(p) PROVE ~Outside(turn) /\ ~Outside(turn')
  <2>1. turn = <<"dispatch", p>> /\ turn' = <<"call watcher", p>>
    BY <1>0 DEF Dispatch
  <2> QED BY <2>1
<1>1. ASSUME NEW p \in Pe, CallWatcher(p) PROVE ~Outside(turn) /\ ~Outside(turn')
  BY <1>1 DEF CallWatcher
<1>2. ASSUME NEW p \in Pe, WatcherStep(p) PROVE ~Outside(turn) /\ ~Outside(turn')
  BY <1>2 DEF WatcherStep
<1>3. ASSUME NEW u \in Unit, CallUnit(u) PROVE ~Outside(turn) /\ ~Outside(turn')
  BY <1>3 DEF CallUnit
<1>4. ASSUME NEW u \in Unit, UnitStep(u) PROVE ~Outside(turn) /\ ~Outside(turn')
  BY <1>4 DEF UnitStep, AfterUnit
<1> QED BY <1>0, <1>1, <1>2, <1>3, <1>4 DEF InterfaceStep

LEMMA NextCallInv ==
  RoundsInv /\ CallInv /\ [Next]_vars => CallInv'
<1> SUFFICES ASSUME RoundsInv, CallInv, [Next]_vars PROVE CallInv'
  OBVIOUS
<1>0. turn = <<"caller", 0>> => task_receiver = <<>>
  BY DEF CallInv
<1>1. CASE RunSingleTask \/ RunFullExpr
  <2>1. /\ turn = <<"caller", 0>> /\ ~trail_busy
        /\ SendRound /\ \E c \in {"run_single_task", "run_full_expr"} : Run(c)
    BY <1>1 DEF RunSingleTask, RunFullExpr, CallInv, Waits
  <2>2. /\ task_receiver = <<>> /\ task_receiver' = Append(task_receiver, Head(rounds))
        /\ rounds # <<>>
    BY <1>0, <2>1 DEF SendRound, Sent
  <2>3. Len(task_receiver') = 1
    BY <2>2 DEF RoundsInv
  <2>4. /\ turn' = <<"trail", 0>> /\ call' \in {"run_single_task", "run_full_expr"}
        /\ UNCHANGED <<current_working_task, trail_busy, result>>
    BY <2>1 DEF Run
  <2> QED BY <2>1, <2>3, <2>4 DEF CallInv, Waits
<1>2. CASE RunExtra \/ FinishSimulator
  <2>1. /\ turn = <<"caller", 0>> /\ UNCHANGED task_receiver
        /\ \E c \in {"extra", "finish_simulator"} : Run(c)
    BY <1>2 DEF RunExtra, FinishSimulator, CallInv, Waits
  <2>2. /\ turn' = <<"trail", 0>> /\ call' \in {"extra", "finish_simulator"}
        /\ UNCHANGED <<current_working_task, trail_busy, result>>
    BY <2>1 DEF Run
  <2> QED BY <1>0, <2>1, <2>2 DEF CallInv, Waits
<1>3. CASE CallReturns
  <2>1. /\ turn = <<"caller", 0>>
        /\ UNCHANGED <<task_receiver, current_working_task, trail_busy, turn, result>>
        /\ call' \in {"idle", "extra", "failed", "released"}
        /\ call' = "idle" => result = "Ok"
    BY <1>3 DEF CallReturns, interfaceVars, trailOnly
  <2> QED BY <1>0, <2>1 DEF CallInv, Waits
<1>4. CASE TrailUpdate
  <2>1. /\ turn = <<"trail", 0>> /\ turn' = <<"dispatch", 0>> /\ UNCHANGED <<call, result>>
    BY <1>4 DEF TrailUpdate, caller
  <2>2. CASE TrailSends(Head(current_working_task))
    BY <2>1, <2>2 DEF CallInv, Waits, TrailSends
  <2>3. CASE TrailSendsNot
    <3>1. task_receiver' = <<>> /\ (~trail_busy' => current_working_task' = None)
      <4>1. task_receiver # <<>> => Tail(task_receiver) = <<>> /\ current_working_task = None
        <5>1. task_receiver # <<>> => Len(Tail(task_receiver)) = 0
          BY ReceivedType DEF CallInv, RoundsInv
        <5> QED BY <5>1, ReceivedType, EmptySeq DEF RoundsInv, CallInv
      <4> QED BY <2>3, <4>1 DEF TrailSendsNot
    <3> QED BY <2>1, <3>1 DEF CallInv, Waits
  <2> QED BY <1>4, <2>2, <2>3, TrailUpdateIs
<1>5. CASE InterfacesUpdate
  <2>1. UNCHANGED <<task_receiver, current_working_task, trail_busy, call, result>>
    BY <1>5 DEF InterfacesUpdate, caller
  <2>2. InterfaceStep
    BY <1>5 DEF InterfacesUpdate
  <2> QED BY <2>1, <2>2, InterfaceTurns, QuietForCaller
<1>6. CASE NetworkUpdate
  BY <1>6, QuietForCaller DEF NetworkUpdate, trailOnly, caller
<1>7. CASE Lose
  BY <1>7, QuietForCaller DEF Lose, trailOnly, caller, interfaceVars
<1>8. CASE EndOfCycle
  <2>1. /\ turn = <<"end", 0>>
        /\ UNCHANGED <<task_receiver, current_working_task, trail_busy, call>>
    BY <1>8 DEF EndOfCycle, trailOnly
  <2>2. \/ turn' = <<"trail", 0>>
        \/ turn' = <<"caller", 0>> /\ result' = "Err"
        \/ turn' = <<"caller", 0>> /\ ~trail_busy
    BY <1>8 DEF EndOfCycle, SystemBusy
  <2>3. task_receiver = <<>> /\ ~Waits
    BY <2>1 DEF CallInv
  <2> QED BY <2>1, <2>2, <2>3 DEF CallInv, Waits
<1>9. CASE UNCHANGED vars
  BY <1>9 DEF CallInv, Waits, vars, interfaceVars, trailOnly, caller
<1> QED BY <1>1, <1>2, <1>3, <1>4, <1>5, <1>6, <1>7, <1>8, <1>9 DEF Next, Over

-----------------------------------------------------------------------------
(* An update goes through its phases, and the last takes a reply, if any.   *)

LEMMA WatcherPhase ==
  ASSUME NEW p \in Pe, W!Step(p)
  PROVE  \E ph \in DOMAIN W!NextPhase :
           /\ wpc = <<p, ph>> /\ wpc' = <<p, W!NextPhase[ph]>>
           /\ \/ UNCHANGED watcher_mem /\ (ph = "reply" => watcher_mem[p] = <<>>)
              \/ /\ ph = "reply" /\ watcher_mem[p] # <<>>
                 /\ watcher_mem' = [watcher_mem EXCEPT ![p] = Tail(@)]
<1> DEFINE Goes(ph) == wpc = <<p, ph>> /\ wpc' = <<p, W!NextPhase[ph]>>
<1>0. DOMAIN W!NextPhase = {"meta", "data", "expand", "blocker", "process", "start", "send",
                            "reply"}
  BY DEF W!NextPhase
<1>1. ASSUME NEW k \in W!Read, W!StartRead(p, k) \/ W!ReadBlocked(p, k)
      PROVE  k \in {"meta", "data", "blocker"} /\ Goes(k) /\ UNCHANGED watcher_mem
  BY <1>1 DEF W!StartRead, W!ReadBlocked, W!At, W!Done, W!Read
<1>2. CASE W!Expand(p)
  BY <1>0, <1>2 DEF W!Expand, W!At, W!Done
<1>3. CASE W!Process(p)
  BY <1>0, <1>3 DEF W!Process, W!At, W!Done
<1>4. CASE W!StartProcess(p)
  BY <1>0, <1>4 DEF W!StartProcess, W!At, W!Done
<1>5. CASE W!SendClause(p)
  BY <1>0, <1>5 DEF W!SendClause, W!At, W!Done
<1>6. CASE W!Reply(p)
  BY <1>0, <1>6 DEF W!Reply, W!At, W!Done, W!CanReply, W!Received
<1>7. CASE W!Skip(p)
  <2>1. PICK ph \in DOMAIN W!NextPhase :
          /\ W!At(p, ph) /\ ~W!HasWork(p, ph) /\ W!Done(p, ph) /\ UNCHANGED watcher_mem
    BY <1>7 DEF W!Skip
  <2>2. ph = "reply" => watcher_mem[p] = <<>>
    BY <2>1 DEF W!HasWork, W!CanReply, W!Read
  <2> QED BY <2>1, <2>2 DEF W!At, W!Done
<1> QED BY <1>0, <1>1, <1>2, <1>3, <1>4, <1>5, <1>6, <1>7 DEF W!Step

LEMMA UnitPhase ==
  ASSUME NEW u \in Unit, U!Step(u)
  PROVE  \E ph \in DOMAIN U!NextPhase : upc = <<u, ph>> /\ upc' = <<u, U!NextPhase[ph]>>
<1>0. DOMAIN U!NextPhase = {"data", "begin", "value", "process", "start", "reply"}
  BY DEF U!NextPhase
<1>1. CASE U!ReadData(u)
  BY <1>0, <1>1 DEF U!ReadData, U!At, U!Done
<1>2. CASE U!BeginValues(u)
  BY <1>0, <1>2 DEF U!BeginValues, U!At, U!Done
<1>3. CASE U!ReadValue(u)
  BY <1>0, <1>3 DEF U!ReadValue, U!At, U!Done
<1>4. CASE U!Process(u) \/ U!StartProcess(u)
  BY <1>0, <1>4 DEF U!Process, U!StartProcess, U!At, U!Done
<1>5. CASE U!ReplyData(u) \/ U!ReplyValue(u)
  BY <1>0, <1>5 DEF U!ReplyData, U!ReplyValue, U!At, U!Done
<1>6. CASE U!Skip(u)
  BY <1>6 DEF U!Skip, U!At, U!Done
<1> QED BY <1>1, <1>2, <1>3, <1>4, <1>5, <1>6 DEF U!Step

\* The three ways a step of the system deals with the turn.
LEMMA OthersTurn ==
  ASSUME TurnInv, DrainInv, UNCHANGED <<wpc, upc, watcher_mem>>, elapsed' \in Nat,
         turn = turn' \/ \E a, b \in {"caller", "trail", "dispatch", "networks", "end"} :
                           turn[1] = a /\ turn'[1] = b
  PROVE  TurnInv' /\ DrainInv'
<1>1. CASE turn' = turn
  BY <1>1 DEF TurnInv, DrainInv
<1>2. CASE \E a, b \in {"caller", "trail", "dispatch", "networks", "end"} :
             turn[1] = a /\ turn'[1] = b
  <2>1. /\ \A p : turn \notin {<<"watcher", p>>, <<"call watcher", p>>, <<"unit", p>>}
        /\ \A p : turn' \notin {<<"watcher", p>>, <<"unit", p>>}
    <3>1. \A p : /\ <<"watcher", p>>[1] = "watcher" /\ <<"call watcher", p>>[1] = "call watcher"
                /\ <<"unit", p>>[1] = "unit"
      OBVIOUS
    <3>2. turn[1] \notin {"watcher", "call watcher", "unit"} /\ turn'[1] \notin {"watcher", "unit"}
      BY <1>2
    <3> QED BY <3>1, <3>2
  <2> QED BY <2>1 DEF TurnInv, DrainInv
<1> QED BY <1>1, <1>2

LEMMA NextTurnInv ==
  CallInv /\ TurnInv /\ DrainInv /\ [Next]_vars
    /\ wpc \in Pe \X W!Phase /\ upc \in Unit \X U!Phase
    /\ watcher_mem \in [Pe -> Seq(W!WatcherReq)] /\ mem_icnt_receiver \in [Pe -> Seq(AnyReq)]
  => TurnInv' /\ DrainInv'
<1> SUFFICES ASSUME CallInv, TurnInv, DrainInv, [Next]_vars,
                    wpc \in Pe \X W!Phase, upc \in Unit \X U!Phase,
                    watcher_mem \in [Pe -> Seq(W!WatcherReq)],
                    mem_icnt_receiver \in [Pe -> Seq(AnyReq)]
             PROVE  TurnInv' /\ DrainInv'
  OBVIOUS
<1>0. elapsed \in Nat
  BY DEF TurnInv
<1>1. CASE InterfacesUpdate
  <2>1. ASSUME NEW p \in Pe, Dispatch(p) PROVE TurnInv' /\ DrainInv'
    <3>1. /\ turn = <<"dispatch", p>> /\ turn' = <<"call watcher", p>>
          /\ UNCHANGED <<wpc, upc, elapsed>>
      BY <2>1 DEF Dispatch
    <3>2. \A q \in Pe : watcher_mem[q] = <<>>
      BY <3>1 DEF DrainInv
    <3>3. \A q \in Pe : /\ watcher_mem'[q] # <<>> => q = p
                        /\ Len(watcher_mem'[q]) <= 1
      <4>1. \/ UNCHANGED watcher_mem
            \/ \E r : watcher_mem' = [watcher_mem EXCEPT ![p] = Append(@, r)]
        BY <2>1 DEF Dispatch, DispatchReply, Sent
      <4>2. CASE UNCHANGED watcher_mem
        BY <3>2, <4>2
      <4>3. ASSUME NEW r, watcher_mem' = [watcher_mem EXCEPT ![p] = Append(@, r)]
            PROVE  \A q \in Pe : /\ watcher_mem'[q] # <<>> => q = p
                                 /\ Len(watcher_mem'[q]) <= 1
        <5>1. Len(Append(<<>>, r)) = 1 /\ Len(<<>>) = 0
          OBVIOUS
        <5> QED BY <3>2, <4>3, <5>1
      <4> QED BY <4>1, <4>2, <4>3
    <3> QED BY <3>1, <3>3 DEF TurnInv, DrainInv
  <2>2. ASSUME NEW p \in Pe, CallWatcher(p) PROVE TurnInv' /\ DrainInv'
    <3>1. /\ turn = <<"call watcher", p>> /\ turn' = <<"watcher", p>> /\ wpc' = <<p, "meta">>
          /\ UNCHANGED <<upc, elapsed, watcher_mem>>
      BY <2>2 DEF CallWatcher, unitOnly, W!Call
    <3> QED BY <3>1 DEF TurnInv, DrainInv
  <2>3. ASSUME NEW p \in Pe, WatcherStep(p) PROVE TurnInv' /\ DrainInv'
    <3>1. /\ turn = <<"watcher", p>> /\ UNCHANGED <<upc, elapsed>>
          /\ turn' = IF wpc' = <<p, "return">> THEN <<"call unit", <<p, 0>>>> ELSE turn
      BY <2>3 DEF WatcherStep, unitOnly
    <3>2. PICK ph \in DOMAIN W!NextPhase :
            /\ wpc = <<p, ph>> /\ wpc' = <<p, W!NextPhase[ph]>>
            /\ \/ UNCHANGED watcher_mem /\ (ph = "reply" => watcher_mem[p] = <<>>)
               \/ /\ ph = "reply" /\ watcher_mem[p] # <<>>
                  /\ watcher_mem' = [watcher_mem EXCEPT ![p] = Tail(@)]
      BY <2>3, WatcherPhase DEF WatcherStep
    <3>3. W!NextPhase[ph] = "return" <=> ph = "reply"
      BY DEF W!NextPhase
    <3>4. watcher_mem[p] # <<>> => Tail(watcher_mem[p]) = <<>>
      <4>1. \A s \in Seq(W!WatcherReq) : s # <<>> /\ Len(s) <= 1 => Tail(s) = <<>>
        BY ReceivedType, EmptySeq
      <4> QED BY <4>1 DEF DrainInv
    <3>5. \A q \in Pe \ {p} : watcher_mem[q] = <<>> /\ watcher_mem'[q] = watcher_mem[q]
      BY <3>1, <3>2 DEF DrainInv
    <3>6. /\ ph = "reply" => watcher_mem'[p] = <<>>
          /\ ph # "reply" => watcher_mem'[p] = watcher_mem[p]
      BY <3>2, <3>4
    <3>7. \A q \in Pe : Len(watcher_mem'[q]) <= 1
      <4>1. Len(<<>>) = 0 /\ \A q \in Pe : Len(watcher_mem[q]) <= 1
        BY EmptySeq DEF DrainInv
      <4> QED BY <3>5, <3>6, <4>1
    <3> QED BY <3>1, <3>2, <3>3, <3>5, <3>6, <3>7 DEF TurnInv, DrainInv
  <2>4. ASSUME NEW u \in Unit, CallUnit(u) PROVE TurnInv' /\ DrainInv'
    <3>1. /\ turn = <<"call unit", u>> /\ turn' = <<"unit", u>> /\ upc' = <<u, "data">>
          /\ UNCHANGED <<wpc, elapsed, watcher_mem>>
      BY <2>4 DEF CallUnit, watcherOnly, U!Call
    <3> QED BY <3>1 DEF TurnInv, DrainInv
  <2>5. ASSUME NEW u \in Unit, UnitStep(u) PROVE TurnInv' /\ DrainInv'
    <3>1. /\ turn = <<"unit", u>> /\ UNCHANGED <<wpc, elapsed, watcher_mem>>
          /\ turn' = IF upc' = <<u, "return">> THEN AfterUnit(u) ELSE turn
      BY <2>5 DEF UnitStep, watcherOnly
    <3>2. PICK ph \in DOMAIN U!NextPhase : upc = <<u, ph>> /\ upc' = <<u, U!NextPhase[ph]>>
      BY <2>5, UnitPhase DEF UnitStep
    <3>3. AfterUnit(u)[1] \in {"call unit", "dispatch", "networks"}
      BY DEF AfterUnit
    <3>4. \A p : AfterUnit(u) \notin {<<"watcher", p>>, <<"unit", p>>}
      <4>1. \A p : <<"watcher", p>>[1] = "watcher" /\ <<"unit", p>>[1] = "unit"
        OBVIOUS
      <4> QED BY <3>3, <4>1
    <3>5. \A q \in Pe : watcher_mem'[q] = <<>>
      BY <3>1 DEF DrainInv
    <3> QED BY <3>1, <3>2, <3>4, <3>5 DEF TurnInv, DrainInv
  <2> QED BY <1>1, <2>1, <2>2, <2>3, <2>4, <2>5 DEF InterfacesUpdate, InterfaceStep
<1>2. CASE RunSingleTask \/ RunFullExpr \/ RunExtra \/ FinishSimulator
  <2>1. turn = <<"caller", 0>> /\ \E c : Run(c)
    BY <1>2 DEF RunSingleTask, RunFullExpr, RunExtra, FinishSimulator, Waits, CallInv
  <2>2. turn' = <<"trail", 0>> /\ UNCHANGED <<wpc, upc, watcher_mem, elapsed>>
    BY <2>1 DEF Run, watcherOnly, unitOnly
  <2> QED BY <1>0, <2>1, <2>2, OthersTurn
<1>3. CASE CallReturns
  BY <1>0, <1>3, OthersTurn DEF CallReturns, interfaceVars, watcherOnly, unitOnly
<1>4. CASE TrailUpdate
  BY <1>0, <1>4, OthersTurn DEF TrailUpdate, unitOnly
<1>5. CASE NetworkUpdate
  BY <1>0, <1>5, OthersTurn DEF NetworkUpdate, unitOnly
<1>6. CASE Lose
  BY <1>0, <1>6, OthersTurn DEF Lose, interfaceVars, watcherOnly, unitOnly
<1>7. CASE EndOfCycle
  <2>1. elapsed' \in Nat /\ turn[1] = "end" /\ turn'[1] \in {"trail", "caller"}
    BY <1>7 DEF EndOfCycle
  <2> QED BY <1>7, <2>1, OthersTurn DEF EndOfCycle, watcherOnly, unitOnly
<1>8. CASE UNCHANGED vars
  BY <1>0, <1>8, OthersTurn DEF vars, interfaceVars, watcherOnly, unitOnly
<1> QED BY <1>1, <1>2, <1>3, <1>4, <1>5, <1>6, <1>7, <1>8 DEF Next, Over

-----------------------------------------------------------------------------
(* The requests between being taken and being handed over.                  *)

(* What a network delivers: to each port some of what it holds for it.      *)
LEMMA DeliveriesAre ==
  ASSUME NEW S, NEW held \in [Pe -> SUBSET S], NEW ch, NEW a \in Memory!Deliveries(held, ch)
  PROVE  /\ a \in [Pe -> Seq(S)] /\ Memory!Delivered(a) = UNION {Range(a[p]) : p \in Pe}
         /\ \A p \in Pe : IsInjective(a[p]) /\ Range(a[p]) \subseteq held[p]
<1>1. ASSUME NEW p \in Pe
      PROVE  a[p] \in Seq(S) /\ IsInjective(a[p]) /\ Range(a[p]) \subseteq held[p]
  <2>1. a[p] = <<>> \/ (a[p] \in Memory!SeqOf(held[p], ChannelSize - Len(ch[p]))
                          /\ Memory!IsInjective(a[p]))
    BY DEF Memory!Deliveries
  <2>2. CASE a[p] = <<>>
    BY <2>2, NoTasks, EmptySeq
  <2>3. CASE a[p] \in Memory!SeqOf(held[p], ChannelSize - Len(ch[p])) /\ Memory!IsInjective(a[p])
    <3>1. PICK m \in 0 .. (ChannelSize - Len(ch[p])) : a[p] \in [1 .. m -> held[p]]
      BY <2>3 DEF Memory!SeqOf
    <3>2. m \in Nat /\ held[p] \subseteq S
      BY <3>1
    <3>3. a[p] \in Seq(S) /\ Range(a[p]) \subseteq held[p]
      <4>1. a[p] \in [1 .. m -> S]
        BY <3>1, <3>2
      <4>2. \A f \in [1 .. m -> S] : f \in Seq(S)
        BY <3>2
      <4> QED BY <3>1, <4>1, <4>2 DEF Range
    <3>4. IsInjective(a[p])
      BY <2>3 DEF Memory!IsInjective, IsInjective
    <3> QED BY <3>3, <3>4
  <2> QED BY <2>1, <2>2, <2>3
<1>2. DOMAIN a = Pe /\ a = [p \in Pe |-> a[p]]
  BY DEF Memory!Deliveries
<1>3. Memory!Delivered(a) = UNION {Range(a[p]) : p \in Pe}
  BY DEF Memory!Delivered, Memory!ToSet, Range
<1> QED BY <1>1, <1>2, <1>3

LEMMA AddedToChannel ==
  ASSUME NEW S, NEW s \in Seq(S), NEW t \in Seq(S), IsInjective(s), IsInjective(t),
         Range(s) \cap Range(t) = {}
  PROVE  /\ s \o t \in Seq(S) /\ IsInjective(s \o t) /\ Range(s \o t) = Range(s) \cup Range(t)
BY ConcatInjective, ConcatProperties, RangeConcatenation

LEMMA SameRequests ==
  ASSUME ReqInv, UNCHANGED <<memory, lost, mem_icnt_receiver>>
  PROVE  ReqInv' /\ Held' = Held
BY DEF ReqInv, Held, InReplies, AnswerPe, ToWatcher, AnyReq, W!WatcherReq, U!ClauseReq

LEMMA LoseRequests ==
  ASSUME ReqInv, Lose
  PROVE  ReqInv' /\ Held' = Held
<1>1. PICK r \in memory : memory' = memory \ {r} /\ lost' = lost \cup {r}
  BY DEF Lose
<1>2. UNCHANGED mem_icnt_receiver
  BY DEF Lose, interfaceVars, dispatchVars
<1> QED BY <1>1, <1>2 DEF ReqInv, Held, InReplies

\* The reply the dispatch hands over, if any.
LEMMA DispatchRequests ==
  ASSUME ReqInv, NEW p \in Pe, Dispatch(p), UNCHANGED <<memory, lost>>
  PROVE  /\ ReqInv'
         /\ \/ Held' = Held /\ UNCHANGED <<watcher_mem, clause_mem>>
            \/ \E r \in Held \cap AnyReq :
                 /\ AnswerPe(r) = p /\ Held' = Held \ {r} /\ RoomForReply(p, r)
                 /\ IF ToWatcher(r)
                      THEN /\ watcher_mem' = [watcher_mem EXCEPT ![p] = Append(@, r)]
                           /\ UNCHANGED clause_mem
                      ELSE /\ clause_mem' = [clause_mem EXCEPT ![r.unit] = Append(@, r)]
                           /\ UNCHANGED watcher_mem
<1> DEFINE s == mem_icnt_receiver[p]  r == Head(s)
<1>1. DispatchReply(p)
  BY DEF Dispatch
<1>2. s \in Seq(AnyReq) /\ mem_icnt_receiver \in [Pe -> Seq(AnyReq)]
  BY DEF ReqInv
<1>3. CASE s = <<>>
  BY <1>1, <1>3, SameRequests DEF DispatchReply
<1>4. CASE s # <<>> /\ ~RoomForReply(p, r)
  <2>1. /\ mem_icnt_receiver' = [mem_icnt_receiver EXCEPT ![p] = RecvThenRet(@)]
        /\ UNCHANGED <<watcher_mem, clause_mem>>
    BY <1>1, <1>4 DEF DispatchReply
  <2>2. UNCHANGED mem_icnt_receiver
    BY <1>2, <1>4, <2>1, RetRestores
  <2> QED BY <2>1, <2>2, SameRequests
<1>5. CASE s # <<>> /\ RoomForReply(p, r)
  <2>1. /\ mem_icnt_receiver' = [mem_icnt_receiver EXCEPT ![p] = Tail(@)]
        /\ IF ToWatcher(r)
             THEN /\ watcher_mem' = [watcher_mem EXCEPT ![p] = Append(@, r)]
                  /\ UNCHANGED clause_mem
             ELSE /\ clause_mem' = [clause_mem EXCEPT ![r.unit] = Append(@, r)]
                  /\ UNCHANGED watcher_mem
    BY <1>1, <1>5 DEF DispatchReply, Received, Sent
  <2>2. /\ r \in AnyReq /\ Tail(s) \in Seq(AnyReq) /\ IsInjective(Tail(s))
        /\ Range(s) = {r} \cup Range(Tail(s)) /\ Range(Tail(s)) = Range(s) \ {r}
    BY <1>2, <1>5, TailRange, HeadTailProperties DEF ReqInv
  <2>3. r \in Held /\ AnswerPe(r) = p /\ r \notin memory \cup lost
    BY <2>2 DEF Held, InReplies, ReqInv
  <2>4. /\ mem_icnt_receiver'[p] = Tail(s)
        /\ \A o \in Pe \ {p} : mem_icnt_receiver'[o] = mem_icnt_receiver[o]
    BY <1>2, <2>1
  <2>5. \A o \in Pe \ {p} : r \notin Range(mem_icnt_receiver[o])
    BY <2>3 DEF ReqInv
  <2>6. InReplies' = InReplies \ {r}
    <3>1. \A o \in Pe : Range(mem_icnt_receiver'[o]) = Range(mem_icnt_receiver[o]) \ {r}
      BY <2>2, <2>4, <2>5
    <3> QED BY <3>1 DEF InReplies
  <2>7. Held' = Held \ {r}
    BY <2>3, <2>6 DEF Held
  <2>8. ReqInv'
    <3>1. mem_icnt_receiver' \in [Pe -> Seq(AnyReq)]
      BY <1>2, <2>1, <2>2
    <3>2. \A o \in Pe : /\ IsInjective(mem_icnt_receiver'[o])
                        /\ Range(mem_icnt_receiver'[o]) \subseteq Range(mem_icnt_receiver[o])
      BY <2>2, <2>4 DEF ReqInv
    <3>3. AnyReq' = AnyReq /\ \A q : AnswerPe(q)' = AnswerPe(q)
      BY DEF AnyReq, W!WatcherReq, U!ClauseReq, AnswerPe, ToWatcher
    <3> QED BY <3>1, <3>2, <3>3 DEF ReqInv
  <2> QED BY <1>5, <2>1, <2>2, <2>3, <2>7, <2>8
<1> QED BY <1>3, <1>4, <1>5

\* What the memory network takes and answers.
LEMMA ServeRequests ==
  ASSUME ReqInv, NEW T \in SUBSET Pe, NEW a \in Memory!Answers, Memory!Serve(T, a),
         UNCHANGED lost, NEW H, H = {Head(mem_out[p]) : p \in T}, H \subseteq AnyReq,
         H \cap Held = {}
  PROVE  ReqInv' /\ Held' = Held \cup H
<1>1. /\ memory' = (memory \ Memory!Delivered(a)) \cup H
      /\ mem_icnt_receiver' = [p \in Pe |-> mem_icnt_receiver[p] \o a[p]]
  BY DEF Memory!Serve
<1>2. /\ a \in [Pe -> Seq(AnyReq)] /\ Memory!Delivered(a) = UNION {Range(a[p]) : p \in Pe}
      /\ \A p \in Pe : /\ IsInjective(a[p]) /\ Range(a[p]) \subseteq memory
                       /\ \A r \in Range(a[p]) : AnswerPe(r) = p
  <2> DEFINE held == [p \in Pe |-> {r \in memory : AnswerPe(r) = p}]
  <2>1. held \in [Pe -> SUBSET AnyReq]
    BY DEF ReqInv
  <2>2. a \in Memory!Deliveries(held, mem_icnt_receiver)
    BY DEF Memory!Answers
  <2>3. \A p \in Pe : held[p] = {r \in memory : AnswerPe(r) = p}
    OBVIOUS
  <2> HIDE DEF held
  <2>4. /\ a \in [Pe -> Seq(AnyReq)] /\ Memory!Delivered(a) = UNION {Range(a[p]) : p \in Pe}
        /\ \A p \in Pe : IsInjective(a[p]) /\ Range(a[p]) \subseteq held[p]
    BY <2>1, <2>2, DeliveriesAre
  <2> QED BY <2>3, <2>4
<1>3. \A p \in Pe :
        /\ mem_icnt_receiver'[p] \in Seq(AnyReq) /\ IsInjective(mem_icnt_receiver'[p])
        /\ Range(mem_icnt_receiver'[p]) = Range(mem_icnt_receiver[p]) \cup Range(a[p])
  <2> TAKE p \in Pe
  <2>1. /\ mem_icnt_receiver[p] \in Seq(AnyReq) /\ IsInjective(mem_icnt_receiver[p])
        /\ Range(mem_icnt_receiver[p]) \cap Range(a[p]) = {}
    BY <1>2 DEF ReqInv
  <2>2. a[p] \in Seq(AnyReq) /\ IsInjective(a[p])
    BY <1>2
  <2> QED BY <1>1, <2>1, <2>2, AddedToChannel
<1>4. InReplies' = InReplies \cup Memory!Delivered(a)
  <2>1. InReplies' = UNION {Range(mem_icnt_receiver'[p]) : p \in Pe}
    BY DEF InReplies
  <2>2. \A x : x \in InReplies' <=> \E p \in Pe : x \in Range(mem_icnt_receiver[p]) \cup Range(a[p])
    BY <1>3, <2>1
  <2>3. \A x : x \in InReplies <=> \E p \in Pe : x \in Range(mem_icnt_receiver[p])
    BY DEF InReplies
  <2>4. \A x : x \in Memory!Delivered(a) <=> \E p \in Pe : x \in Range(a[p])
    BY <1>2
  <2> QED BY <2>2, <2>3, <2>4
<1>5. Memory!Delivered(a) \subseteq memory
  BY <1>2
<1>6. Held' = Held \cup H
  BY <1>1, <1>4, <1>5 DEF Held
<1>7. ReqInv'
  <2>1. AnyReq' = AnyReq /\ \A q : AnswerPe(q)' = AnswerPe(q)
    BY DEF AnyReq, W!WatcherReq, U!ClauseReq, AnswerPe, ToWatcher
  <2>2. memory' \subseteq AnyReq /\ lost' \subseteq AnyReq /\ memory' \cap lost' = {}
    BY <1>1 DEF ReqInv, Held
  <2>3. mem_icnt_receiver' \in [Pe -> Seq(AnyReq)]
    BY <1>1, <1>3
  <2>4. ASSUME NEW p \in Pe
        PROVE  /\ Range(mem_icnt_receiver'[p]) \cap (memory' \cup lost') = {}
               /\ \A r \in Range(mem_icnt_receiver'[p]) : AnswerPe(r) = p
    <3>1. Range(mem_icnt_receiver[p]) \cap (memory \cup lost) = {}
          /\ Range(mem_icnt_receiver[p]) \subseteq Held
      BY DEF ReqInv, Held, InReplies
    <3>2. Range(a[p]) \subseteq Memory!Delivered(a) /\ Range(a[p]) \cap lost = {}
      BY <1>2 DEF ReqInv
    <3>3. Range(a[p]) \cap H = {}
      BY <1>2 DEF Held
    <3>4. Range(mem_icnt_receiver[p]) \cap H = {}
      BY <3>1
    <3>5. Range(mem_icnt_receiver'[p]) \cap (memory' \cup lost') = {}
      BY <1>1, <1>3, <3>1, <3>2, <3>3, <3>4
    <3>6. \A r \in Range(mem_icnt_receiver'[p]) : AnswerPe(r) = p
      BY <1>2, <1>3 DEF ReqInv
    <3> QED BY <3>5, <3>6
  <2> QED BY <1>3, <2>1, <2>2, <2>3, <2>4 DEF ReqInv
<1> QED BY <1>6, <1>7

-----------------------------------------------------------------------------
(* The clauses on their way to a unit.                                      *)

LEMMA SameWay ==
  ASSUME WayInv, WP!Upstream' = WP!Upstream,
         UNCHANGED <<clause_icnt_sender, clause_net, task_icnt_receiver>>
  PROVE  WayInv' /\ Coming' = Coming
<1>1. InSenders' = InSenders /\ InReceivers' = InReceivers
  BY DEF InSenders, InReceivers
<1> QED BY <1>1 DEF WayInv, Coming

\* A single watcher leaves the watcher, for a unit if it has clause data.
LEMMA SendWay ==
  ASSUME WayInv, UNCHANGED <<clause_net, task_icnt_receiver>>, NEW p \in Pe,
         NEW c \in WP!Upstream, WP!Upstream' = WP!Upstream \ {c},
         \/ c \notin HasClauseData /\ UNCHANGED clause_icnt_sender
         \/ /\ c \in HasClauseData
            /\ clause_icnt_sender' = [clause_icnt_sender EXCEPT ![p] = Append(@, c)]
  PROVE  WayInv' /\ Coming' = Coming
<1>1. InReceivers' = InReceivers
  BY DEF InReceivers
<1>2. CASE c \notin HasClauseData /\ UNCHANGED clause_icnt_sender
  <2>1. InSenders' = InSenders
    BY <1>2 DEF InSenders
  <2> QED BY <1>1, <1>2, <2>1 DEF WayInv, Coming
<1>3. CASE /\ c \in HasClauseData
           /\ clause_icnt_sender' = [clause_icnt_sender EXCEPT ![p] = Append(@, c)]
  <2> DEFINE s == clause_icnt_sender[p]
  <2>1. s \in Seq(HasClauseData) /\ IsInjective(s) /\ c \notin InSenders
    BY DEF WayInv
  <2>2. \A o \in Pe : c \notin Range(clause_icnt_sender[o])
    BY <2>1 DEF InSenders
  <2>3. /\ Append(s, c) \in Seq(HasClauseData) /\ IsInjective(Append(s, c))
        /\ Range(Append(s, c)) = Range(s) \cup {c}
    BY <1>3, <2>1, <2>2, SentType, AppendRange
  <2>4. /\ clause_icnt_sender' \in [Pe -> Seq(HasClauseData)]
        /\ clause_icnt_sender'[p] = Append(s, c)
        /\ \A o \in Pe \ {p} : clause_icnt_sender'[o] = clause_icnt_sender[o]
    BY <1>3, <2>3 DEF WayInv
  <2>5. \A o \in Pe : Range(clause_icnt_sender'[o]) =
                       Range(clause_icnt_sender[o]) \cup (IF o = p THEN {c} ELSE {})
    BY <2>3, <2>4
  <2>10. InSenders' = InSenders \cup {c}
    <3>1. \A x : x \in InSenders' <=> \E o \in Pe : x \in Range(clause_icnt_sender'[o])
      BY DEF InSenders
    <3>2. \A x : x \in InSenders <=> \E o \in Pe : x \in Range(clause_icnt_sender[o])
      BY DEF InSenders
    <3>3. \A x : x \in InSenders' => x \in InSenders \/ x = c
      BY <2>5, <3>1, <3>2
    <3>4. \A x : x \in InSenders \/ x = c => x \in InSenders'
      BY <2>5, <3>1, <3>2
    <3> QED BY <3>3, <3>4
  <2>6. Coming' = Coming
    BY <1>1, <1>3, <2>10 DEF Coming
  <2>7. \A o, q \in Pe :
          o # q => Range(clause_icnt_sender'[o]) \cap Range(clause_icnt_sender'[q]) = {}
    <3>1. \A o, q \in Pe :
            o # q => Range(clause_icnt_sender[o]) \cap Range(clause_icnt_sender[q]) = {}
      BY DEF WayInv
    <3> QED BY <2>2, <2>5, <3>1
  <2>8. \A o \in Pe : IsInjective(clause_icnt_sender'[o])
    BY <2>3, <2>4 DEF WayInv
  <2>9. /\ WP!Upstream' \cap (InSenders' \cup clause_net' \cup InReceivers') = {}
        /\ InSenders' \cap (clause_net' \cup InReceivers') = {}
    BY <1>1, <2>10 DEF WayInv
  <2> QED BY <1>1, <2>4, <2>6, <2>7, <2>8, <2>9 DEF WayInv
<1> QED BY <1>2, <1>3

\* The clause the dispatch hands over, if any, goes to its unit.
LEMMA DispatchWay ==
  ASSUME WayInv, WP!Upstream' = WP!Upstream, NEW p \in Pe, Dispatch(p),
         UNCHANGED <<clause_icnt_sender, clause_net>>
  PROVE  /\ WayInv'
         /\ \/ Coming' = Coming /\ UNCHANGED clause_task_in
            \/ \E c \in Coming \cap HasClauseData :
                 LET u == <<ClausePe[c], InnerClause[c]>> IN
                 /\ Coming' = Coming \ {c} /\ HaveSpace(clause_task_in[u], ChannelSize)
                 /\ clause_task_in' = [clause_task_in EXCEPT ![u] = Append(@, c)]
<1> DEFINE s == task_icnt_receiver[p]  c == Head(s)
<1>1. DispatchTask(p)
  BY DEF Dispatch
<1>2. s \in Seq(HasClauseData) /\ task_icnt_receiver \in [Pe -> Seq(HasClauseData)]
  BY DEF WayInv
<1>3. CASE s = <<>>
  BY <1>1, <1>3, SameWay DEF DispatchTask
<1>4. CASE s # <<>> /\ ~HaveSpace(clause_task_in[TargetUnit(p)], ChannelSize)
  <2>1. /\ task_icnt_receiver' = [task_icnt_receiver EXCEPT ![p] = RecvThenRet(@)]
        /\ UNCHANGED clause_task_in
    BY <1>1, <1>4 DEF DispatchTask
  <2>2. UNCHANGED task_icnt_receiver
    BY <1>2, <1>4, <2>1, RetRestores
  <2> QED BY <2>1, <2>2, SameWay
<1>5. CASE s # <<>> /\ HaveSpace(clause_task_in[TargetUnit(p)], ChannelSize)
  <2>1. /\ task_icnt_receiver' = [task_icnt_receiver EXCEPT ![p] = Tail(@)]
        /\ clause_task_in' = [clause_task_in EXCEPT ![TargetUnit(p)] = Append(@, c)]
    BY <1>1, <1>5 DEF DispatchTask, Received, Sent
  <2>2. /\ c \in HasClauseData /\ Tail(s) \in Seq(HasClauseData) /\ IsInjective(Tail(s))
        /\ Range(s) = {c} \cup Range(Tail(s)) /\ Range(Tail(s)) = Range(s) \ {c}
    BY <1>2, <1>5, TailRange, HeadTailProperties DEF WayInv
  <2>3. c \in InReceivers /\ ClausePe[c] = p
    BY <2>2 DEF InReceivers, WayInv
  <2>4. /\ task_icnt_receiver'[p] = Tail(s)
        /\ \A o \in Pe \ {p} : task_icnt_receiver'[o] = task_icnt_receiver[o]
    BY <1>2, <2>1
  <2>5. \A o \in Pe : Range(task_icnt_receiver'[o]) = Range(task_icnt_receiver[o]) \ {c}
    <3>1. \A o \in Pe \ {p} : c \notin Range(task_icnt_receiver[o])
      BY <2>3 DEF WayInv
    <3> QED BY <2>2, <2>4, <3>1
  <2>6. InReceivers' = InReceivers \ {c} /\ InSenders' = InSenders
    <3>1. InReceivers' = UNION {Range(task_icnt_receiver'[o]) : o \in Pe}
      BY DEF InReceivers
    <3> QED BY <2>5, <3>1 DEF InReceivers, InSenders
  <2>7. Coming' = Coming \ {c}
    BY <2>3, <2>6 DEF Coming, WayInv
  <2>8. WayInv'
    <3>1. task_icnt_receiver' \in [Pe -> Seq(HasClauseData)]
      BY <1>2, <2>1, <2>2
    <3>2. \A o \in Pe : IsInjective(task_icnt_receiver'[o])
      BY <2>2, <2>4 DEF WayInv
    <3> QED BY <2>5, <2>6, <3>1, <3>2 DEF WayInv
  <2>9. TargetUnit(p) = <<ClausePe[c], InnerClause[c]>> /\ c \in Coming
    BY <2>3 DEF TargetUnit, Coming
  <2> QED BY <1>5, <2>1, <2>2, <2>7, <2>8, <2>9
<1> QED BY <1>3, <1>4, <1>5

\* The clause network takes a clause of each port, or none, and delivers some.
LEMMA NetworkWay ==
  ASSUME WayInv, WP!Upstream' = WP!Upstream,
         NEW a \in Memory!Deliveries(ClausesFor, task_icnt_receiver), ClauseNetwork(a)
  PROVE  /\ WayInv' /\ Coming' = Coming
         /\ \/ UNCHANGED clause_icnt_sender
            \/ clause_icnt_sender' = [p \in Pe |-> IF clause_icnt_sender[p] = <<>> THEN <<>>
                                                   ELSE Tail(clause_icnt_sender[p])]
<1> DEFINE out == clause_icnt_sender  D == Memory!Delivered(a)
<1>1. /\ clause_net' = (clause_net \cup TakenClauses) \ D
      /\ out' = [p \in Pe |-> IF TakenClauses = {} \/ out[p] = <<>> THEN out[p]
                              ELSE Tail(out[p])]
      /\ task_icnt_receiver' = [p \in Pe |-> task_icnt_receiver[p] \o a[p]]
  BY DEF ClauseNetwork, Received
<1>2. /\ out \in [Pe -> Seq(HasClauseData)]
      /\ \A p \in Pe : IsInjective(out[p])
      /\ \A p, q \in Pe : p # q => Range(out[p]) \cap Range(out[q]) = {}
  BY DEF WayInv
<1>3. \A p \in Pe : out[p] # <<>> =>
        /\ Head(out[p]) \in HasClauseData /\ Tail(out[p]) \in Seq(HasClauseData)
        /\ IsInjective(Tail(out[p])) /\ Range(out[p]) = {Head(out[p])} \cup Range(Tail(out[p]))
        /\ Range(Tail(out[p])) = Range(out[p]) \ {Head(out[p])}
  BY <1>2, TailRange, HeadTailProperties
<1>4. \/ TakenClauses = {} /\ out' = out
      \/ /\ TakenClauses = {Head(out[p]) : p \in {q \in Pe : out[q] # <<>>}}
         /\ out' = [p \in Pe |-> IF out[p] = <<>> THEN <<>> ELSE Tail(out[p])]
  <2>1. CASE TakenClauses = {}
    BY <1>1, <1>2, <2>1
  <2>2. CASE TakenClauses # {}
    BY <1>1, <2>2 DEF TakenClauses
  <2> QED BY <2>1, <2>2
<1>5. /\ TakenClauses \subseteq InSenders /\ TakenClauses \subseteq HasClauseData
      /\ out' \in [Pe -> Seq(HasClauseData)]
      /\ \A p \in Pe : IsInjective(out'[p]) /\ Range(out'[p]) = Range(out[p]) \ TakenClauses
  <2>1. CASE TakenClauses = {} /\ out' = out
    BY <1>2, <2>1
  <2>2. CASE /\ TakenClauses = {Head(out[p]) : p \in {q \in Pe : out[q] # <<>>}}
             /\ out' = [p \in Pe |-> IF out[p] = <<>> THEN <<>> ELSE Tail(out[p])]
    <3>1. \A p \in Pe : out[p] # <<>> => Head(out[p]) \in Range(out[p])
      BY <1>3
    <3>2. TakenClauses \subseteq InSenders /\ TakenClauses \subseteq HasClauseData
      BY <1>3, <2>2, <3>1 DEF InSenders
    <3>3. ASSUME NEW p \in Pe
          PROVE  /\ out'[p] \in Seq(HasClauseData) /\ IsInjective(out'[p])
                 /\ Range(out'[p]) = Range(out[p]) \ TakenClauses
      <4>1. CASE out[p] = <<>>
        BY <2>2, <4>1, NoTasks, EmptySeq
      <4>2. CASE out[p] # <<>>
        <5>1. \A x \in TakenClauses : x \in Range(out[p]) => x = Head(out[p])
          <6> SUFFICES ASSUME NEW x \in TakenClauses, x \in Range(out[p]) PROVE x = Head(out[p])
            OBVIOUS
          <6>1. PICK q \in Pe : out[q] # <<>> /\ x = Head(out[q])
            BY <2>2
          <6>2. x \in Range(out[q])
            BY <3>1, <6>1
          <6>3. q = p
            BY <1>2, <6>2
          <6> QED BY <6>1, <6>3
        <5>2. Head(out[p]) \in TakenClauses
          BY <2>2, <4>2
        <5>3. out'[p] = Tail(out[p])
          BY <2>2, <4>2
        <5> QED BY <1>3, <4>2, <5>1, <5>2, <5>3
      <4> QED BY <4>1, <4>2
    <3> QED BY <2>2, <3>2, <3>3
  <2> QED BY <1>4, <2>1, <2>2
<1>6. InSenders' = InSenders \ TakenClauses
  <2>1. InSenders' = UNION {Range(out'[p]) : p \in Pe}
    BY DEF InSenders
  <2> QED BY <1>5, <2>1 DEF InSenders
<1>7. /\ a \in [Pe -> Seq(HasClauseData)] /\ D = UNION {Range(a[p]) : p \in Pe}
      /\ \A p \in Pe : /\ IsInjective(a[p]) /\ Range(a[p]) \subseteq clause_net \cup TakenClauses
                       /\ \A c \in Range(a[p]) : ClausePe[c] = p
  <2>1. /\ ClausesFor \in [Pe -> SUBSET HasClauseData]
        /\ \A p \in Pe : ClausesFor[p] = {c \in clause_net \cup TakenClauses : ClausePe[c] = p}
    BY <1>5 DEF ClausesFor, WayInv
  <2>2. /\ a \in [Pe -> Seq(HasClauseData)] /\ D = UNION {Range(a[p]) : p \in Pe}
        /\ \A p \in Pe : IsInjective(a[p]) /\ Range(a[p]) \subseteq ClausesFor[p]
    BY <2>1, DeliveriesAre
  <2> QED BY <2>1, <2>2
<1>8. \A p \in Pe :
        /\ task_icnt_receiver'[p] \in Seq(HasClauseData) /\ IsInjective(task_icnt_receiver'[p])
        /\ Range(task_icnt_receiver'[p]) = Range(task_icnt_receiver[p]) \cup Range(a[p])
  <2> TAKE p \in Pe
  <2>1. /\ task_icnt_receiver[p] \in Seq(HasClauseData) /\ IsInjective(task_icnt_receiver[p])
        /\ Range(task_icnt_receiver[p]) \subseteq InReceivers
    BY DEF WayInv, InReceivers
  <2>2. InReceivers \cap (clause_net \cup TakenClauses) = {}
    BY <1>5 DEF WayInv
  <2>3. a[p] \in Seq(HasClauseData) /\ IsInjective(a[p])
        /\ Range(task_icnt_receiver[p]) \cap Range(a[p]) = {}
    BY <1>7, <2>1, <2>2
  <2> QED BY <1>1, <2>1, <2>3, AddedToChannel
<1>9. InReceivers' = InReceivers \cup D
  <2>1. InReceivers' = UNION {Range(task_icnt_receiver'[p]) : p \in Pe}
    BY DEF InReceivers
  <2>2. \A x : x \in InReceivers' <=>
               \E p \in Pe : x \in Range(task_icnt_receiver[p]) \cup Range(a[p])
    BY <1>8, <2>1
  <2>3. \A x : x \in InReceivers <=> \E p \in Pe : x \in Range(task_icnt_receiver[p])
    BY DEF InReceivers
  <2>4. \A x : x \in D <=> \E p \in Pe : x \in Range(a[p])
    BY <1>7
  <2> QED BY <2>2, <2>3, <2>4
<1>10. D \subseteq clause_net \cup TakenClauses
  BY <1>7
<1>11. Coming' = Coming
  BY <1>1, <1>5, <1>6, <1>9, <1>10 DEF Coming
<1>12. WayInv'
  <2>1. /\ clause_net' \subseteq HasClauseData
        /\ task_icnt_receiver' \in [Pe -> Seq(HasClauseData)]
    BY <1>1, <1>5, <1>8 DEF WayInv
  <2>2. \A p \in Pe : \A c \in Range(task_icnt_receiver'[p]) : ClausePe[c] = p
    BY <1>7, <1>8 DEF WayInv
  <2>3. \A p, q \in Pe : p # q => Range(out'[p]) \cap Range(out'[q]) = {}
    BY <1>2, <1>5
  <2>4. /\ WP!Upstream \cap (InSenders \cup clause_net \cup InReceivers) = {}
        /\ InSenders \cap (clause_net \cup InReceivers) = {}
        /\ clause_net \cap InReceivers = {}
    BY DEF WayInv
  <2>5. /\ WP!Upstream' \cap (InSenders' \cup clause_net' \cup InReceivers') = {}
        /\ InSenders' \cap (clause_net' \cup InReceivers') = {}
        /\ clause_net' \cap InReceivers' = {}
    BY <1>1, <1>5, <1>6, <1>9, <1>10, <2>4
  <2> QED BY <1>5, <1>8, <2>1, <2>2, <2>3, <2>5 DEF WayInv
<1> QED BY <1>4, <1>11, <1>12

-----------------------------------------------------------------------------
(* A step of the system as seen by the watchers and by the units.           *)

\* All but whose turn it is.
DataInv == WP!SafeInv /\ CP!SafeInv /\ RoundsInv /\ ReqInv /\ WayInv

LEMMA SafeWatchers ==
  WP!SafeInv => /\ WP!TypeOK /\ WP!WatcherTypeOK /\ WP!PInv /\ WP!FInv
                /\ wpc \in Pe \X W!Phase /\ watcher_mem \in [Pe -> Seq(W!WatcherReq)]
                /\ mem_out \in [Pe -> Seq(AnyReq)] /\ current_level_finished_tasks \in Nat
<1>1. WP!SafeInv => WP!TypeOK /\ WP!WatcherTypeOK /\ WP!PInv /\ WP!FInv
  BY DEF WP!SafeInv, WP!IInv, WP!TypeOK
<1>2. WP!Phase = W!Phase
  BY DEF WP!Phase, W!Phase, WP!NextPhase, W!NextPhase
<1> QED BY <1>1, <1>2, SameWords DEF WP!TypeOK, WP!WatcherTypeOK, AnyReq

LEMMA SafeUnits ==
  CP!SafeInv => CP!TypeOK /\ CP!ClauseTypeOK /\ CP!FInv /\ upc \in Unit \X U!Phase
<1>1. CP!Phase = U!Phase
  BY DEF CP!Phase, U!Phase, CP!NextPhase, U!NextPhase
<1> QED BY <1>1, UnitTypes DEF CP!SafeInv, CP!RInv, CP!TypeOK, CP!ClauseTypeOK

LEMMA ReqConstant == UNCHANGED <<W!WatcherReq, U!ClauseReq, AnyReq>>
BY DEF W!WatcherReq, W!Read, W!TaskOf, U!ClauseReq, U!DataReqs, U!DataReq, U!AllValueReqs,
       U!SetOf, U!ValueReqs, U!ValueReq, AnyReq

\* The work the trail has not sent, and all that is not finished.
UnsentWork == UNION {Work[t] : t \in Unsent}
Unfinished == WP!Unfinished \cup (HasClauseData \ CP!Gone)

\* A step finishes nothing, or one piece of work, and counts it.
Counts ==
  \/ /\ Unfinished' = Unfinished
     /\ current_level_finished_tasks' = current_level_finished_tasks
  \/ /\ \E w \in Unfinished : Unfinished' = Unfinished \ {w}
     /\ current_level_finished_tasks' = current_level_finished_tasks + 1

LEMMA CountsByWatcher ==
  ASSUME WP!SafeInv, WP!SafeInv', [WP!Next]_(WP!vars), CP!Gone' = CP!Gone
  PROVE  Counts
<1>1. /\ WP!TypeOK /\ WP!PInv /\ WP!TypeOK' /\ WP!PInv'
  BY DEF WP!SafeInv, WP!IInv, WP!TypeOK
<1>2. WP!Unfinished \subseteq WatcherTask \cup (ClauseTask \ HasClauseData)
  BY <1>1, WatcherWorkTypes
<1>3. HasClauseData \cap (WatcherTask \cup (ClauseTask \ HasClauseData)) = {}
  BY InterfaceAssumption, DistinctTasks DEF W!TasksAssumption
<1>4. \A w \in WP!Unfinished :
        w \notin HasClauseData
  BY <1>2, <1>3
<1>5. \A w \in WP!Unfinished : WP!Unfinished' = WP!Unfinished \ {w} =>
        w \in Unfinished /\ Unfinished' = Unfinished \ {w}
  BY <1>4 DEF Unfinished
<1> QED BY <1>1, <1>5, WatcherFinishes DEF Counts, Unfinished

LEMMA CountsByUnit ==
  ASSUME WP!SafeInv, CP!SafeInv, [CP!Next]_(CP!vars), WP!Unfinished' = WP!Unfinished
  PROVE  Counts
<1>1. /\ WP!TypeOK /\ WP!PInv /\ CP!TypeOK /\ CP!PInv
  BY SafeWatchers, SafeUnits DEF CP!SafeInv, CP!RInv
<1>2. WP!Unfinished \subseteq WatcherTask \cup (ClauseTask \ HasClauseData)
  BY <1>1, WatcherWorkTypes
<1>3. HasClauseData \cap (WatcherTask \cup (ClauseTask \ HasClauseData)) = {}
  BY InterfaceAssumption, DistinctTasks DEF W!TasksAssumption
<1>4. \A c \in HasClauseData \ CP!Gone : CP!Gone' = CP!Gone \cup {c} =>
        c \in Unfinished /\ Unfinished' = Unfinished \ {c}
  BY <1>2, <1>3 DEF Unfinished
<1> QED BY <1>1, <1>4, UnitFinishes DEF Counts, Unfinished

LEMMA WatcherSame ==
  ASSUME WP!SafeInv, UNCHANGED <<watcherOnly, mem_out>>, Unsent' = Unsent,
         Held' \cap W!WatcherReq = Held \cap W!WatcherReq, current_level_finished_tasks' \in Nat
  PROVE  WP!SafeInv'
<1>1. WP!OthersCount
  BY ReqConstant DEF WP!OthersCount, watcherOnly, WP!control, WP!envVars
<1> QED BY <1>1, WatcherUncounted

LEMMA UnitSame ==
  ASSUME CP!SafeInv, UNCHANGED <<unitOnly, mem_out>>, Coming' = Coming,
         Held' \cap U!ClauseReq = Held \cap U!ClauseReq, current_level_finished_tasks' \in Nat
  PROVE  CP!SafeInv'
<1>1. CP!OthersCount
  BY ReqConstant DEF CP!OthersCount, unitOnly, CP!control, CP!channels, CP!values, CP!ongoing,
                     CP!envVars
<1> QED BY <1>1, UnitUncounted

LEMMA WatcherWorkSame ==
  ASSUME UNCHANGED watcherOnly, Unsent' = Unsent
  PROVE  WP!Unfinished' = WP!Unfinished
BY SameWatcherWork DEF watcherOnly

LEMMA UnitWorkSame ==
  ASSUME UNCHANGED unitOnly, Coming' = Coming
  PROVE  CP!Gone' = CP!Gone
BY SameUnitWork DEF unitOnly

LEMMA ElsewhereData ==
  ASSUME DataInv, UNCHANGED <<watcherOnly, unitOnly, mem_out, clause_net, task_icnt_receiver>>,
         current_level_finished_tasks' \in Nat, RoundsInv', Unsent' = Unsent,
         ReqInv', Held' = Held
  PROVE  DataInv' /\ Unfinished' = Unfinished
<1>1. WP!Upstream' = WP!Upstream
  BY SameUpstream DEF watcherOnly
<1>2. WayInv' /\ Coming' = Coming
  BY <1>1, SameWay DEF DataInv, watcherOnly
<1>3. WP!SafeInv' /\ CP!SafeInv'
  BY <1>2, WatcherSame, UnitSame DEF DataInv
<1>4. Unfinished' = Unfinished
  BY <1>2, WatcherWorkSame, UnitWorkSame DEF Unfinished
<1> QED BY <1>2, <1>3, <1>4 DEF DataInv

LEMMA SameWStep == ASSUME NEW p PROVE W!Step(p) <=> WP!Step(p)
<1>1. W!Read = WP!Read
  BY DEF W!Read, WP!Read
<1> QED BY <1>1, SameWStartRead, SameWReadBlocked, SameWExpand, SameWProcess, SameWStartProcess,
           SameWSendClause, SameWReply, SameWSkip DEF W!Step, WP!Step

LEMMA SameUStep == ASSUME NEW u PROVE U!Step(u) <=> CP!Step(u)
BY SameUReadData, SameUBeginValues, SameUReadValue, SameUProcess, SameUStartProcess,
   SameUReplyData, SameUReplyValue, SameUSkip DEF U!Step, CP!Step

\* What a step of a watcher does outside of it.
LEMMA WatcherStepOutside ==
  ASSUME WP!WatcherTypeOK, NEW p \in Pe, W!Step(p)
  PROVE  /\ \/ /\ UNCHANGED mem_out
               /\ current_level_finished_tasks' \in Nat
            \/ /\ UNCHANGED current_level_finished_tasks
               /\ \E r \in W!WatcherReq :
                    /\ HaveSpace(mem_out[p], ChannelSize)
                    /\ mem_out' = [mem_out EXCEPT ![p] = Append(@, r)]
         /\ ~W!SendClause(p) => UNCHANGED clause_icnt_sender
<1>0. current_level_finished_tasks \in Nat /\ current_level_finished_tasks + 1 \in Nat
  BY DEF WP!WatcherTypeOK
<1>1. ASSUME NEW k \in W!Read, W!StartRead(p, k)
      PROVE  /\ UNCHANGED <<current_level_finished_tasks, clause_icnt_sender>>
             /\ \E r \in W!WatcherReq :
                  /\ HaveSpace(mem_out[p], ChannelSize)
                  /\ mem_out' = [mem_out EXCEPT ![p] = Append(@, r)]
  <2> DEFINE s == W!Input(p, k)
  <2>1. /\ s # <<>> /\ HaveSpace(mem_out[p], ChannelSize)
        /\ mem_out' = [mem_out EXCEPT ![p] = Append(@, W!Request(p, k, Head(s)))]
        /\ UNCHANGED <<current_level_finished_tasks, clause_icnt_sender>>
    BY <1>1 DEF W!StartRead, W!CanRead, W!HaveSpace, HaveSpace, W!Sent
  <2>2. s \in Seq(W!TaskOf(k))
    <3>1. CASE k = "meta"
      BY <3>1 DEF W!Input, W!TaskOf, WP!WatcherTypeOK
    <3>2. CASE k # "meta"
      <4>1. /\ W!InputQueue[k] \in WP!Queue
            /\ WP!ItemOf(W!InputQueue[k]) = W!TaskOf(k)
        BY <1>1, <3>2 DEF W!Read, W!InputQueue, WP!Queue, WP!ItemOf, W!TaskOf
      <4>2. s = queue[p][W!InputQueue[k]]
        BY <3>2 DEF W!Input
      <4> QED BY <4>1, <4>2 DEF WP!WatcherTypeOK
    <3> QED BY <3>1, <3>2
  <2>3. Head(s) \in W!TaskOf(k)
    BY <2>1, <2>2, HeadTailProperties
  <2>4. W!Request(p, k, Head(s)) \in W!WatcherReq
    <3>1. k = "blocker" => ClausePe[Head(s)] \in Pe
      BY <2>3, InterfaceAssumption DEF W!TaskOf, W!TasksAssumption
    <3>2. W!Request(p, k, Head(s)) \in [type : {k}, pe : Pe, task : W!TaskOf(k)]
      BY <2>3, <3>1 DEF W!Request
    <3> QED BY <1>1, <3>2 DEF W!WatcherReq
  <2> QED BY <2>1, <2>4
<1>2. ASSUME NEW k \in W!Read, W!ReadBlocked(p, k)
      PROVE  UNCHANGED <<mem_out, current_level_finished_tasks, clause_icnt_sender>>
  BY <1>2 DEF W!ReadBlocked
<1>3. CASE W!Expand(p)
  BY <1>0, <1>3 DEF W!Expand
<1>4. CASE W!Process(p) \/ W!StartProcess(p)
  BY <1>0, <1>4 DEF W!Process, W!StartProcess
<1>5. CASE W!SendClause(p)
  BY <1>0, <1>5 DEF W!SendClause
<1>6. CASE W!Reply(p) \/ W!Skip(p)
  BY <1>0, <1>6 DEF W!Reply, W!Skip
<1> QED BY <1>0, <1>1, <1>2, <1>3, <1>4, <1>5, <1>6 DEF W!Step

\* What a step of a unit does outside of it.
LEMMA UnitStepOutside ==
  ASSUME CP!ClauseTypeOK, CP!FInv, NEW u \in Unit, U!Step(u)
  PROVE  \/ /\ UNCHANGED mem_out
            /\ current_level_finished_tasks' \in Nat
         \/ /\ UNCHANGED current_level_finished_tasks
            /\ \E r \in U!ClauseReq :
                 /\ r.unit = u /\ HaveSpace(mem_out[u[1]], ChannelSize)
                 /\ mem_out' = [mem_out EXCEPT ![u[1]] = Append(@, r)]
<1>0. current_level_finished_tasks \in Nat /\ current_level_finished_tasks + 1 \in Nat
  BY DEF CP!ClauseTypeOK
<1>1. CASE U!ReadData(u)
  <2> DEFINE c == Head(clause_task_in[u])
  <2>1. clause_task_in[u] # <<>> /\ UNCHANGED current_level_finished_tasks
    BY <1>1 DEF U!ReadData, U!CanReadData
  <2>2. c \in HasClauseData
    BY <2>1, HeadTailProperties DEF CP!ClauseTypeOK
  <2>3. U!DataReq(u, c) \in U!ClauseReq /\ U!DataReq(u, c).unit = u
    BY <2>2 DEF U!ClauseReq, U!DataReqs, U!DataReq
  <2>4. \/ UNCHANGED mem_out
        \/ /\ HaveSpace(mem_out[u[1]], ChannelSize)
           /\ mem_out' = [mem_out EXCEPT ![u[1]] = Append(@, U!DataReq(u, c))]
    BY <1>1 DEF U!ReadData, U!HaveSpace, HaveSpace, U!Sent
  <2> QED BY <1>0, <2>1, <2>3, <2>4
<1>2. CASE U!ReadValue(u)
  <2> DEFINE r == Head(value_reqs[u])
  <2>1. value_reqs[u] # <<>> /\ UNCHANGED current_level_finished_tasks
    BY <1>2 DEF U!ReadValue, U!CanReadValue, U!tasks
  <2>2. r \in Range(value_reqs[u])
    BY <2>1, TailRange DEF CP!ClauseTypeOK
  <2>3. r \in U!ClauseReq /\ r.unit = u
    <3>1. CP!Lies(r, "unsent", u)
      BY <2>2, SameWords DEF CP!Lies
    <3> QED BY <3>1, SameWords DEF CP!FInv, CP!Addressed
  <2>4. \/ UNCHANGED mem_out
        \/ /\ HaveSpace(mem_out[u[1]], ChannelSize)
           /\ mem_out' = [mem_out EXCEPT ![u[1]] = Append(@, r)]
    BY <1>2 DEF U!ReadValue, U!HaveSpace, HaveSpace, U!Sent
  <2> QED BY <1>0, <2>1, <2>3, <2>4
<1>3. CASE U!BeginValues(u) \/ U!StartProcess(u)
  BY <1>0, <1>3 DEF U!BeginValues, U!StartProcess, U!channels
<1>4. CASE U!Process(u)
  BY <1>0, <1>4 DEF U!Process, U!channels
<1>5. CASE U!ReplyData(u) \/ U!ReplyValue(u)
  BY <1>0, <1>5 DEF U!ReplyData, U!ReplyValue
<1>6. CASE U!Skip(u)
  BY <1>0, <1>6 DEF U!Skip, U!channels, U!tasks
<1> QED BY <1>1, <1>2, <1>3, <1>4, <1>5, <1>6 DEF U!Step

-----------------------------------------------------------------------------
(* Every action keeps the invariant.                                        *)

LEMMA CallWatcherData ==
  ASSUME DataInv, TurnInv, NEW p \in Pe, CallWatcher(p),
         UNCHANGED <<task_receiver, current_working_task, rounds, networkOnly>>
  PROVE  DataInv' /\ Counts
<1>1. /\ W!Call(p, elapsed) /\ elapsed \in Nat
      /\ UNCHANGED <<memory, lost, clause_net, task_icnt_receiver, mem_icnt_receiver, unitOnly>>
      /\ UNCHANGED <<mem_out, clause_icnt_sender, current_level_finished_tasks>>
  BY DEF CallWatcher, TurnInv, networkOnly, dispatchVars, W!Call
<1>2. RoundsInv' /\ Unsent' = Unsent /\ ReqInv' /\ Held' = Held
  BY <1>1, SameRounds, SameRequests DEF DataInv
<1>3. WP!Call(p, elapsed) /\ UNCHANGED WP!envVars
  BY <1>1, <1>2, SameWCall, ReqConstant DEF WP!envVars
<1>4. WP!Next /\ WP!SafeInv'
  <2>1. WP!Next
    BY <1>1, <1>3 DEF WP!Next, WP!WatcherNext
  <2> QED BY <2>1, WatcherKeeps DEF DataInv
<1>5. WP!Upstream' = WP!Upstream
  BY <1>1, <1>3, SafeWatchers, CallKeepsUpstream DEF DataInv
<1>6. WayInv' /\ Coming' = Coming
  BY <1>1, <1>5, SameWay DEF DataInv
<1>7. CP!SafeInv'
  BY <1>1, <1>2, <1>6, SafeWatchers, UnitSame DEF DataInv
<1>8. CP!Gone' = CP!Gone
  BY <1>1, <1>6, UnitWorkSame
<1>9. Counts
  BY <1>4, <1>8, CountsByWatcher DEF DataInv
<1> QED BY <1>2, <1>4, <1>6, <1>7, <1>9 DEF DataInv

LEMMA WatcherStepData ==
  ASSUME DataInv, TurnInv, NEW p \in Pe, WatcherStep(p),
         UNCHANGED <<task_receiver, current_working_task, rounds, networkOnly>>
  PROVE  DataInv' /\ Counts
<1>1. /\ W!Step(p) /\ turn = <<"watcher", p>>
      /\ UNCHANGED <<memory, lost, clause_net, task_icnt_receiver, mem_icnt_receiver, unitOnly>>
  BY DEF WatcherStep, networkOnly, dispatchVars
<1>2. RoundsInv' /\ Unsent' = Unsent /\ ReqInv' /\ Held' = Held
  BY <1>1, SameRounds, SameRequests DEF DataInv
<1>3. WP!Step(p) /\ UNCHANGED WP!envVars
  BY <1>1, <1>2, SameWStep, ReqConstant DEF WP!envVars
<1>4. WP!Next /\ WP!SafeInv'
  <2>1. WP!Next
    BY <1>3 DEF WP!Next, WP!WatcherNext
  <2> QED BY <2>1, WatcherKeeps DEF DataInv
<1>5. WayInv' /\ Coming' = Coming
  <2>1. CASE ~W!SendClause(p)
    <3>1. WP!Upstream' = WP!Upstream
      BY <1>3, <2>1, SameWSendClause, SafeWatchers, StepKeepsUpstream DEF DataInv
    <3>2. UNCHANGED clause_icnt_sender
      BY <1>1, <2>1, SafeWatchers, WatcherStepOutside DEF DataInv
    <3> QED BY <1>1, <3>1, <3>2, SameWay DEF DataInv
  <2>2. CASE W!SendClause(p)
    <3> DEFINE c == Head(queue[p]["process_finished"])
    <3>1. WP!SendClause(p)
      BY <2>2, SameWSendClause
    <3>2. \/ /\ c \in WP!Upstream /\ WP!Upstream' = WP!Upstream \ {c}
             /\ \/ c \notin HasClauseData /\ UNCHANGED clause_icnt_sender
                \/ /\ c \in HasClauseData
                   /\ clause_icnt_sender' = [clause_icnt_sender EXCEPT ![p] = Append(@, c)]
          \/ WP!Upstream' = WP!Upstream /\ UNCHANGED clause_icnt_sender
      BY <1>3, <3>1, SafeWatchers, SendLeavesUpstream DEF DataInv
    <3> QED BY <1>1, <3>2, SendWay, SameWay DEF DataInv
  <2> QED BY <2>1, <2>2
<1>6. CP!SafeInv'
  <2>1. CASE UNCHANGED mem_out /\ current_level_finished_tasks' \in Nat
    BY <1>1, <1>2, <1>5, <2>1, UnitSame DEF DataInv
  <2>2. ASSUME UNCHANGED current_level_finished_tasks, NEW r \in W!WatcherReq,
               HaveSpace(mem_out[p], ChannelSize),
               mem_out' = [mem_out EXCEPT ![p] = Append(@, r)]
        PROVE  CP!SafeInv'
    <3>1. upc \in Unit \X U!Phase /\ upc[2] = "return"
      BY <1>1, SafeUnits DEF DataInv, TurnInv
    <3>2. CP!OthersSend
      BY <1>1, <1>2, <1>5, <2>2, <3>1, ReqConstant
         DEF CP!OthersSend, CP!BetweenUpdates, CP!HaveSpace, HaveSpace, CP!Sent, CP!control,
             CP!tasks, CP!values, CP!ongoing, CP!envVars, unitOnly
    <3> QED BY <3>2, UnitKeeps DEF DataInv, CP!Next, CP!EnvNext
  <2> QED BY <1>1, <2>1, <2>2, SafeWatchers, WatcherStepOutside DEF DataInv
<1>7. CP!Gone' = CP!Gone
  BY <1>1, <1>5, UnitWorkSame
<1>8. Counts
  BY <1>4, <1>7, CountsByWatcher DEF DataInv
<1> QED BY <1>2, <1>4, <1>5, <1>6, <1>8 DEF DataInv

LEMMA CallUnitData ==
  ASSUME DataInv, TurnInv, NEW u \in Unit, CallUnit(u),
         UNCHANGED <<task_receiver, current_working_task, rounds, networkOnly>>
  PROVE  DataInv' /\ Counts
<1>1. /\ U!Call(u, elapsed) /\ elapsed \in Nat
      /\ UNCHANGED <<memory, lost, clause_net, task_icnt_receiver, mem_icnt_receiver,
                     watcherOnly>>
      /\ UNCHANGED <<mem_out, current_level_finished_tasks>>
  BY DEF CallUnit, TurnInv, networkOnly, dispatchVars, U!Call, U!channels
<1>2. RoundsInv' /\ Unsent' = Unsent /\ ReqInv' /\ Held' = Held
  BY <1>1, SameRounds, SameRequests DEF DataInv
<1>3. WayInv' /\ Coming' = Coming
  <2>1. WP!Upstream' = WP!Upstream
    BY <1>1, <1>2, SameUpstream DEF watcherOnly
  <2> QED BY <1>1, <2>1, SameWay DEF DataInv, watcherOnly
<1>4. WP!SafeInv'
  BY <1>1, <1>2, SafeWatchers, WatcherSame DEF DataInv
<1>5. CP!Next /\ CP!SafeInv'
  <2>1. CP!Call(u, elapsed) /\ UNCHANGED CP!envVars
    BY <1>1, <1>2, <1>3, SameUCall, ReqConstant DEF CP!envVars
  <2>2. CP!Next
    BY <1>1, <2>1 DEF CP!Next, CP!UnitNext
  <2> QED BY <2>2, UnitKeeps DEF DataInv
<1>6. WP!Unfinished' = WP!Unfinished
  BY <1>1, <1>2, WatcherWorkSame
<1>7. Counts
  BY <1>5, <1>6, CountsByUnit DEF DataInv
<1> QED BY <1>2, <1>3, <1>4, <1>5, <1>7 DEF DataInv

LEMMA UnitStepData ==
  ASSUME DataInv, TurnInv, NEW u \in Unit, UnitStep(u),
         UNCHANGED <<task_receiver, current_working_task, rounds, networkOnly>>
  PROVE  DataInv' /\ Counts
<1>1. /\ U!Step(u) /\ turn = <<"unit", u>>
      /\ UNCHANGED <<memory, lost, clause_net, task_icnt_receiver, mem_icnt_receiver,
                     watcherOnly>>
  BY DEF UnitStep, networkOnly, dispatchVars
<1>2. RoundsInv' /\ Unsent' = Unsent /\ ReqInv' /\ Held' = Held
  BY <1>1, SameRounds, SameRequests DEF DataInv
<1>3. WayInv' /\ Coming' = Coming
  <2>1. WP!Upstream' = WP!Upstream
    BY <1>1, <1>2, SameUpstream DEF watcherOnly
  <2> QED BY <1>1, <2>1, SameWay DEF DataInv, watcherOnly
<1>4. CP!Next /\ CP!SafeInv'
  <2>1. CP!Step(u) /\ UNCHANGED CP!envVars
    BY <1>1, <1>2, <1>3, SameUStep, ReqConstant DEF CP!envVars
  <2>2. CP!Next
    BY <2>1 DEF CP!Next, CP!UnitNext
  <2> QED BY <2>2, UnitKeeps DEF DataInv
<1>5. WP!SafeInv'
  <2>1. CASE UNCHANGED mem_out /\ current_level_finished_tasks' \in Nat
    BY <1>1, <1>2, <2>1, WatcherSame DEF DataInv
  <2>2. ASSUME UNCHANGED current_level_finished_tasks, NEW r \in U!ClauseReq, r.unit = u,
               HaveSpace(mem_out[u[1]], ChannelSize),
               mem_out' = [mem_out EXCEPT ![u[1]] = Append(@, r)]
        PROVE  WP!SafeInv'
    <3>1. wpc \in Pe \X W!Phase /\ wpc[2] = "return"
      BY <1>1, SafeWatchers DEF DataInv, TurnInv
    <3>2. WP!OthersSend
      BY <1>1, <1>2, <2>2, <3>1, ReqConstant
         DEF WP!OthersSend, WP!BetweenUpdates, WP!HaveSpace, HaveSpace, WP!Sent, WP!control,
             WP!envVars, watcherOnly
    <3> QED BY <3>2, WatcherKeeps DEF DataInv, WP!Next, WP!EnvNext
  <2> QED BY <1>1, <2>1, <2>2, SafeUnits, UnitStepOutside DEF DataInv
<1>6. WP!Unfinished' = WP!Unfinished
  BY <1>1, <1>2, WatcherWorkSame
<1>7. Counts
  BY <1>4, <1>6, CountsByUnit DEF DataInv
<1> QED BY <1>2, <1>3, <1>4, <1>5, <1>7 DEF DataInv

\* The system is between the updates of the watchers and the units.
LEMMA BetweenAll ==
  ASSUME DataInv, TurnInv,
         turn[1] \in {"caller", "trail", "dispatch", "networks", "end"}
  PROVE  /\ wpc \in Pe \X W!Phase /\ wpc[2] = "return"
         /\ upc \in Unit \X U!Phase /\ upc[2] = "return"
<1>1. wpc \in Pe \X W!Phase /\ upc \in Unit \X U!Phase
  BY SafeWatchers, SafeUnits DEF DataInv
<1>2. wpc[1] \in Pe /\ upc[1] \in Unit
  BY <1>1
<1>3. turn # <<"watcher", wpc[1]>> /\ turn # <<"unit", upc[1]>>
  OBVIOUS
<1> QED BY <1>1, <1>2, <1>3 DEF TurnInv

LEMMA DispatchWatchers ==
  ASSUME DataInv, wpc[2] = "return", NEW p \in Pe,
         UNCHANGED <<wpc, wbusy, wupdated, watcher_task_receiver, clause_icnt_sender, queue,
                     mem_req_id_to_task, total_ongoing, watcher_processing>>,
         UNCHANGED <<mem_out, current_level_finished_tasks>>, Unsent' = Unsent,
         \/ Held' = Held /\ UNCHANGED watcher_mem
         \/ \E r \in Held \cap AnyReq :
              /\ AnswerPe(r) = p /\ Held' = Held \ {r} /\ RoomForReply(p, r)
              /\ IF ToWatcher(r) THEN watcher_mem' = [watcher_mem EXCEPT ![p] = Append(@, r)]
                                 ELSE UNCHANGED watcher_mem
  PROVE  WP!SafeInv'
<1>0. current_level_finished_tasks \in Nat
  BY SafeWatchers DEF DataInv
<1>1. CASE Held' = Held /\ UNCHANGED watcher_mem
  BY <1>0, <1>1, WatcherSame DEF DataInv, watcherOnly
<1>2. ASSUME NEW r \in Held \cap AnyReq, AnswerPe(r) = p, Held' = Held \ {r},
             RoomForReply(p, r), ~ToWatcher(r), UNCHANGED watcher_mem
      PROVE  WP!SafeInv'
  <2>1. r \notin W!WatcherReq
    BY <1>2, ReqKinds
  <2>2. Held' \cap W!WatcherReq = Held \cap W!WatcherReq
    BY <1>2, <2>1
  <2> QED BY <1>0, <1>2, <2>2, WatcherSame DEF DataInv, watcherOnly
<1>3. ASSUME NEW r \in Held \cap AnyReq, AnswerPe(r) = p, Held' = Held \ {r},
             RoomForReply(p, r), ToWatcher(r),
             watcher_mem' = [watcher_mem EXCEPT ![p] = Append(@, r)]
      PROVE  WP!SafeInv'
  <2>1. r \in Held \cap W!WatcherReq /\ r.pe = p /\ HaveSpace(watcher_mem[p], ChannelSize)
    BY <1>3, ReqKinds DEF RoomForReply, AnyReq
  <2>2. (Held \cap W!WatcherReq)' = (Held \cap W!WatcherReq) \ {r}
    BY <1>3, ReqConstant
  <2>3. WP!MemoryReplies
    BY <1>3, <2>1, <2>2, ReqConstant
       DEF WP!MemoryReplies, WP!BetweenUpdates, WP!HaveSpace, HaveSpace, WP!Sent, WP!control
  <2> QED BY <2>3, WatcherKeeps DEF DataInv, WP!Next, WP!EnvNext
<1> QED BY <1>1, <1>2, <1>3

LEMMA DispatchUnits ==
  ASSUME DataInv, upc[2] = "return", NEW p \in Pe,
         UNCHANGED <<upc, ubusy, uupdated, clause_data_ready_queue, clause_value_ready_queue,
                     clause_processing, mem_req_id_to_clause_task, reading_tasks, value_reqs,
                     value_waits, total_clause_data_mem_ongoing,
                     total_clause_value_mem_ongoing>>,
         UNCHANGED <<mem_out, current_level_finished_tasks>>,
         \/ Held' = Held /\ UNCHANGED clause_mem
         \/ \E r \in Held \cap AnyReq :
              /\ Held' = Held \ {r} /\ RoomForReply(p, r)
              /\ IF ToWatcher(r) THEN UNCHANGED clause_mem
                                 ELSE clause_mem' = [clause_mem EXCEPT ![r.unit] = Append(@, r)],
         \/ Coming' = Coming /\ UNCHANGED clause_task_in
         \/ \E c \in Coming \cap HasClauseData :
              LET u == <<ClausePe[c], InnerClause[c]>> IN
              /\ Coming' = Coming \ {c} /\ HaveSpace(clause_task_in[u], ChannelSize)
              /\ clause_task_in' = [clause_task_in EXCEPT ![u] = Append(@, c)]
  PROVE  CP!SafeInv' /\ CP!Gone' = CP!Gone
<1>0. UNCHANGED CP!ClauseReq /\ UNCHANGED U!ClauseReq
  BY ReqConstant, SameWords DEF CP!ClauseReq, CP!DataReqs, CP!DataReq, CP!AllValueReqs,
     CP!SetOf, CP!ValueReqs, CP!ValueReq
<1>1. CP!ClauseNetworkSends \/ UNCHANGED <<clause_task_in, Coming>>
  <2>1. ASSUME NEW c \in Coming \cap HasClauseData,
               Coming' = Coming \ {c},
               HaveSpace(clause_task_in[<<ClausePe[c], InnerClause[c]>>], ChannelSize),
               clause_task_in' = [clause_task_in EXCEPT
                                    ![<<ClausePe[c], InnerClause[c]>>] = Append(@, c)]
        PROVE  CP!ClauseNetworkSends
    BY <2>1 DEF CP!ClauseNetworkSends, CP!HaveSpace, HaveSpace, CP!Sent
  <2> QED BY <2>1
<1>2. \/ CP!MemoryReplies
      \/ UNCHANGED <<clause_mem, Held \cap U!ClauseReq, U!ClauseReq>>
  <2>1. CASE Held' = Held /\ UNCHANGED clause_mem
    BY <2>1, <1>0
  <2>2. ASSUME NEW r \in Held \cap AnyReq, Held' = Held \ {r}, ToWatcher(r),
               UNCHANGED clause_mem
        PROVE  UNCHANGED <<clause_mem, Held \cap U!ClauseReq, U!ClauseReq>>
    <3>1. r \notin U!ClauseReq
      BY <2>2, ReqKinds
    <3> QED BY <1>0, <2>2, <3>1
  <2>3. ASSUME NEW r \in Held \cap AnyReq, Held' = Held \ {r}, RoomForReply(p, r),
               ~ToWatcher(r), clause_mem' = [clause_mem EXCEPT ![r.unit] = Append(@, r)]
        PROVE  CP!MemoryReplies
    <3>1. r \in Held \cap U!ClauseReq /\ HaveSpace(clause_mem[r.unit], ChannelSize)
      BY <2>3, ReqKinds DEF RoomForReply, AnyReq
    <3>2. /\ (Held \cap U!ClauseReq)' = (Held \cap U!ClauseReq) \ {r}
          /\ (U!ClauseReq)' = U!ClauseReq \cup {r}
      BY <1>0, <2>3, <3>1
    <3> QED BY <2>3, <3>1, <3>2 DEF CP!MemoryReplies, CP!HaveSpace, HaveSpace, CP!Sent
  <2> QED BY <2>1, <2>2, <2>3
<1>3. CP!Dispatch
  BY <1>1, <1>2 DEF CP!Dispatch, CP!BetweenUpdates, CP!control, CP!tasks, CP!values, CP!ongoing
<1>4. CP!Next /\ CP!SafeInv'
  BY <1>3, UnitKeeps DEF DataInv, CP!Next, CP!EnvNext
<1>5. CP!TypeOK /\ CP!PInv /\ current_level_finished_tasks \in Nat
  BY SafeUnits, SafeWatchers DEF DataInv, CP!SafeInv, CP!RInv
<1>6. current_level_finished_tasks' # current_level_finished_tasks + 1
  BY <1>5
<1>7. CP!Gone' = CP!Gone
  BY <1>4, <1>5, <1>6, UnitFinishes
<1> QED BY <1>4, <1>7

LEMMA DispatchData ==
  ASSUME DataInv, TurnInv, NEW p \in Pe, Dispatch(p),
         UNCHANGED <<task_receiver, current_working_task, rounds, networkOnly>>
  PROVE  DataInv' /\ Counts
<1>1. /\ turn[1] = "dispatch"
      /\ UNCHANGED <<memory, lost, clause_net>>
      /\ UNCHANGED <<mem_out, current_level_finished_tasks>>
      /\ UNCHANGED <<wpc, wbusy, wupdated, watcher_task_receiver, clause_icnt_sender, queue,
                     mem_req_id_to_task, total_ongoing, watcher_processing>>
      /\ UNCHANGED <<upc, ubusy, uupdated, clause_data_ready_queue, clause_value_ready_queue,
                     clause_processing, mem_req_id_to_clause_task, reading_tasks, value_reqs,
                     value_waits, total_clause_data_mem_ongoing,
                     total_clause_value_mem_ongoing>>
  BY DEF Dispatch, networkOnly
<1>2. RoundsInv' /\ Unsent' = Unsent
  BY SameRounds DEF DataInv
<1>3. WP!Upstream' = WP!Upstream
  BY <1>1, <1>2, SameUpstream
<1>4. wpc[2] = "return" /\ upc[2] = "return"
  BY <1>1, BetweenAll
<1>5. /\ ReqInv'
      /\ \/ Held' = Held /\ UNCHANGED <<watcher_mem, clause_mem>>
         \/ \E r \in Held \cap AnyReq :
              /\ AnswerPe(r) = p /\ Held' = Held \ {r} /\ RoomForReply(p, r)
              /\ IF ToWatcher(r)
                   THEN /\ watcher_mem' = [watcher_mem EXCEPT ![p] = Append(@, r)]
                        /\ UNCHANGED clause_mem
                   ELSE /\ clause_mem' = [clause_mem EXCEPT ![r.unit] = Append(@, r)]
                        /\ UNCHANGED watcher_mem
  BY <1>1, DispatchRequests DEF DataInv
<1>6. /\ WayInv'
      /\ \/ Coming' = Coming /\ UNCHANGED clause_task_in
         \/ \E c \in Coming \cap HasClauseData :
              LET u == <<ClausePe[c], InnerClause[c]>> IN
              /\ Coming' = Coming \ {c} /\ HaveSpace(clause_task_in[u], ChannelSize)
              /\ clause_task_in' = [clause_task_in EXCEPT ![u] = Append(@, c)]
  BY <1>1, <1>3, DispatchWay DEF DataInv
<1>7. WP!SafeInv'
  BY <1>1, <1>2, <1>4, <1>5, DispatchWatchers
<1>8. CP!SafeInv' /\ CP!Gone' = CP!Gone
  <2>1. \/ Held' = Held /\ UNCHANGED clause_mem
        \/ \E r \in Held \cap AnyReq :
             /\ Held' = Held \ {r} /\ RoomForReply(p, r)
             /\ IF ToWatcher(r) THEN UNCHANGED clause_mem
                                ELSE clause_mem' = [clause_mem EXCEPT ![r.unit] = Append(@, r)]
    BY <1>5
  <2> QED BY <1>1, <1>4, <1>6, <2>1, DispatchUnits
<1>9. Counts
  BY <1>1, <1>2, <1>8, SameWatcherWork DEF Counts, Unfinished
<1> QED BY <1>2, <1>5, <1>6, <1>7, <1>8, <1>9 DEF DataInv

LEMMA TrailData ==
  ASSUME DataInv, TurnInv, TrailUpdate
  PROVE  DataInv' /\ Unfinished' = Unfinished
<1>1. /\ UNCHANGED <<memory, clause_net, lost, task_icnt_receiver, mem_icnt_receiver, rounds>>
      /\ UNCHANGED <<wpc, wbusy, wupdated, watcher_mem, clause_icnt_sender, queue,
                     mem_req_id_to_task, total_ongoing, watcher_processing>>
      /\ UNCHANGED <<unitOnly, mem_out>>
  BY DEF TrailUpdate, networkOnly, dispatchVars, caller
<1>2. ReqInv' /\ Held' = Held
  BY <1>1, SameRequests DEF DataInv
<1>3. wpc[2] = "return"
  BY BetweenAll DEF TrailUpdate
<1>4. current_level_finished_tasks \in Nat
  BY SafeWatchers DEF DataInv
<1>5. CASE TrailSendsNot
  <2>1. RoundsInv' /\ Unsent' = Unsent
    BY <1>1, <1>5, TrailSendsNotRounds DEF DataInv
  <2>2. UNCHANGED watcherOnly /\ current_level_finished_tasks' \in Nat
    BY <1>1, <1>4, <1>5 DEF TrailSendsNot, watcherOnly
  <2> QED BY <1>1, <1>2, <2>1, <2>2, ElsewhereData
<1>6. ASSUME NEW t, TrailSends(t)
      PROVE  DataInv' /\ Unfinished' = Unfinished
  <2>1. RoundsInv' /\ t \in WatcherTask /\ t \in Unsent /\ Unsent' = Unsent \ {t}
    BY <1>1, <1>6, TrailSendsRounds DEF DataInv
  <2>2. UNCHANGED current_level_finished_tasks
    BY <1>6 DEF TrailSends
  <2>3. WP!TrailSends
    BY <1>1, <1>2, <1>3, <1>6, <2>1, <2>2, ReqConstant
       DEF TrailSends, WP!TrailSends, WP!BetweenUpdates, WP!HaveSpace, HaveSpace, WP!Sent, Sent,
           WP!control
  <2>4. WP!Next /\ WP!SafeInv'
    BY <2>3, WatcherKeeps DEF DataInv, WP!Next, WP!EnvNext
  <2>5. WayInv' /\ Coming' = Coming
    <3>1. WP!Upstream' = WP!Upstream
      BY <2>3, SafeWatchers, TrailKeepsUpstream DEF DataInv
    <3> QED BY <1>1, <3>1, SameWay DEF DataInv
  <2>6. CP!SafeInv'
    BY <1>1, <1>2, <1>4, <2>2, <2>5, UnitSame DEF DataInv
  <2>7. WP!TypeOK /\ WP!PInv /\ WP!TypeOK' /\ WP!PInv'
    BY <2>4 DEF DataInv, WP!SafeInv, WP!IInv, WP!TypeOK
  <2>8. current_level_finished_tasks' # current_level_finished_tasks + 1
    BY <1>4, <2>2
  <2>9. WP!Unfinished' = WP!Unfinished
    BY <2>4, <2>7, <2>8, WatcherFinishes
  <2>10. CP!Gone' = CP!Gone
    BY <1>1, <2>5, UnitWorkSame
  <2> QED BY <1>2, <2>1, <2>4, <2>5, <2>6, <2>9, <2>10 DEF DataInv, Unfinished
<1> QED BY <1>5, <1>6, TrailUpdateIs

\* A request at a port was not taken before.
LEMMA NewRequests ==
  ASSUME WP!SafeInv, CP!SafeInv, NEW p \in Pe, mem_out[p] # <<>>
  PROVE  Head(mem_out[p]) \in AnyReq /\ Head(mem_out[p]) \notin Held
<1> DEFINE r == Head(mem_out[p])
<1>1. mem_out[p] \in Seq(AnyReq)
  BY SafeWatchers
<1>2. r \in AnyReq /\ r \in Range(mem_out[p])
  BY <1>1, HeadTailProperties, TailRange
<1>3. ASSUME r \in W!WatcherReq, r \in Held PROVE FALSE
  <2>1. r.pe \in Pe /\ r \in WP!Flying(r.pe, "memory") /\ r \in WP!Flying(p, "out")
    BY <1>2, <1>3, ReqKinds, SameWords DEF WP!Flying
  <2>2. \A o, q \in Pe, f, g \in {"out", "memory", "in"} :
          o # q \/ f # g => WP!Flying(o, f) \cap WP!Flying(q, g) = {}
    BY SafeWatchers DEF WP!FInv, WP!FlightsDisjoint, WP!Flight
  <2> QED BY <2>1, <2>2
<1>4. ASSUME r \in U!ClauseReq, r \in Held PROVE FALSE
  <2>1. CP!Lies(r, "memory", None) /\ CP!Lies(r, "out", p)
    BY <1>2, <1>4, SameWords DEF CP!Lies
  <2> QED BY <2>1, SafeUnits DEF CP!FInv, CP!Apart
<1> QED BY <1>2, <1>3, <1>4 DEF AnyReq

LEMMA NetworkData ==
  ASSUME DataInv, TurnInv, NetworkUpdate
  PROVE  DataInv' /\ Counts
<1>1. /\ UNCHANGED <<wpc, wbusy, wupdated, watcher_task_receiver, watcher_mem, queue,
                     mem_req_id_to_task, total_ongoing, watcher_processing>>
      /\ UNCHANGED <<unitOnly, current_level_finished_tasks, lost>>
      /\ UNCHANGED <<task_receiver, current_working_task, rounds>>
      /\ turn[1] = "networks"
  BY DEF NetworkUpdate, trailOnly, caller
<1>2. PICK T \in SUBSET Pe, a \in Memory!Answers : MemoryTakes(T) /\ Memory!Serve(T, a)
  BY DEF NetworkUpdate
<1>3. PICK b \in Memory!Deliveries(ClausesFor, task_icnt_receiver) : ClauseNetwork(b)
  BY DEF NetworkUpdate
<1>4. RoundsInv' /\ Unsent' = Unsent
  BY <1>1, SameRounds DEF DataInv
<1>5. WP!Upstream' = WP!Upstream
  BY <1>1, <1>4, SameUpstream
<1>6. /\ WayInv' /\ Coming' = Coming
      /\ \/ UNCHANGED clause_icnt_sender
         \/ clause_icnt_sender' = [p \in Pe |-> IF clause_icnt_sender[p] = <<>> THEN <<>>
                                                ELSE Tail(clause_icnt_sender[p])]
  BY <1>3, <1>5, NetworkWay DEF DataInv
<1> DEFINE H == {Head(mem_out[p]) : p \in T}
<1>7. \A p \in T : mem_out[p] # <<>>
  BY <1>2 DEF Memory!Serve
<1>8. H \subseteq AnyReq /\ H \cap Held = {}
  BY <1>7, NewRequests DEF DataInv
<1>9. ReqInv' /\ Held' = Held \cup H
  BY <1>1, <1>2, <1>8, ServeRequests DEF DataInv
<1>10. mem_out' = [p \in Pe |-> IF p \in T THEN Tail(mem_out[p]) ELSE mem_out[p]]
  BY <1>2 DEF Memory!Serve, Memory!Received
<1>11. mem_out \in [Pe -> Seq(AnyReq)] /\ current_level_finished_tasks \in Nat
  BY SafeWatchers DEF DataInv
<1>12. \/ H = {} /\ UNCHANGED mem_out
       \/ /\ H = {Head(mem_out[p]) : p \in {q \in Pe : mem_out[q] # <<>>}}
          /\ mem_out' = [p \in Pe |-> IF mem_out[p] = <<>> THEN <<>> ELSE Tail(mem_out[p])]
  <2>1. CASE T = {}
    <3>1. mem_out' = [p \in Pe |-> mem_out[p]]
      BY <1>10, <2>1
    <3> QED BY <1>11, <2>1, <3>1
  <2>2. CASE T = {q \in Pe : mem_out[q] # <<>>}
    BY <1>10, <2>2
  <2> QED BY <1>2, <2>1, <2>2 DEF MemoryTakes
<1>13. wpc[2] = "return" /\ upc[2] = "return"
  BY <1>1, BetweenAll
<1>14. /\ (Held \cap W!WatcherReq)' = (Held \cap W!WatcherReq) \cup (H \ U!ClauseReq)
       /\ (Held \cap U!ClauseReq)' = (Held \cap U!ClauseReq) \cup (H \ W!WatcherReq)
  BY <1>8, <1>9, ReqConstant, ReqKinds DEF AnyReq
<1>15. WP!SafeInv'
  <2>1. WP!MemoryTakes \/ UNCHANGED <<mem_out, Held \cap W!WatcherReq>>
    BY <1>12, <1>14 DEF WP!MemoryTakes, WP!Received
  <2>2. WP!ClauseNetworkTakes \/ UNCHANGED clause_icnt_sender
    BY <1>6 DEF WP!ClauseNetworkTakes, WP!Received
  <2>3. WP!NetworksTake
    BY <1>1, <1>4, <1>13, <2>1, <2>2 DEF WP!NetworksTake, WP!BetweenUpdates, WP!control
  <2> QED BY <2>3, WatcherKeeps DEF DataInv, WP!Next, WP!EnvNext
<1>16. CP!SafeInv'
  <2>1. CASE H = {} /\ UNCHANGED mem_out
    <3>1. Held' \cap U!ClauseReq = Held \cap U!ClauseReq
      BY <1>9, <2>1
    <3> QED BY <1>1, <1>6, <1>11, <2>1, <3>1, UnitSame DEF DataInv
  <2>2. CASE /\ H = {Head(mem_out[p]) : p \in {q \in Pe : mem_out[q] # <<>>}}
             /\ mem_out' = [p \in Pe |-> IF mem_out[p] = <<>> THEN <<>> ELSE Tail(mem_out[p])]
    <3>1. CP!MemoryTakes
      BY <1>1, <1>6, <1>13, <1>14, <2>2, ReqConstant
         DEF CP!MemoryTakes, CP!BetweenUpdates, CP!Received, CP!control, CP!tasks, CP!values,
             CP!ongoing, unitOnly
    <3> QED BY <3>1, UnitKeeps DEF DataInv, CP!Next, CP!EnvNext
  <2> QED BY <1>12, <2>1, <2>2
<1>17. WP!Unfinished' = WP!Unfinished /\ CP!Gone' = CP!Gone
  BY <1>1, <1>4, <1>6, SameWatcherWork, UnitWorkSame
<1>18. Counts
  BY <1>1, <1>17 DEF Counts, Unfinished
<1> QED BY <1>4, <1>6, <1>9, <1>15, <1>16, <1>18 DEF DataInv

LEMMA CallerData ==
  ASSUME DataInv, CallReturns \/ EndOfCycle \/ Lose \/ UNCHANGED vars
  PROVE  DataInv' /\ Counts
<1>1. /\ UNCHANGED <<watcherOnly, unitOnly, mem_out, clause_net, task_icnt_receiver>>
      /\ UNCHANGED <<mem_icnt_receiver, current_level_finished_tasks>>
      /\ UNCHANGED <<task_receiver, current_working_task, rounds>>
  BY DEF CallReturns, EndOfCycle, Lose, vars, interfaceVars, dispatchVars, networkOnly,
         trailOnly, caller
<1>2. current_level_finished_tasks' \in Nat
  BY <1>1, SafeWatchers DEF DataInv
<1>3. RoundsInv' /\ Unsent' = Unsent
  BY <1>1, SameRounds DEF DataInv
<1>4. ReqInv' /\ Held' = Held
  <2>1. CASE Lose
    BY <2>1, LoseRequests DEF DataInv
  <2>2. CASE CallReturns \/ EndOfCycle \/ UNCHANGED vars
    <3>1. UNCHANGED <<memory, lost>>
      BY <2>2 DEF CallReturns, EndOfCycle, vars, networkOnly
    <3> QED BY <1>1, <3>1, SameRequests DEF DataInv
  <2> QED BY <2>1, <2>2
<1>5. DataInv' /\ Unfinished' = Unfinished
  BY <1>1, <1>2, <1>3, <1>4, ElsewhereData
<1> QED BY <1>1, <1>5 DEF Counts

LEMMA RunData ==
  ASSUME DataInv, RunSingleTask \/ RunFullExpr \/ RunExtra \/ FinishSimulator
  PROVE  DataInv' /\ Counts
<1>1. PICK c : Run(c)
  BY DEF RunSingleTask, RunFullExpr, RunExtra, FinishSimulator
<1>2. /\ UNCHANGED <<watcherOnly, unitOnly, mem_out, clause_net, task_icnt_receiver>>
      /\ UNCHANGED <<mem_icnt_receiver, current_level_finished_tasks, memory, lost>>
      /\ UNCHANGED current_working_task
  BY <1>1 DEF Run, dispatchVars, networkOnly
<1>3. current_level_finished_tasks' \in Nat
  BY <1>2, SafeWatchers DEF DataInv
<1>4. RoundsInv' /\ Unsent' = Unsent
  <2>1. CASE SendRound
    BY <1>2, <2>1, SendRoundRounds DEF DataInv
  <2>2. CASE UNCHANGED <<task_receiver, rounds>>
    BY <1>2, <2>2, SameRounds DEF DataInv
  <2> QED BY <2>1, <2>2 DEF RunSingleTask, RunFullExpr, RunExtra, FinishSimulator
<1>5. ReqInv' /\ Held' = Held
  BY <1>2, SameRequests DEF DataInv
<1>6. DataInv' /\ Unfinished' = Unfinished
  BY <1>2, <1>3, <1>4, <1>5, ElsewhereData
<1> QED BY <1>2, <1>6 DEF Counts

LEMMA NextData ==
  DataInv /\ TurnInv /\ [Next]_vars =>
    DataInv' /\ (Counts \/ (TrailUpdate /\ Unfinished' = Unfinished))
<1> SUFFICES ASSUME DataInv, TurnInv, [Next]_vars
             PROVE  DataInv' /\ (Counts \/ (TrailUpdate /\ Unfinished' = Unfinished))
  OBVIOUS
<1>1. CASE InterfacesUpdate
  <2>1. /\ InterfaceStep
        /\ UNCHANGED <<task_receiver, current_working_task, rounds, networkOnly>>
    BY <1>1 DEF InterfacesUpdate, caller
  <2> QED BY <2>1, DispatchData, CallWatcherData, WatcherStepData, CallUnitData, UnitStepData
          DEF InterfaceStep
<1>2. CASE TrailUpdate
  BY <1>2, TrailData
<1>3. CASE NetworkUpdate
  BY <1>3, NetworkData
<1>4. CASE CallReturns \/ EndOfCycle \/ Lose \/ Over \/ UNCHANGED vars
  BY <1>4, CallerData DEF Over
<1>5. CASE RunSingleTask \/ RunFullExpr \/ RunExtra \/ FinishSimulator
  BY <1>5, RunData
<1> QED BY <1>1, <1>2, <1>3, <1>4, <1>5 DEF Next

LEMMA NextSystemInv ==
  SystemInv /\ [Next]_vars => SystemInv'
<1> SUFFICES ASSUME SystemInv, [Next]_vars PROVE SystemInv'
  OBVIOUS
<1>1. DataInv /\ CallInv /\ TurnInv /\ DrainInv
  BY DEF SystemInv, DataInv
<1>2. DataInv'
  BY <1>1, NextData
<1>3. CallInv'
  BY <1>1, NextCallInv DEF DataInv
<1>4. TurnInv' /\ DrainInv'
  <2>1. mem_icnt_receiver \in [Pe -> Seq(AnyReq)]
    BY <1>1 DEF DataInv, ReqInv
  <2> QED BY <1>1, <2>1, SafeWatchers, SafeUnits, NextTurnInv DEF DataInv
<1> QED BY <1>2, <1>3, <1>4 DEF SystemInv, DataInv
-----------------------------------------------------------------------------
LEMMA SameInit == (W!Init <=> WP!Init) /\ (U!Init <=> CP!Init)
<1>1. W!Read = WP!Read /\ W!Queue = WP!Queue
  BY DEF W!Read, WP!Read, W!Queue, WP!Queue
<1> QED BY <1>1 DEF W!Init, WP!Init, U!Init, CP!Init

LEMMA InitRounds == Init => RoundsInv /\ Unsent = TasksIn(rounds)
<1> SUFFICES ASSUME Init PROVE RoundsInv /\ Unsent = TasksIn(rounds)
  OBVIOUS
<1>1. task_receiver = <<>> /\ current_working_task = None /\ rounds \in RoundChoices
  BY DEF Init, Sync!TrailInit
<1>2. /\ rounds \in Seq(Seq(WatcherTask)) /\ Once(rounds)
  BY <1>1, SystemAssumption DEF Once
<1>3. <<>> \in Seq(Seq(WatcherTask)) /\ TasksIn(<<>>) = {} /\ Once(<<>>)
  BY NoTasks, EmptySeq
<1> QED BY <1>1, <1>2, <1>3 DEF RoundsInv, Unsent, InRound

LEMMA InitSystemInv == Init => SystemInv
<1> SUFFICES ASSUME Init PROVE SystemInv
  OBVIOUS
<1>1. /\ W!Init /\ U!Init /\ turn = <<"caller", 0>> /\ elapsed = 0
      /\ task_icnt_receiver = [p \in Pe |-> <<>>] /\ mem_icnt_receiver = [p \in Pe |-> <<>>]
      /\ task_receiver = <<>> /\ current_working_task = None /\ ~trail_busy
      /\ memory = {} /\ clause_net = {} /\ lost = {}
  BY DEF Init, InterfaceInit, Sync!TrailInit
<1>2. /\ wpc \in Pe \X {"return"} /\ upc \in Unit \X {"return"}
      /\ watcher_mem = [p \in Pe |-> <<>>] /\ clause_icnt_sender = [p \in Pe |-> <<>>]
  BY <1>1 DEF W!Init, U!Init
<1>3. RoundsInv /\ Unsent \subseteq WatcherTask
  <2>1. RoundsInv /\ Unsent = TasksIn(rounds)
    BY InitRounds
  <2>2. ASSUME NEW i \in DOMAIN rounds PROVE Range(rounds[i]) \subseteq WatcherTask
    <3>1. rounds[i] \in Seq(WatcherTask)
      BY <2>1, ElementOfSeq, LenProperties DEF RoundsInv
    <3> QED BY <3>1, ElementOfSeq, LenProperties DEF Range
  <2> QED BY <2>1, <2>2 DEF TasksIn
<1>4. Range(<<>>) = {} /\ IsInjective(<<>>)
  BY NoTasks
<1>5. InReplies = {} /\ InSenders = {} /\ InReceivers = {} /\ Held = {}
  BY <1>1, <1>2, <1>4 DEF InReplies, InSenders, InReceivers, Held
<1>6. WP!SafeInv
  BY <1>1, <1>3, <1>5, SameInit, WatcherStart DEF WP!Start
<1>7. CP!SafeInv
  BY <1>1, <1>5, SameInit, SameWords, UnitStart DEF CP!Start, Coming
<1>8. CallInv
  BY <1>1 DEF CallInv
<1>9. TurnInv /\ DrainInv
  <2>1. wpc[2] = "return" /\ upc[2] = "return"
    BY <1>2
  <2>2. \A x : turn # <<"watcher", x>> /\ turn # <<"unit", x>>
    BY <1>1
  <2>3. TurnInv
    BY <1>1, <2>1, <2>2 DEF TurnInv
  <2>4. DrainInv
    BY <1>2, EmptySeq DEF DrainInv
  <2> QED BY <2>3, <2>4
<1>10. ReqInv
  BY <1>1, <1>4, EmptySeq DEF ReqInv
<1>11. WayInv
  BY <1>1, <1>2, <1>4, <1>5, EmptySeq DEF WayInv
<1> QED BY <1>3, <1>6, <1>7, <1>8, <1>9, <1>10, <1>11 DEF SystemInv

\* None of the panics is reached, if the singles of a watcher task are at its own
\* processing element: a memory reply finds the task that waits for it, in the
\* watcher (watcher.rs:287) and in the clause unit (clause.rs:308), whatever the
\* networks do and whatever is lost; a reply for the watcher finds room, because
\* the one before was taken by the update that followed (watcher_interface.rs:214,
\* 253); and the next round finds room, because a run does not end before the
\* trail has taken the last one (simulator.rs:116, 206).
THEOREM SystemNothingPanics ==
  ASSUME WP!OwnLists
  PROVE  Spec => []NothingPanics
<1>1. SystemInv => NothingPanics
  <2> SUFFICES ASSUME SystemInv PROVE NothingPanics
    OBVIOUS
  <2>1. ASSUME NEW p \in Pe PROVE ~W!UnwrapFails(p)
    <3>1. WP!RepliesComeHome
      BY SafeWatchers, WatcherFindsReplies DEF SystemInv
    <3> QED BY <3>1, SameWUnwrapFails DEF WP!RepliesComeHome
  <2>2. ASSUME NEW p \in Pe, DispatchPanics(p) PROVE FALSE
    <3>1. turn = <<"dispatch", p>> /\ ~RoomForReply(p, Head(mem_icnt_receiver[p]))
          /\ Head(mem_icnt_receiver[p]).type = "blocker"
      BY <2>2 DEF DispatchPanics
    <3>2. watcher_mem[p] = <<>>
      BY <3>1 DEF SystemInv, DrainInv
    <3>3. ~HaveSpace(watcher_mem[p], ChannelSize)
      BY <3>1 DEF RoomForReply, ToWatcher, W!Read
    <3>4. ChannelSize \in Nat \ {0}
      BY InterfaceAssumption DEF W!LimitAssumption
    <3> QED BY <3>2, <3>3, <3>4, EmptySeq DEF HaveSpace
  <2>3. ASSUME NEW u \in Unit PROVE ~U!UnwrapFails(u)
    <3>1. CP!RepliesAwaited
      BY UnitTypes, UnitFindsReplies DEF SystemInv, CP!SafeInv
    <3> QED BY <3>1, SameUUnwrapFails DEF CP!RepliesAwaited
  <2>4. Waits \/ (call = "run_full_expr" /\ turn = <<"caller", 0>>) => CanSendRound
    <3>1. ChannelSize \in Nat \ {0}
      BY InterfaceAssumption DEF W!LimitAssumption
    <3>2. turn = <<"caller", 0>> => task_receiver = <<>>
      BY DEF SystemInv, CallInv
    <3> QED BY <3>1, <3>2, EmptySeq DEF SystemInv, CallInv, CanSendRound, HaveSpace
  <2> QED BY <2>1, <2>2, <2>3, <2>4 DEF NothingPanics
<1> QED BY <1>1, InitSystemInv, NextSystemInv, PTL DEF Spec
-----------------------------------------------------------------------------
(* What the updates of a cycle that report no work leave behind.  An update *)
(* of this cycle is over when its turn has passed.                         *)

DispatchOver(t, p) ==
  \/ t[1] \in {"networks", "end"}
  \/ t[1] = "dispatch" /\ p < t[2]
  \/ t[1] \in {"call watcher", "watcher"} /\ p <= t[2]
  \/ t[1] \in {"call unit", "unit"} /\ p <= t[2][1]

WatcherOver(t, p) ==
  \/ t[1] \in {"networks", "end"}
  \/ t[1] \in {"dispatch", "call watcher", "watcher"} /\ p < t[2]
  \/ t[1] \in {"call unit", "unit"} /\ p <= t[2][1]

UnitOver(t, u) ==
  \/ t[1] \in {"networks", "end"}
  \/ t[1] \in {"dispatch", "call watcher", "watcher"} /\ u[1] < t[2]
  \/ /\ t[1] \in {"call unit", "unit"}
     /\ u[1] < t[2][1] \/ (u[1] = t[2][1] /\ u[2] < t[2][2])

\* A dispatch that was not busy had nothing to hand on, and only a busy network
\* has brought something since.
DispatchRests(p) ==
  DispatchOver(turn, p) /\ ~dispatch_busy[p] /\ (turn[1] = "end" => ~network_busy) =>
    task_icnt_receiver[p] = <<>> /\ mem_icnt_receiver[p] = <<>>

\* A phase that was skipped still has no work.
WatcherRests(p) ==
  ~wbusy[p] =>
    /\ WatcherOver(turn, p) \/ (turn = <<"watcher", p>> /\ wpc[2] # "meta") => ~WP!CanRead(p, "meta")
    /\ WatcherOver(turn, p) => \A f \in WP!Own : ~WP!HasWork(p, f)

UnitRests(u) ==
  ~ubusy[u] =>
    /\ UnitOver(turn, u) \/ (turn = <<"unit", u>> /\ upc[2] # "data") => ~CP!CanReadData(u)
    /\ UnitOver(turn, u) => CP!Quiet(u, "return") /\ clause_mem[u] = <<>>

\* Networks that were not busy hold nothing and found nothing at their ports.
NetworksRest ==
  turn[1] = "end" /\ ~network_busy =>
    /\ memory = {} /\ clause_net = {}
    /\ \A p \in Pe : mem_out[p] = <<>> /\ clause_icnt_sender[p] = <<>>

QuietInv ==
  /\ \A p \in Pe : DispatchRests(p) /\ WatcherRests(p)
  /\ \A u \in Unit : UnitRests(u)
  /\ NetworksRest
  /\ dispatch_busy \in [Pe -> BOOLEAN]

\* The updates follow each other.
LEMMA PeTypes ==
  /\ NPe \in Nat /\ NUnits \in Nat
  /\ \A p \in Pe : p \in Nat /\ p < NPe
  /\ \A u \in Unit : u[1] \in Pe /\ u[1] \in Nat /\ u[1] < NPe /\ u[2] \in Nat /\ u[2] < NUnits
<1>1. NPe \in Nat /\ NUnits \in Nat
  BY InterfaceAssumption
<1> QED BY <1>1 DEF Pe, Unit

LEMMA UnitIsPair == \A u, v \in Unit : u[1] = v[1] /\ u[2] = v[2] => u = v
BY DEF Unit

LEMMA NatOrder ==
  \A a, b \in Nat : /\ a <= b <=> a < b \/ a = b
                    /\ a < b => a # b
                    /\ ~(a < 0)
                    /\ a < b + 1 <=> a < b \/ a = b
OBVIOUS

LEMMA OverIs ==
  ASSUME NEW p
  PROVE  /\ \A q : /\ DispatchOver(<<"dispatch", p>>, q) <=> q < p
                   /\ DispatchOver(<<"call watcher", p>>, q) <=> q <= p
                   /\ DispatchOver(<<"watcher", p>>, q) <=> q <= p
                   /\ DispatchOver(<<"call unit", p>>, q) <=> q <= p[1]
                   /\ DispatchOver(<<"unit", p>>, q) <=> q <= p[1]
                   /\ DispatchOver(<<"networks", p>>, q) /\ DispatchOver(<<"end", p>>, q)
         /\ \A q : /\ WatcherOver(<<"dispatch", p>>, q) <=> q < p
                   /\ WatcherOver(<<"call watcher", p>>, q) <=> q < p
                   /\ WatcherOver(<<"watcher", p>>, q) <=> q < p
                   /\ WatcherOver(<<"call unit", p>>, q) <=> q <= p[1]
                   /\ WatcherOver(<<"unit", p>>, q) <=> q <= p[1]
                   /\ WatcherOver(<<"networks", p>>, q) /\ WatcherOver(<<"end", p>>, q)
         /\ \A u : /\ UnitOver(<<"dispatch", p>>, u) <=> u[1] < p
                   /\ UnitOver(<<"call watcher", p>>, u) <=> u[1] < p
                   /\ UnitOver(<<"watcher", p>>, u) <=> u[1] < p
                   /\ UnitOver(<<"call unit", p>>, u) <=>
                        u[1] < p[1] \/ (u[1] = p[1] /\ u[2] < p[2])
                   /\ UnitOver(<<"unit", p>>, u) <=>
                        u[1] < p[1] \/ (u[1] = p[1] /\ u[2] < p[2])
                   /\ UnitOver(<<"networks", p>>, u) /\ UnitOver(<<"end", p>>, u)
<1>1. ASSUME NEW a PROVE <<a, p>>[1] = a /\ <<a, p>>[2] = p
  OBVIOUS
<1> QED BY <1>1 DEF DispatchOver, WatcherOver, UnitOver

LEMMA DispatchOrder ==
  ASSUME NEW p \in Pe, turn = <<"dispatch", p>>, turn' = <<"call watcher", p>>
  PROVE  /\ \A q \in Pe : /\ DispatchOver(turn', q) => DispatchOver(turn, q) \/ q = p
                          /\ WatcherOver(turn', q) => WatcherOver(turn, q)
         /\ \A v \in Unit : UnitOver(turn', v) => UnitOver(turn, v) /\ v[1] # p
<1>1. ASSUME NEW q \in Pe
      PROVE  /\ DispatchOver(turn', q) => DispatchOver(turn, q) \/ q = p
             /\ WatcherOver(turn', q) => WatcherOver(turn, q)
  <2>1. /\ DispatchOver(turn, q) <=> q < p
        /\ WatcherOver(turn, q) <=> q < p
        /\ DispatchOver(turn', q) <=> q <= p
        /\ WatcherOver(turn', q) <=> q < p
    BY OverIs
  <2>2. q \in Nat /\ p \in Nat
    BY PeTypes
  <2> QED BY <2>1, <2>2, NatOrder, Zenon
<1>2. ASSUME NEW v \in Unit
      PROVE  UnitOver(turn', v) => UnitOver(turn, v) /\ v[1] # p
  <2>1. /\ UnitOver(turn, v) <=> v[1] < p
        /\ UnitOver(turn', v) <=> v[1] < p
    BY OverIs
  <2>2. v[1] \in Nat /\ v[2] \in Nat /\ p \in Nat
    BY PeTypes
  <2> QED BY <2>1, <2>2, NatOrder, Zenon
<1> QED BY <1>1, <1>2

LEMMA CallWatcherOrder ==
  ASSUME NEW p \in Pe, turn = <<"call watcher", p>>, turn' = <<"watcher", p>>
  PROVE  /\ \A q \in Pe : /\ DispatchOver(turn', q) => DispatchOver(turn, q)
                          /\ WatcherOver(turn', q) => WatcherOver(turn, q) /\ q # p
         /\ \A v \in Unit : UnitOver(turn', v) => UnitOver(turn, v)
<1>1. ASSUME NEW q \in Pe
      PROVE  /\ DispatchOver(turn', q) => DispatchOver(turn, q)
             /\ WatcherOver(turn', q) => WatcherOver(turn, q) /\ q # p
  <2>1. /\ DispatchOver(turn, q) <=> q <= p
        /\ WatcherOver(turn, q) <=> q < p
        /\ DispatchOver(turn', q) <=> q <= p
        /\ WatcherOver(turn', q) <=> q < p
    BY OverIs
  <2>2. q \in Nat /\ p \in Nat
    BY PeTypes
  <2> QED BY <2>1, <2>2, NatOrder, Zenon
<1>2. ASSUME NEW v \in Unit
      PROVE  UnitOver(turn', v) => UnitOver(turn, v)
  <2>1. /\ UnitOver(turn, v) <=> v[1] < p
        /\ UnitOver(turn', v) <=> v[1] < p
    BY OverIs
  <2>2. v[1] \in Nat /\ v[2] \in Nat /\ p \in Nat
    BY PeTypes
  <2> QED BY <2>1, <2>2, NatOrder, Zenon
<1> QED BY <1>1, <1>2

LEMMA WatcherOrder ==
  ASSUME NEW p \in Pe, turn = <<"watcher", p>>,
         turn' = turn \/ turn' = <<"call unit", <<p, 0>>>>
  PROVE  /\ \A q \in Pe : /\ DispatchOver(turn', q) => DispatchOver(turn, q)
                          /\ WatcherOver(turn', q) => WatcherOver(turn, q) \/ (q = p /\ turn' # turn)
         /\ \A v \in Unit : UnitOver(turn', v) => UnitOver(turn, v)
<1>1. CASE turn' = turn
  BY <1>1
<1>2. CASE turn' = <<"call unit", <<p, 0>>>>
  <2>1. PICK w : w = <<p, 0>>
    OBVIOUS
  <2>2. turn' = <<"call unit", w>> /\ w[1] = p /\ w[2] = 0 /\ turn' # turn
    BY <1>2, <2>1
  <2>3. ASSUME NEW q \in Pe
        PROVE  /\ DispatchOver(turn', q) => DispatchOver(turn, q)
               /\ WatcherOver(turn', q) => WatcherOver(turn, q) \/ q = p
    <3>1. /\ DispatchOver(turn, q) <=> q <= p
          /\ WatcherOver(turn, q) <=> q < p
      BY OverIs
    <3>2. /\ DispatchOver(turn', q) <=> q <= w[1]
          /\ WatcherOver(turn', q) <=> q <= w[1]
      BY <2>2, OverIs
    <3>3. q \in Nat /\ p \in Nat
      BY PeTypes
    <3> QED BY <2>2, <3>1, <3>2, <3>3, NatOrder, Zenon
  <2>4. ASSUME NEW v \in Unit PROVE UnitOver(turn', v) => UnitOver(turn, v)
    <3>1. UnitOver(turn, v) <=> v[1] < p
      BY OverIs
    <3>2. UnitOver(turn', v) <=> v[1] < w[1] \/ (v[1] = w[1] /\ v[2] < w[2])
      BY <2>2, OverIs
    <3>3. v[1] \in Nat /\ v[2] \in Nat /\ p \in Nat
      BY PeTypes
    <3>4. ~(v[2] < 0)
      BY <3>3, NatOrder, Zenon
    <3>5. ~(v[2] < w[2]) /\ (v[1] < w[1] => v[1] < p)
      BY <2>2, <3>4, Zenon
    <3> QED BY <3>1, <3>2, <3>5, Zenon
  <2> QED BY <2>2, <2>3, <2>4
<1> QED BY <1>1, <1>2

LEMMA CallUnitOrder ==
  ASSUME NEW u \in Unit, turn = <<"call unit", u>>, turn' = <<"unit", u>>
  PROVE  /\ \A q \in Pe : /\ DispatchOver(turn', q) => DispatchOver(turn, q)
                          /\ WatcherOver(turn', q) => WatcherOver(turn, q)
         /\ \A v \in Unit : UnitOver(turn', v) => UnitOver(turn, v) /\ v # u
<1>1. ASSUME NEW q \in Pe
      PROVE  /\ DispatchOver(turn', q) => DispatchOver(turn, q)
             /\ WatcherOver(turn', q) => WatcherOver(turn, q)
  <2>1. /\ DispatchOver(turn, q) <=> q <= u[1]
        /\ WatcherOver(turn, q) <=> q <= u[1]
        /\ DispatchOver(turn', q) <=> q <= u[1]
        /\ WatcherOver(turn', q) <=> q <= u[1]
    BY OverIs
  <2>2. q \in Nat /\ u[1] \in Nat
    BY PeTypes
  <2> QED BY <2>1, <2>2, NatOrder, Zenon
<1>2. ASSUME NEW v \in Unit
      PROVE  UnitOver(turn', v) => UnitOver(turn, v) /\ v # u
  <2>1. /\ UnitOver(turn, v) <=> v[1] < u[1] \/ (v[1] = u[1] /\ v[2] < u[2])
        /\ UnitOver(turn', v) <=> v[1] < u[1] \/ (v[1] = u[1] /\ v[2] < u[2])
    BY OverIs
  <2>2. v[1] \in Nat /\ v[2] \in Nat /\ u[1] \in Nat /\ u[2] \in Nat
    BY PeTypes
  <2> QED BY <2>1, <2>2, NatOrder, Zenon
<1> QED BY <1>1, <1>2

LEMMA UnitOrder ==
  ASSUME NEW u \in Unit, turn = <<"unit", u>>, turn' = turn \/ turn' = AfterUnit(u)
  PROVE  /\ \A q \in Pe : /\ DispatchOver(turn', q) => DispatchOver(turn, q)
                          /\ WatcherOver(turn', q) => WatcherOver(turn, q)
         /\ \A v \in Unit : UnitOver(turn', v) => UnitOver(turn, v) \/ (v = u /\ turn' # turn)
<1>1. CASE turn' = turn
  BY <1>1
<1>2. ASSUME turn' # turn, NEW q \in Pe, DispatchOver(turn', q) \/ WatcherOver(turn', q)
      PROVE  DispatchOver(turn, q) /\ WatcherOver(turn, q)
  <2>1. /\ DispatchOver(turn, q) <=> q <= u[1]
        /\ WatcherOver(turn, q) <=> q <= u[1]
    BY OverIs
  <2>2. CASE u[2] + 1 < NUnits
    <3>1. PICK w : w = <<u[1], u[2] + 1>>
      OBVIOUS
    <3>2. turn' = <<"call unit", w>> /\ w[1] = u[1]
      BY <1>2, <2>2, <3>1 DEF AfterUnit
    <3>3. /\ DispatchOver(turn', q) <=> q <= w[1]
          /\ WatcherOver(turn', q) <=> q <= w[1]
      BY <3>2, OverIs
    <3> QED BY <1>2, <2>1, <3>2, <3>3
  <2>3. CASE ~(u[2] + 1 < NUnits) /\ u[1] + 1 < NPe
    <3>1. turn' = <<"dispatch", u[1] + 1>>
      BY <1>2, <2>3 DEF AfterUnit
    <3>2. /\ DispatchOver(turn', q) <=> q < u[1] + 1
          /\ WatcherOver(turn', q) <=> q < u[1] + 1
      BY <3>1, OverIs
    <3> QED BY <1>2, <2>1, <3>2, PeTypes
  <2>4. CASE ~(u[1] + 1 < NPe)
    BY <2>1, <2>4, PeTypes
  <2> QED BY <2>2, <2>3, <2>4
<1>3. ASSUME turn' # turn, NEW v \in Unit, UnitOver(turn', v)
      PROVE  UnitOver(turn, v) \/ v = u
  <2>1. UnitOver(turn, v) <=> v[1] < u[1] \/ (v[1] = u[1] /\ v[2] < u[2])
    BY OverIs
  <2>2. CASE u[2] + 1 < NUnits
    <3>1. PICK w : w = <<u[1], u[2] + 1>>
      OBVIOUS
    <3>2. turn' = <<"call unit", w>> /\ w[1] = u[1] /\ w[2] = u[2] + 1
      BY <1>3, <2>2, <3>1 DEF AfterUnit
    <3>3. UnitOver(turn', v) <=> v[1] < w[1] \/ (v[1] = w[1] /\ v[2] < w[2])
      BY <3>2, OverIs
    <3>4. v[1] < u[1] \/ (v[1] = u[1] /\ (v[2] < u[2] \/ v[2] = u[2]))
      <4>1. /\ v[1] \in Nat /\ v[2] \in Nat /\ u[1] \in Nat /\ u[2] \in Nat
            /\ v[1] < u[1] \/ (v[1] = u[1] /\ v[2] < u[2] + 1)
        BY <1>3, <3>2, <3>3, PeTypes
      <4> QED BY <4>1
    <3> QED BY <2>1, <3>4, UnitIsPair
  <2>3. CASE ~(u[2] + 1 < NUnits) /\ u[1] + 1 < NPe
    <3>1. turn' = <<"dispatch", u[1] + 1>>
      BY <1>3, <2>3 DEF AfterUnit
    <3>2. UnitOver(turn', v) <=> v[1] < u[1] + 1
      BY <3>1, OverIs
    <3>3. v[1] < u[1] \/ (v[1] = u[1] /\ (v[2] < u[2] \/ v[2] = u[2]))
      BY <1>3, <2>3, <3>2, PeTypes
    <3> QED BY <2>1, <3>3, UnitIsPair
  <2>4. CASE ~(u[2] + 1 < NUnits) /\ ~(u[1] + 1 < NPe)
    <3>1. v[1] < u[1] \/ (v[1] = u[1] /\ (v[2] < u[2] \/ v[2] = u[2]))
      BY <2>4, PeTypes
    <3> QED BY <2>1, <3>1, UnitIsPair
  <2> QED BY <2>2, <2>3, <2>4
<1> QED BY <1>1, <1>2, <1>3

LEMMA NoneOver ==
  ASSUME turn' = <<"dispatch", 0>> \/ turn'[1] \in {"caller", "trail"},
         dispatch_busy' \in [Pe -> BOOLEAN]
  PROVE  QuietInv'
<1>1. /\ \A p \in Pe : ~DispatchOver(turn', p) /\ ~WatcherOver(turn', p)
      /\ \A u \in Unit : ~UnitOver(turn', u)
  <2>1. CASE turn' = <<"dispatch", 0>>
    <3>1. ASSUME NEW q \in Pe PROVE ~DispatchOver(turn', q) /\ ~WatcherOver(turn', q)
      <4>1. (DispatchOver(turn', q) <=> q < 0) /\ (WatcherOver(turn', q) <=> q < 0)
        BY <2>1, OverIs
      <4> QED BY <4>1, PeTypes
    <3>2. ASSUME NEW v \in Unit PROVE ~UnitOver(turn', v)
      <4>1. UnitOver(turn', v) <=> v[1] < 0
        BY <2>1, OverIs
      <4> QED BY <4>1, PeTypes
    <3> QED BY <3>1, <3>2
  <2>2. CASE turn'[1] \in {"caller", "trail"}
    BY <2>2 DEF DispatchOver, WatcherOver, UnitOver
  <2> QED BY <2>1, <2>2
<1>2. /\ \A x : <<"watcher", x>>[1] = "watcher" /\ <<"unit", x>>[1] = "unit"
      /\ turn'[1] \notin {"watcher", "unit", "end"}
  OBVIOUS
<1>3. \A x : turn' # <<"watcher", x>> /\ turn' # <<"unit", x>>
  BY <1>2
<1> QED BY <1>1, <1>2, <1>3 DEF QuietInv, DispatchRests, WatcherRests, UnitRests, NetworksRest

\* Components whose data a step does not touch.
LEMMA DispatchRestsOn ==
  ASSUME NEW p \in Pe, DispatchRests(p), DispatchOver(turn', p) => DispatchOver(turn, p), turn'[1] # "end",
         turn[1] # "end", dispatch_busy'[p] = dispatch_busy[p],
         task_icnt_receiver'[p] = task_icnt_receiver[p],
         mem_icnt_receiver'[p] = mem_icnt_receiver[p]
  PROVE  DispatchRests(p)'
BY DEF DispatchRests

SameWatcherData(p) ==
  /\ wbusy'[p] = wbusy[p] /\ queue'[p] = queue[p] /\ total_ongoing'[p] = total_ongoing[p]
  /\ watcher_processing'[p] = watcher_processing[p]
  /\ watcher_task_receiver'[p] = watcher_task_receiver[p]

LEMMA WatcherRestsOn ==
  ASSUME NEW p \in Pe, WatcherRests(p), WatcherOver(turn', p) => WatcherOver(turn, p),
         turn' = <<"watcher", p>> => wpc'[2] = "meta", SameWatcherData(p)
  PROVE  WatcherRests(p)'
<1>1. WP!CanRead(p, "meta")' <=> WP!CanRead(p, "meta")
  BY DEF SameWatcherData, WP!CanRead, WP!Input
<1>2. ASSUME NEW f \in WP!Own PROVE WP!HasWork(p, f)' <=> WP!HasWork(p, f)
  <2>1. f # "meta" /\ f # "reply"
    BY DEF WP!Own
  <2> QED
    BY <2>1 DEF SameWatcherData, WP!Own, WP!HasWork, WP!Read, WP!CanRead, WP!Input,
                WP!CanExpand, WP!CanProcess, WP!CanStart, WP!CanSend
<1> QED BY <1>1, <1>2 DEF WatcherRests, SameWatcherData

SameUnitData(u) ==
  /\ ubusy'[u] = ubusy[u] /\ clause_task_in'[u] = clause_task_in[u]
  /\ clause_mem'[u] = clause_mem[u] /\ clause_processing'[u] = clause_processing[u]
  /\ clause_data_ready_queue'[u] = clause_data_ready_queue[u]
  /\ clause_value_ready_queue'[u] = clause_value_ready_queue[u]
  /\ reading_tasks'[u] = reading_tasks[u] /\ value_reqs'[u] = value_reqs[u]
  /\ total_clause_data_mem_ongoing'[u] = total_clause_data_mem_ongoing[u]

LEMMA UnitRestsOn ==
  ASSUME NEW u \in Unit, UnitRests(u), UnitOver(turn', u) => UnitOver(turn, u) /\ SameUnitData(u),
         turn' = <<"unit", u>> => upc'[2] = "data"
  PROVE  UnitRests(u)'
<1>1. ASSUME SameUnitData(u)
      PROVE  /\ CP!CanReadData(u)' <=> CP!CanReadData(u)
             /\ CP!Quiet(u, "return")' <=> CP!Quiet(u, "return")
  BY <1>1 DEF SameUnitData, CP!CanReadData, CP!Quiet
<1> QED BY <1>1 DEF UnitRests, SameUnitData


LEMMA WatcherElsewhere ==
  ASSUME WP!WatcherTypeOK, NEW p \in Pe, WP!Step(p), NEW q \in Pe, q # p
  PROVE  SameWatcherData(q)
<1>0. /\ wbusy \in [Pe -> BOOLEAN] /\ DOMAIN queue = Pe /\ DOMAIN total_ongoing = Pe
      /\ DOMAIN watcher_processing = Pe /\ DOMAIN watcher_task_receiver = Pe
  BY DEF WP!WatcherTypeOK
<1>1. CASE \E k \in WP!Read : WP!StartRead(p, k) \/ WP!ReadBlocked(p, k)
  BY <1>0, <1>1 DEF SameWatcherData, WP!StartRead, WP!ReadBlocked, WP!InputBecomes, WP!CountRead,
                    WP!Report
<1>2. CASE WP!Expand(p) \/ WP!Process(p) \/ WP!StartProcess(p)
  BY <1>0, <1>2 DEF SameWatcherData, WP!Expand, WP!Process, WP!StartProcess, WP!Report
<1>3. CASE WP!SendClause(p)
  BY <1>0, <1>3 DEF SameWatcherData, WP!SendClause, WP!Report
<1>4. CASE WP!Reply(p)
  BY <1>0, <1>4 DEF SameWatcherData, WP!Reply, WP!CountReply, WP!Report
<1>5. CASE WP!Skip(p)
  BY <1>5 DEF SameWatcherData, WP!Skip
<1> QED BY <1>1, <1>2, <1>3, <1>4, <1>5 DEF WP!Step

\* An update that is not busy yet has skipped all its phases.
LEMMA WatcherSkips ==
  ASSUME WP!WatcherTypeOK, NEW p \in Pe, WP!Step(p), ~wbusy'[p]
  PROVE  \E ph \in DOMAIN WP!NextPhase :
           /\ wpc = <<p, ph>> /\ wpc' = <<p, WP!NextPhase[ph]>> /\ ~WP!HasWork(p, ph)
           /\ SameWatcherData(p)
<1>1. \A b : ~WP!Report(p, b)
  BY DEF WP!Report, WP!WatcherTypeOK
<1>2. WP!Skip(p)
  BY <1>1 DEF WP!Step, WP!StartRead, WP!ReadBlocked, WP!Expand, WP!Process, WP!StartProcess,
              WP!SendClause, WP!Reply
<1> QED BY <1>2 DEF WP!Skip, WP!At, WP!Done, SameWatcherData

LEMMA UnitElsewhere ==
  ASSUME CP!ClauseTypeOK, NEW u \in Unit, CP!Step(u), NEW v \in Unit, v # u
  PROVE  SameUnitData(v)
<1>0. /\ ubusy \in [Unit -> BOOLEAN] /\ DOMAIN clause_task_in = Unit /\ DOMAIN clause_mem = Unit
      /\ DOMAIN clause_processing = Unit /\ DOMAIN clause_data_ready_queue = Unit
      /\ DOMAIN clause_value_ready_queue = Unit /\ DOMAIN reading_tasks = Unit
      /\ DOMAIN value_reqs = Unit /\ DOMAIN total_clause_data_mem_ongoing = Unit
  BY DEF CP!ClauseTypeOK
<1>1. CASE CP!ReadData(u)
  BY <1>0, <1>1 DEF SameUnitData, CP!ReadData, CP!CountDataRead, CP!Report, CP!values
<1>2. CASE CP!BeginValues(u)
  BY <1>0, <1>2 DEF SameUnitData, CP!BeginValues, CP!Report, CP!channels, CP!ongoing
<1>3. CASE CP!ReadValue(u)
  BY <1>0, <1>3 DEF SameUnitData, CP!ReadValue, CP!Report, CP!tasks
<1>4. CASE CP!Process(u) \/ CP!StartProcess(u)
  BY <1>0, <1>4 DEF SameUnitData, CP!Process, CP!StartProcess, CP!Report, CP!channels, CP!values,
                    CP!ongoing
<1>5. CASE CP!ReplyData(u)
  BY <1>0, <1>5 DEF SameUnitData, CP!ReplyData, CP!CountDataReply, CP!Report, CP!values
<1>6. CASE CP!ReplyValue(u)
  BY <1>0, <1>6 DEF SameUnitData, CP!ReplyValue, CP!Report
<1>7. CASE CP!Skip(u)
  BY <1>0, <1>7 DEF SameUnitData, CP!Skip, CP!channels, CP!tasks, CP!values, CP!ongoing
<1> QED BY <1>1, <1>2, <1>3, <1>4, <1>5, <1>6, <1>7 DEF CP!Step

LEMMA UnitSkips ==
  ASSUME CP!ClauseTypeOK, NEW u \in Unit, CP!Step(u), ~ubusy'[u]
  PROVE  \E ph \in DOMAIN CP!NextPhase :
           /\ upc = <<u, ph>> /\ upc' = <<u, CP!NextPhase[ph]>> /\ ~CP!HasWork(u, ph)
           /\ SameUnitData(u)
<1>1. \A b : ~CP!Report(u, b)
  BY DEF CP!Report, CP!ClauseTypeOK
<1>2. CP!Skip(u)
  BY <1>1 DEF CP!Step, CP!ReadData, CP!BeginValues, CP!ReadValue, CP!Process, CP!StartProcess,
              CP!ReplyData, CP!ReplyValue
<1>3. PICK ph \in DOMAIN CP!NextPhase :
        /\ CP!At(u, ph) /\ ~CP!HasWork(u, ph) /\ CP!Done(u, ph)
        /\ ubusy' = [ubusy EXCEPT ![u] = ubusy[u] \/ CP!StoppedByLimit(u, ph)]
        /\ UNCHANGED <<CP!channels, CP!tasks, CP!values, CP!ongoing>>
  BY <1>2 DEF CP!Skip
<1>4. ubusy'[u] = ubusy[u]
  BY <1>3 DEF CP!ClauseTypeOK
<1> QED BY <1>3, <1>4 DEF CP!At, CP!Done, SameUnitData, CP!channels, CP!tasks, CP!values, CP!ongoing

LEMMA DispatchQuiet ==
  ASSUME SystemInv, QuietInv, NEW p \in Pe, Dispatch(p), UNCHANGED networkOnly
  PROVE  QuietInv'
<1>1. /\ turn = <<"dispatch", p>> /\ turn' = <<"call watcher", p>>
      /\ DispatchTask(p) /\ DispatchReply(p)
      /\ dispatch_busy' = [dispatch_busy EXCEPT ![p] =
           task_icnt_receiver[p] # <<>> \/ mem_icnt_receiver[p] # <<>>]
      /\ UNCHANGED <<wbusy, queue, total_ongoing, watcher_processing, watcher_task_receiver>>
      /\ UNCHANGED <<ubusy, clause_processing, clause_data_ready_queue, clause_value_ready_queue,
                     reading_tasks, value_reqs, total_clause_data_mem_ongoing>>
  BY DEF Dispatch
<1>2. /\ turn[1] # "end" /\ turn'[1] # "end"
      /\ \A x : turn' # <<"watcher", x>> /\ turn' # <<"unit", x>>
  BY <1>1
<1>3. ReqInv /\ WayInv
  BY DEF SystemInv
<1>4. ASSUME NEW q \in Pe PROVE DispatchRests(q)'
  <2>1. CASE q = p
    <3>1. ~dispatch_busy'[p] => /\ task_icnt_receiver[p] = <<>> /\ mem_icnt_receiver[p] = <<>>
                                /\ UNCHANGED <<task_icnt_receiver, mem_icnt_receiver>>
      BY <1>1 DEF QuietInv, DispatchTask, DispatchReply
    <3> QED BY <2>1, <3>1 DEF DispatchRests
  <2>2. CASE q # p
    <3>1. /\ \/ UNCHANGED task_icnt_receiver
             \/ \E s : task_icnt_receiver' = [task_icnt_receiver EXCEPT ![p] = s]
          /\ \/ UNCHANGED mem_icnt_receiver
             \/ \E s : mem_icnt_receiver' = [mem_icnt_receiver EXCEPT ![p] = s]
      BY <1>1 DEF DispatchTask, DispatchReply
    <3>2. /\ dispatch_busy'[q] = dispatch_busy[q] /\ task_icnt_receiver'[q] = task_icnt_receiver[q]
          /\ mem_icnt_receiver'[q] = mem_icnt_receiver[q]
      BY <1>1, <1>3, <2>2, <3>1 DEF QuietInv, ReqInv, WayInv
    <3> QED BY <1>1, <1>2, <2>2, <3>2, DispatchOrder, DispatchRestsOn DEF QuietInv
  <2> QED BY <2>1, <2>2
<1>5. ASSUME NEW q \in Pe PROVE WatcherRests(q)'
  BY <1>1, <1>2, DispatchOrder, WatcherRestsOn DEF QuietInv, SameWatcherData
<1>6. ASSUME NEW u \in Unit, u[1] # p PROVE SameUnitData(u)
  <2>1. clause_task_in'[u] = clause_task_in[u]
    <3>1. \/ UNCHANGED clause_task_in
          \/ \E x, s : clause_task_in' = [clause_task_in EXCEPT ![<<p, x>>] = s]
      BY <1>1 DEF DispatchTask, TargetUnit
    <3>2. \A x : u # <<p, x>>
      BY <1>6
    <3>3. DOMAIN clause_task_in = Unit
      BY SafeUnits DEF SystemInv, CP!ClauseTypeOK
    <3> QED BY <3>1, <3>2, <3>3
  <2>2. clause_mem'[u] = clause_mem[u]
    <3>1. \/ UNCHANGED clause_mem
          \/ \E r \in AnyReq : /\ AnswerPe(r) = p /\ ~ToWatcher(r)
                               /\ clause_mem' = [clause_mem EXCEPT ![r.unit] = Append(@, r)]
      BY <1>3, DispatchRequests DEF networkOnly
    <3>2. ASSUME NEW r \in AnyReq, AnswerPe(r) = p, ~ToWatcher(r) PROVE u # r.unit
      BY <1>6, <3>2, ReqKinds DEF AnyReq
    <3>3. DOMAIN clause_mem = Unit
      BY SafeUnits DEF SystemInv, CP!ClauseTypeOK
    <3> QED BY <3>1, <3>2, <3>3
  <2> QED BY <1>1, <2>1, <2>2 DEF SameUnitData
<1>7. ASSUME NEW u \in Unit PROVE UnitRests(u)'
  BY <1>1, <1>2, <1>6, DispatchOrder, UnitRestsOn DEF QuietInv
<1>8. NetworksRest' /\ dispatch_busy' \in [Pe -> BOOLEAN]
  BY <1>1, <1>2 DEF NetworksRest, QuietInv
<1> QED BY <1>4, <1>5, <1>7, <1>8 DEF QuietInv

LEMMA CallWatcherQuiet ==
  ASSUME SystemInv, QuietInv, NEW p \in Pe, CallWatcher(p)
  PROVE  QuietInv'
<1>1. /\ turn = <<"call watcher", p>> /\ turn' = <<"watcher", p>> /\ wpc' = <<p, "meta">>
      /\ wbusy' = [wbusy EXCEPT ![p] = FALSE]
      /\ \E x : watcher_processing' = [watcher_processing EXCEPT ![p] = x]
      /\ UNCHANGED <<queue, total_ongoing, watcher_task_receiver>>
      /\ UNCHANGED <<unitOnly, dispatchVars>>
  BY DEF CallWatcher, W!Call
<1>2. /\ turn[1] # "end" /\ turn'[1] # "end" /\ wpc'[2] = "meta"
      /\ \A x : turn' # <<"unit", x>>
      /\ \A q : turn' = <<"watcher", q>> => q = p
  BY <1>1
<1>3. ASSUME NEW q \in Pe PROVE DispatchRests(q)'
  BY <1>1, <1>2, CallWatcherOrder, DispatchRestsOn DEF QuietInv, dispatchVars
<1>4. ASSUME NEW q \in Pe PROVE WatcherRests(q)'
  <2>1. CASE q = p
    <3>1. ~WatcherOver(turn', q)
      BY <1>1, <2>1, CallWatcherOrder
    <3> QED BY <1>2, <3>1 DEF WatcherRests
  <2>2. CASE q # p
    <3>1. SameWatcherData(q)
      BY <1>1, <2>2, SafeWatchers DEF SystemInv, SameWatcherData, WP!WatcherTypeOK
    <3> QED BY <1>1, <1>2, <3>1, CallWatcherOrder, WatcherRestsOn DEF QuietInv
  <2> QED BY <2>1, <2>2
<1>5. ASSUME NEW u \in Unit PROVE UnitRests(u)'
  BY <1>1, <1>2, CallWatcherOrder, UnitRestsOn DEF QuietInv, SameUnitData, unitOnly
<1>6. NetworksRest' /\ dispatch_busy' \in [Pe -> BOOLEAN]
  BY <1>1, <1>2 DEF NetworksRest, QuietInv, dispatchVars
<1> QED BY <1>3, <1>4, <1>5, <1>6 DEF QuietInv

LEMMA WatcherStepQuiet ==
  ASSUME SystemInv, QuietInv, NEW p \in Pe, WatcherStep(p), WP!SafeInv'
  PROVE  QuietInv'
<1>1. /\ turn = <<"watcher", p>> /\ WP!Step(p) /\ UNCHANGED <<unitOnly, dispatchVars>>
      /\ turn' = IF wpc' = <<p, "return">> THEN <<"call unit", <<p, 0>>>> ELSE turn
  BY SameWStep DEF WatcherStep
<1>2. WP!WatcherTypeOK
  BY SafeWatchers DEF SystemInv
<1>3. /\ turn[1] # "end" /\ turn'[1] # "end" /\ \A x : turn' # <<"unit", x>>
      /\ \A q : turn' = <<"watcher", q>> => q = p
  BY <1>1
<1>4. ASSUME NEW q \in Pe PROVE DispatchRests(q)'
  BY <1>1, <1>3, WatcherOrder, DispatchRestsOn DEF QuietInv, dispatchVars
<1>5. ASSUME ~wbusy'[p] PROVE WatcherRests(p)'
  <2>1. PICK ph \in DOMAIN WP!NextPhase :
          /\ wpc = <<p, ph>> /\ wpc' = <<p, WP!NextPhase[ph]>> /\ ~WP!HasWork(p, ph)
          /\ SameWatcherData(p)
    BY <1>1, <1>2, <1>5, WatcherSkips
  <2>2. ~WP!CanRead(p, "meta")
    <3>1. CASE ph = "meta"
      BY <2>1, <3>1 DEF WP!HasWork, WP!Read
    <3>2. CASE ph # "meta"
      <4>1. ~wbusy[p] /\ wpc[2] # "meta"
        BY <1>5, <2>1, <3>2 DEF SameWatcherData
      <4> QED BY <1>1, <4>1 DEF QuietInv, WatcherRests
    <3> QED BY <3>1, <3>2
  <2>3. ~WP!CanRead(p, "meta")'
    BY <2>1, <2>2 DEF SameWatcherData, WP!CanRead, WP!Input
  <2>4. ASSUME WatcherOver(turn', p), NEW f \in WP!Own PROVE ~WP!HasWork(p, f)'
    <3>1. ~WatcherOver(turn, p)
      <4>1. WatcherOver(turn, p) <=> p < p
        BY <1>1, OverIs
      <4> QED BY <4>1, PeTypes, NatOrder, Zenon
    <3>2. turn' # turn
      BY <2>4, <3>1
    <3>3. wpc'[1] = p /\ wpc'[2] = "return"
      <4>1. wpc' = <<p, "return">>
        BY <1>1, <3>2
      <4> QED BY <4>1
    <3>4. WP!Place[f] < WP!Place["return"]
      BY DEF WP!Own, WP!Place
    <3> QED BY <1>5, <3>3, <3>4 DEF WP!SafeInv, WP!SkippedHasNoWork
  <2> QED BY <2>3, <2>4 DEF WatcherRests
<1>6. ASSUME NEW q \in Pe PROVE WatcherRests(q)'
  <2>1. CASE q = p /\ ~wbusy'[p]
    BY <1>5, <2>1
  <2>2. CASE q = p /\ wbusy'[p]
    BY <2>2 DEF WatcherRests
  <2>3. CASE q # p
    BY <1>1, <1>2, <1>3, <2>3, WatcherElsewhere, WatcherOrder, WatcherRestsOn DEF QuietInv
  <2> QED BY <2>1, <2>2, <2>3
<1>7. ASSUME NEW u \in Unit PROVE UnitRests(u)'
  BY <1>1, <1>3, WatcherOrder, UnitRestsOn DEF QuietInv, SameUnitData, unitOnly
<1>8. NetworksRest' /\ dispatch_busy' \in [Pe -> BOOLEAN]
  BY <1>1, <1>3 DEF NetworksRest, QuietInv, dispatchVars
<1> QED BY <1>4, <1>6, <1>7, <1>8 DEF QuietInv

LEMMA CallUnitQuiet ==
  ASSUME SystemInv, QuietInv, NEW u \in Unit, CallUnit(u)
  PROVE  QuietInv'
<1>1. /\ turn = <<"call unit", u>> /\ turn' = <<"unit", u>> /\ upc' = <<u, "data">>
      /\ \E x : ubusy' = [ubusy EXCEPT ![u] = x]
      /\ \E x : clause_processing' = [clause_processing EXCEPT ![u] = x]
      /\ UNCHANGED <<clause_task_in, clause_mem, clause_data_ready_queue, clause_value_ready_queue,
                     reading_tasks, value_reqs, total_clause_data_mem_ongoing>>
      /\ UNCHANGED <<watcherOnly, dispatchVars>>
  BY DEF CallUnit, U!Call, U!channels, U!values, U!ongoing
<1>2. /\ turn[1] # "end" /\ turn'[1] # "end" /\ upc'[2] = "data"
      /\ \A x : turn' # <<"watcher", x>>
  BY <1>1
<1>3. ASSUME NEW q \in Pe PROVE DispatchRests(q)' /\ WatcherRests(q)'
  BY <1>1, <1>2, CallUnitOrder, DispatchRestsOn, WatcherRestsOn
     DEF QuietInv, dispatchVars, SameWatcherData, watcherOnly
<1>4. ASSUME NEW v \in Unit, v # u PROVE SameUnitData(v)
  BY <1>1, <1>4, SafeUnits DEF SystemInv, SameUnitData, CP!ClauseTypeOK
<1>5. ASSUME NEW v \in Unit PROVE UnitRests(v)'
  BY <1>1, <1>2, <1>4, CallUnitOrder, UnitRestsOn DEF QuietInv
<1>6. NetworksRest' /\ dispatch_busy' \in [Pe -> BOOLEAN]
  BY <1>1, <1>2 DEF NetworksRest, QuietInv, dispatchVars
<1> QED BY <1>3, <1>5, <1>6 DEF QuietInv

LEMMA UnitStepQuiet ==
  ASSUME SystemInv, QuietInv, NEW u \in Unit, UnitStep(u), CP!SafeInv'
  PROVE  QuietInv'
<1>1. /\ turn = <<"unit", u>> /\ CP!Step(u) /\ UNCHANGED <<watcherOnly, dispatchVars>>
      /\ turn' = IF upc' = <<u, "return">> THEN AfterUnit(u) ELSE turn
  BY SameUStep DEF UnitStep
<1>2. CP!ClauseTypeOK
  BY SafeUnits DEF SystemInv
<1>3. /\ turn[1] # "end" /\ turn'[1] # "end" /\ \A x : turn' # <<"watcher", x>>
      /\ \A v : turn' = <<"unit", v>> => v = u
  <2>1. AfterUnit(u)[1] \in {"call unit", "dispatch", "networks"}
    BY DEF AfterUnit
  <2>2. \A x : <<"watcher", x>>[1] = "watcher" /\ <<"unit", x>>[1] = "unit"
    OBVIOUS
  <2>3. CASE turn' = turn
    BY <1>1, <2>3
  <2>4. CASE turn' = AfterUnit(u)
    BY <1>1, <2>1, <2>2, <2>4
  <2> QED BY <1>1, <2>3, <2>4
<1>4. ASSUME NEW q \in Pe PROVE DispatchRests(q)' /\ WatcherRests(q)'
  BY <1>1, <1>3, UnitOrder, DispatchRestsOn, WatcherRestsOn
     DEF QuietInv, dispatchVars, SameWatcherData, watcherOnly
<1>5. ASSUME ~ubusy'[u] PROVE UnitRests(u)'
  <2>1. PICK ph \in DOMAIN CP!NextPhase :
          /\ upc = <<u, ph>> /\ upc' = <<u, CP!NextPhase[ph]>> /\ ~CP!HasWork(u, ph)
          /\ SameUnitData(u)
    BY <1>1, <1>2, <1>5, UnitSkips
  <2>2. ~CP!CanReadData(u)
    <3>1. CASE ph = "data"
      BY <2>1, <3>1 DEF CP!HasWork
    <3>2. CASE ph # "data"
      <4>1. ~ubusy[u] /\ upc[2] # "data"
        BY <1>5, <2>1, <3>2 DEF SameUnitData
      <4> QED BY <1>1, <4>1 DEF QuietInv, UnitRests
    <3> QED BY <3>1, <3>2
  <2>3. ~CP!CanReadData(u)'
    BY <2>1, <2>2 DEF SameUnitData, CP!CanReadData
  <2>4. ASSUME UnitOver(turn', u) PROVE CP!Quiet(u, "return")' /\ clause_mem'[u] = <<>>
    <3>1. ~UnitOver(turn, u)
      <4>1. UnitOver(turn, u) <=> u[1] < u[1] \/ (u[1] = u[1] /\ u[2] < u[2])
        BY <1>1, OverIs
      <4> QED BY <4>1, PeTypes, NatOrder, Zenon
    <3>2. turn' # turn
      BY <2>4, <3>1
    <3>3. upc' = <<u, "return">> /\ ph = "reply"
      BY <1>1, <2>1, <3>2 DEF CP!NextPhase
    <3>4. CP!At(u, "return")' /\ "return" \in CP!Phase
      BY <3>3 DEF CP!At, CP!Phase
    <3>5. CP!Quiet(u, "return")'
      BY <1>5, <3>4 DEF CP!SafeInv, CP!QuietSoFar
    <3>6. clause_mem'[u] = <<>>
      BY <2>1, <3>3 DEF CP!HasWork, SameUnitData
    <3> QED BY <3>5, <3>6
  <2> QED BY <2>3, <2>4 DEF UnitRests
<1>6. ASSUME NEW v \in Unit PROVE UnitRests(v)'
  <2>1. CASE v = u /\ ~ubusy'[u]
    BY <1>5, <2>1
  <2>2. CASE v = u /\ ubusy'[u]
    BY <2>2 DEF UnitRests
  <2>3. CASE v # u
    BY <1>1, <1>2, <1>3, <2>3, UnitElsewhere, UnitOrder, UnitRestsOn DEF QuietInv
  <2> QED BY <2>1, <2>2, <2>3
<1>7. NetworksRest' /\ dispatch_busy' \in [Pe -> BOOLEAN]
  BY <1>1, <1>3 DEF NetworksRest, QuietInv, dispatchVars
<1> QED BY <1>4, <1>6, <1>7 DEF QuietInv
\* Networks that are not busy bring nothing and find nothing at their ports.
LEMMA IdleNetworks ==
  ASSUME SystemInv, NetworkUpdate, ~network_busy'
  PROVE  /\ memory' = {} /\ clause_net' = {}
         /\ \A p \in Pe : /\ mem_out'[p] = <<>> /\ clause_icnt_sender'[p] = <<>>
                          /\ mem_out'[p] = mem_out[p]
                          /\ task_icnt_receiver'[p] = task_icnt_receiver[p]
                          /\ mem_icnt_receiver'[p] = mem_icnt_receiver[p]
<1>1. /\ memory = {} /\ memory' = {} /\ clause_net = {} /\ TakenClauses = {}
  BY DEF NetworkUpdate
<1>2. PICK T \in SUBSET Pe, a \in Memory!Answers : MemoryTakes(T) /\ Memory!Serve(T, a)
  BY DEF NetworkUpdate
<1>3. PICK b \in Memory!Deliveries(ClausesFor, task_icnt_receiver) : ClauseNetwork(b)
  BY DEF NetworkUpdate
<1>4. ReqInv /\ WayInv
  BY DEF SystemInv
<1>5. MaxTransit \in Nat \ {0} /\ Cardinality({}) = 0
  BY SystemAssumption, FS_EmptySet
<1>6. \A s : Range(s) \subseteq {} /\ s \in Seq(AnyReq) \cup Seq(HasClauseData) => s = <<>>
  <2> SUFFICES ASSUME NEW S, NEW s \in Seq(S), Range(s) \subseteq {} PROVE s = <<>>
    OBVIOUS
  <2>1. ASSUME s # <<>> PROVE FALSE
    <3>1. Head(s) \in Range(s)
      BY <2>1, TailRange
    <3> QED BY <3>1
  <2> QED BY <2>1
<1>7. ASSUME NEW p \in Pe
      PROVE  /\ mem_out'[p] = <<>> /\ mem_out'[p] = mem_out[p]
             /\ mem_icnt_receiver'[p] = mem_icnt_receiver[p]
  <2> DEFINE held == [q \in Pe |-> {r \in memory : AnswerPe(r) = q}]
  <2>1. T = {}
    BY <1>1, <1>2 DEF Memory!Serve
  <2>2. mem_out[p] = <<>>
    BY <1>1, <1>2, <1>5, <2>1 DEF MemoryTakes
  <2>3. mem_out'[p] = mem_out[p] /\ mem_icnt_receiver'[p] = mem_icnt_receiver[p] \o a[p]
    BY <1>2, <2>1 DEF Memory!Serve
  <2>4. held \in [Pe -> SUBSET AnyReq] /\ held[p] = {}
    BY <1>1, <1>4
  <2>5. a \in Memory!Deliveries(held, mem_icnt_receiver)
    BY <1>2 DEF Memory!Answers
  <2> HIDE DEF held
  <2>6. a[p] \in Seq(AnyReq) /\ Range(a[p]) \subseteq {}
    <3>1. a \in [Pe -> Seq(AnyReq)] /\ \A q \in Pe : Range(a[q]) \subseteq held[q]
      BY <2>4, <2>5, DeliveriesAre
    <3> QED BY <2>4, <3>1
  <2>7. a[p] = <<>> /\ mem_icnt_receiver[p] \in Seq(AnyReq)
    BY <1>4, <1>6, <2>6 DEF ReqInv
  <2> QED BY <2>2, <2>3, <2>7
<1>8. ASSUME NEW p \in Pe
      PROVE  /\ clause_icnt_sender'[p] = <<>> /\ task_icnt_receiver'[p] = task_icnt_receiver[p]
  <2>1. ASSUME clause_icnt_sender[p] # <<>> PROVE FALSE
    <3>1. Cardinality(clause_net) < MaxTransit
      BY <1>1, <1>5
    <3>2. Head(clause_icnt_sender[p]) \in TakenClauses
      BY <2>1, <3>1 DEF TakenClauses
    <3> QED BY <1>1, <3>2
  <2>2. /\ clause_icnt_sender'[p] = clause_icnt_sender[p]
        /\ task_icnt_receiver'[p] = task_icnt_receiver[p] \o b[p]
    BY <1>1, <1>3 DEF ClauseNetwork
  <2>3. ClausesFor \in [Pe -> SUBSET HasClauseData] /\ ClausesFor[p] = {}
    BY <1>1 DEF ClausesFor
  <2>4. b[p] \in Seq(HasClauseData) /\ Range(b[p]) \subseteq {}
    BY <2>3, DeliveriesAre
  <2>5. b[p] = <<>> /\ task_icnt_receiver[p] \in Seq(HasClauseData)
    BY <1>4, <1>6, <2>4 DEF WayInv
  <2> QED BY <2>1, <2>2, <2>5
<1>9. clause_net' = {}
  BY <1>1, <1>3 DEF ClauseNetwork
<1> QED BY <1>1, <1>7, <1>8, <1>9

LEMMA NetworkQuiet ==
  ASSUME SystemInv, QuietInv, NetworkUpdate
  PROVE  QuietInv'
<1>1. /\ turn = <<"networks", 0>> /\ turn' = <<"end", 0>>
      /\ UNCHANGED <<wpc, wbusy, watcher_task_receiver, queue, total_ongoing, watcher_processing>>
      /\ UNCHANGED <<unitOnly, dispatch_busy>>
  BY DEF NetworkUpdate
<1>2. /\ \A p : DispatchOver(turn, p) /\ WatcherOver(turn, p) /\ UnitOver(turn, p)
      /\ \A x : turn' # <<"watcher", x>> /\ turn' # <<"unit", x>>
      /\ turn[1] # "end" /\ turn'[1] = "end"
  BY <1>1, OverIs
<1>3. ASSUME NEW p \in Pe PROVE DispatchRests(p)'
  BY <1>1, <1>2, IdleNetworks DEF QuietInv, DispatchRests
<1>4. ASSUME NEW p \in Pe PROVE WatcherRests(p)'
  BY <1>1, <1>2, WatcherRestsOn DEF QuietInv, SameWatcherData
<1>5. ASSUME NEW u \in Unit PROVE UnitRests(u)'
  BY <1>1, <1>2, UnitRestsOn DEF QuietInv, SameUnitData, unitOnly
<1>6. NetworksRest' /\ dispatch_busy' \in [Pe -> BOOLEAN]
  BY <1>1, IdleNetworks DEF NetworksRest, QuietInv
<1> QED BY <1>3, <1>4, <1>5, <1>6 DEF QuietInv

\* A step that touches neither the components nor whose turn it is.
LEMMA SameQuiet ==
  ASSUME QuietInv, turn[1] # "end" \/ UNCHANGED <<memory, clause_net, network_busy>>,
         UNCHANGED <<turn, watcherOnly, unitOnly, mem_out, dispatchVars>>
  PROVE  QuietInv'
<1>1. ASSUME NEW p \in Pe PROVE DispatchRests(p)'
  BY DEF QuietInv, DispatchRests, dispatchVars
<1>2. ASSUME NEW p \in Pe PROVE WatcherRests(p)'
  <2>1. SameWatcherData(p) /\ wpc' = wpc
    BY DEF SameWatcherData, watcherOnly
  <2>2. WP!CanRead(p, "meta")' <=> WP!CanRead(p, "meta")
    BY <2>1 DEF SameWatcherData, WP!CanRead, WP!Input
  <2>3. ASSUME NEW f \in WP!Own PROVE WP!HasWork(p, f)' <=> WP!HasWork(p, f)
    <3>1. f # "meta" /\ f # "reply"
      BY DEF WP!Own
    <3> QED
      BY <2>1, <3>1 DEF SameWatcherData, WP!Own, WP!HasWork, WP!Read, WP!CanRead, WP!Input,
                        WP!CanExpand, WP!CanProcess, WP!CanStart, WP!CanSend
  <2> QED BY <2>1, <2>2, <2>3 DEF QuietInv, WatcherRests, SameWatcherData
<1>3. ASSUME NEW u \in Unit PROVE UnitRests(u)'
  BY DEF QuietInv, UnitRests, unitOnly, CP!CanReadData, CP!Quiet
<1>4. NetworksRest' /\ dispatch_busy' \in [Pe -> BOOLEAN]
  BY DEF QuietInv, NetworksRest, dispatchVars, watcherOnly
<1> QED BY <1>1, <1>2, <1>3, <1>4 DEF QuietInv

LEMMA NextQuiet ==
  ASSUME SystemInv, SystemInv', QuietInv, [Next]_vars
  PROVE  QuietInv'
<1>0. WP!SafeInv' /\ CP!SafeInv' /\ dispatch_busy \in [Pe -> BOOLEAN]
  BY DEF SystemInv, QuietInv
<1>1. CASE InterfacesUpdate
  <2>1. InterfaceStep /\ UNCHANGED networkOnly
    BY <1>1 DEF InterfacesUpdate
  <2> QED BY <1>0, <2>1, DispatchQuiet, CallWatcherQuiet, WatcherStepQuiet, CallUnitQuiet,
             UnitStepQuiet DEF InterfaceStep
<1>2. CASE TrailUpdate
  BY <1>0, <1>2, NoneOver DEF TrailUpdate, dispatchVars
<1>3. CASE NetworkUpdate
  BY <1>3, NetworkQuiet
<1>4. CASE Lose
  <2>1. /\ turn[1] = "networks"
        /\ UNCHANGED <<turn, watcherOnly, unitOnly, mem_out, dispatchVars>>
    BY <1>4 DEF Lose, interfaceVars
  <2> QED BY <2>1, SameQuiet
<1>5. CASE EndOfCycle
  <2>1. turn'[1] \in {"caller", "trail"} /\ UNCHANGED dispatchVars
    BY <1>5 DEF EndOfCycle
  <2> QED BY <1>0, <2>1, NoneOver DEF dispatchVars
<1>6. CASE RunSingleTask \/ RunFullExpr \/ RunExtra \/ FinishSimulator
  <2>1. PICK c : Run(c)
    BY <1>6 DEF RunSingleTask, RunFullExpr, RunExtra, FinishSimulator
  <2>2. turn'[1] \in {"caller", "trail"} /\ UNCHANGED dispatchVars
    BY <2>1 DEF Run
  <2> QED BY <1>0, <2>2, NoneOver DEF dispatchVars
<1>7. CASE CallReturns \/ Over \/ UNCHANGED vars
  <2>1. UNCHANGED <<interfaceVars, networkOnly>>
    BY <1>7 DEF CallReturns, Over, vars
  <2> QED BY <2>1, SameQuiet DEF interfaceVars, networkOnly
<1> QED BY <1>1, <1>2, <1>3, <1>4, <1>5, <1>6, <1>7 DEF Next

LEMMA InitQuiet == Init => QuietInv
<1> SUFFICES ASSUME Init PROVE QuietInv
  OBVIOUS
<1>1. turn = <<"caller", 0>> /\ dispatch_busy = [p \in Pe |-> FALSE]
  BY DEF Init, InterfaceInit
<1>2. /\ \A p : ~DispatchOver(turn, p) /\ ~WatcherOver(turn, p) /\ ~UnitOver(turn, p)
      /\ \A x : turn # <<"watcher", x>> /\ turn # <<"unit", x>>
      /\ turn[1] # "end"
  BY <1>1 DEF DispatchOver, WatcherOver, UnitOver
<1> QED BY <1>1, <1>2 DEF QuietInv, DispatchRests, WatcherRests, UnitRests, NetworksRest

-----------------------------------------------------------------------------
(* What is left when nobody is busy.                                        *)

LEMMA WatcherHoldsNothing ==
  ASSUME WP!SafeInv, NEW p \in Pe, \A f \in WP!Own : ~WP!HasWork(p, f), ~WP!CanRead(p, "meta"),
         \A q \in Pe, f \in WP!Flight : WP!Flying(q, f) = {}
  PROVE  /\ watcher_task_receiver[p] = <<>> /\ \A q \in WP!Queue : queue[p][q] = <<>>
         /\ watcher_processing[p] = None
         /\ \A k \in WP!Read : mem_req_id_to_task[p][k] = {}
BY WatcherAssumptions, WP!NothingHeld
   DEF WP!NothingHeld, WP!TasksAssumption, WP!LimitAssumption, WP!EnvAssumption,
       WP!DistinctTasks, WP!SinglesListed

LEMMA UnitsHoldNothing ==
  ASSUME CP!SafeInv, \A u \in Unit : CP!Quiet(u, "return") /\ ~CP!CanReadData(u),
         \A r : ~CP!OnWay(r)
  PROVE  \A u \in Unit :
           /\ clause_task_in[u] = <<>> /\ mem_req_id_to_clause_task[u] = {}
           /\ clause_data_ready_queue[u] = <<>> /\ reading_tasks[u] = {}
           /\ clause_value_ready_queue[u] = <<>> /\ clause_processing[u] = None
BY UnitAssumptions, CP!NothingHeld
   DEF CP!NothingHeld, CP!ClauseAssumption, CP!ValuesAssumption, CP!EnvAssumption

LEMMA NothingLeft ==
  ASSUME SystemInv, QuietInv, turn = <<"end", 0>>, ~SystemBusy,
         current_running_mode = "RealRoundGap", lost = {}
  PROVE  /\ OpenWork = {} /\ memory = {} /\ clause_net = {}
         /\ task_receiver = <<>> /\ current_working_task = None
<1>1. /\ ~trail_busy /\ ~network_busy
      /\ \A p \in Pe : ~dispatch_busy[p] /\ ~wbusy[p]
      /\ \A u \in Unit : ~ubusy[u]
  BY DEF SystemBusy, OthersBusy, InterfacesBusy
<1>2. \A p : DispatchOver(turn, p) /\ WatcherOver(turn, p) /\ UnitOver(turn, p)
  BY OverIs
<1>3. /\ memory = {} /\ clause_net = {}
      /\ \A p \in Pe : mem_out[p] = <<>> /\ clause_icnt_sender[p] = <<>>
  BY <1>1 DEF QuietInv, NetworksRest
<1>4. \A p \in Pe : task_icnt_receiver[p] = <<>> /\ mem_icnt_receiver[p] = <<>>
  BY <1>1, <1>2 DEF QuietInv, DispatchRests
<1>5. \A p \in Pe : ~WP!CanRead(p, "meta") /\ \A f \in WP!Own : ~WP!HasWork(p, f)
  BY <1>1, <1>2 DEF QuietInv, WatcherRests
<1>6. \A u \in Unit : ~CP!CanReadData(u) /\ CP!Quiet(u, "return") /\ clause_mem[u] = <<>>
  BY <1>1, <1>2 DEF QuietInv, UnitRests
<1>7. WP!SafeInv /\ CP!SafeInv /\ CallInv
  BY DEF SystemInv
<1>8. \A p \in Pe : watcher_mem[p] = <<>>
  BY DEF SystemInv, DrainInv
<1>9. Held = {}
  BY <1>3, <1>4, NoTasks DEF Held, InReplies
<1>10. \A p \in Pe :
         /\ watcher_task_receiver[p] = <<>> /\ \A q \in WP!Queue : queue[p][q] = <<>>
         /\ watcher_processing[p] = None
         /\ \A k \in WP!Read : mem_req_id_to_task[p][k] = {}
  <2>1. \A p \in Pe, f \in WP!Flight : WP!Flying(p, f) = {}
    BY <1>3, <1>8, <1>9, NoTasks, SameWords DEF WP!Flight, WP!Flying
  <2> QED BY <1>5, <1>7, <2>1, WatcherHoldsNothing
<1>11. \A u \in Unit :
         /\ clause_task_in[u] = <<>> /\ mem_req_id_to_clause_task[u] = {}
         /\ clause_data_ready_queue[u] = <<>> /\ reading_tasks[u] = {}
         /\ clause_value_ready_queue[u] = <<>> /\ clause_processing[u] = None
  <2>1. \A r : ~CP!OnWay(r)
    BY <1>3, <1>6, <1>9, NoTasks, SameWords DEF CP!OnWay, CP!Lies
  <2> QED BY <1>6, <1>7, <2>1, UnitsHoldNothing
<1>12. \A x : ~Contains(<<>>, x)
  BY EmptySeq DEF Contains
<1>13. ASSUME NEW t PROVE ~TaskOpen(t)
  BY <1>10, <1>12 DEF TaskOpen, TaskAt, WP!Queue, WP!Read
<1>14. ASSUME NEW c PROVE ~SingleOpen(c)
  <2>1. ASSUME NEW p \in Pe PROVE ~InWatcher(p, c)
    BY <1>3, <1>4, <1>10, <1>12 DEF InWatcher, WP!Queue, WP!Read
  <2>2. ASSUME NEW u \in Unit PROVE ~InUnit(u, c)
    BY <1>11, <1>12 DEF InUnit
  <2> QED BY <1>3, <2>1, <2>2 DEF SingleOpen
<1>15. OpenWork = {}
  BY <1>13, <1>14 DEF OpenWork
<1>16. task_receiver = <<>> /\ current_working_task = None
  BY <1>1, <1>7 DEF CallInv
<1> QED BY <1>3, <1>15, <1>16

LEMMA NextOkMeansDone ==
  ASSUME SystemInv, QuietInv, OkMeansDone, [Next]_vars
  PROVE  OkMeansDone'
<1>1. CASE EndOfCycle
  <2> SUFFICES ASSUME turn' = <<"caller", 0>>, result' = "Ok",
                      current_running_mode' = "RealRoundGap", lost' = {}
               PROVE  /\ OpenWork' = {} /\ memory' = {} /\ clause_net' = {}
                      /\ task_receiver' = <<>> /\ current_working_task' = None
    BY DEF OkMeansDone
  <2>1. /\ turn = <<"end", 0>> /\ ~SystemBusy
        /\ UNCHANGED <<watcherOnly, unitOnly, dispatchVars, trailOnly, networkOnly,
                       current_running_mode>>
    BY <1>1 DEF EndOfCycle
  <2>2. /\ OpenWork = {} /\ memory = {} /\ clause_net = {}
        /\ task_receiver = <<>> /\ current_working_task = None
    BY <2>1, NothingLeft DEF networkOnly
  <2>3. OpenWork' = OpenWork
    BY <2>1 DEF OpenWork, TaskOpen, TaskAt, SingleOpen, InWatcher, InUnit, Work, Singly, watcherOnly,
                unitOnly, dispatchVars, networkOnly
  <2> QED BY <2>1, <2>2, <2>3 DEF networkOnly, trailOnly
<1>2. CASE CallReturns \/ Over \/ UNCHANGED vars
  <2>1. UNCHANGED <<interfaceVars, trailOnly, networkOnly, current_running_mode, result>>
    BY <1>2 DEF CallReturns, Over, vars, caller
  <2>2. OpenWork' = OpenWork
    BY <2>1 DEF OpenWork, TaskOpen, TaskAt, SingleOpen, InWatcher, InUnit, Work, Singly, interfaceVars,
                watcherOnly, unitOnly, dispatchVars, networkOnly
  <2> QED BY <2>1, <2>2 DEF OkMeansDone, interfaceVars, networkOnly, trailOnly
<1>3. CASE turn' # <<"caller", 0>>
  BY <1>3 DEF OkMeansDone
<1>4. CASE RunSingleTask \/ RunFullExpr \/ RunExtra \/ FinishSimulator
  BY <1>3, <1>4 DEF RunSingleTask, RunFullExpr, RunExtra, FinishSimulator, Run
<1>5. CASE TrailUpdate \/ NetworkUpdate \/ Lose
  BY <1>3, <1>5 DEF TrailUpdate, NetworkUpdate, Lose, interfaceVars
<1>6. CASE InterfacesUpdate
  BY <1>3, <1>6, InterfaceTurns DEF InterfacesUpdate
<1> QED BY <1>1, <1>2, <1>4, <1>5, <1>6 DEF Next

LEMMA NothingOpenAtFirst ==
  Init => OpenWork = {}
<1> SUFFICES ASSUME Init PROVE OpenWork = {}
  OBVIOUS
<1>1. /\ W!Init /\ U!Init /\ clause_net = {}
      /\ task_icnt_receiver = [p \in Pe |-> <<>>]
  BY DEF Init, InterfaceInit
<1>2. \A x : ~Contains(<<>>, x)
  BY EmptySeq DEF Contains
<1>3. ASSUME NEW t PROVE ~TaskOpen(t)
  BY <1>1, <1>2 DEF TaskOpen, TaskAt, W!Init, W!Queue, W!Read
<1>4. ASSUME NEW c, NEW p \in Pe PROVE ~InWatcher(p, c)
  BY <1>1, <1>2 DEF InWatcher, W!Init, W!Queue, W!Read
<1>5. ASSUME NEW c, NEW u \in Unit PROVE ~InUnit(u, c)
  BY <1>1, <1>2 DEF InUnit, U!Init
<1> QED BY <1>1, <1>3, <1>4, <1>5 DEF OpenWork, SingleOpen

\* When a run that waits for all components returns Ok and no request was lost,
\* no task is left anywhere, in whatever order replies and clauses came: a
\* component that reports not to be busy (sim.rs:161, simulator.rs:66) has found
\* no work in any of its phases and has been given none since, and what it waits
\* for would keep a network busy.
THEOREM SystemOkMeansDone == Spec => []OkMeansDone
<1>1. ASSUME Init PROVE OkMeansDone
  <2>1. /\ memory = {} /\ clause_net = {}
        /\ task_receiver = <<>> /\ current_working_task = None
    BY <1>1 DEF Init, Sync!TrailInit
  <2> QED BY <1>1, <2>1, NothingOpenAtFirst DEF OkMeansDone
<1> QED BY <1>1, InitSystemInv, NextSystemInv, InitQuiet, NextQuiet, NextOkMeansDone, PTL DEF Spec

-----------------------------------------------------------------------------
(* The barrier.  The open work is what is unfinished and was sent, so that  *)
(* a step opens the work of one task, or closes one piece and counts it.   *)

LEMMA SameContains == \A s, x : WP!Contains(s, x) <=> Contains(s, x)
BY DEF WP!Contains, Contains

LEMMA WorkIs ==
  /\ \A t \in WatcherTask : Work[t] = {t} \cup Range(Singles[t])
  /\ \A t \in WatcherTask : Range(Singles[t]) \subseteq ClauseTask
  /\ \A t, u \in WatcherTask : t # u => Range(Singles[t]) \cap Range(Singles[u]) = {}
  /\ WatcherTask \cap ClauseTask = {} /\ HasClauseData \subseteq ClauseTask
<1>1. \A t \in WatcherTask : Work[t] = {t} \cup Range(Singles[t])
  BY DEF Work, Singly, Range
<1>2. ASSUME NEW t \in WatcherTask PROVE Range(Singles[t]) \subseteq ClauseTask
  BY InterfaceAssumption DEF W!TasksAssumption, Range
<1> QED BY <1>1, <1>2, DistinctTasks, InterfaceAssumption DEF W!TasksAssumption

LEMMA OpenTasks ==
  ASSUME DataInv
  PROVE  /\ \A t : TaskOpen(t) <=> WP!Started(t)
         /\ \A c : SingleOpen(c) <=> \/ WP!Born(c) \/ CP!InSomeUnit(c)
                                     \/ c \in InSenders \cup clause_net \cup InReceivers
         /\ \A c : CP!InSomeUnit(c) => c \in HasClauseData
<1>1. WP!TypeOK /\ CP!TypeOK
  BY SafeWatchers, SafeUnits DEF DataInv
<1>2. ASSUME NEW t PROVE TaskOpen(t) <=> WP!Started(t)
  BY <1>1, StartedTasks, SameContains DEF TaskOpen, TaskAt
<1>3. ASSUME NEW c, NEW p \in Pe
      PROVE  /\ Contains(clause_icnt_sender[p], c) <=> c \in Range(clause_icnt_sender[p])
             /\ Contains(task_icnt_receiver[p], c) <=> c \in Range(task_icnt_receiver[p])
  <2>1. ASSUME NEW s \in Seq(HasClauseData) PROVE Contains(s, c) <=> c \in Range(s)
    BY DEF Contains, Range
  <2> QED BY <2>1 DEF DataInv, WayInv
<1>4. ASSUME NEW c
      PROVE  SingleOpen(c) <=> \/ WP!Born(c) \/ CP!InSomeUnit(c)
                               \/ c \in InSenders \cup clause_net \cup InReceivers
  <2>1. CP!InSomeUnit(c) <=> \E u \in Unit : InUnit(u, c)
    BY DEF CP!InSomeUnit, InUnit, CP!Contains, Contains
  <2>2. WP!Born(c) <=> \E p \in Pe :
          \/ \E ch \in {queue[p]["single_task"], queue[p]["value_finished"],
                        queue[p]["process_finished"]} : Contains(ch, c)
          \/ c \in mem_req_id_to_task[p]["blocker"]
          \/ /\ watcher_processing[p] # None
             /\ watcher_processing[p].task = c
    BY <1>1, StartedTasks, SameContains
  <2>3. \A p \in Pe : InWatcher(p, c) <=>
          \/ \E ch \in {queue[p]["single_task"], queue[p]["value_finished"],
                        queue[p]["process_finished"]} : Contains(ch, c)
          \/ c \in mem_req_id_to_task[p]["blocker"]
          \/ /\ watcher_processing[p] # None
             /\ watcher_processing[p].task = c
          \/ c \in Range(clause_icnt_sender[p]) \/ c \in Range(task_icnt_receiver[p])
    BY <1>3 DEF InWatcher
  <2> QED BY <2>1, <2>2, <2>3 DEF SingleOpen, InSenders, InReceivers
<1>5. ASSUME NEW c, CP!InSomeUnit(c) PROVE c \in HasClauseData
  <2>1. PICK u \in Unit :
          \/ \E ch \in {clause_task_in[u], clause_data_ready_queue[u],
                        clause_value_ready_queue[u]} : CP!Contains(ch, c)
          \/ c \in mem_req_id_to_clause_task[u] \cup reading_tasks[u]
          \/ \E x \in {clause_processing[u]} \ {None} : x.task = c
    BY <1>5 DEF CP!InSomeUnit
  <2>2. ASSUME NEW s \in Seq(HasClauseData), CP!Contains(s, c) PROVE c \in HasClauseData
    BY <2>2 DEF CP!Contains
  <2>3. clause_processing[u] # None => clause_processing[u].task \in HasClauseData
    BY <1>1 DEF CP!TypeOK, CP!ClauseTypeOK, CP!Processing
  <2> QED BY <1>1, <2>1, <2>2, <2>3 DEF CP!TypeOK, CP!ClauseTypeOK
<1> QED BY <1>2, <1>4, <1>5

LEMMA WorkHas ==
  ASSUME NEW x
  PROVE  /\ x \in OpenWork <=> (\E t \in WatcherTask : TaskOpen(t) /\ x \in Work[t])
                               \/ (x \in ClauseTask /\ SingleOpen(x))
         /\ x \in UnsentWork <=> \E t \in Unsent : x \in Work[t]
BY DEF OpenWork, UnsentWork

LEMMA UnfinishedIs ==
  ASSUME DataInv
  PROVE  Unfinished = OpenWork \cup UnsentWork /\ OpenWork \cap UnsentWork = {}
<1>1. /\ WP!TypeOK /\ WP!PInv /\ CP!TypeOK /\ CP!PInv
      /\ Unsent \subseteq WatcherTask
  <2>1. WP!TypeOK /\ WP!PInv /\ CP!TypeOK /\ CP!PInv
    BY SafeWatchers, SafeUnits DEF DataInv, CP!SafeInv, CP!RInv
  <2> QED BY <2>1 DEF WP!TypeOK
<1>2. /\ \A t : TaskOpen(t) <=> WP!Started(t)
      /\ \A c : SingleOpen(c) <=> \/ WP!Born(c) \/ CP!InSomeUnit(c)
                                  \/ c \in InSenders \cup clause_net \cup InReceivers
      /\ \A c : CP!InSomeUnit(c) => c \in HasClauseData
  BY OpenTasks
<1>3. /\ \A t \in WatcherTask : WP!NotExpanded(t) <=> t \in Unsent \/ WP!Started(t)
      /\ \A t \in Unsent : ~WP!Started(t)
      /\ \A c \in ClauseTask : c \in WP!Upstream <=>
           WP!Born(c) \/ \E t \in WatcherTask : WP!NotExpanded(t) /\ c \in Range(Singles[t])
      /\ \A t \in WatcherTask : WP!NotExpanded(t) => \A c \in Range(Singles[t]) : ~WP!Born(c)
  BY <1>1, WatcherWorkApart, SameWords
<1>4. /\ \A c \in HasClauseData : c \notin CP!Gone <=> c \in Coming \/ CP!InSomeUnit(c)
      /\ \A c \in Coming \cap HasClauseData : ~CP!InSomeUnit(c)
  BY <1>1, UnitWorkIs
<1>5. /\ InSenders \cup clause_net \cup InReceivers \subseteq HasClauseData
      /\ WP!Upstream \cap (InSenders \cup clause_net \cup InReceivers) = {}
  <2>1. \A s \in Seq(HasClauseData) : Range(s) \subseteq HasClauseData
    BY DEF Range
  <2>2. InSenders \subseteq HasClauseData /\ InReceivers \subseteq HasClauseData
    BY <2>1 DEF DataInv, WayInv, InSenders, InReceivers
  <2> QED BY <2>2 DEF DataInv, WayInv
<1>6. WP!Upstream \subseteq ClauseTask
  BY DEF WP!Upstream
<1>7. ASSUME NEW t \in WatcherTask
      PROVE  /\ t \in Unfinished <=> t \in Unsent \/ WP!Started(t)
             /\ t \in OpenWork <=> WP!Started(t)
             /\ t \in UnsentWork <=> t \in Unsent
  <2>1. t \notin ClauseTask /\ t \notin HasClauseData
    BY WorkIs
  <2>2. \A u \in WatcherTask : t \in Work[u] <=> t = u
    BY <2>1, WorkIs
  <2>3. t \in WP!Unfinished <=> WP!NotExpanded(t)
    BY <1>6, <2>1 DEF WP!Unfinished
  <2>4. t \in Unfinished <=> t \in Unsent \/ WP!Started(t)
    BY <1>3, <2>1, <2>3 DEF Unfinished
  <2>5. t \in OpenWork <=> WP!Started(t)
    <3>1. t \in OpenWork <=> \E u \in WatcherTask : TaskOpen(u) /\ t \in Work[u]
      BY WorkHas, <2>1
    <3> QED BY <1>2, <2>2, <3>1
  <2>6. t \in UnsentWork <=> t \in Unsent
    BY <1>1, WorkHas, <2>2
  <2> QED BY <2>4, <2>5, <2>6
<1>8. ASSUME NEW c \in ClauseTask
      PROVE  /\ c \in OpenWork <=>
                  SingleOpen(c) \/ \E t \in WatcherTask : WP!Started(t) /\ c \in Range(Singles[t])
             /\ c \in UnsentWork <=> \E t \in Unsent : c \in Range(Singles[t])
             /\ c \in Unfinished <=> c \in OpenWork \/ c \in UnsentWork
             /\ ~(c \in OpenWork /\ c \in UnsentWork)
  <2>1. c \notin WatcherTask
    BY WorkIs
  <2>2. \A u \in WatcherTask : c \in Work[u] <=> c \in Range(Singles[u])
    BY <2>1, WorkIs
  <2>3. c \in OpenWork <=>
          SingleOpen(c) \/ \E t \in WatcherTask : WP!Started(t) /\ c \in Range(Singles[t])
    <3>1. c \in OpenWork <=>
            SingleOpen(c) \/ \E t \in WatcherTask : TaskOpen(t) /\ c \in Work[t]
      BY WorkHas
    <3> QED BY <1>2, <2>2, <3>1
  <2>4. c \in UnsentWork <=> \E t \in Unsent : c \in Range(Singles[t])
    BY <1>1, WorkHas, <2>2
  <2>5. c \in WP!Upstream <=>
          \/ WP!Born(c) \/ c \in UnsentWork
          \/ \E t \in WatcherTask : WP!Started(t) /\ c \in Range(Singles[t])
    BY <1>3, <1>1, <2>4
  <2>6. c \in WP!Unfinished <=> c \in WP!Upstream \ HasClauseData
    BY <2>1 DEF WP!Unfinished
  <2>7. SingleOpen(c) <=> \/ WP!Born(c) \/ CP!InSomeUnit(c)
                           \/ c \in InSenders \cup clause_net \cup InReceivers
    BY <1>2
  <2>8. PICK old \in BOOLEAN :
          old <=> \E t \in WatcherTask : WP!Started(t) /\ c \in Range(Singles[t])
    OBVIOUS
  <2>9. ASSUME c \in HasClauseData
        PROVE  c \in Unfinished <=> c \in OpenWork \/ c \in UnsentWork
    <3>1. c \in Unfinished <=> c \in Coming \/ CP!InSomeUnit(c)
      BY <1>4, <2>6, <2>9 DEF Unfinished
    <3>2. c \in Coming <=> \/ c \in WP!Upstream
                           \/ c \in InSenders \cup clause_net \cup InReceivers
      BY <2>9 DEF Coming
    <3> QED BY <2>3, <2>5, <2>7, <2>8, <3>1, <3>2
  <2>10. ASSUME c \notin HasClauseData
        PROVE  c \in Unfinished <=> c \in OpenWork \/ c \in UnsentWork
    <3>1. c \in Unfinished <=> c \in WP!Upstream
      BY <2>6, <2>10 DEF Unfinished
    <3>2. c \notin InSenders \cup clause_net \cup InReceivers /\ ~CP!InSomeUnit(c)
      BY <1>2, <1>5, <2>10
    <3> QED BY <2>3, <2>5, <2>7, <2>8, <3>1, <3>2
  <2>11. ASSUME c \in OpenWork, NEW t \in Unsent, c \in Range(Singles[t]) PROVE FALSE
    <3>1. WP!NotExpanded(t) /\ ~WP!Started(t) /\ t \in WatcherTask
      BY <1>3, <1>1
    <3>2. c \in WP!Upstream /\ ~WP!Born(c)
      BY <1>3, <2>11, <3>1
    <3>3. c \notin InSenders \cup clause_net \cup InReceivers
      BY <1>5, <3>2
    <3>4. ~CP!InSomeUnit(c)
      BY <1>2, <1>4, <3>2 DEF Coming
    <3>5. PICK u \in WatcherTask : WP!Started(u) /\ c \in Range(Singles[u])
      BY <1>2, <2>3, <2>11, <3>2, <3>3, <3>4
    <3>6. u = t
      BY <2>11, <3>1, <3>5, WorkIs
    <3> QED BY <3>1, <3>5, <3>6
  <2> QED BY <2>3, <2>4, <2>9, <2>10, <2>11
<1>9. /\ OpenWork \subseteq WatcherTask \cup ClauseTask
      /\ UnsentWork \subseteq WatcherTask \cup ClauseTask
      /\ Unfinished \subseteq WatcherTask \cup ClauseTask
  <2>1. \A t \in WatcherTask : Work[t] \subseteq WatcherTask \cup ClauseTask
    BY WorkIs
  <2>2. WP!Unfinished \subseteq WatcherTask \cup ClauseTask
    BY <1>6 DEF WP!Unfinished
  <2>3. OpenWork \subseteq WatcherTask \cup ClauseTask
    BY WorkHas, <2>1
  <2>4. UnsentWork \subseteq WatcherTask \cup ClauseTask
    BY WorkHas, <1>1, <2>1
  <2> QED BY <2>2, <2>3, <2>4, WorkIs DEF Unfinished
<1> QED BY <1>3, <1>7, <1>8, <1>9

LEMMA UnfinishedIsNext ==
  ASSUME DataInv'
  PROVE  Unfinished' = OpenWork' \cup UnsentWork' /\ OpenWork' \cap UnsentWork' = {}
<1>1. (DataInv => Unfinished = OpenWork \cup UnsentWork /\ OpenWork \cap UnsentWork = {})'
  BY UnfinishedIs, PTL
<1> QED BY <1>1

\* The work of a task is finite, and no other task's.
LEMMA TaskWork ==
  ASSUME NEW t \in WatcherTask
  PROVE  /\ IsFiniteSet(Work[t]) /\ t \in Work[t]
         /\ \A u \in WatcherTask \ {t} : Work[t] \cap Work[u] = {}
<1>1. /\ Work[t] = {t} \cup Range(Singles[t])
      /\ \A u \in WatcherTask \ {t} : Work[t] \cap Work[u] = {}
  <2> SUFFICES ASSUME NEW u \in WatcherTask, u # t PROVE Work[t] \cap Work[u] = {}
    BY WorkIs
  <2>1. /\ Work[t] = {t} \cup Range(Singles[t]) /\ Work[u] = {u} \cup Range(Singles[u])
        /\ Range(Singles[t]) \subseteq ClauseTask /\ Range(Singles[u]) \subseteq ClauseTask
        /\ Range(Singles[t]) \cap Range(Singles[u]) = {} /\ WatcherTask \cap ClauseTask = {}
    BY WorkIs
  <2> QED BY <2>1
<1>2. /\ Singles[t] \in Seq(ClauseTask) /\ Len(Singles[t]) \in Nat
      /\ DOMAIN Singles[t] = 1 .. Len(Singles[t])
  BY InterfaceAssumption, LenProperties DEF W!TasksAssumption
<1>3. Singles[t] \in Surjection(1 .. Len(Singles[t]), Range(Singles[t]))
  BY <1>2 DEF Surjection, Range
<1>4. IsFiniteSet(Range(Singles[t]))
  <2>1. IsFiniteSet(1 .. Len(Singles[t]))
    BY <1>2, FS_Interval
  <2> QED BY <1>3, <2>1, FS_Surjection
<1> QED BY <1>1, <1>4, FS_AddElement

(* The counters and levels of the open work.                                *)
BarrierInv ==
  level_sync =>
    /\ IsFiniteSet(OpenWork) /\ current_level_finished_tasks \in Nat
    /\ current_level_remaining = current_level_finished_tasks + Cardinality(OpenWork)
    /\ \A t \in WatcherTask : Work[t] \cap OpenWork # {} => Level[t] = current_processing_level

levelOnly == <<level_sync, current_level_remaining, current_processing_level>>

LEMMA WorkConstant == ASSUME Unsent' = Unsent PROVE UnsentWork' = UnsentWork /\ Work' = Work
BY DEF UnsentWork, Work, Singly

\* A step of the rest of the system.
LEMMA ClosesWork ==
  ASSUME DataInv, DataInv', Counts, BarrierInv, Unsent' = Unsent, UNCHANGED levelOnly, level_sync
  PROVE  /\ BarrierInv'
         /\ OpenWork' = OpenWork \/ \E w \in OpenWork : OpenWork' = OpenWork \ {w}
<1>1. /\ Unfinished = OpenWork \cup UnsentWork /\ OpenWork \cap UnsentWork = {}
      /\ Unfinished' = OpenWork' \cup UnsentWork /\ OpenWork' \cap UnsentWork = {}
  BY UnfinishedIs, UnfinishedIsNext, WorkConstant
<1>2. /\ IsFiniteSet(OpenWork) /\ current_level_finished_tasks \in Nat
      /\ Cardinality(OpenWork) \in Nat
      /\ current_level_remaining = current_level_finished_tasks + Cardinality(OpenWork)
      /\ \A t \in WatcherTask : Work[t] \cap OpenWork # {} => Level[t] = current_processing_level
  BY FS_CardinalityType DEF BarrierInv
<1>3. /\ current_level_remaining' = current_level_remaining
      /\ current_processing_level' = current_processing_level
  BY DEF levelOnly
<1>4. OpenWork' \subseteq OpenWork =>
        \A t \in WatcherTask : Work'[t] \cap OpenWork' # {} => Level[t] = current_processing_level'
  BY <1>2, <1>3, WorkConstant
<1>5. CASE /\ Unfinished' = Unfinished
           /\ current_level_finished_tasks' = current_level_finished_tasks
  <2>1. OpenWork' = OpenWork
    BY <1>1, <1>5
  <2> QED BY <1>2, <1>3, <1>4, <1>5, <2>1 DEF BarrierInv
<1>6. ASSUME NEW w \in Unfinished, Unfinished' = Unfinished \ {w},
             current_level_finished_tasks' = current_level_finished_tasks + 1
      PROVE  /\ BarrierInv'
             /\ OpenWork' = OpenWork \/ \E v \in OpenWork : OpenWork' = OpenWork \ {v}
  <2>1. w \in OpenWork /\ OpenWork' = OpenWork \ {w}
    BY <1>1, <1>6
  <2>2. /\ IsFiniteSet(OpenWork') /\ Cardinality(OpenWork') = Cardinality(OpenWork) - 1
        /\ Cardinality(OpenWork') \in Nat
    BY <1>2, <2>1, FS_RemoveElement, FS_CardinalityType
  <2>3. /\ current_level_finished_tasks' \in Nat
        /\ current_level_remaining' = current_level_finished_tasks' + Cardinality(OpenWork')
    <3>1. \A f, c, d \in Nat : d = c - 1 => f + 1 \in Nat /\ f + c = (f + 1) + d
      OBVIOUS
    <3> QED BY <1>2, <1>3, <1>6, <2>2, <3>1
  <2> QED BY <1>4, <2>1, <2>2, <2>3 DEF BarrierInv
<1> QED BY <1>5, <1>6 DEF Counts

\* The trail sends a task of the level.
LEMMA OpensWork ==
  ASSUME DataInv, DataInv', Unfinished' = Unfinished, BarrierInv, level_sync,
         NEW t \in Unsent, Unsent' = Unsent \ {t}, Level[t] = current_processing_level,
         current_level_remaining' = current_level_remaining + Cardinality(Work[t]),
         UNCHANGED <<current_processing_level, current_level_finished_tasks>>
  PROVE  BarrierInv' /\ OpenWork' = OpenWork \cup Work[t]
<1>1. Unsent \subseteq WatcherTask /\ t \in WatcherTask
  BY SafeWatchers DEF DataInv, WP!TypeOK
<1>2. /\ IsFiniteSet(Work[t]) /\ \A u \in WatcherTask \ {t} : Work[t] \cap Work[u] = {}
  BY <1>1, TaskWork
<1>3. /\ UnsentWork' = UnsentWork \ Work[t] /\ Work[t] \subseteq UnsentWork
      /\ Work' = Work
  <2>1. /\ UnsentWork' = UNION {Work[u] : u \in Unsent \ {t}}
        /\ Work' = Work
    BY DEF UnsentWork, Work, Singly
  <2>2. \A x : x \in UnsentWork' <=> \E u \in Unsent \ {t} : x \in Work[u]
    BY <2>1
  <2> QED BY <1>1, <1>2, <2>1, <2>2, WorkHas
<1>4. /\ Unfinished = OpenWork \cup UnsentWork /\ OpenWork \cap UnsentWork = {}
      /\ Unfinished' = OpenWork' \cup UnsentWork' /\ OpenWork' \cap UnsentWork' = {}
  BY UnfinishedIs, UnfinishedIsNext
<1>5. OpenWork' = OpenWork \cup Work[t] /\ OpenWork \cap Work[t] = {}
  BY <1>3, <1>4
<1>6. /\ IsFiniteSet(OpenWork) /\ current_level_finished_tasks \in Nat
      /\ Cardinality(OpenWork) \in Nat /\ Cardinality(Work[t]) \in Nat
      /\ current_level_remaining = current_level_finished_tasks + Cardinality(OpenWork)
      /\ \A u \in WatcherTask : Work[u] \cap OpenWork # {} => Level[u] = current_processing_level
  BY <1>2, FS_CardinalityType DEF BarrierInv
<1>7. /\ IsFiniteSet(OpenWork') /\ Cardinality(OpenWork') \in Nat
      /\ Cardinality(OpenWork') = Cardinality(OpenWork) + Cardinality(Work[t])
  <2>1. /\ IsFiniteSet(OpenWork \cup Work[t])
        /\ Cardinality(OpenWork \cup Work[t]) =
             Cardinality(OpenWork) + Cardinality(Work[t]) - Cardinality(OpenWork \cap Work[t])
    BY <1>2, <1>6, FS_Union
  <2>2. Cardinality(OpenWork \cap Work[t]) = 0
    BY <1>5, FS_EmptySet
  <2>3. \A c, d \in Nat : c + d - 0 = c + d /\ c + d \in Nat
    OBVIOUS
  <2> QED BY <1>5, <1>6, <2>1, <2>2, <2>3
<1>8. current_level_remaining' = current_level_finished_tasks' + Cardinality(OpenWork')
  <2>1. \A f, c, d \in Nat : (f + c) + d = f + (c + d)
    OBVIOUS
  <2> QED BY <1>6, <1>7, <2>1
<1>9. ASSUME NEW u \in WatcherTask, Work[u] \cap OpenWork' # {}
      PROVE  Level[u] = current_processing_level
  BY <1>2, <1>5, <1>6, <1>9
<1> QED BY <1>3, <1>5, <1>6, <1>7, <1>8, <1>9 DEF BarrierInv

LEMMA ElsewhereUnsent ==
  ASSUME RoundsInv, [Next]_vars, ~TrailUpdate
  PROVE  Unsent' = Unsent /\ UNCHANGED levelOnly
<1>1. CASE RunSingleTask \/ RunFullExpr \/ RunExtra \/ FinishSimulator
  <2>1. UNCHANGED current_working_task /\ UNCHANGED levelOnly
    BY <1>1 DEF RunSingleTask, RunFullExpr, RunExtra, FinishSimulator, Run, levelOnly
  <2>2. SendRound \/ UNCHANGED <<task_receiver, rounds>>
    BY <1>1 DEF RunSingleTask, RunFullExpr, RunExtra, FinishSimulator
  <2> QED BY <2>1, <2>2, SendRoundRounds, SameRounds
<1>2. CASE \/ CallReturns \/ Over \/ InterfacesUpdate \/ NetworkUpdate \/ Lose \/ EndOfCycle
           \/ UNCHANGED vars
  <2>1. UNCHANGED <<task_receiver, current_working_task, rounds>> /\ UNCHANGED levelOnly
    BY <1>2 DEF CallReturns, Over, InterfacesUpdate, NetworkUpdate, Lose, EndOfCycle, vars,
                trailOnly, caller, levelOnly
  <2> QED BY <2>1, SameRounds
<1> QED BY <1>1, <1>2 DEF Next

LEMMA TrailBarrier ==
  ASSUME DataInv, DataInv', TrailUpdate, Unfinished' = Unfinished, BarrierInv, level_sync
  PROVE  /\ BarrierInv'
         /\ \/ OpenWork' = OpenWork /\ UNCHANGED current_processing_level
            \/ /\ OpenWork = {} /\ OpenWork' = OpenWork
               /\ \E t \in WatcherTask : current_processing_level' = Level[t]
            \/ /\ UNCHANGED current_processing_level
               /\ \E t \in WatcherTask : /\ Level[t] = current_processing_level
                                         /\ OpenWork' = OpenWork \cup Work[t]
<1>1. /\ Sync!SendTask \/ Sync!UpdateOtherwise
      /\ UNCHANGED <<level_sync, rounds>>
  BY DEF TrailUpdate, caller
<1>2. RoundsInv /\ current_level_finished_tasks \in Nat /\ Unsent \subseteq WatcherTask
  BY SafeWatchers DEF DataInv, WP!TypeOK
<1> DEFINE t == Head(current_working_task)
<1>3. CASE Sync!SendTask
  <2>1. t \in WatcherTask /\ t \in Unsent /\ Unsent' = Unsent \ {t}
    BY <1>1, <1>2, <1>3, SyncUpdate, TrailSendsRounds
  <2>2. Sync!Cardinality(Work[t]) = Cardinality(Work[t])
    BY DEF Sync!Cardinality, Cardinality
  <2>3. /\ Level[t] = current_processing_level
        /\ current_level_remaining' = current_level_remaining + Cardinality(Work[t])
        /\ UNCHANGED <<current_processing_level, current_level_finished_tasks>>
    BY <1>3, <2>2 DEF Sync!SendTask, Sync!OtherLevel, Sync!NextTask, Sync!get_total_level_tasks
  <2> HIDE DEF t
  <2>4. BarrierInv' /\ OpenWork' = OpenWork \cup Work[t]
    BY <2>1, <2>3, OpensWork
  <2> QED BY <2>1, <2>3, <2>4
<1>4. CASE Sync!UpdateOtherwise
  <2>1. Unsent' = Unsent
    BY <1>1, <1>2, <1>4, SyncUpdate, TrailSendsNotRounds
  <2>2. OpenWork' = OpenWork /\ Work' = Work
    BY <2>1, UnfinishedIs, UnfinishedIsNext, WorkConstant
  <2>3. CASE Sync!SwitchLevel
    <3>1. /\ current_level_remaining = current_level_finished_tasks
          /\ current_processing_level' = Level[t]
          /\ current_level_remaining' = 0 /\ current_level_finished_tasks' = 0
          /\ current_working_task # None /\ current_working_task # <<>>
      BY <2>3 DEF Sync!SwitchLevel, Sync!NextTask, Sync!HasNextTask
    <3>2. t \in WatcherTask
      BY <1>2, <3>1, HeadTailProperties DEF RoundsInv
    <3>3. OpenWork = {}
      <4>1. /\ IsFiniteSet(OpenWork) /\ Cardinality(OpenWork) \in Nat
            /\ current_level_remaining = current_level_finished_tasks + Cardinality(OpenWork)
        BY FS_CardinalityType DEF BarrierInv
      <4>2. \A f, c \in Nat : f = f + c => c = 0
        OBVIOUS
      <4>3. Cardinality(OpenWork) = 0
        BY <1>2, <3>1, <4>1, <4>2
      <4> QED BY <4>1, <4>3, FS_EmptySet
    <3>4. IsFiniteSet({}) /\ Cardinality({}) = 0
      BY FS_EmptySet
    <3>5. BarrierInv'
      BY <2>2, <3>1, <3>3, <3>4 DEF BarrierInv
    <3> QED BY <2>2, <3>1, <3>2, <3>3, <3>5
  <2>4. CASE UNCHANGED <<current_level_remaining, current_processing_level,
                         current_level_finished_tasks>>
    BY <2>2, <2>4 DEF BarrierInv
  <2> QED BY <1>4, <2>3, <2>4
          DEF Sync!UpdateOtherwise, Sync!WaitForLevel, Sync!SendTaskBlocked, Sync!StartRound,
              Sync!EndRound, Sync!NoRound, Sync!levelState
<1> QED BY <1>1, <1>3, <1>4

LEMMA NextBarrier ==
  ASSUME SystemInv, SystemInv', BarrierInv, [Next]_vars
  PROVE  /\ BarrierInv'
         /\ [Barrier!BarrierNext]_<<IF level_sync THEN current_processing_level ELSE 0,
                                   IF level_sync THEN OpenWork ELSE {}>>
<1>1. DataInv /\ TurnInv /\ DataInv'
  BY DEF SystemInv, DataInv
<1>2. level_sync' = level_sync
  <2>1. CASE TrailUpdate
    BY <2>1 DEF TrailUpdate
  <2> QED BY <1>1, <2>1, ElsewhereUnsent DEF DataInv, levelOnly
<1>3. CASE ~level_sync
  BY <1>2, <1>3 DEF BarrierInv
<1>4. CASE level_sync /\ ~TrailUpdate
  <2>1. Counts
    BY <1>1, <1>4, NextData
  <2>2. Unsent' = Unsent /\ UNCHANGED levelOnly
    BY <1>1, <1>4, ElsewhereUnsent DEF DataInv
  <2>3. /\ BarrierInv'
        /\ OpenWork' = OpenWork \/ \E w \in OpenWork : OpenWork' = OpenWork \ {w}
    BY <1>1, <1>4, <2>1, <2>2, ClosesWork
  <2> QED BY <1>2, <1>4, <2>2, <2>3 DEF levelOnly, Barrier!BarrierNext, Barrier!FinishWork
<1>5. CASE level_sync /\ TrailUpdate
  <2>1. Unfinished' = Unfinished
    BY <1>1, <1>5, TrailData
  <2> QED BY <1>1, <1>2, <1>5, <2>1, TrailBarrier
          DEF Barrier!BarrierNext, Barrier!ChangeLevel, Barrier!StartWork
<1> QED BY <1>3, <1>4, <1>5

\* With level_sync no work of a level starts before all of the last level is
\* finished, wherever it is in the system, and every piece of work is finished
\* once: the steps of the whole system are those of the barrier.  The trail
\* compares two counters (trail.rs:55), one that it raises by the work it sends and
\* one that all watchers and clause units raise: their difference is the open work.
THEOREM SystemImplementsBarrier == Spec => ImplementsBarrier
<1>1. ASSUME Init
      PROVE  BarrierInv /\ Barrier!BarrierInit
  <2>1. OpenWork = {}
    BY <1>1, NothingOpenAtFirst
  <2>2. /\ current_level_remaining = 0 /\ current_processing_level = 0
        /\ current_level_finished_tasks = 0
    BY <1>1 DEF Init, Sync!TrailInit
  <2> QED BY <2>1, <2>2, FS_EmptySet DEF BarrierInv, Barrier!BarrierInit
<1>2. SystemInv /\ SystemInv' /\ BarrierInv /\ [Next]_vars =>
        /\ BarrierInv'
        /\ [Barrier!BarrierNext]_<<IF level_sync THEN current_processing_level ELSE 0,
                                  IF level_sync THEN OpenWork ELSE {}>>
  BY NextBarrier
<1> QED BY <1>1, <1>2, InitSystemInv, NextSystemInv, PTL
        DEF Spec, ImplementsBarrier, Barrier!BarrierSpec
-----------------------------------------------------------------------------
(* A cycle in which nothing reports progress.  But for what the watchers    *)
(* drop no data changes in it, so that what stopped an update in its turn   *)
(* is still there at the end of the cycle.                                  *)

WatcherBegun(t, p) == WatcherOver(t, p) \/ (t[1] = "watcher" /\ t[2] = p)
AtUnit(t, u) == t[1] = "unit" /\ t[2] = u
UnitBegun(t, u) == UnitOver(t, u) \/ AtUnit(t, u)

\* No update of this cycle has reported progress so far.
Standstill ==
  /\ turn[1] \in {"dispatch", "call watcher", "watcher", "call unit", "unit", "networks", "end"}
  /\ ~trail_updated
  /\ \A p \in Pe : /\ DispatchOver(turn, p) => ~dispatch_updated[p]
                   /\ WatcherBegun(turn, p) => ~wupdated[p]
  /\ \A u \in Unit : UnitBegun(turn, u) => ~uupdated[u]
  /\ turn[1] = "end" => ~network_busy

UnitPlace == [data |-> 0, begin |-> 1, value |-> 2, process |-> 3, start |-> 4, reply |-> 5,
              return |-> 6]
Passed(u, f) == UnitOver(turn, u) \/ (AtUnit(turn, u) /\ UnitPlace[f] < UnitPlace[upc[2]])

\* A phase that has passed had no work, or found the port to memory full.
StillUnit(u) ==
  /\ \A f \in DOMAIN CP!NextPhase : Passed(u, f) => ~CP!HasWork(u, f) \/ mem_out[u[1]] # <<>>
  /\ UnitBegun(turn, u) /\ ubusy[u] =>
       \/ clause_processing[u] # None \/ mem_out[u[1]] # <<>>
       \/ \E f \in DOMAIN CP!NextPhase : CP!StoppedByLimit(u, f)

\* What a dispatch could not hand on stands before the full channel of a unit.
StillDispatch(p) ==
  DispatchOver(turn, p) =>
    /\ task_icnt_receiver[p] # <<>> => \E u \in Unit : clause_task_in[u] # <<>>
    /\ mem_icnt_receiver[p] # <<>> => \E u \in Unit : clause_mem[u] # <<>>
    /\ dispatch_busy[p] => task_icnt_receiver[p] # <<>> \/ mem_icnt_receiver[p] # <<>>

\* The trail waits for a watcher with a full channel or for the end of the level.
StillTrail ==
  trail_busy =>
    \/ \E p \in Pe : WatcherBegun(turn, p) /\ wbusy[p]
    \/ \E p \in Pe : watcher_task_receiver[p] # <<>>
    \/ level_sync /\ current_level_remaining # current_level_finished_tasks

Still == (\A u \in Unit : StillUnit(u)) /\ (\A p \in Pe : StillDispatch(p)) /\ StillTrail
StillInv == Standstill => Still

\* The reply taken without a report has been reported by the dispatch.
ReportInv ==
  /\ dispatch_updated \in [Pe -> BOOLEAN]
  /\ \A p \in Pe : watcher_mem[p] # <<>> => dispatch_updated[p]

LEMMA BegunIs ==
  ASSUME NEW p
  PROVE  /\ \A q : /\ WatcherBegun(<<"dispatch", p>>, q) <=> q < p
                   /\ WatcherBegun(<<"call watcher", p>>, q) <=> q < p
                   /\ WatcherBegun(<<"watcher", p>>, q) <=> q < p \/ q = p
                   /\ WatcherBegun(<<"call unit", p>>, q) <=> q <= p[1]
                   /\ WatcherBegun(<<"unit", p>>, q) <=> q <= p[1]
                   /\ WatcherBegun(<<"networks", p>>, q) /\ WatcherBegun(<<"end", p>>, q)
         /\ \A u : /\ UnitBegun(<<"dispatch", p>>, u) <=> u[1] < p
                   /\ UnitBegun(<<"call watcher", p>>, u) <=> u[1] < p
                   /\ UnitBegun(<<"watcher", p>>, u) <=> u[1] < p
                   /\ UnitBegun(<<"call unit", p>>, u) <=>
                        u[1] < p[1] \/ (u[1] = p[1] /\ u[2] < p[2])
                   /\ UnitBegun(<<"unit", p>>, u) <=>
                        u[1] < p[1] \/ (u[1] = p[1] /\ u[2] < p[2]) \/ u = p
                   /\ UnitBegun(<<"networks", p>>, u) /\ UnitBegun(<<"end", p>>, u)
<1>1. ASSUME NEW a PROVE <<a, p>>[1] = a /\ <<a, p>>[2] = p
  OBVIOUS
<1> QED BY <1>1, OverIs DEF WatcherBegun, UnitBegun, AtUnit

\* What has begun or is over stays so until the end of the cycle.
Onward ==
  /\ \A q \in Pe : /\ DispatchOver(turn, q) => DispatchOver(turn', q)
                   /\ WatcherBegun(turn, q) => WatcherBegun(turn', q)
  /\ \A v \in Unit : UnitBegun(turn, v) => UnitBegun(turn', v)

LEMMA DispatchOnward ==
  ASSUME NEW p \in Pe, turn = <<"dispatch", p>>, turn' = <<"call watcher", p>>
  PROVE  Onward /\ \A q \in Pe : DispatchOver(turn, q) => q # p
<1>1. ASSUME NEW q \in Pe
      PROVE  /\ DispatchOver(turn, q) => DispatchOver(turn', q) /\ q # p
             /\ WatcherBegun(turn, q) => WatcherBegun(turn', q)
  <2>1. /\ DispatchOver(turn, q) <=> q < p
        /\ DispatchOver(turn', q) <=> q <= p
        /\ WatcherBegun(turn, q) <=> q < p
        /\ WatcherBegun(turn', q) <=> q < p
    BY OverIs, BegunIs
  <2> QED BY <2>1, PeTypes, NatOrder, Zenon
<1>2. ASSUME NEW v \in Unit PROVE UnitBegun(turn, v) => UnitBegun(turn', v)
  BY BegunIs
<1> QED BY <1>1, <1>2 DEF Onward

LEMMA CallWatcherOnward ==
  ASSUME NEW p \in Pe, turn = <<"call watcher", p>>, turn' = <<"watcher", p>>
  PROVE  Onward /\ \A q \in Pe : WatcherBegun(turn, q) => q # p
<1>1. ASSUME NEW q \in Pe
      PROVE  /\ DispatchOver(turn, q) => DispatchOver(turn', q)
             /\ WatcherBegun(turn, q) => WatcherBegun(turn', q) /\ q # p
  <2>1. /\ DispatchOver(turn, q) <=> q <= p
        /\ DispatchOver(turn', q) <=> q <= p
        /\ WatcherBegun(turn, q) <=> q < p
        /\ WatcherBegun(turn', q) <=> q < p \/ q = p
    BY OverIs, BegunIs
  <2> QED BY <2>1, PeTypes, NatOrder, Zenon
<1>2. ASSUME NEW v \in Unit PROVE UnitBegun(turn, v) => UnitBegun(turn', v)
  BY BegunIs
<1> QED BY <1>1, <1>2 DEF Onward

LEMMA WatcherOnward ==
  ASSUME NEW p \in Pe, turn = <<"watcher", p>>,
         turn' = turn \/ turn' = <<"call unit", <<p, 0>>>>
  PROVE  Onward /\ WatcherBegun(turn', p)
<1>0. WatcherBegun(turn, p)
  BY BegunIs
<1>1. CASE turn' = turn
  BY <1>0, <1>1 DEF Onward
<1>2. CASE turn' = <<"call unit", <<p, 0>>>>
  <2>1. PICK w : w = <<p, 0>>
    OBVIOUS
  <2>2. turn' = <<"call unit", w>> /\ w[1] = p
    BY <1>2, <2>1
  <2>3. ASSUME NEW q \in Pe
        PROVE  /\ DispatchOver(turn, q) => DispatchOver(turn', q)
               /\ WatcherBegun(turn, q) => WatcherBegun(turn', q)
    <3>1. /\ DispatchOver(turn, q) <=> q <= p
          /\ WatcherBegun(turn, q) <=> q < p \/ q = p
      BY OverIs, BegunIs
    <3>2. /\ DispatchOver(turn', q) <=> q <= w[1]
          /\ WatcherBegun(turn', q) <=> q <= w[1]
      BY <2>2, OverIs, BegunIs
    <3> QED BY <2>2, <3>1, <3>2, PeTypes, NatOrder, Zenon
  <2>4. ASSUME NEW v \in Unit PROVE UnitBegun(turn, v) => UnitBegun(turn', v)
    <3>1. UnitBegun(turn, v) <=> v[1] < p
      BY BegunIs
    <3>2. UnitBegun(turn', v) <=> v[1] < w[1] \/ (v[1] = w[1] /\ v[2] < w[2])
      BY <2>2, BegunIs
    <3> QED BY <2>2, <3>1, <3>2
  <2> QED BY <1>0, <2>3, <2>4 DEF Onward
<1> QED BY <1>1, <1>2

LEMMA CallUnitOnward ==
  ASSUME NEW u \in Unit, turn = <<"call unit", u>>, turn' = <<"unit", u>>
  PROVE  Onward /\ \A v \in Unit : UnitBegun(turn, v) => v # u
<1>1. ASSUME NEW q \in Pe
      PROVE  /\ DispatchOver(turn, q) => DispatchOver(turn', q)
             /\ WatcherBegun(turn, q) => WatcherBegun(turn', q)
  BY OverIs, BegunIs
<1>2. ASSUME NEW v \in Unit
      PROVE  UnitBegun(turn, v) => UnitBegun(turn', v) /\ v # u
  <2>1. /\ UnitBegun(turn, v) <=> v[1] < u[1] \/ (v[1] = u[1] /\ v[2] < u[2])
        /\ UnitBegun(turn', v) <=> v[1] < u[1] \/ (v[1] = u[1] /\ v[2] < u[2]) \/ v = u
    BY BegunIs
  <2> QED BY <2>1, PeTypes, NatOrder, Zenon
<1> QED BY <1>1, <1>2 DEF Onward

LEMMA UnitOnward ==
  ASSUME NEW u \in Unit, turn = <<"unit", u>>, turn' = turn \/ turn' = AfterUnit(u)
  PROVE  Onward /\ UnitBegun(turn', u)
<1>0. UnitBegun(turn, u)
  BY BegunIs
<1>1. CASE turn' = turn
  BY <1>0, <1>1 DEF Onward
<1>2. ASSUME turn' = AfterUnit(u), NEW q \in Pe
      PROVE  /\ DispatchOver(turn, q) => DispatchOver(turn', q)
             /\ WatcherBegun(turn, q) => WatcherBegun(turn', q)
  <2>1. /\ DispatchOver(turn, q) <=> q <= u[1]
        /\ WatcherBegun(turn, q) <=> q <= u[1]
    BY OverIs, BegunIs
  <2>2. CASE u[2] + 1 < NUnits
    <3>1. PICK w : w = <<u[1], u[2] + 1>>
      OBVIOUS
    <3>2. turn' = <<"call unit", w>> /\ w[1] = u[1]
      BY <1>2, <2>2, <3>1 DEF AfterUnit
    <3>3. /\ DispatchOver(turn', q) <=> q <= w[1]
          /\ WatcherBegun(turn', q) <=> q <= w[1]
      BY <3>2, OverIs, BegunIs
    <3> QED BY <2>1, <3>2, <3>3
  <2>3. CASE ~(u[2] + 1 < NUnits) /\ u[1] + 1 < NPe
    <3>1. turn' = <<"dispatch", u[1] + 1>>
      BY <1>2, <2>3 DEF AfterUnit
    <3>2. /\ DispatchOver(turn', q) <=> q < u[1] + 1
          /\ WatcherBegun(turn', q) <=> q < u[1] + 1
      BY <3>1, OverIs, BegunIs
    <3> QED BY <2>1, <3>2, PeTypes
  <2>4. CASE ~(u[2] + 1 < NUnits) /\ ~(u[1] + 1 < NPe)
    BY <1>2, <2>4, OverIs, BegunIs DEF AfterUnit
  <2> QED BY <2>2, <2>3, <2>4
<1>3. ASSUME turn' = AfterUnit(u), NEW v \in Unit, UnitBegun(turn, v)
      PROVE  UnitBegun(turn', v)
  <2>1. v[1] < u[1] \/ (v[1] = u[1] /\ v[2] < u[2]) \/ v = u
    BY <1>3, BegunIs
  <2>2. CASE u[2] + 1 < NUnits
    <3>1. PICK w : w = <<u[1], u[2] + 1>>
      OBVIOUS
    <3>2. turn' = <<"call unit", w>> /\ w[1] = u[1] /\ w[2] = u[2] + 1
      BY <1>3, <2>2, <3>1 DEF AfterUnit
    <3>3. UnitBegun(turn', v) <=> v[1] < w[1] \/ (v[1] = w[1] /\ v[2] < w[2])
      BY <3>2, BegunIs
    <3>4. v[1] < u[1] \/ (v[1] = u[1] /\ v[2] < u[2] + 1)
      BY <2>1, PeTypes
    <3> QED BY <3>2, <3>3, <3>4
  <2>3. CASE ~(u[2] + 1 < NUnits) /\ u[1] + 1 < NPe
    <3>1. turn' = <<"dispatch", u[1] + 1>>
      BY <1>3, <2>3 DEF AfterUnit
    <3>2. UnitBegun(turn', v) <=> v[1] < u[1] + 1
      BY <3>1, BegunIs
    <3>3. v[1] < u[1] + 1
      BY <2>1, PeTypes
    <3> QED BY <3>2, <3>3
  <2>4. CASE ~(u[2] + 1 < NUnits) /\ ~(u[1] + 1 < NPe)
    BY <1>3, <2>4, BegunIs DEF AfterUnit
  <2> QED BY <2>2, <2>3, <2>4
<1>4. CASE turn' = AfterUnit(u)
  BY <1>0, <1>2, <1>3, <1>4 DEF Onward
<1> QED BY <1>1, <1>4


\* An update that reports no progress changes no data of the units and ports.
LEMMA UnitStandsStill ==
  ASSUME SystemInv, NEW u \in Unit, CP!Step(u), ~uupdated'[u]
  PROVE  /\ UNCHANGED <<clause_task_in, clause_mem, mem_out, clause_data_ready_queue,
                        clause_value_ready_queue, clause_processing, reading_tasks, value_reqs,
                        total_clause_data_mem_ongoing, total_clause_value_mem_ongoing,
                        current_level_finished_tasks, uupdated>>
         /\ \E ph \in DOMAIN CP!NextPhase :
              /\ upc = <<u, ph>> /\ upc' = <<u, CP!NextPhase[ph]>>
              /\ \/ /\ ~CP!HasWork(u, ph)
                    /\ ubusy' = [ubusy EXCEPT ![u] = ubusy[u] \/ CP!StoppedByLimit(u, ph)]
                 \/ /\ mem_out[u[1]] # <<>>
                    /\ \E b \in BOOLEAN : ubusy' = [ubusy EXCEPT ![u] = b]
<1>1. CP!ClauseTypeOK /\ ChannelSize \in Nat \ {0}
  BY SafeUnits, InterfaceAssumption DEF SystemInv, W!LimitAssumption
<1>2. uupdated \in [Unit -> BOOLEAN] /\ ubusy \in [Unit -> BOOLEAN]
  BY <1>1 DEF CP!ClauseTypeOK
<1>3. ~CP!Report(u, TRUE)
  BY <1>2 DEF CP!Report
<1>4. ASSUME CP!Report(u, FALSE)
      PROVE  UNCHANGED uupdated /\ \E b \in BOOLEAN : ubusy' = [ubusy EXCEPT ![u] = b]
  BY <1>2, <1>4 DEF CP!Report
<1>5. ASSUME ~CP!HaveSpace(mem_out[u[1]], ChannelSize) PROVE mem_out[u[1]] # <<>>
  <2>1. Len(<<>>) = 0
    OBVIOUS
  <2> QED BY <1>1, <1>5, <2>1 DEF CP!HaveSpace
<1>6. ASSUME NEW S, NEW s \in Seq(S), s # <<>> PROVE CP!RecvThenRet(s) = s
  BY <1>6, RetRestores DEF CP!RecvThenRet, RecvThenRet, CP!Returned, Returned, CP!Received, Received
<1>7. [w \in Unit |-> w[1]][u] = u[1]
  OBVIOUS
<1>8. CASE CP!ReadData(u)
  <2>1. /\ CP!At(u, "data") /\ CP!Done(u, "data") /\ clause_task_in[u] # <<>>
        /\ ~CP!HaveSpace(mem_out[u[1]], ChannelSize)
        /\ clause_task_in' = [clause_task_in EXCEPT ![u] = CP!RecvThenRet(clause_task_in[u])]
        /\ CP!Report(u, FALSE)
        /\ UNCHANGED <<mem_out, total_clause_data_mem_ongoing>>
        /\ UNCHANGED <<clause_mem, clause_data_ready_queue, clause_value_ready_queue,
                       clause_processing, current_level_finished_tasks,
                       total_clause_value_mem_ongoing>>
        /\ UNCHANGED <<reading_tasks, value_reqs>>
    BY <1>3, <1>7, <1>8 DEF CP!ReadData, CP!CanReadData, CP!values
  <2>2. clause_task_in \in [Unit -> Seq(HasClauseData)]
    BY <1>1 DEF CP!ClauseTypeOK
  <2>3. clause_task_in' = clause_task_in
    BY <1>6, <2>1, <2>2
  <2> QED BY <1>4, <1>5, <2>1, <2>3 DEF CP!At, CP!Done, CP!NextPhase
<1>9. CASE CP!ReadValue(u)
  <2>1. /\ CP!At(u, "value") /\ CP!Done(u, "value") /\ value_reqs[u] # <<>>
        /\ ~CP!HaveSpace(mem_out[u[1]], ChannelSize)
        /\ value_reqs' = [value_reqs EXCEPT ![u] = CP!RecvThenRet(value_reqs[u])]
        /\ CP!Report(u, FALSE)
        /\ UNCHANGED <<mem_out, total_clause_value_mem_ongoing>>
        /\ UNCHANGED <<clause_task_in, clause_mem, reading_tasks, total_clause_data_mem_ongoing>>
        /\ UNCHANGED <<clause_data_ready_queue, clause_value_ready_queue, clause_processing,
                       current_level_finished_tasks>>
    BY <1>3, <1>7, <1>9 DEF CP!ReadValue, CP!CanReadValue, CP!tasks
  <2>2. \E S : value_reqs \in [Unit -> Seq(S)]
    BY <1>1 DEF CP!ClauseTypeOK
  <2>3. value_reqs' = value_reqs
    BY <1>6, <2>1, <2>2
  <2> QED BY <1>4, <1>5, <2>1, <2>3 DEF CP!At, CP!Done, CP!NextPhase
<1>10. CASE \/ CP!BeginValues(u) \/ CP!Process(u) \/ CP!StartProcess(u)
            \/ CP!ReplyData(u) \/ CP!ReplyValue(u)
  BY <1>3, <1>10 DEF CP!BeginValues, CP!Process, CP!StartProcess, CP!ReplyData, CP!ReplyValue
<1>11. CASE CP!Skip(u)
  BY <1>11 DEF CP!Skip, CP!At, CP!Done, CP!channels, CP!tasks, CP!values, CP!ongoing
<1> QED BY <1>8, <1>9, <1>10, <1>11 DEF CP!Step

LEMMA WatcherStandsStill ==
  ASSUME SystemInv, NEW p \in Pe, WP!Step(p), ~wupdated'[p]
  PROVE  /\ UNCHANGED <<mem_out, wupdated>> /\ \A q \in Pe : wbusy[q] => wbusy'[q]
         /\ wbusy'[p] \/ UNCHANGED <<watcher_task_receiver, current_level_finished_tasks>>
<1>1. wupdated \in [Pe -> BOOLEAN] /\ wbusy \in [Pe -> BOOLEAN]
  BY SafeWatchers DEF SystemInv, WP!WatcherTypeOK
<1>2. ~WP!Report(p, TRUE)
  BY <1>1 DEF WP!Report
<1>3. ASSUME WP!Report(p, FALSE)
      PROVE  UNCHANGED wupdated /\ wbusy'[p] /\ \A q \in Pe : wbusy[q] => wbusy'[q]
  BY <1>1, <1>3 DEF WP!Report
<1>4. CASE \E k \in WP!Read : WP!StartRead(p, k)
  BY <1>2, <1>4 DEF WP!StartRead
<1>5. CASE \E k \in WP!Read : WP!ReadBlocked(p, k)
  BY <1>3, <1>5 DEF WP!ReadBlocked
<1>6. CASE WP!Expand(p) \/ WP!Process(p) \/ WP!StartProcess(p)
  BY <1>2, <1>6 DEF WP!Expand, WP!Process, WP!StartProcess
<1>7. CASE WP!SendClause(p)
  BY <1>2, <1>3, <1>7 DEF WP!SendClause
<1>8. CASE WP!Reply(p)
  <2>1. PICK b \in BOOLEAN : WP!Report(p, b)
    BY <1>8 DEF WP!Reply
  <2>2. UNCHANGED mem_out
    BY <1>8 DEF WP!Reply
  <2> QED BY <1>2, <1>3, <2>1, <2>2
<1>9. CASE WP!Skip(p)
  BY <1>9 DEF WP!Skip
<1> QED BY <1>4, <1>5, <1>6, <1>7, <1>8, <1>9 DEF WP!Step

LEMMA DispatchStandsStill ==
  ASSUME SystemInv, ReportInv, QuietInv, NEW p \in Pe, Dispatch(p), ~dispatch_updated'[p]
  PROVE  /\ UNCHANGED <<task_icnt_receiver, mem_icnt_receiver, clause_task_in, clause_mem>>
         /\ task_icnt_receiver[p] # <<>> => \E u \in Unit : clause_task_in[u] # <<>>
         /\ mem_icnt_receiver[p] # <<>> => \E u \in Unit : clause_mem[u] # <<>>
         /\ dispatch_busy'[p] => task_icnt_receiver[p] # <<>> \/ mem_icnt_receiver[p] # <<>>
<1>1. /\ turn = <<"dispatch", p>> /\ DispatchTask(p) /\ DispatchReply(p)
      /\ dispatch_busy' = [dispatch_busy EXCEPT ![p] =
           task_icnt_receiver[p] # <<>> \/ mem_icnt_receiver[p] # <<>>]
      /\ dispatch_updated' = [dispatch_updated EXCEPT ![p] =
           task_icnt_receiver' # task_icnt_receiver \/ mem_icnt_receiver' # mem_icnt_receiver]
  BY DEF Dispatch
<1>2. /\ task_icnt_receiver \in [Pe -> Seq(HasClauseData)]
      /\ mem_icnt_receiver \in [Pe -> Seq(AnyReq)]
      /\ \A c \in Range(task_icnt_receiver[p]) : ClausePe[c] = p
  BY DEF SystemInv, WayInv, ReqInv
<1>3. ASSUME NEW S, NEW s \in Seq(S), s # <<>>
      PROVE  Received(s) # s /\ Head(s) \in Range(s) /\ Head(s) \in S
  <2>1. Len(Received(s)) = Len(s) - 1 /\ Len(s) \in Nat /\ Head(s) \in S
    BY <1>3, ReceivedType
  <2>2. Head(s) \in Range(s)
    BY <1>3, TailRange
  <2> QED BY <2>1, <2>2
<1>4. ASSUME NEW s, ~HaveSpace(s, ChannelSize) PROVE s # <<>>
  <2>1. Len(<<>>) = 0 /\ ChannelSize \in Nat \ {0}
    BY InterfaceAssumption DEF W!LimitAssumption
  <2> QED BY <1>4, <2>1 DEF HaveSpace
<1>5. UNCHANGED <<task_icnt_receiver, mem_icnt_receiver>>
  BY <1>1 DEF ReportInv
<1>6. /\ UNCHANGED clause_task_in
      /\ task_icnt_receiver[p] # <<>> => \E u \in Unit : clause_task_in[u] # <<>>
  <2>1. CASE task_icnt_receiver[p] = <<>>
    BY <1>1, <2>1 DEF DispatchTask
  <2>2. CASE task_icnt_receiver[p] # <<>>
    <3>1. TargetUnit(p) \in Unit
      <4>1. Head(task_icnt_receiver[p]) \in HasClauseData
        BY <1>2, <1>3, <2>2
      <4> QED BY <4>1, InterfaceAssumption DEF TargetUnit, Unit
    <3>2. ~HaveSpace(clause_task_in[TargetUnit(p)], ChannelSize)
      <4>1. ASSUME task_icnt_receiver' = [task_icnt_receiver EXCEPT ![p] = Received(@)] PROVE FALSE
        BY <1>2, <1>3, <1>5, <2>2, <4>1
      <4> QED BY <1>1, <2>2, <4>1 DEF DispatchTask
    <3> QED BY <1>1, <1>4, <2>2, <3>1, <3>2 DEF DispatchTask
  <2> QED BY <2>1, <2>2
<1>7. UNCHANGED clause_mem /\ (mem_icnt_receiver[p] # <<>> => \E u \in Unit : clause_mem[u] # <<>>)
  <2> DEFINE r == Head(mem_icnt_receiver[p])
  <2>1. CASE mem_icnt_receiver[p] = <<>>
    BY <1>1, <2>1 DEF DispatchReply
  <2>2. CASE mem_icnt_receiver[p] # <<>>
    <3>1. ~RoomForReply(p, r)
      <4>1. ASSUME mem_icnt_receiver' = [mem_icnt_receiver EXCEPT ![p] = Received(@)] PROVE FALSE
        BY <1>2, <1>3, <1>5, <2>2, <4>1
      <4> QED BY <1>1, <2>2, <4>1 DEF DispatchReply
    <3>2. ~ToWatcher(r)
      <4>1. watcher_mem[p] = <<>>
        BY <1>1 DEF SystemInv, DrainInv
      <4> QED BY <1>4, <3>1, <4>1 DEF RoomForReply
    <3>3. r.unit \in Unit
      <4>1. r \in AnyReq
        BY <1>2, <1>3, <2>2
      <4> QED BY <3>2, <4>1, ReqKinds DEF AnyReq
    <3>4. UNCHANGED clause_mem
      BY <1>1, <2>2, <3>1 DEF DispatchReply
    <3> QED BY <1>4, <3>1, <3>2, <3>3, <3>4 DEF RoomForReply
  <2> QED BY <2>1, <2>2
<1>8. dispatch_busy'[p] => task_icnt_receiver[p] # <<>> \/ mem_icnt_receiver[p] # <<>>
  BY <1>1 DEF QuietInv
<1> QED BY <1>5, <1>6, <1>7, <1>8

trailSide == <<current_level_remaining, trail_busy, trail_updated, level_sync>>
phaseData == <<clause_task_in, clause_mem, clause_data_ready_queue, clause_value_ready_queue,
               reading_tasks, value_reqs, total_clause_data_mem_ongoing,
               total_clause_value_mem_ongoing>>
dispatchData == <<task_icnt_receiver, mem_icnt_receiver, clause_task_in, clause_mem>>

\* A cycle at a standstill after a step was at one before.
LEMMA StandstillBefore ==
  ASSUME Standstill', Onward, UNCHANGED trailSide,
         turn[1] \in {"dispatch", "call watcher", "watcher", "call unit", "unit", "networks"},
         \A p \in Pe : /\ DispatchOver(turn, p) => dispatch_updated'[p] = dispatch_updated[p]
                       /\ WatcherBegun(turn, p) => wupdated'[p] = wupdated[p],
         \A u \in Unit : UnitBegun(turn, u) => uupdated'[u] = uupdated[u]
  PROVE  Standstill
<1>1. \A p \in Pe : /\ DispatchOver(turn, p) => ~dispatch_updated[p]
                    /\ WatcherBegun(turn, p) => ~wupdated[p]
  BY DEF Standstill, Onward
<1>2. \A u \in Unit : UnitBegun(turn, u) => ~uupdated[u]
  BY DEF Standstill, Onward
<1> QED BY <1>1, <1>2 DEF Standstill, trailSide

LEMMA SameWork ==
  ASSUME NEW v, UNCHANGED phaseData, clause_processing'[v] = clause_processing[v],
         NEW f \in DOMAIN CP!NextPhase
  PROVE  /\ CP!HasWork(v, f)' <=> CP!HasWork(v, f)
         /\ CP!StoppedByLimit(v, f)' <=> CP!StoppedByLimit(v, f)
<1>1. /\ CP!CanReadData(v)' <=> CP!CanReadData(v)
      /\ CP!RoomToBegin(v)' <=> CP!RoomToBegin(v)
      /\ CP!RoomToRead(v)' <=> CP!RoomToRead(v)
  BY DEF phaseData, CP!CanReadData, CP!RoomToBegin, CP!RoomToRead
<1>2. /\ CP!CanBegin(v)' <=> CP!CanBegin(v)
      /\ CP!CanReadValue(v)' <=> CP!CanReadValue(v)
      /\ CP!CanStart(v)' <=> CP!CanStart(v)
  BY <1>1 DEF phaseData, CP!CanBegin, CP!CanReadValue, CP!CanStart
<1>3. f \in {"data", "begin", "value", "process", "start", "reply"}
  BY DEF CP!NextPhase
<1>4. CP!HasWork(v, f)' <=> CP!HasWork(v, f)
  BY <1>1, <1>2, <1>3 DEF phaseData, CP!HasWork
<1> QED BY <1>1, <1>4 DEF CP!StoppedByLimit

LEMMA StillUnitOn ==
  ASSUME NEW v, StillUnit(v), UnitOver(turn', v) => UnitOver(turn, v), ~AtUnit(turn', v),
         UNCHANGED phaseData, clause_processing'[v] = clause_processing[v],
         ubusy'[v] = ubusy[v], mem_out' = mem_out
  PROVE  StillUnit(v)'
<1>1. ASSUME NEW f \in DOMAIN CP!NextPhase, Passed(v, f)'
      PROVE  ~CP!HasWork(v, f)' \/ mem_out'[v[1]] # <<>>
  <2>1. Passed(v, f)
    BY <1>1 DEF Passed
  <2> QED BY <2>1, SameWork DEF StillUnit
<1>2. ASSUME UnitBegun(turn', v), ubusy'[v]
      PROVE  \/ clause_processing'[v] # None \/ mem_out'[v[1]] # <<>>
             \/ \E f \in DOMAIN CP!NextPhase : CP!StoppedByLimit(v, f)'
  <2>1. UnitBegun(turn, v)
    BY <1>2 DEF UnitBegun
  <2> QED BY <1>2, <2>1, SameWork DEF StillUnit
<1> QED BY <1>1, <1>2 DEF StillUnit

LEMMA StillDispatchOn ==
  ASSUME NEW p, StillDispatch(p), DispatchOver(turn', p) => DispatchOver(turn, p),
         UNCHANGED dispatchData, dispatch_busy'[p] = dispatch_busy[p]
  PROVE  StillDispatch(p)'
BY DEF StillDispatch, dispatchData

LEMMA StillTrailOn ==
  ASSUME StillTrail, UNCHANGED trailSide,
         \A p \in Pe : WatcherBegun(turn, p) /\ wbusy[p] => WatcherBegun(turn', p) /\ wbusy'[p],
         UNCHANGED <<watcher_task_receiver, current_level_finished_tasks>>
  PROVE  StillTrail'
BY DEF StillTrail, trailSide

LEMMA DispatchStill ==
  ASSUME SystemInv, ReportInv, QuietInv, StillInv, NEW p \in Pe, Dispatch(p),
         UNCHANGED trailSide, Standstill'
  PROVE  Still'
<1>1. /\ turn = <<"dispatch", p>> /\ turn' = <<"call watcher", p>>
      /\ \E b : dispatch_updated' = [dispatch_updated EXCEPT ![p] = b]
      /\ \E b : dispatch_busy' = [dispatch_busy EXCEPT ![p] = b]
      /\ UNCHANGED <<wupdated, uupdated, wbusy, ubusy, mem_out, clause_processing,
                     watcher_task_receiver, current_level_finished_tasks>>
      /\ UNCHANGED <<clause_data_ready_queue, clause_value_ready_queue, reading_tasks, value_reqs,
                     total_clause_data_mem_ongoing, total_clause_value_mem_ongoing>>
  BY DEF Dispatch
<1>2. ~dispatch_updated'[p]
  <2>1. DispatchOver(turn', p) <=> p <= p
    BY <1>1, OverIs
  <2>2. p <= p
    BY PeTypes, NatOrder, Zenon
  <2> QED BY <2>1, <2>2 DEF Standstill
<1>3. /\ UNCHANGED dispatchData
      /\ task_icnt_receiver[p] # <<>> => \E u \in Unit : clause_task_in[u] # <<>>
      /\ mem_icnt_receiver[p] # <<>> => \E u \in Unit : clause_mem[u] # <<>>
      /\ dispatch_busy'[p] => task_icnt_receiver[p] # <<>> \/ mem_icnt_receiver[p] # <<>>
  BY <1>2, DispatchStandsStill DEF dispatchData
<1>4. UNCHANGED phaseData
  BY <1>1, <1>3 DEF phaseData, dispatchData
<1>5. Standstill
  <2>1. \A q \in Pe : DispatchOver(turn, q) => dispatch_updated'[q] = dispatch_updated[q]
    BY <1>1, DispatchOnward DEF ReportInv
  <2> QED BY <1>1, <2>1, DispatchOnward, StandstillBefore
<1>6. Still
  BY <1>5 DEF StillInv
<1>7. ASSUME NEW v \in Unit PROVE StillUnit(v)'
  <2>1. ~AtUnit(turn', v)
    BY <1>1 DEF AtUnit
  <2> QED BY <1>1, <1>4, <1>6, <2>1, DispatchOrder, StillUnitOn DEF Still
<1>8. ASSUME NEW q \in Pe PROVE StillDispatch(q)'
  <2>1. CASE q = p
    BY <1>3, <2>1 DEF StillDispatch, dispatchData
  <2>2. CASE q # p
    <3>1. dispatch_busy'[q] = dispatch_busy[q]
      BY <1>1, <2>2 DEF QuietInv
    <3> QED BY <1>1, <1>3, <1>6, <2>2, <3>1, DispatchOrder, StillDispatchOn DEF Still
  <2> QED BY <2>1, <2>2
<1>9. StillTrail'
  BY <1>1, <1>6, DispatchOnward, StillTrailOn DEF Still, Onward
<1> QED BY <1>7, <1>8, <1>9 DEF Still

LEMMA CallWatcherStill ==
  ASSUME SystemInv, StillInv, NEW p \in Pe, CallWatcher(p), UNCHANGED trailSide, Standstill'
  PROVE  Still'
<1>1. /\ turn = <<"call watcher", p>> /\ turn' = <<"watcher", p>>
      /\ wupdated' = [wupdated EXCEPT ![p] = FALSE] /\ wbusy' = [wbusy EXCEPT ![p] = FALSE]
      /\ UNCHANGED <<mem_out, watcher_task_receiver, current_level_finished_tasks>>
      /\ UNCHANGED <<unitOnly, dispatchVars>>
  BY DEF CallWatcher, W!Call
<1>2. UNCHANGED phaseData /\ UNCHANGED dispatchData
  BY <1>1 DEF phaseData, dispatchData, unitOnly, dispatchVars
<1>3. Standstill
  <2>1. \A q \in Pe : WatcherBegun(turn, q) => wupdated'[q] = wupdated[q]
    BY <1>1, CallWatcherOnward, SafeWatchers DEF SystemInv, WP!WatcherTypeOK
  <2> QED BY <1>1, <2>1, CallWatcherOnward, StandstillBefore DEF unitOnly, dispatchVars
<1>4. Still
  BY <1>3 DEF StillInv
<1>5. ASSUME NEW v \in Unit PROVE StillUnit(v)'
  <2>1. ~AtUnit(turn', v)
    BY <1>1 DEF AtUnit
  <2> QED BY <1>1, <1>2, <1>4, <2>1, CallWatcherOrder, StillUnitOn DEF Still, unitOnly
<1>6. ASSUME NEW q \in Pe PROVE StillDispatch(q)'
  BY <1>1, <1>2, <1>4, CallWatcherOrder, StillDispatchOn DEF Still, dispatchVars
<1>7. StillTrail'
  <2>1. \A q \in Pe : WatcherBegun(turn, q) /\ wbusy[q] => WatcherBegun(turn', q) /\ wbusy'[q]
    BY <1>1, CallWatcherOnward, SafeWatchers DEF SystemInv, WP!WatcherTypeOK, Onward
  <2> QED BY <1>1, <1>4, <2>1, StillTrailOn DEF Still
<1> QED BY <1>5, <1>6, <1>7 DEF Still

LEMMA WatcherStepStill ==
  ASSUME SystemInv, StillInv, NEW p \in Pe, WatcherStep(p), UNCHANGED trailSide, Standstill'
  PROVE  Still'
<1>1. /\ turn = <<"watcher", p>> /\ WP!Step(p)
      /\ turn' = turn \/ turn' = <<"call unit", <<p, 0>>>>
      /\ UNCHANGED <<unitOnly, dispatchVars>>
  BY SameWStep DEF WatcherStep
<1>2. ~wupdated'[p] /\ WatcherBegun(turn', p)
  BY <1>1, WatcherOnward DEF Standstill
<1>3. /\ UNCHANGED <<mem_out, wupdated>> /\ \A q \in Pe : wbusy[q] => wbusy'[q]
      /\ wbusy'[p] \/ UNCHANGED <<watcher_task_receiver, current_level_finished_tasks>>
  BY <1>1, <1>2, WatcherStandsStill
<1>4. UNCHANGED phaseData /\ UNCHANGED dispatchData
  BY <1>1 DEF phaseData, dispatchData, unitOnly, dispatchVars
<1>5. Standstill
  BY <1>1, <1>3, WatcherOnward, StandstillBefore DEF unitOnly, dispatchVars
<1>6. Still
  BY <1>5 DEF StillInv
<1>7. ASSUME NEW v \in Unit PROVE StillUnit(v)'
  <2>1. turn'[1] = "watcher" \/ turn'[1] = "call unit"
    <3>1. \A a, x : <<a, x>>[1] = a
      OBVIOUS
    <3> QED BY <1>1, <3>1, Zenon
  <2>2. ~AtUnit(turn', v)
    BY <2>1 DEF AtUnit
  <2> QED BY <1>1, <1>3, <1>4, <1>6, <2>2, WatcherOrder, StillUnitOn DEF Still, unitOnly
<1>8. ASSUME NEW q \in Pe PROVE StillDispatch(q)'
  BY <1>1, <1>4, <1>6, WatcherOrder, StillDispatchOn DEF Still, dispatchVars
<1>9. StillTrail'
  <2>1. CASE wbusy'[p]
    BY <1>2, <2>1 DEF StillTrail
  <2>2. CASE ~wbusy'[p]
    BY <1>1, <1>3, <1>6, <2>2, WatcherOnward, StillTrailOn DEF Still, Onward
  <2> QED BY <2>1, <2>2
<1> QED BY <1>7, <1>8, <1>9 DEF Still

LEMMA CallUnitStill ==
  ASSUME SystemInv, StillInv, NEW u \in Unit, CallUnit(u), UNCHANGED trailSide, Standstill'
  PROVE  Still'
<1>0. /\ CP!ClauseTypeOK /\ elapsed \in Nat
      /\ clause_processing \in [Unit -> CP!Processing \cup {None}] /\ None \notin CP!Processing
  BY SafeUnits, UnitAssumptions DEF SystemInv, TurnInv, CP!ClauseTypeOK, CP!EnvAssumption
<1>1. /\ turn = <<"call unit", u>> /\ turn' = <<"unit", u>> /\ upc' = <<u, "data">>
      /\ uupdated' = [uupdated EXCEPT ![u] = FALSE]
      /\ ubusy' = [ubusy EXCEPT ![u] = clause_processing[u] # None]
      /\ clause_processing' =
           [clause_processing EXCEPT ![u] =
              IF @ = None THEN None
              ELSE [task |-> @.task, left |-> IF @.left >= elapsed THEN @.left - elapsed ELSE -1]]
      /\ UNCHANGED <<mem_out, current_level_finished_tasks>>
      /\ UNCHANGED <<watcherOnly, dispatchVars>>
      /\ UNCHANGED phaseData
  BY DEF CallUnit, U!Call, U!channels, U!values, U!ongoing, phaseData
<1>2. clause_processing[u] # None => clause_processing'[u] # None
  <2> SUFFICES ASSUME clause_processing[u] # None PROVE clause_processing'[u] # None
    OBVIOUS
  <2> DEFINE x == clause_processing[u]
             y == [task |-> x.task, left |-> IF x.left >= elapsed THEN x.left - elapsed ELSE -1]
  <2>1. x.task \in HasClauseData /\ x.left \in Nat \cup {-1}
    BY <1>0 DEF CP!Processing
  <2>2. (IF x.left >= elapsed THEN x.left - elapsed ELSE -1) \in Nat \cup {-1}
    BY <1>0, <2>1
  <2>3. y \in CP!Processing
    BY <2>1, <2>2 DEF CP!Processing
  <2>4. clause_processing'[u] = y
    BY <1>0, <1>1
  <2> QED BY <1>0, <2>3, <2>4
<1>3. /\ UNCHANGED dispatchData
      /\ \A v \in Unit \ {u} : /\ uupdated'[v] = uupdated[v] /\ ubusy'[v] = ubusy[v]
                               /\ clause_processing'[v] = clause_processing[v]
      /\ ubusy'[u] => clause_processing'[u] # None
  BY <1>0, <1>1, <1>2 DEF phaseData, dispatchData, dispatchVars, CP!ClauseTypeOK
<1>4. Standstill
  BY <1>1, <1>3, CallUnitOnward, StandstillBefore DEF watcherOnly, dispatchVars
<1>5. Still
  BY <1>4 DEF StillInv
<1>6. ASSUME NEW v \in Unit PROVE StillUnit(v)'
  <2>1. CASE v = u
    <3>1. ~UnitOver(turn', u)
      BY <1>1, CallUnitOrder
    <3>2. \A f \in DOMAIN CP!NextPhase : ~(UnitPlace[f] < UnitPlace[upc'[2]])
      <4>1. upc'[2] = "data"
        BY <1>1
      <4> QED BY <4>1 DEF UnitPlace, CP!NextPhase
    <3> QED BY <1>3, <2>1, <3>1, <3>2 DEF StillUnit, Passed
  <2>2. CASE v # u
    <3>1. ~AtUnit(turn', v)
      BY <1>1, <2>2 DEF AtUnit
    <3> QED BY <1>1, <1>3, <1>5, <2>2, <3>1, CallUnitOrder, StillUnitOn DEF Still
  <2> QED BY <2>1, <2>2
<1>7. ASSUME NEW q \in Pe PROVE StillDispatch(q)'
  BY <1>1, <1>3, <1>5, CallUnitOrder, StillDispatchOn DEF Still, dispatchVars
<1>8. StillTrail'
  BY <1>1, <1>5, CallUnitOnward, StillTrailOn DEF Still, Onward, watcherOnly
<1> QED BY <1>6, <1>7, <1>8 DEF Still

LEMMA UnitStepStill ==
  ASSUME SystemInv, StillInv, NEW u \in Unit, UnitStep(u), UNCHANGED trailSide, Standstill'
  PROVE  Still'
<1>1. /\ turn = <<"unit", u>> /\ CP!Step(u)
      /\ turn' = IF upc' = <<u, "return">> THEN AfterUnit(u) ELSE turn
      /\ UNCHANGED <<watcherOnly, dispatchVars>>
  BY SameUStep DEF UnitStep
<1>2. ~uupdated'[u] /\ UnitBegun(turn, u) /\ UnitBegun(turn', u)
  BY <1>1, UnitOnward, BegunIs DEF Standstill
<1>3. /\ UNCHANGED <<mem_out, clause_processing, current_level_finished_tasks, uupdated>>
      /\ UNCHANGED phaseData /\ UNCHANGED dispatchData
  BY <1>1, <1>2, UnitStandsStill DEF phaseData, dispatchData, dispatchVars
<1>4. PICK ph \in DOMAIN CP!NextPhase :
        /\ upc = <<u, ph>> /\ upc' = <<u, CP!NextPhase[ph]>>
        /\ \/ /\ ~CP!HasWork(u, ph)
              /\ ubusy' = [ubusy EXCEPT ![u] = ubusy[u] \/ CP!StoppedByLimit(u, ph)]
           \/ /\ mem_out[u[1]] # <<>>
              /\ \E b \in BOOLEAN : ubusy' = [ubusy EXCEPT ![u] = b]
  BY <1>1, <1>2, UnitStandsStill
<1>5. Standstill
  BY <1>1, <1>3, UnitOnward, StandstillBefore DEF watcherOnly, dispatchVars
<1>6. Still /\ ubusy \in [Unit -> BOOLEAN]
  BY <1>5, SafeUnits DEF StillInv, SystemInv, CP!ClauseTypeOK
<1>7. StillUnit(u)'
  <2>1. ASSUME NEW f \in DOMAIN CP!NextPhase, Passed(u, f)'
        PROVE  ~CP!HasWork(u, f)' \/ mem_out'[u[1]] # <<>>
    <3>1. f = ph \/ UnitPlace[f] < UnitPlace[ph]
      <4>1. UnitOver(turn', u) => upc'[2] = "return"
        <5>1. ~UnitOver(turn, u)
          <6>1. UnitOver(turn, u) <=> u[1] < u[1] \/ (u[1] = u[1] /\ u[2] < u[2])
            BY <1>1, OverIs
          <6> QED BY <6>1, PeTypes, NatOrder, Zenon
        <5> QED BY <1>1, <1>4, <5>1
      <4>2. UnitPlace[f] < UnitPlace[CP!NextPhase[ph]]
        <5>1. UnitPlace[f] < UnitPlace["return"]
          BY DEF UnitPlace, CP!NextPhase
        <5> QED BY <1>4, <2>1, <4>1, <5>1 DEF Passed
      <4> QED BY <4>2 DEF UnitPlace, CP!NextPhase
    <3>2. CASE f = ph
      BY <1>3, <1>4, <3>2, SameWork
    <3>3. CASE UnitPlace[f] < UnitPlace[ph]
      <4>1. Passed(u, f)
        BY <1>1, <1>4, <3>3 DEF Passed, AtUnit
      <4> QED BY <1>3, <1>6, <4>1, SameWork DEF Still, StillUnit
    <3> QED BY <3>1, <3>2, <3>3
  <2>2. ASSUME ubusy'[u]
        PROVE  \/ clause_processing'[u] # None \/ mem_out'[u[1]] # <<>>
               \/ \E f \in DOMAIN CP!NextPhase : CP!StoppedByLimit(u, f)'
    <3>1. \/ ubusy[u] \/ mem_out[u[1]] # <<>> \/ CP!StoppedByLimit(u, ph)
      BY <1>4, <1>6, <2>2
    <3> QED BY <1>2, <1>3, <1>6, <3>1, SameWork DEF Still, StillUnit
  <2> QED BY <2>1, <2>2 DEF StillUnit
<1>8. ASSUME NEW v \in Unit PROVE StillUnit(v)'
  <2>1. CASE v # u
    <3>1. ~AtUnit(turn', v)
      <4>1. CASE turn' = turn
        BY <1>1, <2>1, <4>1 DEF AtUnit
      <4>2. CASE turn' = AfterUnit(u)
        <5>1. AfterUnit(u)[1] \in {"call unit", "dispatch", "networks"}
          BY DEF AfterUnit
        <5> QED BY <4>2, <5>1 DEF AtUnit
      <4> QED BY <1>1, <4>1, <4>2
    <3>2. ubusy'[v] = ubusy[v]
      BY <1>4, <1>6, <2>1
    <3> QED BY <1>1, <1>3, <1>6, <2>1, <3>1, <3>2, UnitOrder, StillUnitOn DEF Still
  <2> QED BY <1>7, <2>1
<1>9. ASSUME NEW q \in Pe PROVE StillDispatch(q)'
  BY <1>1, <1>3, <1>6, UnitOrder, StillDispatchOn DEF Still, dispatchVars
<1>10. StillTrail'
  BY <1>1, <1>3, <1>6, UnitOnward, StillTrailOn DEF Still, Onward, watcherOnly
<1> QED BY <1>8, <1>9, <1>10 DEF Still

\* The trail's update is the first of the cycle.
LEMMA TrailStill ==
  ASSUME SystemInv, TrailUpdate, Standstill'
  PROVE  Still'
<1>1. turn' = <<"dispatch", 0>> /\ ~trail_updated'
  BY DEF TrailUpdate, Standstill
<1>2. ASSUME NEW q \in Pe PROVE StillDispatch(q)'
  <2>1. DispatchOver(turn', q) <=> q < 0
    BY <1>1, OverIs
  <2> QED BY <2>1, PeTypes, NatOrder DEF StillDispatch
<1>3. ASSUME NEW v \in Unit PROVE StillUnit(v)'
  <2>1. (UnitOver(turn', v) <=> v[1] < 0) /\ (UnitBegun(turn', v) <=> v[1] < 0)
    BY <1>1, OverIs, BegunIs
  <2>2. ~AtUnit(turn', v)
    BY <1>1 DEF AtUnit
  <2> QED BY <2>1, <2>2, PeTypes, NatOrder DEF StillUnit, Passed
<1>4. StillTrail'
  <2> DEFINE t == Head(current_working_task)
  <2>1. /\ level_sync' = level_sync
        /\ \/ level_sync /\ (Sync!SendTask \/ Sync!UpdateOtherwise)
           \/ ~level_sync /\ (Free!SendTask \/ Free!UpdateOtherwise)
    BY DEF TrailUpdate
  <2>2. ~Sync!Returns(TRUE, TRUE) /\ ~Free!Returns(TRUE, TRUE)
    BY <1>1 DEF Sync!Returns, Free!Returns
  <2>3. \/ level_sync /\ Sync!WaitForLevel
        \/ Sync!SendTaskBlocked \/ Free!SendTaskBlocked \/ Sync!NoRound \/ Free!NoRound
    BY <2>1, <2>2
       DEF Sync!SendTask, Sync!UpdateOtherwise, Sync!SwitchLevel, Sync!StartRound, Sync!EndRound,
           Free!SendTask, Free!UpdateOtherwise, Free!SwitchLevel, Free!StartRound, Free!EndRound,
           Free!WaitForLevel, Free!OtherLevel
  <2>4. CASE level_sync /\ Sync!WaitForLevel
    BY <2>1, <2>4 DEF StillTrail, Sync!WaitForLevel, Sync!levelState
  <2>5. CASE Sync!SendTaskBlocked \/ Free!SendTaskBlocked
    <3>1. /\ current_working_task # None /\ current_working_task # <<>>
          /\ ~(Len(watcher_task_receiver[HomePe[t]]) < ChannelSize)
          /\ UNCHANGED watcher_task_receiver
      BY <2>5 DEF Sync!SendTaskBlocked, Sync!HasNextTask, Sync!Target, Sync!NextTask, Sync!HaveSpace,
                  Free!SendTaskBlocked, Free!HasNextTask, Free!Target, Free!NextTask, Free!HaveSpace
    <3>2. HomePe[t] \in Pe
      <4>1. t \in WatcherTask
        BY <3>1, HeadTailProperties DEF SystemInv, RoundsInv
      <4> QED BY <4>1, SystemAssumption
    <3>3. watcher_task_receiver'[HomePe[t]] # <<>>
      <4>1. Len(<<>>) = 0 /\ ChannelSize \in Nat \ {0}
        BY InterfaceAssumption DEF W!LimitAssumption
      <4> QED BY <3>1, <4>1
    <3> QED BY <3>2, <3>3 DEF StillTrail
  <2>6. CASE Sync!NoRound \/ Free!NoRound
    BY <2>6 DEF StillTrail, Sync!NoRound, Free!NoRound, Sync!Returns, Free!Returns
  <2> QED BY <2>3, <2>4, <2>5, <2>6
<1> QED BY <1>2, <1>3, <1>4 DEF Still

LEMMA NetworkStill ==
  ASSUME SystemInv, SystemInv', StillInv, NetworkUpdate, Standstill'
  PROVE  Still'
<1>1. /\ turn = <<"networks", 0>> /\ turn' = <<"end", 0>>
      /\ UNCHANGED <<wbusy, wupdated, watcher_task_receiver, current_level_finished_tasks,
                     dispatch_busy, dispatch_updated>>
      /\ UNCHANGED unitOnly /\ UNCHANGED trailSide
  BY DEF NetworkUpdate, trailOnly, trailSide
<1>2. /\ \A p : DispatchOver(turn, p) /\ DispatchOver(turn', p)
      /\ \A p : WatcherBegun(turn, p) /\ WatcherBegun(turn', p)
      /\ \A u : UnitOver(turn, u) /\ UnitBegun(turn, u) /\ UnitBegun(turn', u)
      /\ \A u : ~AtUnit(turn', u)
  BY <1>1, OverIs, BegunIs DEF AtUnit
<1>3. UNCHANGED phaseData /\ UNCHANGED dispatchData /\ mem_out' = mem_out
  <2>1. \A p \in Pe : /\ mem_out'[p] = mem_out[p]
                      /\ task_icnt_receiver'[p] = task_icnt_receiver[p]
                      /\ mem_icnt_receiver'[p] = mem_icnt_receiver[p]
    BY <1>1, IdleNetworks DEF Standstill
  <2>2. mem_out' = mem_out
    <3>1. mem_out \in [Pe -> Seq(AnyReq)]
      BY SafeWatchers DEF SystemInv
    <3>2. \E T : mem_out' = [p \in Pe |-> IF p \in T THEN Memory!Received(mem_out[p])
                                                 ELSE mem_out[p]]
      BY DEF NetworkUpdate, Memory!Serve
    <3> QED BY <2>1, <3>1, <3>2
  <2>3. UNCHANGED <<task_icnt_receiver, mem_icnt_receiver>>
    <3>1. /\ task_icnt_receiver \in [Pe -> Seq(HasClauseData)]
          /\ task_icnt_receiver' \in [Pe -> Seq(HasClauseData)]
      BY DEF SystemInv, WayInv
    <3>2. mem_icnt_receiver \in [Pe -> Seq(AnyReq)] /\ mem_icnt_receiver' \in [Pe -> Seq(AnyReq)']
      BY DEF SystemInv, ReqInv
    <3> QED BY <2>1, <3>1, <3>2
  <2> QED BY <1>1, <2>1, <2>2, <2>3 DEF phaseData, dispatchData, unitOnly
<1>4. Standstill
  BY <1>1, <1>2, StandstillBefore DEF Onward, unitOnly
<1>5. Still
  BY <1>4 DEF StillInv
<1>6. ASSUME NEW v \in Unit PROVE StillUnit(v)'
  BY <1>1, <1>2, <1>3, <1>5, StillUnitOn DEF Still, unitOnly
<1>7. ASSUME NEW q \in Pe PROVE StillDispatch(q)'
  BY <1>1, <1>2, <1>3, <1>5, StillDispatchOn DEF Still
<1>8. StillTrail'
  BY <1>1, <1>2, <1>5, StillTrailOn DEF Still
<1> QED BY <1>6, <1>7, <1>8 DEF Still

LEMMA SameStill ==
  ASSUME StillInv,
         UNCHANGED <<turn, watcherOnly, unitOnly, mem_out, current_level_finished_tasks,
                     dispatchVars, trailOnly, level_sync, network_busy>>
  PROVE  StillInv'
<1>1. UNCHANGED <<wbusy, wupdated, watcher_task_receiver>> /\ UNCHANGED phaseData
      /\ UNCHANGED <<upc, ubusy, uupdated, clause_processing>>
  BY DEF watcherOnly, unitOnly, phaseData
<1>2. UNCHANGED <<dispatch_busy, dispatch_updated>> /\ UNCHANGED dispatchData /\ UNCHANGED trailSide
  BY DEF dispatchVars, unitOnly, dispatchData, trailOnly, trailSide
<1>3. Standstill' => Standstill
  BY <1>1, <1>2 DEF Standstill, trailSide
<1>4. ASSUME NEW v \in Unit, StillUnit(v) PROVE StillUnit(v)'
  BY <1>1, <1>4, SameWork DEF StillUnit, Passed
<1>5. ASSUME NEW q \in Pe, StillDispatch(q) PROVE StillDispatch(q)'
  BY <1>2, <1>5, StillDispatchOn
<1>6. StillTrail => StillTrail'
  BY <1>1, <1>2, StillTrailOn
<1> QED BY <1>3, <1>4, <1>5, <1>6 DEF StillInv, Still

LEMMA NextStill ==
  ASSUME SystemInv, SystemInv', QuietInv, ReportInv, StillInv, [Next]_vars
  PROVE  StillInv'
<1>1. CASE InterfacesUpdate
  <2> SUFFICES ASSUME Standstill' PROVE Still'
    BY DEF StillInv
  <2>1. InterfaceStep /\ UNCHANGED trailSide
    BY <1>1 DEF InterfacesUpdate, trailSide
  <2> QED BY <2>1, DispatchStill, CallWatcherStill, WatcherStepStill, CallUnitStill, UnitStepStill
          DEF InterfaceStep
<1>2. CASE TrailUpdate
  BY <1>2, TrailStill DEF StillInv
<1>3. CASE NetworkUpdate
  BY <1>3, NetworkStill DEF StillInv
<1>4. CASE EndOfCycle \/ \E c : Run(c)
  <2>1. turn'[1] \in {"caller", "trail"}
    BY <1>4 DEF EndOfCycle, Run
  <2> QED BY <2>1 DEF StillInv, Standstill
<1>5. CASE Lose \/ CallReturns \/ Over \/ UNCHANGED vars
  BY <1>5, SameStill DEF Lose, CallReturns, Over, vars, interfaceVars, networkOnly
<1> QED BY <1>1, <1>2, <1>3, <1>4, <1>5
        DEF Next, RunSingleTask, RunFullExpr, RunExtra, FinishSimulator

LEMMA NextReport ==
  ASSUME SystemInv, ReportInv, [Next]_vars
  PROVE  ReportInv'
<1>1. CASE \E p \in Pe : Dispatch(p)
  <2>1. PICK p \in Pe : Dispatch(p)
    BY <1>1
  <2>2. /\ turn = <<"dispatch", p>> /\ DispatchReply(p)
        /\ dispatch_updated' = [dispatch_updated EXCEPT ![p] =
             task_icnt_receiver' # task_icnt_receiver \/ mem_icnt_receiver' # mem_icnt_receiver]
    BY <2>1 DEF Dispatch
  <2>3. \A q \in Pe : watcher_mem[q] = <<>>
    BY <2>2 DEF SystemInv, DrainInv
  <2>4. mem_icnt_receiver \in [Pe -> Seq(AnyReq)]
    BY DEF SystemInv, ReqInv
  <2>5. CASE UNCHANGED watcher_mem
    BY <2>2, <2>3, <2>5 DEF ReportInv
  <2>6. CASE ~UNCHANGED watcher_mem
    <3>1. /\ mem_icnt_receiver[p] # <<>>
          /\ mem_icnt_receiver' = [mem_icnt_receiver EXCEPT ![p] = Received(@)]
          /\ \E s : watcher_mem' = [watcher_mem EXCEPT ![p] = s]
      BY <2>2, <2>6 DEF DispatchReply
    <3>2. mem_icnt_receiver' # mem_icnt_receiver
      <4>1. Len(Received(mem_icnt_receiver[p])) # Len(mem_icnt_receiver[p])
        BY <2>4, <3>1, ReceivedType
      <4> QED BY <2>4, <3>1, <4>1
    <3>3. \A q \in Pe \ {p} : watcher_mem'[q] = <<>>
      BY <2>3, <3>1, SafeWatchers DEF SystemInv
    <3> QED BY <2>2, <3>2, <3>3 DEF ReportInv
  <2> QED BY <2>5, <2>6
<1>2. CASE \E p \in Pe : WatcherStep(p)
  <2>1. PICK p \in Pe : W!Step(p) /\ UNCHANGED dispatchVars
    BY <1>2 DEF WatcherStep
  <2>2. \/ UNCHANGED watcher_mem
        \/ /\ watcher_mem[p] # <<>>
           /\ \E s : watcher_mem' = [watcher_mem EXCEPT ![p] = s]
    BY <2>1, WatcherPhase
  <2>3. \A q \in Pe : watcher_mem[q] = <<>> => watcher_mem'[q] = <<>>
    BY <2>2, SafeWatchers DEF SystemInv
  <2> QED BY <2>1, <2>3 DEF ReportInv, dispatchVars
<1>3. CASE UNCHANGED <<watcher_mem, dispatch_updated>>
  BY <1>3 DEF ReportInv
<1>4. CASE \/ \E p \in Pe : CallWatcher(p)
           \/ \E u \in Unit : CallUnit(u) \/ UnitStep(u)
  BY <1>3, <1>4 DEF CallWatcher, W!Call, CallUnit, UnitStep, watcherOnly, dispatchVars
<1>5. CASE TrailUpdate \/ NetworkUpdate \/ EndOfCycle \/ \E c : Run(c)
  BY <1>3, <1>5 DEF TrailUpdate, NetworkUpdate, EndOfCycle, Run, watcherOnly, dispatchVars
<1>6. CASE Lose \/ CallReturns \/ Over \/ UNCHANGED vars
  BY <1>3, <1>6 DEF Lose, CallReturns, Over, vars, interfaceVars, watcherOnly, dispatchVars
<1> QED BY <1>1, <1>2, <1>4, <1>5, <1>6
        DEF Next, RunSingleTask, RunFullExpr, RunExtra, FinishSimulator, InterfacesUpdate,
            InterfaceStep

LEMMA UnitsHoldNoWork ==
  ASSUME CP!SafeInv, \A u \in Unit, f \in DOMAIN CP!NextPhase : ~CP!HasWork(u, f),
         \A r : ~CP!OnWay(r)
  PROVE  \A u \in Unit :
           /\ CP!RoomToRead(u) /\ (Pipelined => CP!RoomToBegin(u))
           /\ clause_task_in[u] = <<>> /\ mem_req_id_to_clause_task[u] = {}
           /\ clause_data_ready_queue[u] = <<>> /\ reading_tasks[u] = {}
           /\ clause_value_ready_queue[u] = <<>> /\ clause_processing[u] = None
BY UnitAssumptions, CP!NoWorkHoldsNothing
   DEF CP!NoWorkHoldsNothing, CP!ClauseAssumption, CP!ValuesAssumption, CP!EnvAssumption

\* What a cycle that was at a standstill leaves: tasks in watchers that are busy.
LEMMA WhatIsLeft ==
  ASSUME SystemInv, QuietInv, StillInv, BarrierInv, NothingMoves, lost = {}
  PROVE  /\ memory = {} /\ clause_net = {}
         /\ \A p \in Pe : mem_out[p] = <<>> /\ clause_icnt_sender[p] = <<>>
         /\ \A u \in Unit, c \in ClauseTask : ~InUnit(u, c)
         /\ \A p \in Pe : ~wbusy[p] =>
              \A x \in WatcherTask \cup ClauseTask : ~TaskAt(p, x) /\ ~InWatcher(p, x)
         /\ trail_busy \/ OthersBusy => \E p \in Pe : wbusy[p]
<1>0. /\ turn = <<"end", 0>> /\ ~trail_updated /\ ~network_busy
      /\ \A p \in Pe : ~dispatch_updated[p] /\ ~wupdated[p]
      /\ \A u \in Unit : ~uupdated[u]
  BY DEF NothingMoves, OthersUpdated, InterfacesUpdated
<1>1. \A p : /\ DispatchOver(turn, p) /\ WatcherOver(turn, p) /\ UnitOver(turn, p)
             /\ WatcherBegun(turn, p) /\ UnitBegun(turn, p)
  BY <1>0, OverIs, BegunIs
<1>2. Still
  BY <1>0 DEF StillInv, Standstill
<1>3. /\ memory = {} /\ clause_net = {}
      /\ \A p \in Pe : mem_out[p] = <<>> /\ clause_icnt_sender[p] = <<>>
  BY <1>0 DEF QuietInv, NetworksRest
<1>4. \A u \in Unit : u[1] \in Pe
  BY PeTypes
<1>5. \A u \in Unit, f \in DOMAIN CP!NextPhase : ~CP!HasWork(u, f)
  BY <1>1, <1>2, <1>3, <1>4 DEF Still, StillUnit, Passed
<1>6. \A u \in Unit : clause_mem[u] = <<>>
  <2>1. "reply" \in DOMAIN CP!NextPhase
    BY DEF CP!NextPhase
  <2> QED BY <1>5, <2>1 DEF CP!HasWork
<1>7. \A p \in Pe : mem_icnt_receiver[p] = <<>>
  BY <1>1, <1>2, <1>6 DEF Still, StillDispatch
<1>8. \A p \in Pe : watcher_mem[p] = <<>>
  BY <1>0 DEF SystemInv, DrainInv
<1>9. Held = {}
  BY <1>3, <1>7, NoTasks DEF Held, InReplies
<1>10. WP!SafeInv /\ CP!SafeInv
  BY DEF SystemInv
<1>11. \A u \in Unit :
         /\ CP!RoomToRead(u) /\ (Pipelined => CP!RoomToBegin(u))
         /\ clause_task_in[u] = <<>> /\ mem_req_id_to_clause_task[u] = {}
         /\ clause_data_ready_queue[u] = <<>> /\ reading_tasks[u] = {}
         /\ clause_value_ready_queue[u] = <<>> /\ clause_processing[u] = None
  <2>1. \A r : ~CP!OnWay(r)
    BY <1>3, <1>6, <1>9, NoTasks, SameWords DEF CP!OnWay, CP!Lies
  <2> QED BY <1>5, <1>10, <2>1, UnitsHoldNoWork
<1>12. \A p \in Pe : task_icnt_receiver[p] = <<>> /\ ~dispatch_busy[p]
  BY <1>1, <1>2, <1>7, <1>11 DEF Still, StillDispatch
<1>13. \A u \in Unit : ~ubusy[u]
  <2>1. \A u \in Unit, f \in DOMAIN CP!NextPhase : ~CP!StoppedByLimit(u, f)
    BY <1>11 DEF CP!StoppedByLimit
  <2> QED BY <1>1, <1>2, <1>3, <1>4, <1>11, <2>1 DEF Still, StillUnit
<1>14. \A x : ~Contains(<<>>, x)
  BY EmptySeq DEF Contains
<1>15. \A u \in Unit : \A c : ~InUnit(u, c)
  BY <1>11, <1>14 DEF InUnit
<1>16. ASSUME NEW p \in Pe, ~wbusy[p]
       PROVE  /\ watcher_task_receiver[p] = <<>>
              /\ \A x : ~TaskAt(p, x) /\ ~InWatcher(p, x)
  <2>1. ~WP!CanRead(p, "meta") /\ \A f \in WP!Own : ~WP!HasWork(p, f)
    BY <1>1, <1>16 DEF QuietInv, WatcherRests
  <2>2. \A q \in Pe, f \in WP!Flight : WP!Flying(q, f) = {}
    BY <1>3, <1>8, <1>9, NoTasks, SameWords DEF WP!Flight, WP!Flying
  <2>3. /\ watcher_task_receiver[p] = <<>> /\ \A q \in WP!Queue : queue[p][q] = <<>>
        /\ watcher_processing[p] = None
        /\ \A k \in WP!Read : mem_req_id_to_task[p][k] = {}
    BY <1>10, <2>1, <2>2, WatcherHoldsNothing
  <2>4. \A x : ~TaskAt(p, x)
    BY <1>14, <2>3 DEF TaskAt, WP!Queue, WP!Read
  <2>5. \A x : ~InWatcher(p, x)
    BY <1>3, <1>12, <1>14, <2>3 DEF InWatcher, WP!Queue, WP!Read
  <2> QED BY <2>3, <2>4, <2>5
<1>17. ASSUME \A p \in Pe : ~wbusy[p] PROVE ~trail_busy /\ ~OthersBusy
  <2>1. OpenWork = {}
    BY <1>3, <1>15, <1>16, <1>17 DEF OpenWork, TaskOpen, SingleOpen
  <2>2. level_sync => current_level_remaining = current_level_finished_tasks
    <3>1. Cardinality(OpenWork) = 0 /\ \A n \in Nat : n + 0 = n
      BY <2>1, FS_EmptySet
    <3> QED BY <3>1 DEF BarrierInv
  <2>3. ~trail_busy
    BY <1>2, <1>16, <1>17, <2>2 DEF Still, StillTrail
  <2> QED BY <1>0, <1>12, <1>13, <1>17, <2>3 DEF OthersBusy, InterfacesBusy
<1> QED BY <1>3, <1>15, <1>16, <1>17

\* A cycle without progress, which the runner takes for a deadlock
\* (sim.rs:149), leaves no request, clause or reply anywhere on its way and no
\* task in a clause unit: unless a request was lost, the rest of the work is in
\* watchers that are busy without a report.  So there is no cycle of components
\* that wait for each other's full channels, whatever the limits.  What a phase
\* does unreported is the drop of a single watcher (watcher.rs:272); the blocker
\* reply (watcher.rs:300) was reported by the dispatch of the same cycle.
THEOREM SystemStallOnlyIfDropped == Spec => []StallOnlyIfDropped
<1>1. ASSUME Init
      PROVE  ReportInv /\ StillInv /\ BarrierInv
  <2>1. /\ turn = <<"caller", 0>> /\ watcher_mem = [p \in Pe |-> <<>>]
        /\ dispatch_updated = [p \in Pe |-> FALSE]
    BY <1>1 DEF Init, InterfaceInit, W!Init
  <2>2. BarrierInv
    <3>1. /\ current_level_remaining = 0 /\ current_level_finished_tasks = 0
      BY <1>1 DEF Init, Sync!TrailInit
    <3> QED BY <1>1, <3>1, NothingOpenAtFirst, FS_EmptySet DEF BarrierInv
  <2> QED BY <2>1, <2>2 DEF ReportInv, StillInv, Standstill
<1>2. SystemInv /\ QuietInv /\ ReportInv /\ StillInv /\ BarrierInv => StallOnlyIfDropped
  BY WhatIsLeft DEF StallOnlyIfDropped, ReportInv
<1> QED BY <1>1, <1>2, InitSystemInv, NextSystemInv, InitQuiet, NextQuiet, NextReport, NextStill,
           NextBarrier, PTL DEF Spec
=============================================================================
