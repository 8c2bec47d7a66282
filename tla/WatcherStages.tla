---------------------------- MODULE WatcherStages ----------------------------
(***************************************************************************)
(* What the watcher unit promises: no task is lost, doubled or put back.   *)
(* A watcher task goes once through its stages, its single watchers come   *)
(* to be when it is expanded and go once through theirs, and `finished`    *)
(* counts exactly the work that ended here: the expanded tasks and the     *)
(* single watchers dropped because they have no clause to read.            *)
(***************************************************************************)
EXTENDS Naturals, FiniteSets

CONSTANTS WatcherTask, ClauseTask,
          Children,      \* Children[t]: the set of single watchers of t
          HasClauseData  \* the single watchers with a clause to read

VARIABLES taskStage, singleStage, finished
stagesVars == <<taskStage, singleStage, finished>>

AfterTask == [trail |-> "arrived", arrived |-> "meta_read",
              meta_read |-> "meta_finished", meta_finished |-> "data_read",
              data_read |-> "data_finished", data_finished |-> "expanded"]
AfterSingle == [single_task |-> "blocker_read", blocker_read |-> "value_finished",
                value_finished |-> "in_process", in_process |-> "process_finished",
                process_finished |-> "left"]

StagesInit ==
  /\ taskStage = [t \in WatcherTask |-> "trail"]
  /\ singleStage = [c \in ClauseTask |-> "unborn"]
  /\ finished = 0

AdvanceTask(t) ==
  /\ taskStage[t] \in DOMAIN AfterTask \ {"data_finished"}
  /\ taskStage' = [taskStage EXCEPT ![t] = AfterTask[@]]
  /\ UNCHANGED <<singleStage, finished>>

ExpandTask(t) ==
  /\ taskStage[t] = "data_finished"
  /\ taskStage' = [taskStage EXCEPT ![t] = "expanded"]
  /\ \A c \in Children[t] : singleStage[c] = "unborn"
  /\ singleStage' =
       [c \in ClauseTask |-> IF c \in Children[t] THEN "single_task" ELSE singleStage[c]]
  /\ finished' = finished + 1

\* Leaving without a clause to read is finished work; leaving with one is not.
AdvanceSingle(c) ==
  /\ singleStage[c] \in DOMAIN AfterSingle
  /\ singleStage' = [singleStage EXCEPT ![c] = AfterSingle[@]]
  /\ finished' = IF singleStage[c] = "process_finished" /\ c \notin HasClauseData
                   THEN finished + 1 ELSE finished
  /\ UNCHANGED taskStage

StagesNext ==
  \/ \E t \in WatcherTask : AdvanceTask(t) \/ ExpandTask(t)
  \/ \E c \in ClauseTask : AdvanceSingle(c)

StagesSpec == StagesInit /\ [][StagesNext]_stagesVars

\* Every watcher task is expanded and every single watcher leaves.
Completes ==
  <>[](/\ \A t \in WatcherTask : taskStage[t] = "expanded"
       /\ \A c \in ClauseTask : singleStage[c] = "left")
=============================================================================
