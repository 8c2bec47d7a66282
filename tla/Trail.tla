-------------------------------- MODULE Trail --------------------------------
(***************************************************************************)
(* The trail (satacc/trail.rs): it takes a round of watcher tasks (the     *)
(* assignments of one decision) and sends them, in order, to the watchers. *)
(* With level_sync the tasks of the next decision level wait until all the *)
(* work of the current one is finished: current_level_remaining counts     *)
(* the work sent out, current_level_finished_tasks, which the watchers and *)
(* clause units increase, the work that came to its end.                   *)
(*                                                                         *)
(* Trail::update is one action with one disjunct for each of its outcomes. *)
(***************************************************************************)
EXTENDS SimChannel, FiniteSets

CONSTANTS
  Pe,           \* processing elements
  WatcherTask,  \* watcher tasks
  None,         \* Option::None
  Level,        \* Level[t]: t.level
  HomePe,       \* HomePe[t]: t.watcher_id / 2 % total_watcher
  Work,         \* Work[t]: the work items of t: t itself and its single watchers
  LevelSync,    \* config.level_sync
  ChannelSize   \* config.channel_size

ASSUME TrailAssumption ==
  /\ Level \in [WatcherTask -> Nat]
  /\ HomePe \in [WatcherTask -> Pe]
  /\ \A t \in WatcherTask : IsFiniteSet(Work[t])
  /\ \A t, u \in WatcherTask : t # u => Work[t] \cap Work[u] = {}
  /\ LevelSync \in BOOLEAN
  /\ ChannelSize \in Nat \ {0}
  /\ None \notin Seq(WatcherTask)

VARIABLES
  task_receiver,                \* channel of rounds, from outside the simulator
  watcher_sender,               \* channels to the watchers
  current_working_task,         \* what is left of the round, or None
  current_level_remaining,
  current_processing_level,
  current_level_finished_tasks, \* SataccStatus: shared by the whole system
  trail_busy, trail_updated     \* the results of the last update

levelState == <<current_level_remaining, current_processing_level,
                current_level_finished_tasks>>
trailVars == <<task_receiver, watcher_sender, current_working_task, levelState,
               trail_busy, trail_updated>>

TrailInit ==
  /\ task_receiver = <<>>
  /\ watcher_sender = [p \in Pe |-> <<>>]
  /\ current_working_task = None
  /\ current_level_remaining = 0
  /\ current_processing_level = 0
  /\ current_level_finished_tasks = 0
  /\ trail_busy = FALSE /\ trail_updated = FALSE
-----------------------------------------------------------------------------
Returns(isBusy, isUpdated) == trail_busy' = isBusy /\ trail_updated' = isUpdated

HasNextTask == current_working_task # None /\ current_working_task # <<>>
NextTask == Head(current_working_task)
OtherLevel == LevelSync /\ Level[NextTask] # current_processing_level
Target == HomePe[NextTask]

\* Mutant: the single watchers are counted, the watcher task itself is not.
only_single_watcher_tasks == Cardinality(Work[NextTask]) - 1

get_total_level_tasks == Cardinality(Work[NextTask])

\* Mutant: the next level begins without a look at the counters.
SwitchLevelEarly ==
  /\ HasNextTask /\ OtherLevel
  /\ current_processing_level' = Level[NextTask]
  /\ current_level_remaining' = 0
  /\ current_level_finished_tasks' = 0
  /\ current_working_task' = RecvThenRet(current_working_task)
  /\ Returns(TRUE, TRUE)
  /\ UNCHANGED <<task_receiver, watcher_sender>>

\* All work of the level is finished: the next level may begin.
SwitchLevel ==
  /\ HasNextTask /\ OtherLevel
  /\ current_level_remaining = current_level_finished_tasks
  /\ current_processing_level' = Level[NextTask]
  /\ current_level_remaining' = 0
  /\ current_level_finished_tasks' = 0
  /\ current_working_task' = RecvThenRet(current_working_task)
  /\ Returns(TRUE, TRUE)
  /\ UNCHANGED <<task_receiver, watcher_sender>>

WaitForLevel ==
  /\ HasNextTask /\ OtherLevel
  /\ current_level_remaining # current_level_finished_tasks
  /\ current_working_task' = RecvThenRet(current_working_task)
  /\ Returns(TRUE, FALSE)
  /\ UNCHANGED <<task_receiver, watcher_sender, levelState>>

\* Only the level_sync branch counts the work it sends.
SendTask ==
  /\ HasNextTask /\ ~OtherLevel /\ HaveSpace(watcher_sender[Target], ChannelSize)
  /\ watcher_sender' = [watcher_sender EXCEPT ![Target] = Sent(@, NextTask)]
  /\ current_working_task' = Received(current_working_task)
  /\ current_level_remaining' =
       current_level_remaining + IF LevelSync THEN get_total_level_tasks ELSE 0
  /\ Returns(TRUE, TRUE)
  /\ UNCHANGED <<task_receiver, current_processing_level, current_level_finished_tasks>>

SendTaskBlocked ==
  /\ HasNextTask /\ ~OtherLevel /\ ~HaveSpace(watcher_sender[Target], ChannelSize)
  /\ current_working_task' = RecvThenRet(current_working_task)
  /\ Returns(TRUE, FALSE)
  /\ UNCHANGED <<task_receiver, watcher_sender, levelState>>

\* The round, if any, is at its end; the same update takes the next one.
StartRound ==
  /\ ~HasNextTask /\ task_receiver # <<>>
  /\ current_working_task' = Head(task_receiver)
  /\ task_receiver' = Received(task_receiver)
  /\ Returns(TRUE, TRUE)
  /\ UNCHANGED <<watcher_sender, levelState>>

\* Mutant: the round that is over is kept.
EndRoundKept ==
  /\ current_working_task = <<>> /\ task_receiver = <<>>
  /\ Returns(TRUE, TRUE)
  /\ UNCHANGED <<task_receiver, watcher_sender, current_working_task, levelState>>

EndRound ==
  /\ current_working_task = <<>> /\ task_receiver = <<>>
  /\ current_working_task' = None
  /\ Returns(TRUE, TRUE)
  /\ UNCHANGED <<task_receiver, watcher_sender, levelState>>

NoRound ==
  /\ current_working_task = None /\ task_receiver = <<>>
  /\ Returns(FALSE, FALSE)
  /\ UNCHANGED <<task_receiver, watcher_sender, current_working_task, levelState>>

\* The updates that send no task.
UpdateOtherwise ==
  SwitchLevel \/ WaitForLevel \/ SendTaskBlocked \/ StartRound \/ EndRound \/ NoRound
-----------------------------------------------------------------------------
TrailTypeOK ==
  /\ task_receiver \in Seq(Seq(WatcherTask))
  /\ watcher_sender \in [Pe -> Seq(WatcherTask)]
  /\ current_working_task \in Seq(WatcherTask) \cup {None}
  /\ current_level_remaining \in Nat
  /\ current_processing_level \in Nat
  /\ current_level_finished_tasks \in Nat
  /\ trail_busy \in BOOLEAN /\ trail_updated \in BOOLEAN
=============================================================================
