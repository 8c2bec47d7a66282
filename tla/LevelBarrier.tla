---------------------------- MODULE LevelBarrier ----------------------------
(***************************************************************************)
(* What level_sync promises: work is open at one level at a time.  The     *)
(* level changes only when no work is open, and a task is started only at  *)
(* its own level.                                                          *)
(***************************************************************************)
EXTENDS Naturals

CONSTANTS WatcherTask, Level, Work

VARIABLES level,  \* the level work is open at
          open    \* the work items started and not finished

BarrierInit == level = 0 /\ open = {}

ChangeLevel ==
  /\ open = {}
  /\ level' \in {Level[t] : t \in WatcherTask}
  /\ UNCHANGED open

StartWork ==
  /\ \E t \in WatcherTask : Level[t] = level /\ open' = open \cup Work[t]
  /\ UNCHANGED level

FinishWork ==
  /\ \E w \in open : open' = open \ {w}
  /\ UNCHANGED level

BarrierNext == ChangeLevel \/ StartWork \/ FinishWork

BarrierSpec == BarrierInit /\ [][BarrierNext]_<<level, open>>
=============================================================================
