------------------------------ MODULE TrailEnv ------------------------------
(***************************************************************************)
(* The trail with what surrounds it: the caller of the simulator, which    *)
(* gives it one round after the other, and the watchers and clause units,  *)
(* which take the tasks and finish their work items in any order, each     *)
(* with one increment of the shared counter.                               *)
(***************************************************************************)
EXTENDS Trail, SequencesExt

CONSTANT Rounds   \* the rounds of the whole run, a sequence

\* A task is an object of its own, moved from the caller into one round.
ASSUME RoundsAssumption ==
  /\ Rounds \in Seq(Seq(WatcherTask))
  /\ \A i, k \in DOMAIN Rounds : \A j \in DOMAIN Rounds[i], l \in DOMAIN Rounds[k] :
       Rounds[i][j] = Rounds[k][l] => i = k /\ j = l

VARIABLES
  rounds,   \* the rounds not yet given to the simulator
  open,     \* the work items sent out and not finished
  sent      \* for each round begun, the tasks sent to the watchers, in order

vars == <<trailVars, rounds, open, sent>>

EnvInit == TrailInit /\ rounds = Rounds /\ open = {} /\ sent = <<>>

TrailUpdate ==
  \/ /\ SendTask
     /\ open' = open \cup Work[NextTask]
     /\ sent' = [sent EXCEPT ![Len(sent)] = Append(@, NextTask)]
     /\ UNCHANGED rounds
  \/ StartRound /\ sent' = Append(sent, <<>>) /\ UNCHANGED <<rounds, open>>
  \/ UpdateOtherwise /\ UNCHANGED <<task_receiver, rounds, open, sent>>

\* run_single_task sends a round when the last run is over: the trail was
\* not busy in its last update.
CallerSends ==
  /\ ~trail_busy /\ current_working_task = None /\ task_receiver = <<>>
  /\ rounds # <<>>
  /\ task_receiver' = Sent(task_receiver, Head(rounds))
  /\ rounds' = Tail(rounds)
  /\ UNCHANGED <<watcher_sender, current_working_task, levelState, trail_busy,
                 trail_updated, open, sent>>

WatcherTakes ==
  /\ \E p \in Pe : /\ watcher_sender[p] # <<>>
                   /\ watcher_sender' = [watcher_sender EXCEPT ![p] = Received(@)]
  /\ UNCHANGED <<task_receiver, current_working_task, levelState, trail_busy,
                 trail_updated, rounds, open, sent>>

InChannel(t) == \E p \in Pe : \E i \in DOMAIN watcher_sender[p] : watcher_sender[p][i] = t

\* A watcher or clause unit finishes a work item of a task it has received.
WorkFinishes ==
  /\ \E w \in open : /\ \A t \in WatcherTask : w \in Work[t] => ~InChannel(t)
                     /\ open' = open \ {w}
  /\ current_level_finished_tasks' = current_level_finished_tasks + 1
  /\ UNCHANGED <<task_receiver, watcher_sender, current_working_task,
                 current_level_remaining, current_processing_level, trail_busy,
                 trail_updated, rounds, sent>>

Next == TrailUpdate \/ CallerSends \/ WatcherTakes \/ WorkFinishes

Spec == EnvInit /\ [][Next]_vars

(* Every component is updated in every cycle of SimRunner::run, so that the *)
(* trail, the watchers and the clause units go on; run_single_task is       *)
(* called for every round, and finish_simulator runs the rest.              *)
FairSpec == Spec /\ WF_vars(TrailUpdate) /\ WF_vars(CallerSends)
                 /\ WF_vars(WatcherTakes) /\ WF_vars(WorkFinishes)
-----------------------------------------------------------------------------
TypeOK ==
  /\ TrailTypeOK
  /\ rounds \in Seq(Seq(WatcherTask))
  /\ open \subseteq UNION {Work[t] : t \in WatcherTask}
  /\ sent \in Seq(Seq(WatcherTask))

\* The difference of the two counters is the work still open, so that they
\* are equal exactly when the level is finished.  With one increment too many
\* or too few in some unit the barrier opens early or never again.
CountersMeasureOpenWork ==
  LevelSync => current_level_remaining = current_level_finished_tasks + Cardinality(open)

\* No work of two levels is ever open at the same time.
OneLevelOpen ==
  LevelSync => \A t \in WatcherTask :
                 Work[t] \cap open # {} => Level[t] = current_processing_level

\* level_sync is a barrier.
Barrier == INSTANCE LevelBarrier WITH level <- current_processing_level
ImplementsBarrier == Barrier!BarrierSpec

Working == IF current_working_task = None THEN <<>> ELSE current_working_task

\* The watchers get the tasks of all rounds, each once and in the order of
\* the decisions: a task the trail takes back keeps its place, what is not
\* sent of a round is what the trail holds, and the rounds not begun wait
\* behind it.
SentInOrder ==
  /\ \A i \in DOMAIN sent :
       /\ i \in DOMAIN Rounds
       /\ Rounds[i] = sent[i] \o IF i = Len(sent) THEN Working ELSE <<>>
  /\ task_receiver \o rounds = SubSeq(Rounds, Len(sent) + 1, Len(Rounds))

\* Every round is sent and worked off: the barrier always opens again.
EveryRoundCompletes ==
  <>[](rounds = <<>> /\ task_receiver = <<>> /\ current_working_task = None /\ open = {})
=============================================================================
