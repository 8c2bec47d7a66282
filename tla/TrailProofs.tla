----------------------------- MODULE TrailProofs -----------------------------
(***************************************************************************)
(* Proofs about TrailEnv: types, what the counters mean, the order of the  *)
(* tasks and that level_sync is a barrier, for any tasks, levels, rounds   *)
(* and processing elements.                                                *)
(*                                                                         *)
(* The barrier rests on the counters: when they are equal, no work is      *)
(* open.  That they measure the open work exactly rests on the order: the  *)
(* next task stands at a place of its round that was not sent yet, so its  *)
(* work cannot be open already (OpenIsSent) and all of it is new.          *)
(***************************************************************************)
EXTENDS TrailEnv, ChannelLemmas, FiniteSetTheorems

\* The trail works on the last of the rounds begun.
WorkingHasBegun == current_working_task # None => sent # <<>>

\* Open work is work of a task that was sent.
OpenIsSent ==
  \A w \in open : \E i \in DOMAIN sent : \E j \in DOMAIN sent[i] : w \in Work[sent[i][j]]

Order == SentInOrder /\ WorkingHasBegun /\ OpenIsSent

IInv == TypeOK /\ IsFiniteSet(open) /\ CountersMeasureOpenWork /\ OneLevelOpen /\ Order

LEMMA InitIInv == EnvInit => IInv
<1> SUFFICES ASSUME EnvInit PROVE IInv
  OBVIOUS
<1> USE DEF EnvInit, TrailInit
<1>1. TypeOK
  BY RoundsAssumption, EmptySeq DEF TypeOK, TrailTypeOK
<1>2. IsFiniteSet(open) /\ CountersMeasureOpenWork /\ OneLevelOpen
  BY FS_EmptySet DEF CountersMeasureOpenWork, OneLevelOpen
<1>3. Order
  <2>1. sent = <<>> /\ DOMAIN sent = {} /\ Len(sent) = 0 /\ task_receiver = <<>>
    BY EmptySeq
  <2>2. task_receiver \o rounds = Rounds /\ SubSeq(Rounds, 1, Len(Rounds)) = Rounds
    BY <2>1, RoundsAssumption, ConcatEmptySeq, SubSeqFull
  <2> QED BY <2>1, <2>2 DEF Order, SentInOrder, WorkingHasBegun, OpenIsSent
<1> QED BY <1>1, <1>2, <1>3 DEF IInv

(* Equal counters mean that the level is finished.                         *)
LEMMA EqualCountersMeanDone ==
  ASSUME IInv, LevelSync, current_level_remaining = current_level_finished_tasks
  PROVE  open = {}
<1>1. /\ IsFiniteSet(open) /\ Cardinality(open) \in Nat
      /\ current_level_finished_tasks \in Nat
      /\ current_level_finished_tasks + Cardinality(open) = current_level_finished_tasks
  BY FS_CardinalityType DEF IInv, CountersMeasureOpenWork, TypeOK, TrailTypeOK
<1>2. Cardinality(open) = 0
  BY <1>1
<1> QED BY <1>1, <1>2, FS_EmptySet

LEMMA CurrentTask ==
  ASSUME IInv, HasNextTask
  PROVE  /\ current_working_task \in Seq(WatcherTask)
         /\ NextTask \in WatcherTask /\ Received(current_working_task) \in Seq(WatcherTask)
         /\ RecvThenRet(current_working_task) = current_working_task
         /\ Level[NextTask] \in Nat /\ Target \in Pe
<1>1. current_working_task \in Seq(WatcherTask) /\ current_working_task # <<>>
  BY DEF IInv, TypeOK, TrailTypeOK, HasNextTask
<1>2. NextTask \in WatcherTask /\ Received(current_working_task) \in Seq(WatcherTask)
  BY <1>1, ReceivedType DEF NextTask
<1> QED BY <1>1, <1>2, RetRestores, TrailAssumption DEF Target

(* The tasks sent of a round are its first ones.                           *)
LEMMA SentIsPrefix ==
  ASSUME IInv, NEW i \in DOMAIN sent
  PROVE  /\ i \in DOMAIN Rounds /\ sent[i] \in Seq(WatcherTask) /\ Rounds[i] \in Seq(WatcherTask)
         /\ Len(sent[i]) \in Nat /\ Len(sent[i]) <= Len(Rounds[i])
         /\ \A j \in DOMAIN sent[i] : j \in DOMAIN Rounds[i] /\ Rounds[i][j] = sent[i][j]
<1> DEFINE rest == IF i = Len(sent) THEN Working ELSE <<>>
<1>1. i \in DOMAIN Rounds /\ Rounds[i] = sent[i] \o rest
  BY DEF IInv, Order, SentInOrder
<1>2. sent[i] \in Seq(WatcherTask) /\ Rounds[i] \in Seq(WatcherTask)
  BY <1>1, RoundsAssumption, ElementOfSeq, LenProperties DEF IInv, TypeOK
<1>3. rest \in Seq(WatcherTask)
  BY EmptySeq DEF Working, IInv, TypeOK, TrailTypeOK
<1> HIDE DEF rest
<1>4. /\ Len(sent[i]) \in Nat /\ Len(rest) \in Nat
      /\ Len(Rounds[i]) = Len(sent[i]) + Len(rest)
      /\ \A j \in 1 .. Len(sent[i]) + Len(rest) :
           Rounds[i][j] = IF j <= Len(sent[i]) THEN sent[i][j] ELSE rest[j - Len(sent[i])]
      /\ DOMAIN sent[i] = 1 .. Len(sent[i]) /\ DOMAIN Rounds[i] = 1 .. Len(Rounds[i])
  BY <1>1, <1>2, <1>3, ConcatProperties, LenProperties
<1> QED BY <1>1, <1>2, <1>4

(* The trail works on the last round begun; its next task stands at the     *)
(* first place of that round which was not sent.                            *)
LEMMA NextIsUnsent ==
  ASSUME IInv, HasNextTask
  PROVE  /\ Len(sent) \in DOMAIN sent
         /\ Working = current_working_task
         /\ \A i \in DOMAIN sent : \A j \in DOMAIN sent[i] : sent[i][j] # NextTask
<1> DEFINE n == Len(sent)
           s == sent[n]
           w == current_working_task
<1>1. w \in Seq(WatcherTask) /\ w # <<>> /\ Working = w
  BY DEF IInv, TypeOK, TrailTypeOK, HasNextTask, Working
<1>2. sent \in Seq(Seq(WatcherTask)) /\ sent # <<>>
  BY DEF IInv, TypeOK, Order, WorkingHasBegun, HasNextTask
<1>3. n \in DOMAIN sent /\ n \in Nat
  BY <1>2, EmptySeq, LenProperties
<1>4. /\ s \in Seq(WatcherTask) /\ Len(s) \in Nat /\ n \in DOMAIN Rounds
      /\ Rounds[n] = s \o w /\ Rounds[n] \in Seq(WatcherTask)
  BY <1>1, <1>3, SentIsPrefix DEF IInv, Order, SentInOrder
<1>5. Len(s) + 1 \in DOMAIN Rounds[n] /\ Rounds[n][Len(s) + 1] = NextTask
  <2>1. Len(w) \in Nat \ {0} /\ Head(w) = w[1]
    BY <1>1, EmptySeq
  <2> HIDE DEF s, w, n
  <2>2. /\ Len(Rounds[n]) = Len(s) + Len(w)
        /\ Rounds[n][Len(s) + 1] = IF Len(s) + 1 <= Len(s) THEN s[Len(s) + 1]
                                   ELSE w[(Len(s) + 1) - Len(s)]
    BY <1>1, <1>4, <2>1, ConcatProperties
  <2>3. DOMAIN Rounds[n] = 1 .. Len(Rounds[n])
    BY <1>4, LenProperties
  <2>4. (Len(s) + 1) - Len(s) = 1 /\ ~(Len(s) + 1 <= Len(s))
    BY <1>4
  <2>5. NextTask = Head(w)
    BY DEF NextTask, w
  <2> QED BY <1>4, <2>1, <2>2, <2>3, <2>4, <2>5
<1>6. ASSUME NEW i \in DOMAIN sent, NEW j \in DOMAIN sent[i], sent[i][j] = NextTask
      PROVE  FALSE
  <2>1. i \in DOMAIN Rounds /\ j \in DOMAIN Rounds[i] /\ Rounds[i][j] = NextTask
    BY <1>6, SentIsPrefix
  <2>2. i = n /\ j = Len(s) + 1
    BY <1>4, <1>5, <2>1, RoundsAssumption
  <2>3. j \in 1 .. Len(s)
    BY <2>2, <1>4, LenProperties
  <2> QED BY <1>4, <2>2, <2>3
<1> QED BY <1>1, <1>3, <1>6

(* The work of the next task is new.                                        *)
LEMMA NextWorkIsNew ==
  ASSUME IInv, HasNextTask
  PROVE  Work[NextTask] \cap open = {}
<1> SUFFICES ASSUME NEW w \in open, w \in Work[NextTask] PROVE FALSE
  OBVIOUS
<1>1. PICK i \in DOMAIN sent : \E j \in DOMAIN sent[i] : w \in Work[sent[i][j]]
  BY DEF IInv, Order, OpenIsSent
<1>2. PICK j \in DOMAIN sent[i] : w \in Work[sent[i][j]]
  BY <1>1
<1>3. sent[i][j] \in WatcherTask /\ sent[i][j] # NextTask /\ NextTask \in WatcherTask
  BY SentIsPrefix, NextIsUnsent, CurrentTask, ElementOfSeq, LenProperties
<1> QED BY <1>2, <1>3, TrailAssumption

(* The switch of the level: the counters are equal, so no work is open.     *)
LEMMA SwitchLevelIInv ==
  ASSUME IInv, SwitchLevel, UNCHANGED <<rounds, open, sent>>
  PROVE  IInv' /\ open = {}
<1>1. LevelSync /\ open = {} /\ open' = {}
  BY EqualCountersMeanDone DEF SwitchLevel, OtherLevel
<1>2. current_working_task' = current_working_task
  BY CurrentTask DEF SwitchLevel
<1>3. TypeOK'
  BY <1>2, CurrentTask DEF SwitchLevel, Returns, IInv, TypeOK, TrailTypeOK
<1>4. IsFiniteSet(open)' /\ CountersMeasureOpenWork' /\ OneLevelOpen'
  BY <1>1, FS_EmptySet DEF SwitchLevel, CountersMeasureOpenWork, OneLevelOpen
<1>5. Order'
  BY <1>1, <1>2 DEF SwitchLevel, IInv, Order, SentInOrder, Working, WorkingHasBegun, OpenIsSent
<1> QED BY <1>1, <1>3, <1>4, <1>5 DEF IInv

(* A task sent keeps the order: it moves from what the trail holds of the   *)
(* round to what was sent of it.                                            *)
LEMMA SendTaskOrder ==
  ASSUME IInv, SendTask, open' = open \cup Work[NextTask],
         sent' = [sent EXCEPT ![Len(sent)] = Append(@, NextTask)], UNCHANGED rounds
  PROVE  Order' /\ sent' \in Seq(Seq(WatcherTask))
<1> DEFINE n == Len(sent)
           s == sent[n]
           w == current_working_task
<1>1. HasNextTask /\ w' = Tail(w) /\ task_receiver' = task_receiver
  BY DEF SendTask, Received, get_total_level_tasks
<1>2. w \in Seq(WatcherTask) /\ w # <<>> /\ Working = w /\ NextTask = Head(w)
  BY <1>1 DEF IInv, TypeOK, TrailTypeOK, HasNextTask, Working, NextTask
<1>3. Tail(w) \in Seq(WatcherTask) /\ NextTask \in WatcherTask /\ Working' = Tail(w)
  <2>1. Tail(w) \in Seq(WatcherTask) /\ NextTask \in WatcherTask
    BY <1>2, HeadTailProperties
  <2>2. current_working_task' # None
    BY <1>1, <2>1, TrailAssumption
  <2> QED BY <1>1, <2>1, <2>2 DEF Working
<1>4. n \in DOMAIN sent /\ n \in 1 .. Len(sent) /\ sent \in Seq(Seq(WatcherTask))
  BY <1>1, NextIsUnsent, LenProperties DEF IInv, TypeOK
<1>5. s \in Seq(WatcherTask) /\ Append(s, NextTask) \in Seq(WatcherTask)
  BY <1>3, <1>4, SentIsPrefix, AppendProperties
<1>6. /\ sent' \in Seq(Seq(WatcherTask)) /\ Len(sent') = n
      /\ DOMAIN sent' = DOMAIN sent
      /\ sent'[n] = Append(s, NextTask)
      /\ \A i \in DOMAIN sent : i # n => sent'[i] = sent[i]
  BY <1>4, <1>5, ExceptSeq, LenProperties
<1>7. SentInOrder'
  <2>1. ASSUME NEW i \in DOMAIN sent
        PROVE  /\ i \in DOMAIN Rounds
               /\ Rounds[i] = sent'[i] \o IF i = n THEN Working' ELSE <<>>
    <3>1. i \in DOMAIN Rounds /\ Rounds[i] = sent[i] \o IF i = n THEN w ELSE <<>>
      BY <1>2 DEF IInv, Order, SentInOrder
    <3>2. CASE i = n
      <4>1. Append(s, Head(w)) \o Tail(w) = s \o w
        BY <1>2, <1>5, MoveKeepsConcat
      <4> QED BY <1>2, <1>3, <1>6, <3>1, <3>2, <4>1
    <3>3. CASE i # n
      BY <1>6, <3>1, <3>3
    <3> QED BY <3>2, <3>3
  <2> QED BY <1>1, <1>6, <2>1 DEF IInv, Order, SentInOrder
<1>8. WorkingHasBegun'
  BY <1>4, <1>6, EmptySeq DEF WorkingHasBegun
<1>9. OpenIsSent'
  <2> SUFFICES ASSUME NEW v \in open'
               PROVE  \E i \in DOMAIN sent' : \E j \in DOMAIN sent'[i] : v \in Work[sent'[i][j]]
    BY DEF OpenIsSent
  <2>1. /\ Len(Append(s, NextTask)) = Len(s) + 1 /\ Len(s) \in Nat
        /\ Append(s, NextTask)[Len(s) + 1] = NextTask
        /\ \A j \in 1 .. Len(s) : Append(s, NextTask)[j] = s[j]
    BY <1>3, <1>5, AppendProperties, LenProperties
  <2>2. DOMAIN s = 1 .. Len(s) /\ DOMAIN Append(s, NextTask) = 1 .. Len(s) + 1
    BY <1>5, <2>1, LenProperties
  <2>3. CASE v \in open
    <3>1. PICK i \in DOMAIN sent : \E j \in DOMAIN sent[i] : v \in Work[sent[i][j]]
      BY <2>3 DEF IInv, Order, OpenIsSent
    <3>2. CASE i # n
      BY <1>6, <3>1, <3>2
    <3>3. CASE i = n
      <4>1. PICK j \in DOMAIN s : v \in Work[s[j]]
        BY <3>1, <3>3
      <4>2. j \in DOMAIN sent'[n] /\ sent'[n][j] = s[j]
        BY <1>6, <2>1, <2>2, <4>1
      <4> QED BY <1>4, <1>6, <4>1, <4>2
    <3> QED BY <3>2, <3>3
  <2>4. CASE v \in Work[NextTask]
    <3>1. Len(s) + 1 \in DOMAIN sent'[n] /\ sent'[n][Len(s) + 1] = NextTask
      BY <1>6, <2>1, <2>2
    <3> QED BY <1>4, <1>6, <2>4, <3>1
  <2> QED BY <2>3, <2>4
<1> QED BY <1>6, <1>7, <1>8, <1>9 DEF Order

LEMMA SendTaskIInv ==
  ASSUME IInv, SendTask, open' = open \cup Work[NextTask],
         sent' = [sent EXCEPT ![Len(sent)] = Append(@, NextTask)], UNCHANGED rounds
  PROVE  IInv'
<1> DEFINE W == Work[NextTask]
<1>1. HasNextTask /\ ~OtherLevel
  BY DEF SendTask, get_total_level_tasks
<1>2. /\ NextTask \in WatcherTask /\ Received(current_working_task) \in Seq(WatcherTask)
      /\ Target \in Pe
  BY <1>1, CurrentTask
<1>3. /\ IsFiniteSet(W) /\ Cardinality(W) \in Nat
      /\ IsFiniteSet(open) /\ Cardinality(open) \in Nat
  BY <1>2, TrailAssumption, FS_CardinalityType DEF IInv
<1>4. /\ IsFiniteSet(open \cup W) /\ Cardinality(open \cup W) \in Nat
      /\ Cardinality(open \cup W) = Cardinality(open) + Cardinality(W)
  <2>1. open \cap W = {} /\ Cardinality({}) = 0
    BY <1>1, NextWorkIsNew, FS_EmptySet
  <2>2. /\ IsFiniteSet(open \cup W)
        /\ Cardinality(open \cup W) =
             Cardinality(open) + Cardinality(W) - Cardinality(open \cap W)
    BY <1>3, FS_Union
  <2> HIDE DEF W
  <2>3. Cardinality(open \cup W) = Cardinality(open) + Cardinality(W) - 0
    BY <2>1, <2>2
  <2> QED BY <1>3, <2>2, <2>3
<1>5. current_level_remaining' \in Nat
  BY <1>3 DEF SendTask, get_total_level_tasks, IInv, TypeOK, TrailTypeOK
<1>6. TypeOK'
  <2>1. Sent(watcher_sender[Target], NextTask) \in Seq(WatcherTask)
        /\ sent' \in Seq(Seq(WatcherTask))
    BY <1>2, SentType, SendTaskOrder DEF IInv, TypeOK, TrailTypeOK
  <2> QED BY <1>2, <1>5, <2>1 DEF SendTask, get_total_level_tasks, Returns, IInv, TypeOK, TrailTypeOK
<1>7. CountersMeasureOpenWork'
  <2> SUFFICES ASSUME LevelSync
               PROVE  current_level_remaining'
                        = current_level_finished_tasks' + Cardinality(open')
    BY DEF CountersMeasureOpenWork
  <2>1. /\ current_level_remaining' = current_level_remaining + Cardinality(W)
        /\ current_level_finished_tasks' = current_level_finished_tasks
    BY DEF SendTask, get_total_level_tasks
  <2>2. /\ current_level_remaining = current_level_finished_tasks + Cardinality(open)
        /\ current_level_finished_tasks \in Nat /\ current_level_remaining \in Nat
    BY DEF IInv, CountersMeasureOpenWork, TypeOK, TrailTypeOK
  <2>3. Cardinality(open') = Cardinality(open) + Cardinality(W)
    BY <1>4
  <2> HIDE DEF W
  <2> QED BY <1>3, <2>1, <2>2, <2>3
<1>8. OneLevelOpen'
  <2> SUFFICES ASSUME LevelSync, NEW t \in WatcherTask, Work[t] \cap open' # {}
               PROVE  Level[t] = current_processing_level'
    BY DEF OneLevelOpen
  <2>1. current_processing_level' = current_processing_level
        /\ Level[NextTask] = current_processing_level
    BY <1>1 DEF SendTask, get_total_level_tasks, OtherLevel
  <2>2. CASE t = NextTask
    BY <2>1, <2>2
  <2>3. CASE t # NextTask
    <3>1. Work[t] \cap open # {}
      BY <1>2, <2>3, TrailAssumption
    <3> QED BY <2>1, <3>1 DEF IInv, OneLevelOpen
  <2> QED BY <2>2, <2>3
<1>9. Order'
  BY SendTaskOrder
<1> QED BY <1>4, <1>6, <1>7, <1>8, <1>9 DEF IInv

LEMMA WorkFinishesIInv ==
  ASSUME IInv, WorkFinishes
  PROVE  IInv'
<1>1. PICK w \in open : open' = open \ {w}
  BY DEF WorkFinishes
<1>2. /\ IsFiniteSet(open') /\ Cardinality(open') = Cardinality(open) - 1
      /\ Cardinality(open) \in Nat /\ Cardinality(open') \in Nat
  BY <1>1, FS_RemoveElement, FS_CardinalityType DEF IInv
<1>3. TypeOK'
  BY <1>1 DEF WorkFinishes, levelState, IInv, TypeOK, TrailTypeOK
<1>4. CountersMeasureOpenWork'
  BY <1>2 DEF WorkFinishes, CountersMeasureOpenWork, IInv, TypeOK, TrailTypeOK
<1>5. OneLevelOpen'
  BY <1>1 DEF WorkFinishes, OneLevelOpen, IInv
<1>6. Order'
  BY <1>1 DEF WorkFinishes, IInv, Order, SentInOrder, Working, WorkingHasBegun, OpenIsSent
<1> QED BY <1>2, <1>3, <1>4, <1>5, <1>6 DEF IInv

(* Every other step leaves the counters, the level and the open work alone. *)
LEMMA QuietIInv ==
  ASSUME IInv, TypeOK', Order', UNCHANGED <<levelState, open>>
  PROVE  IInv'
BY DEF IInv, levelState, CountersMeasureOpenWork, OneLevelOpen

(* The next round begins with none of its tasks sent; the round before it   *)
(* is at its end.                                                           *)
LEMMA StartRoundIInv ==
  ASSUME IInv, StartRound, sent' = Append(sent, <<>>), UNCHANGED <<rounds, open>>
  PROVE  IInv' /\ UNCHANGED levelState
<1> DEFINE n == Len(sent)
<1>1. /\ task_receiver # <<>> /\ current_working_task' = Head(task_receiver)
      /\ task_receiver' = Tail(task_receiver) /\ Working = <<>>
  BY DEF StartRound, Received, HasNextTask, Working
<1>2. /\ sent \in Seq(Seq(WatcherTask)) /\ task_receiver \in Seq(Seq(WatcherTask))
      /\ rounds \in Seq(Seq(WatcherTask)) /\ Rounds \in Seq(Seq(WatcherTask))
      /\ <<>> \in Seq(WatcherTask) /\ n \in Nat /\ Len(Rounds) \in Nat
  BY EmptySeq, LenProperties, RoundsAssumption DEF IInv, TypeOK, TrailTypeOK
<1>3. Head(task_receiver) \in Seq(WatcherTask) /\ Tail(task_receiver) \in Seq(Seq(WatcherTask))
  BY <1>1, <1>2, HeadTailProperties
<1>4. Working' = Head(task_receiver)
  BY <1>1, <1>3, TrailAssumption DEF Working
<1>5. /\ sent' \in Seq(Seq(WatcherTask)) /\ sent' # <<>> /\ Len(sent') = n + 1
      /\ sent'[n + 1] = <<>> /\ \A i \in 1 .. n : sent'[i] = sent[i]
      /\ DOMAIN sent' = 1 .. n + 1 /\ DOMAIN sent = 1 .. n
  BY <1>2, AppendProperties, LenProperties
<1>6. TypeOK'
  BY <1>1, <1>2, <1>3, <1>5 DEF StartRound, Returns, levelState, IInv, TypeOK, TrailTypeOK
<1>7. /\ n + 1 \in DOMAIN Rounds /\ Rounds[n + 1] = Head(task_receiver)
      /\ Tail(task_receiver) \o rounds = SubSeq(Rounds, n + 2, Len(Rounds))
  <2> DEFINE waiting == SubSeq(Rounds, n + 1, Len(Rounds))
  <2>1. task_receiver \o rounds = waiting
    BY DEF IInv, Order, SentInOrder
  <2>2. Head(waiting) = Head(task_receiver) /\ Tail(waiting) = Tail(task_receiver) \o rounds
    BY <1>1, <1>2, <2>1, HeadTailOfConcat
  <2>3. n + 1 <= Len(Rounds)
    <3>1. waiting # <<>>
      <4>1. task_receiver \o rounds = <<>> <=> task_receiver = <<>> /\ rounds = <<>>
        BY <1>2, ConcatEqualIffEmpty
      <4> QED BY <1>1, <2>1, <4>1
    <3>2. CASE Len(Rounds) < n + 1
      BY <1>2, <3>1, <3>2, SubSeqEmpty
    <3> QED BY <1>2, <3>2
  <2>4. n + 1 \in 1 .. Len(Rounds) /\ Len(Rounds) \in n + 1 .. Len(Rounds)
    BY <1>2, <2>3
  <2>5. Head(waiting) = Rounds[n + 1] /\ Tail(waiting) = SubSeq(Rounds, (n + 1) + 1, Len(Rounds))
    BY <1>2, <2>4, HeadTailOfSubSeq
  <2>6. (n + 1) + 1 = n + 2
    BY <1>2
  <2>7. n + 1 \in DOMAIN Rounds
    BY <1>2, <2>4, LenProperties
  <2> QED BY <2>2, <2>5, <2>6, <2>7
<1>8. SentInOrder'
  <2>1. ASSUME NEW i \in 1 .. n + 1
        PROVE  /\ i \in DOMAIN Rounds
               /\ Rounds[i] = sent'[i] \o IF i = n + 1 THEN Working' ELSE <<>>
    <3>1. CASE i = n + 1
      BY <1>3, <1>4, <1>5, <1>7, <3>1, ConcatEmptySeq
    <3>2. CASE i # n + 1
      <4>1. i \in 1 .. n
        BY <1>2, <3>2
      <4>2. i \in DOMAIN Rounds /\ Rounds[i] = sent[i] \o <<>>
        BY <1>1, <1>5, <4>1 DEF IInv, Order, SentInOrder
      <4> QED BY <1>5, <3>2, <4>1, <4>2
    <3> QED BY <3>1, <3>2
  <2>2. Len(sent') + 1 = n + 2
    BY <1>2, <1>5
  <2> QED BY <1>1, <1>5, <1>7, <2>1, <2>2 DEF SentInOrder
<1>9. WorkingHasBegun' /\ OpenIsSent'
  <2>1. ASSUME NEW i \in DOMAIN sent PROVE i \in DOMAIN sent' /\ sent'[i] = sent[i]
    BY <1>2, <1>5
  <2>2. OpenIsSent'
    BY <2>1 DEF IInv, Order, OpenIsSent
  <2> QED BY <1>5, <2>2 DEF WorkingHasBegun
<1> QED BY <1>6, <1>8, <1>9, QuietIInv DEF StartRound, Order

(* Updates that send nothing and begin no round, other than a change of     *)
(* level.                                                                   *)
LEMMA OtherUpdatesIInv ==
  ASSUME IInv, UNCHANGED <<task_receiver, rounds, open, sent>>,
         WaitForLevel \/ SendTaskBlocked \/ StartRound \/ EndRound \/ NoRound
  PROVE  IInv' /\ UNCHANGED levelState
<1>1. CASE WaitForLevel \/ SendTaskBlocked
  <2>1. current_working_task' = current_working_task
    BY <1>1, CurrentTask DEF WaitForLevel, SendTaskBlocked
  <2>2. TypeOK'
    BY <1>1, <2>1 DEF WaitForLevel, SendTaskBlocked, Returns, levelState,
                      IInv, TypeOK, TrailTypeOK
  <2>3. Order'
    BY <2>1 DEF IInv, Order, SentInOrder, Working, WorkingHasBegun, OpenIsSent
  <2> QED BY <1>1, <2>2, <2>3, QuietIInv DEF WaitForLevel, SendTaskBlocked
<1>2. CASE StartRound
  <2>1. Len(Received(task_receiver)) = Len(task_receiver) - 1 /\ Len(task_receiver) \in Nat
    BY <1>2, ReceivedType DEF StartRound, IInv, TypeOK, TrailTypeOK
  <2>2. Received(task_receiver) = task_receiver
    BY <1>2 DEF StartRound
  <2> QED BY <2>1, <2>2
<1>3. CASE EndRound \/ NoRound
  <2>1. TypeOK'
    BY <1>3 DEF EndRound, NoRound, Returns, levelState, IInv, TypeOK, TrailTypeOK
  <2>2. Working' = Working /\ (current_working_task' # None => current_working_task # None)
    BY <1>3 DEF EndRound, NoRound, Working
  <2>3. Order'
    BY <2>2 DEF IInv, Order, SentInOrder, WorkingHasBegun, OpenIsSent
  <2> QED BY <1>3, <2>1, <2>3, QuietIInv DEF EndRound, NoRound
<1> QED BY <1>1, <1>2, <1>3

LEMMA SurroundingsIInv ==
  ASSUME IInv, CallerSends \/ WatcherTakes
  PROVE  IInv' /\ UNCHANGED <<levelState, open>>
<1>1. CASE CallerSends
  <2>1. Head(rounds) \in Seq(WatcherTask) /\ Tail(rounds) \in Seq(Seq(WatcherTask))
    BY <1>1, ReceivedType DEF CallerSends, IInv, TypeOK
  <2>2. Sent(task_receiver, Head(rounds)) \in Seq(Seq(WatcherTask))
    BY <2>1, SentType DEF IInv, TypeOK, TrailTypeOK
  <2>3. TypeOK'
    BY <1>1, <2>1, <2>2 DEF CallerSends, levelState, IInv, TypeOK, TrailTypeOK
  <2>4. task_receiver' \o rounds' = task_receiver \o rounds
    BY <1>1, MoveKeepsConcat DEF CallerSends, Sent, IInv, TypeOK, TrailTypeOK
  <2>5. Order'
    BY <1>1, <2>4 DEF CallerSends, IInv, Order, SentInOrder, Working, WorkingHasBegun,
                      OpenIsSent
  <2> QED BY <1>1, <2>3, <2>5, QuietIInv DEF CallerSends
<1>2. CASE WatcherTakes
  <2>1. PICK p \in Pe : /\ watcher_sender[p] # <<>>
                        /\ watcher_sender' = [watcher_sender EXCEPT ![p] = Received(@)]
    BY <1>2 DEF WatcherTakes
  <2>2. Received(watcher_sender[p]) \in Seq(WatcherTask)
    BY <2>1, ReceivedType DEF IInv, TypeOK, TrailTypeOK
  <2>3. TypeOK'
    BY <1>2, <2>1, <2>2 DEF WatcherTakes, levelState, IInv, TypeOK, TrailTypeOK
  <2>4. Order'
    BY <1>2 DEF WatcherTakes, IInv, Order, SentInOrder, Working, WorkingHasBegun, OpenIsSent
  <2> QED BY <1>2, <2>3, <2>4, QuietIInv DEF WatcherTakes
<1> QED BY <1>1, <1>2

LEMMA NextIInv == IInv /\ [Next]_vars => IInv'
<1> SUFFICES ASSUME IInv, [Next]_vars PROVE IInv'
  OBVIOUS
<1>1. CASE TrailUpdate
  BY <1>1, SendTaskIInv, SwitchLevelIInv, StartRoundIInv, OtherUpdatesIInv
     DEF TrailUpdate, UpdateOtherwise
<1>2. CASE CallerSends \/ WatcherTakes
  BY <1>2, SurroundingsIInv
<1>3. CASE WorkFinishes
  BY <1>3, WorkFinishesIInv
<1>4. CASE UNCHANGED vars
  BY <1>4 DEF vars, trailVars, levelState, IInv, TypeOK, TrailTypeOK,
              CountersMeasureOpenWork, OneLevelOpen, Order, SentInOrder, Working,
              WorkingHasBegun, OpenIsSent
<1> QED BY <1>1, <1>2, <1>3, <1>4 DEF Next

(* Every variable of the trail has its type in every reachable state.      *)
THEOREM TrailTypeCorrect == Spec => []TypeOK
<1>1. IInv => TypeOK
  BY DEF IInv
<1> QED BY InitIInv, NextIInv, <1>1, PTL DEF Spec

(* With level_sync, work of two decision levels is never open at the same   *)
(* time (trail.rs:49-66).                                                   *)
THEOREM TrailKeepsLevelsApart == Spec => []OneLevelOpen
<1>1. IInv => OneLevelOpen
  BY DEF IInv
<1> QED BY InitIInv, NextIInv, <1>1, PTL DEF Spec

(* With level_sync, the counters of the trail differ by exactly the work    *)
(* that is open: what was sent and not finished (trail.rs:49-82).           *)
THEOREM TrailCountersMeasureOpenWork == Spec => []CountersMeasureOpenWork
<1>1. IInv => CountersMeasureOpenWork
  BY DEF IInv
<1> QED BY InitIInv, NextIInv, <1>1, PTL DEF Spec

(* The watchers get all tasks of all rounds, each once and in order: no     *)
(* outcome of an update loses, repeats or reorders a task (trail.rs:36-143). *)
THEOREM TrailSendsInOrder == Spec => []SentInOrder
<1>1. IInv => SentInOrder
  BY DEF IInv, Order
<1> QED BY InitIInv, NextIInv, <1>1, PTL DEF Spec

(* The trail with level_sync implements the barrier: every step of it is a  *)
(* step of LevelBarrier or changes neither the level nor the open work.    *)
THEOREM TrailIsBarrier == ASSUME LevelSync PROVE Spec => ImplementsBarrier
<1>1. EnvInit => Barrier!BarrierInit
  BY DEF EnvInit, TrailInit, Barrier!BarrierInit
<1>2. IInv /\ [Next]_vars => [Barrier!BarrierNext]_<<current_processing_level, open>>
  <2> SUFFICES ASSUME IInv, [Next]_vars
               PROVE  Barrier!BarrierNext \/ UNCHANGED <<current_processing_level, open>>
    OBVIOUS
  <2> USE DEF Barrier!BarrierNext
  <2>1. ASSUME SwitchLevel, UNCHANGED <<rounds, open, sent>> PROVE Barrier!ChangeLevel
    <3>1. open = {} /\ NextTask \in WatcherTask
      BY <2>1, SwitchLevelIInv, CurrentTask DEF SwitchLevel
    <3> QED BY <2>1, <3>1 DEF SwitchLevel, Barrier!ChangeLevel
  <2>2. ASSUME SendTask, open' = open \cup Work[NextTask] PROVE Barrier!StartWork
    <3>1. NextTask \in WatcherTask /\ Level[NextTask] = current_processing_level
      BY <2>2, CurrentTask DEF SendTask, OtherLevel
    <3> QED BY <2>2, <3>1 DEF SendTask, Barrier!StartWork
  <2>3. CASE WorkFinishes
    BY <2>3 DEF WorkFinishes, Barrier!FinishWork
  <2>4. CASE TrailUpdate
    BY <2>1, <2>2, <2>4, OtherUpdatesIInv, StartRoundIInv
       DEF TrailUpdate, UpdateOtherwise, levelState
  <2>5. CASE CallerSends \/ WatcherTakes
    BY <2>5, SurroundingsIInv DEF levelState
  <2>6. CASE UNCHANGED vars
    BY <2>6 DEF vars, trailVars, levelState
  <2> QED BY <2>3, <2>4, <2>5, <2>6 DEF Next
<1> QED BY InitIInv, NextIInv, <1>1, <1>2, PTL
        DEF Spec, ImplementsBarrier, Barrier!BarrierSpec
=============================================================================
