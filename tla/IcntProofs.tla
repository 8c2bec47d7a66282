----------------------------- MODULE IcntProofs -----------------------------
(***************************************************************************)
(* Theorems about the interconnect of IcntEnv, for any number of ports, any *)
(* delay and limit: its types, that it always reports progress while it is *)
(* busy, and that it implements OrderedNetwork.                            *)
(*                                                                         *)
(* The order rests on the cycles a message has left.  Those between the     *)
(* same ports have as many when they are taken, at most one of them is     *)
(* taken in an update, and before the next every message in transit has     *)
(* lost some (OnTime): so who was sent first leaves first (LeaveInOrder).   *)
(***************************************************************************)
EXTENDS IcntEnv, ChannelLemmas, FiniteSetTheorems,
        WellFoundedInduction

(* A mesh has a side: a number of ports lies between two squares.           *)
LEMMA RowSizeType == row_size \in 1 .. NPorts
<1> DEFINE Squares(n) == n * n
           T == {n \in Nat : n >= 1 /\ Squares(n + 1) > NPorts}
<1>0. NPorts \in Nat /\ NPorts >= 1
  BY IcntAssumption
<1>1. NPorts \in T
  <2>1. (NPorts + 1) * (NPorts + 1) > NPorts
    BY <1>0
  <2> QED BY <1>0, <2>1
<1>2. T \subseteq Nat /\ T # {}
  BY <1>1
<1>3. PICK n \in T : \A k \in T : n <= k
  <2> DEFINE R == OpToRel(<, Nat)
  <2>1. IsWellFoundedOn(R, Nat)
    BY NatLessThanWellFounded
  <2>2. R = {ss \in Nat \X Nat : ss[1] < ss[2]}
    BY DEF OpToRel
  <2> HIDE DEF R, T
  <2>3. PICK n \in T : \A k \in T : ~(<<k, n>> \in R)
    BY ONLY <1>2, <2>1, WFMin
  <2>4. \A k \in T : ~(k < n)
    BY <2>2, <2>3, <1>2
  <2> QED BY <2>4, <1>2
<1>4. n * n <= NPorts
  <2>1. CASE n = 1
    BY <2>1, <1>0
  <2>2. CASE n # 1
    <3>1. n - 1 \in Nat /\ n - 1 >= 1 /\ (n - 1) + 1 = n
      BY <2>2, <1>3
    <3>2. n - 1 \notin T
      BY <1>3, <3>1
    <3> QED BY <3>1, <3>2, <1>0
  <2> QED BY <2>1, <2>2
<1>5. n \in 1 .. NPorts
  <2>1. n \in Nat /\ n >= 1
    BY <1>3
  <2>2. n <= n * n
    BY <2>1
  <2>3. n * n \in Nat
    BY <2>1
  <2> QED BY <2>1, <2>2, <2>3, <1>4, <1>0
<1>6. (n + 1) * (n + 1) > NPorts
  BY <1>3
<1> QED BY <1>4, <1>5, <1>6 DEF row_size

(* A message takes a number of cycles.                                      *)
LEMMA CycleToGoType ==
  ASSUME NEW i \in Port, NEW j \in Port
  PROVE  cycle_to_go(i, j) \in Nat
<1>1. row_size \in Int /\ row_size > 0
  BY RowSizeType, IcntAssumption
<1>2. i \in Int /\ j \in Int
  BY IcntAssumption DEF Port
<1>3. /\ i \div row_size \in Int /\ j \div row_size \in Int
      /\ i % row_size \in Int /\ j % row_size \in Int
  BY <1>1, <1>2
<1>4. ASSUME NEW a \in Int, NEW b \in Int PROVE AbsDiff(a, b) \in Nat
  BY DEF AbsDiff
<1> HIDE DEF AbsDiff
<1>5. /\ AbsDiff(i \div row_size, j \div row_size) \in Nat
      /\ AbsDiff(i % row_size, j % row_size) \in Nat
  BY <1>3, <1>4
<1> QED BY <1>5 DEF cycle_to_go
-----------------------------------------------------------------------------
(* The results of update so far, and the messages in transit are finitely   *)
(* many: their ranks are numbers.                                          *)
ReportSoFar == (updated => busy) /\ (busy => updated \/ in_transit_messages # {})

IInv == TypeOK /\ IsFiniteSet(in_transit_messages) /\ ReportSoFar /\ BusyIsProgress

Transit == [msg : Message, left : Int]

LEMMA ImageFinite ==
  ASSUME NEW S, NEW T, IsFiniteSet(S), NEW f \in [S -> T], \A t \in T : \E x \in S : f[x] = t
  PROVE  IsFiniteSet(T)
<1>1. f \in Surjection(S, T)
  BY DEF Surjection
<1> QED BY <1>1, FS_Surjection

(* Time that passes leaves every message in transit and its cycles numbers. *)
LEMMA AgedType ==
  ASSUME NEW transit \in SUBSET Transit, IsFiniteSet(transit), NEW d \in Nat
  PROVE  /\ Aged(transit, d) \subseteq Transit
         /\ IsFiniteSet(Aged(transit, d))
         /\ Aged(transit, d) = {} <=> transit = {}
<1> DEFINE Later(o) == [o EXCEPT !.left = @ - d]
           later == {Later(o) : o \in transit}
           Negative == {p \in later : p.left < 0}
           Overdue == {o.left : o \in Negative}
           Rank(v) == -Cardinality({w \in Overdue : w >= v})
           Ranked(o) == [o EXCEPT !.left = IF @ < 0 THEN Rank(@) ELSE @]
<1>1. later \subseteq Transit /\ IsFiniteSet(later)
  <2>1. \A o \in Transit : Later(o) \in Transit
    BY DEF Transit
  <2> DEFINE f == [o \in transit |-> Later(o)]
  <2> HIDE DEF Later
  <2>2. f \in [transit -> later] /\ \A t \in later : \E o \in transit : f[o] = t
    OBVIOUS
  <2> HIDE DEF f, later
  <2>3. IsFiniteSet(later)
    BY <2>2, ImageFinite
  <2> USE DEF later
  <2> QED BY <2>1, <2>3
<1> HIDE DEF later
<1>2. \A v \in Int : Rank(v) \in Int
  <2>1. IsFiniteSet(Negative)
    BY <1>1, FS_Subset
  <2> DEFINE f == [o \in Negative |-> o.left]
  <2>2. f \in [Negative -> Overdue] /\ \A t \in Overdue : \E o \in Negative : f[o] = t
    OBVIOUS
  <2> HIDE DEF f, Overdue, Negative
  <2>3. IsFiniteSet(Overdue)
    BY <2>1, <2>2, ImageFinite
  <2> SUFFICES ASSUME NEW v \in Int PROVE Rank(v) \in Int
    OBVIOUS
  <2> DEFINE above == {w \in Overdue : w >= v}
  <2>4. IsFiniteSet(above)
    BY <2>3, FS_Subset
  <2> HIDE DEF above
  <2>5. Cardinality(above) \in Nat
    BY <2>4, FS_CardinalityType
  <2>6. -Cardinality(above) \in Int
    BY <2>5
  <2> QED BY <2>6 DEF above
<1> HIDE DEF Rank, later
<1>3. \A o \in Transit : Ranked(o) \in Transit
  BY <1>2 DEF Transit
<1>4. Aged(transit, d) = {Ranked(o) : o \in later}
  BY DEF Aged, Rank, later
<1> HIDE DEF Ranked
<1> DEFINE ranked == {Ranked(o) : o \in later}
<1>5. IsFiniteSet(ranked)
  <2> DEFINE f == [o \in later |-> Ranked(o)]
  <2>1. f \in [later -> ranked] /\ \A t \in ranked : \E o \in later : f[o] = t
    OBVIOUS
  <2> HIDE DEF f, ranked
  <2> QED BY <1>1, <2>1, ImageFinite
<1>6. later = {} <=> transit = {}
  BY DEF later
<1> QED BY <1>1, <1>3, <1>4, <1>5, <1>6

LEMMA InitInv == EnvInit => IInv
<1> SUFFICES ASSUME EnvInit PROVE IInv
  OBVIOUS
<1> USE DEF EnvInit, Init
<1>1. TypeOK
  BY EmptySeq DEF TypeOK
<1>2. IsFiniteSet(in_transit_messages)
  BY FS_EmptySet
<1> QED BY <1>1, <1>2 DEF IInv, ReportSoFar, BusyIsProgress

LEMMA NextPortType ==
  ASSUME NEW i \in Port
  PROVE  NextPort(i) \in {<<"take", k>> : k \in Port} \cup {<<"deliver", 0>>}
BY IcntAssumption DEF NextPort, Port

LEMMA NextInv == IInv /\ [Next]_vars => IInv'
<1> SUFFICES ASSUME IInv, [Next]_vars PROVE IInv'
  OBVIOUS
<1> USE DEF IInv
<1> USE EnvAssumption, IcntAssumption
<1>1. CASE ComponentSends
  <2>1. PICK m \in pending :
          /\ in_port' = [in_port EXCEPT ![SourcePort[m]] = Sent(@, m)]
          /\ pending' = pending \ {m}
          /\ sent' = [sent EXCEPT ![SourcePort[m]] = Append(@, m)]
    BY <1>1 DEF ComponentSends
  <2>2. /\ Sent(in_port[SourcePort[m]], m) \in Seq(Message)
        /\ Append(sent[SourcePort[m]], m) \in Seq(Message)
    BY <2>1, SentType DEF TypeOK
  <2>3. TypeOK'
    BY <1>1, <2>1, <2>2 DEF ComponentSends, TypeOK
  <2> QED BY <1>1, <2>3 DEF ComponentSends, ReportSoFar, BusyIsProgress
<1>2. ASSUME NEW i \in Port, ComponentTakes(i) PROVE IInv'
  <2>1. /\ Received(out_port[i]) \in Seq(Message)
        /\ Append(taken[i], Head(out_port[i])) \in Seq(Message)
    BY <1>2, ReceivedType, SentType DEF ComponentTakes, TypeOK
  <2>2. TypeOK'
    BY <1>2, <2>1 DEF ComponentTakes, TypeOK
  <2> QED BY <1>2, <2>2 DEF ComponentTakes, ReportSoFar, BusyIsProgress
<1>3. ASSUME NEW d \in Elapsed, Call(d), UNCHANGED envVars PROVE IInv'
  <2>1. d \in Nat /\ in_transit_messages \in SUBSET Transit
    BY DEF TypeOK, Transit
  <2>2. /\ in_transit_messages' \subseteq Transit
        /\ IsFiniteSet(in_transit_messages')
        /\ in_transit_messages' = {} <=> in_transit_messages = {}
    BY <1>3, <2>1, AgedType DEF Call
  <2>3. phase' \in {<<"take", k>> : k \in Port} \cup {<<"deliver", 0>>} /\ phase'[1] # "return"
    BY <1>3 DEF Call, Port
  <2>4. TypeOK'
    BY <1>3, <2>2, <2>3 DEF Call, TypeOK, Transit, envVars
  <2>5. BusyIsProgress'
    BY <2>3 DEF BusyIsProgress
  <2> QED BY <1>3, <2>2, <2>4, <2>5 DEF Call, ReportSoFar
<1>4. ASSUME NEW i \in Port, Take(i), UNCHANGED envVars PROVE IInv'
  <2> DEFINE m == Head(in_port[i])
             o == [msg |-> m, left |-> cycle_to_go(i, TargetPort[m])]
  <2>1. m \in Message /\ Received(in_port[i]) \in Seq(Message)
    BY <1>4, ReceivedType DEF Take, TypeOK
  <2>2. cycle_to_go(i, TargetPort[m]) \in Int
    BY <2>1, CycleToGoType
  <2>3. in_transit_messages' = in_transit_messages \cup {o} /\ o \in Transit
    BY <1>4, <2>1, <2>2 DEF Take, Transit
  <2> HIDE DEF o
  <2>4. IsFiniteSet(in_transit_messages')
    BY <2>3, FS_AddElement
  <2>5. phase' \in {<<"take", k>> : k \in Port} \cup {<<"deliver", 0>>} /\ phase'[1] # "return"
    BY <1>4, NextPortType DEF Take
  <2>6. TypeOK'
    BY <1>4, <2>1, <2>3, <2>5 DEF Take, TypeOK, Transit, envVars
  <2>7. BusyIsProgress'
    BY <2>5 DEF BusyIsProgress
  <2> QED BY <1>4, <2>4, <2>6, <2>7 DEF Take, ReportSoFar
<1>5. ASSUME NEW i \in Port, SkipPort(i), UNCHANGED envVars PROVE IInv'
  <2>1. phase' \in {<<"take", k>> : k \in Port} \cup {<<"deliver", 0>>} /\ phase'[1] # "return"
    BY <1>5, NextPortType DEF SkipPort
  <2>2. TypeOK'
    BY <1>5, <2>1 DEF SkipPort, TypeOK, envVars
  <2>3. BusyIsProgress'
    BY <2>1 DEF BusyIsProgress
  <2> QED BY <1>5, <2>2, <2>3 DEF SkipPort, ReportSoFar
<1>6. CASE Deliver /\ UNCHANGED envVars
  <2>1. PICK o \in in_transit_messages :
          /\ out_port' = [out_port EXCEPT ![TargetPort[o.msg]] = Sent(@, o.msg)]
          /\ in_transit_messages' = in_transit_messages \ {o}
    BY <1>6 DEF Deliver
  <2>2. o.msg \in Message
    BY <2>1 DEF TypeOK
  <2>3. Sent(out_port[TargetPort[o.msg]], o.msg) \in Seq(Message)
    BY <2>2, SentType DEF TypeOK
  <2>4. TypeOK'
    BY <1>6, <2>1, <2>2, <2>3 DEF Deliver, TypeOK, envVars
  <2>5. IsFiniteSet(in_transit_messages')
    BY <2>1, FS_RemoveElement
  <2> QED BY <1>6, <2>4, <2>5 DEF Deliver, ReportSoFar, BusyIsProgress
<1>7. CASE DeliverEnds /\ UNCHANGED envVars
  <2>1. in_transit_messages' = in_transit_messages
    BY <1>7 DEF DeliverEnds, PutBack
  <2>2. TypeOK'
    BY <1>7, <2>1 DEF DeliverEnds, TypeOK, envVars
  <2>3. busy' = updated'
    BY <1>7 DEF DeliverEnds, TypeOK, ReportSoFar, PopIsProgress
  <2> QED BY <1>7, <2>1, <2>2, <2>3 DEF DeliverEnds, ReportSoFar, BusyIsProgress, PopIsProgress
<1>8. CASE UNCHANGED vars
  BY <1>8 DEF vars, icntVars, envVars, TypeOK, ReportSoFar, BusyIsProgress
<1> QED BY <1>1, <1>2, <1>3, <1>4, <1>5, <1>6, <1>7, <1>8 DEF Next, Step

LEMMA SpecInv == Spec => []IInv
BY InitInv, NextInv, PTL DEF Spec

(* Every state of the interconnect is well typed, for every number of       *)
(* ports, every delay and every limit.                                     *)
THEOREM IcntTypeCorrect == Spec => []TypeOK
<1>1. IInv => TypeOK
  BY DEF IInv
<1> QED BY <1>1, SpecInv, PTL

(* A busy interconnect always reports progress, also when all it did was to *)
(* pop and push back a message whose port is full (icnt.rs:125): it can hide *)
(* a stall of the components around it, but never makes one be reported.    *)
THEOREM IcntBusyIsProgress == Spec => []BusyIsProgress
<1>1. IInv => BusyIsProgress
  BY DEF IInv
<1> QED BY <1>1, SpecInv, PTL
-----------------------------------------------------------------------------
(* The order of the messages.  Time keeps the order of the leaving cycles   *)
(* and takes something from each, unless the message is overdue.            *)
LEMMA AgedOrder ==
  ASSUME NEW transit \in SUBSET Transit, IsFiniteSet(transit), NEW d \in Nat \ {0}
  PROVE  \E f \in [Int -> Int] :
           /\ \A v, w \in Int : (\E o \in transit : o.left = v) /\ v < w => f[v] < f[w]
           /\ \A v \in Int : f[v] < v \/ f[v] < 0 \/ v \notin {o.left : o \in transit}
           /\ Aged(transit, d) = {[msg |-> o.msg, left |-> f[o.left]] : o \in transit}
<1> DEFINE later == {[o EXCEPT !.left = @ - d] : o \in transit}
           Negative == {p \in later : p.left < 0}
           Overdue == {o.left : o \in Negative}
           Above(v) == {w \in Overdue : w >= v}
           Rank(v) == -Cardinality(Above(v))
           f == [v \in Int |-> IF v - d < 0 THEN Rank(v - d) ELSE v - d]
<1>1. later = {[msg |-> o.msg, left |-> o.left - d] : o \in transit}
  BY DEF Transit
<1>14. /\ \A o \in transit : \E p \in later : p.msg = o.msg /\ p.left = o.left - d
       /\ \A p \in later : \E o \in transit : p = [msg |-> o.msg, left |-> o.left - d]
                                               /\ p.msg = o.msg /\ p.left = o.left - d
  <2>1. \A o \in transit : [msg |-> o.msg, left |-> o.left - d] \in later
    BY <1>1
  <2>2. \A p \in later : \E o \in transit : p = [msg |-> o.msg, left |-> o.left - d]
    BY <1>1
  <2> HIDE DEF later
  <2>3. ASSUME NEW o \in transit PROVE \E p \in later : p.msg = o.msg /\ p.left = o.left - d
    <3>1. PICK p \in later : p = [msg |-> o.msg, left |-> o.left - d]
      BY <2>1
    <3> QED BY <3>1
  <2> QED BY <2>2, <2>3
<1>0. later \subseteq [msg : Message, left : Int]
  <2>1. \A o \in transit : o.left - d \in Int /\ o.msg \in Message
    BY DEF Transit
  <2> QED BY <1>1, <2>1
<1>2. Overdue = {o.left - d : o \in {p \in transit : p.left - d < 0}}
  <2>1. ASSUME NEW x PROVE x \in Overdue <=> \E o \in later : o.left < 0 /\ x = o.left
    OBVIOUS
  <2>2. ASSUME NEW x
        PROVE  (\E o \in later : o.left < 0 /\ x = o.left)
                 <=> \E o \in transit : o.left - d < 0 /\ x = o.left - d
    <3> HIDE DEF later
    <3> QED BY <1>14
  <2> HIDE DEF later
  <2> QED BY <2>1, <2>2
<1>3. Aged(transit, d) = {[o EXCEPT !.left = IF @ < 0 THEN Rank(@) ELSE @] : o \in later}
  BY DEF Aged
<1>4. Aged(transit, d) = {[msg |-> o.msg, left |-> f[o.left]] : o \in transit}
  <2> DEFINE G(v) == IF v < 0 THEN Rank(v) ELSE v
  <2>1. Aged(transit, d) = {[msg |-> o.msg, left |-> G(o.left)] : o \in later}
    <3>1. \A o \in later : [o EXCEPT !.left = IF @ < 0 THEN Rank(@) ELSE @]
                               = [msg |-> o.msg, left |-> G(o.left)]
      BY <1>0
    <3> HIDE DEF Rank, G, later
    <3> QED BY <1>3, <3>1
  <2>2. \A v \in Int : f[v] = G(v - d)
    OBVIOUS
  <2> HIDE DEF G, f, later
  <2>3. \A o \in transit : o.left \in Int
    BY DEF Transit
  <2>4. \A o \in transit : f[o.left] = G(o.left - d)
    BY <2>2, <2>3
  <2>5. {[msg |-> o.msg, left |-> G(o.left)] : o \in later}
          = {[msg |-> o.msg, left |-> G(o.left - d)] : o \in transit}
    BY <1>14
  <2> QED BY <2>1, <2>4, <2>5
<1> HIDE DEF later
<1>5. IsFiniteSet(Overdue)
  <2> DEFINE late == {p \in transit : p.left - d < 0}
             g == [o \in late |-> o.left - d]
  <2>1. IsFiniteSet(late)
    BY FS_Subset
  <2>2. g \in [late -> Overdue] /\ \A t \in Overdue : \E o \in late : g[o] = t
    BY <1>2
  <2> HIDE DEF g, late, Overdue
  <2> QED BY <2>1, <2>2, ImageFinite
<1>6. Overdue \subseteq Int
  BY <1>2 DEF Transit
<1> HIDE DEF Overdue
<1>7. ASSUME NEW v \in Int PROVE /\ IsFiniteSet(Above(v)) /\ Cardinality(Above(v)) \in Nat
                                 /\ Rank(v) \in Int
  <2>1. IsFiniteSet(Above(v))
    BY <1>5, FS_Subset
  <2> HIDE DEF Above
  <2> QED BY <2>1, FS_CardinalityType
<1>8. ASSUME NEW v \in Overdue, NEW w \in Int, v < w PROVE Rank(v) < Rank(w)
  <2>0. v \in Int /\ \A x \in Overdue : x \in Int /\ (x >= w => x >= v)
    BY <1>6, <1>8
  <2>1. Above(w) \in SUBSET Above(v) /\ v \in Above(v) /\ v \notin Above(w) /\ v \in Int
    <3>1. Above(w) \subseteq Above(v)
      BY <2>0
    <3>2. v \in Above(v)
      BY <2>0
    <3>3. v \notin Above(w)
      BY <1>8, <2>0
    <3> QED BY <2>0, <3>1, <3>2, <3>3
  <2> HIDE DEF Above
  <2>2. Cardinality(Above(w)) <= Cardinality(Above(v)) /\ Cardinality(Above(w)) # Cardinality(Above(v))
    BY <1>7, <2>1, FS_Subset
  <2> QED BY <1>7, <2>1, <2>2
<1>9. ASSUME NEW v \in Overdue PROVE Rank(v) < 0
  <2>1. v \in Above(v) /\ v \in Int
    BY <1>6
  <2> HIDE DEF Above
  <2>2. Cardinality(Above(v)) # 0
    BY <1>7, <2>1, FS_EmptySet
  <2> QED BY <1>7, <2>1, <2>2
<1> HIDE DEF Rank
<1>10. f \in [Int -> Int] /\ \A v \in Int : f[v] = IF v - d < 0 THEN Rank(v - d) ELSE v - d
  <2>1. \A v \in Int : v - d \in Int
    OBVIOUS
  <2>2. \A v \in Int : Rank(v - d) \in Int
    BY <1>7, <2>1
  <2> QED BY <2>1, <2>2
<1>11. \A o \in transit : o.left - d < 0 => o.left - d \in Overdue
  BY <1>2
<1>12. ASSUME NEW v \in Int, NEW w \in Int, NEW o \in transit, o.left = v, v < w
       PROVE  f[v] < f[w]
  <2> HIDE DEF f
  <2>0. v - d \in Int /\ w - d \in Int /\ v - d < w - d
    BY <1>12
  <2>1. CASE v - d < 0 /\ w - d < 0
    <3>1. Rank(v - d) < Rank(w - d)
      BY <1>8, <1>11, <1>12, <2>0, <2>1
    <3> QED BY <1>10, <2>1, <3>1
  <2>2. CASE v - d < 0 /\ ~(w - d < 0)
    <3>1. Rank(v - d) < 0 /\ Rank(v - d) \in Int
      BY <1>7, <1>9, <1>11, <1>12, <2>0, <2>2
    <3> QED BY <1>10, <2>0, <2>2, <3>1
  <2>3. CASE ~(v - d < 0)
    <3>1. ~(w - d < 0)
      BY <2>0, <2>3
    <3> QED BY <1>10, <2>0, <2>3, <3>1
  <2> QED BY <2>1, <2>2, <2>3
<1>13. ASSUME NEW v \in Int, NEW o \in transit, o.left = v PROVE f[v] < v \/ f[v] < 0
  <2>1. CASE v - d < 0
    BY <1>9, <1>11, <1>13, <2>1
  <2>2. CASE ~(v - d < 0)
    BY <2>2
  <2> QED BY <2>1, <2>2
<1> HIDE DEF f
<1> QED BY <1>4, <1>10, <1>12, <1>13

(* What is on its way, in the order in which it was sent.                   *)
Delay(m) == cycle_to_go(SourcePort[m], TargetPort[m])

\* Every component's messages, as sent and as they still wait in its port.
SendsInOrder ==
  \A i \in Port :
    /\ IsInjective(sent[i]) /\ IsInjective(in_port[i])
    /\ \A m \in Range(sent[i]) : SourcePort[m] = i /\ m \notin pending
    /\ Range(in_port[i]) \subseteq Range(sent[i])
    /\ \A k, l \in DOMAIN in_port[i] : k < l => Network!SentBefore(in_port[i][k], in_port[i][l])

\* A message in transit was sent before all that still wait in its port.
TransitFirst ==
  \A o \in in_transit_messages :
    /\ o.msg \in Range(sent[SourcePort[o.msg]])
    /\ o.msg \notin Range(in_port[SourcePort[o.msg]])
    /\ \A m \in Range(in_port[SourcePort[o.msg]]) : Network!SentBefore(o.msg, m)

\* Between two ports, who was sent first leaves first.
LeaveInOrder ==
  \A o, p \in in_transit_messages :
    /\ o.msg = p.msg => o = p
    /\ Network!SentBefore(o.msg, p.msg) /\ TargetPort[o.msg] = TargetPort[p.msg]
         => o.left < p.left

\* No message has more cycles left than its way takes, and fewer until the
\* port it came from has been visited again.
OnTime ==
  \A o \in in_transit_messages :
    /\ o.left <= Delay(o.msg)
    /\ phase[1] = "take" /\ phase[2] <= SourcePort[o.msg] => o.left < Delay(o.msg)

OInv == SendsInOrder /\ TransitFirst /\ LeaveInOrder /\ OnTime

LEMMA SentBeforeOrder ==
  ASSUME TypeOK, SendsInOrder, NEW n, NEW m, Network!SentBefore(n, m)
  PROVE  /\ n # m /\ ~Network!SentBefore(m, n)
         /\ n \in Message /\ m \in Message
         /\ SourcePort[n] \in Port /\ SourcePort[n] = SourcePort[m]
         /\ n \in Range(sent[SourcePort[n]]) /\ m \in Range(sent[SourcePort[n]])
<1>1. ASSUME NEW a, NEW b, NEW i \in Port, NEW k \in DOMAIN sent[i], NEW l \in DOMAIN sent[i],
             k < l, sent[i][k] = a, sent[i][l] = b
      PROVE  /\ SourcePort[a] = i /\ SourcePort[b] = i /\ a # b
             /\ a \in Range(sent[i]) /\ b \in Range(sent[i])
             /\ a \in Message /\ b \in Message /\ k \in Nat /\ l \in Nat
  <2>1. sent[i] \in Seq(Message) /\ IsInjective(sent[i])
    BY DEF TypeOK, SendsInOrder
  <2>2. k \in 1 .. Len(sent[i]) /\ l \in 1 .. Len(sent[i]) /\ Len(sent[i]) \in Nat
    BY <2>1
  <2>3. a \in Range(sent[i]) /\ b \in Range(sent[i])
    BY <1>1 DEF Range
  <2>4. a # b
    BY <1>1, <2>1, <2>2 DEF IsInjective
  <2>5. a \in Message /\ b \in Message
    BY <1>1, <2>1, <2>2
  <2> QED BY <2>2, <2>3, <2>4, <2>5 DEF SendsInOrder
<1>0. PICK i \in Port : \E k, l \in DOMAIN sent[i] : k < l /\ sent[i][k] = n /\ sent[i][l] = m
  BY DEF Network!SentBefore
<1>2. PICK k \in DOMAIN sent[i], l \in DOMAIN sent[i] :
        k < l /\ sent[i][k] = n /\ sent[i][l] = m
  BY <1>0
<1>3. ASSUME NEW j \in Port, NEW x \in DOMAIN sent[j], NEW y \in DOMAIN sent[j],
             x < y, sent[j][x] = m, sent[j][y] = n
      PROVE  FALSE
  <2>1. j = i /\ IsInjective(sent[i])
    BY <1>1, <1>2, <1>3 DEF SendsInOrder
  <2>2. x = l /\ y = k
    BY <1>2, <1>3, <2>1 DEF IsInjective
  <2> QED BY <1>1, <1>2, <1>3, <2>1, <2>2
<1>4. ~Network!SentBefore(m, n)
  BY <1>3 DEF Network!SentBefore
<1> QED BY <1>1, <1>2, <1>4

\* A message that is sent comes after those sent from its port.
LEMMA SendOrders ==
  ASSUME TypeOK, NEW m \in Message, sent' = [sent EXCEPT ![SourcePort[m]] = Append(@, m)]
  PROVE  \A n, y : Network!SentBefore(n, y)' <=> \/ Network!SentBefore(n, y)
                                                 \/ y = m /\ n \in Range(sent[SourcePort[m]])
<1>1. PICK s \in Port : s = SourcePort[m]
  BY EnvAssumption
<1>2. PICK t \in Seq(Message) : t = sent[s]
  BY DEF TypeOK
<1>3. sent'[s] = Append(t, m) /\ \A i \in Port \ {s} : sent'[i] = sent[i]
  BY <1>1, <1>2 DEF TypeOK
<1>4. /\ Append(t, m) \in Seq(Message) /\ Len(Append(t, m)) = Len(t) + 1 /\ Len(t) \in Nat
      /\ DOMAIN Append(t, m) = 1 .. Len(t) + 1 /\ DOMAIN t = 1 .. Len(t)
      /\ \A k \in 1 .. Len(t) : Append(t, m)[k] = t[k]
      /\ Append(t, m)[Len(t) + 1] = m
  BY AppendProperties
<1> DEFINE In(f, n, y) == \E k, l \in DOMAIN f : k < l /\ f[k] = n /\ f[l] = y
<1>5. ASSUME NEW n, NEW y
      PROVE  In(Append(t, m), n, y) <=> In(t, n, y) \/ (y = m /\ n \in Range(t))
  <2>1. ASSUME In(Append(t, m), n, y) PROVE In(t, n, y) \/ (y = m /\ n \in Range(t))
    <3>1. PICK k, l \in 1 .. Len(t) + 1 : k < l /\ Append(t, m)[k] = n /\ Append(t, m)[l] = y
      BY <1>4, <2>1
    <3>2. k \in 1 .. Len(t) /\ t[k] = n
      BY <1>4, <3>1
    <3>3. CASE l = Len(t) + 1
      BY <1>4, <3>1, <3>2, <3>3 DEF Range
    <3>4. CASE l # Len(t) + 1
      BY <1>4, <3>1, <3>2, <3>4
    <3> QED BY <3>3, <3>4
  <2>2. ASSUME In(t, n, y) PROVE In(Append(t, m), n, y)
    <3>1. PICK k, l \in 1 .. Len(t) : k < l /\ t[k] = n /\ t[l] = y
      BY <1>4, <2>2
    <3> QED BY <1>4, <3>1
  <2>3. ASSUME y = m, n \in Range(t) PROVE In(Append(t, m), n, y)
    <3>1. PICK k \in 1 .. Len(t) : t[k] = n
      BY <1>4, <2>3 DEF Range
    <3>2. k \in 1 .. Len(t) + 1 /\ Len(t) + 1 \in 1 .. Len(t) + 1 /\ k < Len(t) + 1
      BY <1>4
    <3> QED BY <1>4, <2>3, <3>1, <3>2
  <2> QED BY <2>1, <2>2, <2>3
<1> HIDE DEF In
<1>6. \A n, y : Network!SentBefore(n, y) <=> \E i \in Port : In(sent[i], n, y)
  BY DEF In, Network!SentBefore
<1>7. \A n, y : Network!SentBefore(n, y)' <=> \E i \in Port : In(sent'[i], n, y)
  BY DEF In, Network!SentBefore
<1> QED BY <1>1, <1>2, <1>3, <1>5, <1>6, <1>7

LEMMA SentStays ==
  ASSUME UNCHANGED sent
  PROVE  \A n, m : Network!SentBefore(n, m)' <=> Network!SentBefore(n, m)
BY DEF Network!SentBefore

LEMMA DelayType ==
  ASSUME NEW m \in Message
  PROVE  SourcePort[m] \in Port /\ TargetPort[m] \in Port /\ Delay(m) \in Nat
<1>1. SourcePort[m] \in Port /\ TargetPort[m] \in Port
  BY EnvAssumption, IcntAssumption
<1> QED BY <1>1, CycleToGoType DEF Delay

LEMMA InitOInv == EnvInit => OInv
<1> SUFFICES ASSUME EnvInit PROVE OInv
  OBVIOUS
<1>1. Range(<<>>) = {} /\ IsInjective(<<>>) /\ DOMAIN <<>> = {}
  BY EmptySeq DEF Range, IsInjective
<1>2. SendsInOrder
  BY <1>1 DEF SendsInOrder, EnvInit, Init
<1>3. TransitFirst /\ LeaveInOrder /\ OnTime
  BY DEF TransitFirst, LeaveInOrder, OnTime, EnvInit, Init
<1> QED BY <1>2, <1>3 DEF OInv

LEMMA SendsOInv ==
  ASSUME IInv, OInv, ComponentSends
  PROVE  OInv'
<1>1. PICK m \in pending :
        /\ in_port' = [in_port EXCEPT ![SourcePort[m]] = Sent(@, m)]
        /\ pending' = pending \ {m}
        /\ sent' = [sent EXCEPT ![SourcePort[m]] = Append(@, m)]
  BY DEF ComponentSends
<1>2. m \in Message /\ SourcePort[m] \in Port /\ TypeOK
  BY <1>1, DelayType DEF IInv, TypeOK
<1>3. PICK s \in Port : s = SourcePort[m]
  BY <1>2
<1>4. \A n, y : Network!SentBefore(n, y)' <=> Network!SentBefore(n, y) \/ (y = m /\ n \in Range(sent[s]))
  BY <1>1, <1>2, <1>3, SendOrders
<1>5. /\ sent[s] \in Seq(Message) /\ in_port[s] \in Seq(Message)
      /\ sent'[s] = Append(sent[s], m) /\ in_port'[s] = Append(in_port[s], m)
      /\ \A i \in Port \ {s} : sent'[i] = sent[i] /\ in_port'[i] = in_port[i]
  BY <1>1, <1>2, <1>3 DEF TypeOK, Sent
<1>6. m \notin Range(sent[s]) /\ m \notin Range(in_port[s])
  BY <1>1 DEF OInv, SendsInOrder
<1>7. /\ Range(sent'[s]) = Range(sent[s]) \cup {m} /\ IsInjective(sent'[s])
      /\ Range(in_port'[s]) = Range(in_port[s]) \cup {m} /\ IsInjective(in_port'[s])
  BY <1>2, <1>5, <1>6, AppendRange DEF OInv, SendsInOrder
<1>8. ASSUME NEW k \in DOMAIN in_port'[s], NEW l \in DOMAIN in_port'[s], k < l
      PROVE  Network!SentBefore(in_port[s][k], in_port[s][l])'
  <2>1. /\ DOMAIN in_port'[s] = 1 .. Len(in_port[s]) + 1 /\ DOMAIN in_port[s] = 1 .. Len(in_port[s])
        /\ Len(in_port[s]) \in Nat
        /\ \A x \in 1 .. Len(in_port[s]) : in_port'[s][x] = in_port[s][x]
        /\ in_port'[s][Len(in_port[s]) + 1] = m
    BY <1>2, <1>5, AppendProperties
  <2>2. k \in DOMAIN in_port[s] /\ in_port'[s][k] = in_port[s][k]
    BY <1>8, <2>1
  <2>3. in_port[s][k] \in Range(sent[s])
    <3>1. in_port[s][k] \in Range(in_port[s])
      BY <2>2 DEF Range
    <3> QED BY <3>1 DEF OInv, SendsInOrder
  <2>4. CASE l = Len(in_port[s]) + 1
    BY <1>4, <2>1, <2>2, <2>3, <2>4
  <2>5. CASE l # Len(in_port[s]) + 1
    <3>1. l \in DOMAIN in_port[s] /\ in_port'[s][l] = in_port[s][l]
      BY <2>1, <2>5
    <3>2. Network!SentBefore(in_port[s][k], in_port[s][l])
      BY <1>8, <2>2, <3>1 DEF OInv, SendsInOrder
    <3> QED BY <1>4, <2>2, <3>1, <3>2
  <2> QED BY <2>4, <2>5
<1>9. SendsInOrder'
  <2>1. ASSUME NEW i \in Port, i # s
        PROVE  /\ IsInjective(sent'[i]) /\ IsInjective(in_port'[i])
               /\ \A n \in Range(sent'[i]) : SourcePort[n] = i /\ n \notin pending'
               /\ Range(in_port'[i]) \subseteq Range(sent'[i])
               /\ \A k, l \in DOMAIN in_port'[i] : k < l =>
                    Network!SentBefore(in_port[i][k], in_port[i][l])'
    BY <1>1, <1>4, <1>5, <2>1 DEF OInv, SendsInOrder
  <2>2. /\ \A n \in Range(sent'[s]) : SourcePort[n] = s /\ n \notin pending'
        /\ Range(in_port'[s]) \subseteq Range(sent'[s])
    BY <1>1, <1>3, <1>7 DEF OInv, SendsInOrder
  <2> QED BY <1>7, <1>8, <2>1, <2>2 DEF SendsInOrder
<1>10. in_transit_messages' = in_transit_messages /\ phase' = phase
  BY DEF ComponentSends
<1>11. \A o \in in_transit_messages : o.msg # m
  BY <1>1, <1>6, <1>3 DEF OInv, TransitFirst
<1>12. TransitFirst'
  <2>1. ASSUME NEW o \in in_transit_messages
        PROVE  /\ o.msg \in Range(sent'[SourcePort[o.msg]])
               /\ o.msg \notin Range(in_port'[SourcePort[o.msg]])
               /\ \A n \in Range(in_port'[SourcePort[o.msg]]) : Network!SentBefore(o.msg, n)'
    <3>1. PICK i \in Port : i = SourcePort[o.msg]
      BY <1>2, DelayType DEF TypeOK
    <3>2. /\ o.msg \in Range(sent[i]) /\ o.msg \notin Range(in_port[i])
          /\ \A n \in Range(in_port[i]) : Network!SentBefore(o.msg, n)
      BY <3>1 DEF OInv, TransitFirst
    <3>3. CASE i = s
      BY <1>4, <1>7, <1>11, <3>1, <3>2, <3>3
    <3>4. CASE i # s
      BY <1>4, <1>5, <3>1, <3>2, <3>4
    <3> QED BY <3>3, <3>4
  <2> QED BY <1>10, <2>1 DEF TransitFirst
<1>13. LeaveInOrder' /\ OnTime'
  <2>1. \A o, p \in in_transit_messages :
          Network!SentBefore(o.msg, p.msg)' <=> Network!SentBefore(o.msg, p.msg)
    BY <1>4, <1>11
  <2> QED BY <1>10, <2>1 DEF OInv, LeaveInOrder, OnTime
<1> QED BY <1>9, <1>12, <1>13 DEF OInv

LEMMA CallOInv ==
  ASSUME IInv, OInv, NEW d \in Elapsed \ {0}, Call(d), UNCHANGED envVars
  PROVE  OInv'
<1>1. /\ sent' = sent /\ pending' = pending /\ in_port' = in_port
      /\ in_transit_messages' = Aged(in_transit_messages, d)
  BY DEF Call, envVars
<1>2. in_transit_messages \in SUBSET Transit /\ d \in Nat \ {0}
  BY EnvAssumption DEF IInv, TypeOK, Transit
<1>3. PICK f \in [Int -> Int] :
        /\ \A v, w \in Int : (\E o \in in_transit_messages : o.left = v) /\ v < w => f[v] < f[w]
        /\ \A v \in Int : f[v] < v \/ f[v] < 0 \/ v \notin {o.left : o \in in_transit_messages}
        /\ Aged(in_transit_messages, d)
             = {[msg |-> o.msg, left |-> f[o.left]] : o \in in_transit_messages}
  BY <1>2, AgedOrder DEF IInv
<1>4. ASSUME NEW x \in in_transit_messages'
      PROVE  \E o \in in_transit_messages :
               /\ x.msg = o.msg /\ x.left = f[o.left] /\ x = [msg |-> o.msg, left |-> f[o.left]]
               /\ o.left \in Int /\ o.msg \in Message
  <2>1. PICK o \in in_transit_messages : x = [msg |-> o.msg, left |-> f[o.left]]
    BY <1>1, <1>3
  <2> QED BY <1>2, <2>1 DEF Transit
<1>5. \A n, m : Network!SentBefore(n, m)' <=> Network!SentBefore(n, m)
  BY <1>1, SentStays
<1>6. SendsInOrder'
  BY <1>1, <1>5 DEF OInv, SendsInOrder
<1>7. TransitFirst'
  BY <1>1, <1>4, <1>5 DEF OInv, TransitFirst
<1>8. LeaveInOrder'
  <2>1. ASSUME NEW x \in in_transit_messages', NEW y \in in_transit_messages'
        PROVE  /\ x.msg = y.msg => x = y
               /\ Network!SentBefore(x.msg, y.msg) /\ TargetPort[x.msg] = TargetPort[y.msg]
                    => x.left < y.left
    <3>1. PICK o \in in_transit_messages :
            /\ x.msg = o.msg /\ x.left = f[o.left] /\ x = [msg |-> o.msg, left |-> f[o.left]]
            /\ o.left \in Int
      BY <1>4
    <3>2. PICK p \in in_transit_messages :
            /\ y.msg = p.msg /\ y.left = f[p.left] /\ y = [msg |-> p.msg, left |-> f[p.left]]
            /\ p.left \in Int
      BY <1>4
    <3>3. x.msg = y.msg => x = y
      BY <3>1, <3>2 DEF OInv, LeaveInOrder
    <3>4. o.left < p.left => f[o.left] < f[p.left]
      BY <1>3, <3>1, <3>2
    <3> QED BY <3>1, <3>2, <3>3, <3>4 DEF OInv, LeaveInOrder
  <2> QED BY <1>5, <2>1 DEF LeaveInOrder
<1>9. OnTime'
  <2>1. ASSUME NEW x \in in_transit_messages' PROVE x.left < Delay(x.msg) /\ x.left \in Int
    <3>1. PICK o \in in_transit_messages :
            x.msg = o.msg /\ x.left = f[o.left] /\ o.left \in Int /\ o.msg \in Message
      BY <1>4
    <3>2. o.left <= Delay(o.msg) /\ Delay(o.msg) \in Nat
      BY <3>1, DelayType DEF OInv, OnTime
    <3>3. f[o.left] \in Int /\ (f[o.left] < o.left \/ f[o.left] < 0)
      BY <1>3, <3>1
    <3> QED BY <3>1, <3>2, <3>3
  <2>2. \A x \in in_transit_messages' : Delay(x.msg) \in Nat
    BY <1>4, DelayType
  <2>3. \A x \in in_transit_messages' : x.left <= Delay(x.msg)
    BY <2>1, <2>2
  <2> QED BY <2>1, <2>3 DEF OnTime, Delay
<1> QED BY <1>6, <1>7, <1>8, <1>9 DEF OInv

LEMMA TakeOInv ==
  ASSUME IInv, OInv, NEW i \in Port, Take(i), UNCHANGED envVars
  PROVE  OInv'
<1>1. /\ sent' = sent /\ pending' = pending /\ in_port[i] # <<>> /\ phase = <<"take", i>>
      /\ in_port' = [in_port EXCEPT ![i] = Received(@)] /\ phase' = NextPort(i)
  BY DEF Take, envVars
<1>2. PICK m : m = Head(in_port[i])
  OBVIOUS
<1>3. PICK new : new = [msg |-> m, left |-> cycle_to_go(i, TargetPort[m])]
  OBVIOUS
<1>4. in_transit_messages' = in_transit_messages \cup {new}
  BY <1>2, <1>3 DEF Take
<1>5. in_port[i] \in Seq(Message) /\ in_transit_messages \subseteq Transit
  BY DEF IInv, TypeOK, Transit
<1>6. /\ m \in Range(in_port[i]) /\ in_port'[i] = Tail(in_port[i])
      /\ \A j \in Port \ {i} : in_port'[j] = in_port[j]
      /\ Range(in_port'[i]) = Range(in_port[i]) \ {m} /\ IsInjective(in_port'[i])
  BY <1>1, <1>2, <1>5, TailRange DEF OInv, SendsInOrder, IInv, TypeOK, Received
<1>7. m \in Range(sent[i]) /\ SourcePort[m] = i /\ m \in Message
  BY <1>2, <1>5, <1>6, ReceivedType, <1>1 DEF OInv, SendsInOrder
<1>8. new.msg = m /\ new.left = Delay(m) /\ Delay(m) \in Nat
  BY <1>3, <1>7, DelayType DEF Delay
<1>9. \A n, y : Network!SentBefore(n, y)' <=> Network!SentBefore(n, y)
  BY <1>1, SentStays
<1>10. /\ DOMAIN in_port'[i] = 1 .. Len(in_port[i]) - 1 /\ DOMAIN in_port[i] = 1 .. Len(in_port[i])
       /\ Len(in_port[i]) \in Nat \ {0} /\ m = in_port[i][1]
       /\ \A k \in 1 .. Len(in_port[i]) - 1 : in_port'[i][k] = in_port[i][k + 1]
  <2>1. /\ Tail(in_port[i]) \in Seq(Message) /\ Len(Tail(in_port[i])) = Len(in_port[i]) - 1
        /\ Len(in_port[i]) \in Nat \ {0} /\ Head(in_port[i]) = in_port[i][1]
        /\ \A k \in 1 .. Len(Tail(in_port[i])) : Tail(in_port[i])[k] = in_port[i][k + 1]
    BY <1>1, <1>5, HeadTailProperties, EmptySeq
  <2>2. DOMAIN in_port[i] = 1 .. Len(in_port[i]) /\ DOMAIN Tail(in_port[i]) = 1 .. Len(Tail(in_port[i]))
    BY <1>5, <2>1
  <2> QED BY <1>2, <1>6, <2>1, <2>2
<1>11. ASSUME NEW k \in DOMAIN in_port'[i], NEW l \in DOMAIN in_port'[i], k < l
       PROVE  Network!SentBefore(in_port[i][k], in_port[i][l])'
  <2>1. k + 1 \in DOMAIN in_port[i] /\ l + 1 \in DOMAIN in_port[i] /\ k + 1 < l + 1
    BY <1>10, <1>11
  <2>2. Network!SentBefore(in_port[i][k + 1], in_port[i][l + 1])
    BY <2>1 DEF OInv, SendsInOrder
  <2>3. in_port'[i][k] = in_port[i][k + 1] /\ in_port'[i][l] = in_port[i][l + 1]
    BY <1>10, <1>11
  <2> QED BY <1>9, <2>2, <2>3
<1>12. SendsInOrder'
  <2>1. ASSUME NEW j \in Port, j # i
        PROVE  /\ IsInjective(in_port'[j]) /\ Range(in_port'[j]) \subseteq Range(sent[j])
               /\ \A k, l \in DOMAIN in_port'[j] : k < l =>
                    Network!SentBefore(in_port[j][k], in_port[j][l])'
    BY <1>6, <1>9, <2>1 DEF OInv, SendsInOrder
  <2>2. IsInjective(in_port'[i]) /\ Range(in_port'[i]) \subseteq Range(sent[i])
    BY <1>6 DEF OInv, SendsInOrder
  <2>3. \A j \in Port : /\ IsInjective(sent[j])
                        /\ \A n \in Range(sent[j]) : SourcePort[n] = j /\ n \notin pending
    BY DEF OInv, SendsInOrder
  <2> QED BY <1>1, <1>11, <2>1, <2>2, <2>3 DEF SendsInOrder
<1>13. ASSUME NEW n \in Range(in_port'[i]) PROVE Network!SentBefore(m, n)
  <2>1. PICK k \in DOMAIN in_port'[i] : in_port'[i][k] = n
    BY <1>13 DEF Range
  <2>2. 1 \in DOMAIN in_port[i] /\ k + 1 \in DOMAIN in_port[i] /\ 1 < k + 1
        /\ in_port[i][k + 1] = n
    BY <1>10, <2>1
  <2>3. Network!SentBefore(in_port[i][1], in_port[i][k + 1])
    BY <2>2 DEF OInv, SendsInOrder
  <2> QED BY <1>10, <2>2, <2>3
<1>14. TransitFirst'
  <2>1. ASSUME NEW o \in in_transit_messages
        PROVE  /\ o.msg \in Range(sent[SourcePort[o.msg]])
               /\ o.msg \notin Range(in_port'[SourcePort[o.msg]])
               /\ \A n \in Range(in_port'[SourcePort[o.msg]]) : Network!SentBefore(o.msg, n)
    <3>1. SourcePort[o.msg] \in Port
      BY <1>5, DelayType DEF Transit
    <3>2. Range(in_port'[SourcePort[o.msg]]) \subseteq Range(in_port[SourcePort[o.msg]])
      BY <1>6, <3>1
    <3> QED BY <3>2 DEF OInv, TransitFirst
  <2>2. /\ m \in Range(sent[SourcePort[m]])
        /\ m \notin Range(in_port'[SourcePort[m]])
        /\ \A n \in Range(in_port'[SourcePort[m]]) : Network!SentBefore(m, n)
    BY <1>6, <1>7, <1>13
  <2>3. \A o \in in_transit_messages' : o \in in_transit_messages \/ o.msg = m
    BY <1>4, <1>8
  <2>4. ASSUME NEW o \in in_transit_messages'
        PROVE  /\ o.msg \in Range(sent[SourcePort[o.msg]])
               /\ o.msg \notin Range(in_port'[SourcePort[o.msg]])
               /\ \A n \in Range(in_port'[SourcePort[o.msg]]) : Network!SentBefore(o.msg, n)
    <3>1. CASE o \in in_transit_messages
      BY <2>1, <3>1
    <3>2. CASE o.msg = m
      BY <2>2, <3>2
    <3> QED BY <2>3, <3>1, <3>2
  <2> QED BY <1>1, <1>9, <2>4 DEF TransitFirst
<1>15. ASSUME NEW o \in in_transit_messages
       PROVE  /\ o.msg # m /\ ~Network!SentBefore(m, o.msg)
              /\ Network!SentBefore(o.msg, m) /\ TargetPort[o.msg] = TargetPort[m]
                   => o.left < Delay(m)
  <2>1. o.msg \in Message /\ SourcePort[o.msg] \in Port
    BY <1>5, DelayType DEF Transit
  <2>2. o.msg # m
    BY <1>6, <1>7 DEF OInv, TransitFirst
  <2>3. ASSUME Network!SentBefore(m, o.msg) PROVE FALSE
    <3>1. SourcePort[o.msg] = i
      BY <1>7, <2>3, SentBeforeOrder DEF OInv, IInv
    <3>2. Network!SentBefore(o.msg, m)
      BY <1>6, <3>1 DEF OInv, TransitFirst
    <3> QED BY <2>3, <3>2, SentBeforeOrder DEF OInv, IInv
  <2>4. ASSUME Network!SentBefore(o.msg, m), TargetPort[o.msg] = TargetPort[m]
        PROVE  o.left < Delay(m)
    <3>1. SourcePort[o.msg] = i
      BY <1>7, <2>4, SentBeforeOrder DEF OInv, IInv
    <3>2. i <= SourcePort[o.msg] /\ phase[1] = "take" /\ phase[2] = i
      BY <1>1, <3>1, IcntAssumption DEF Port
    <3>3. o.left < Delay(o.msg)
      BY <3>2 DEF OInv, OnTime
    <3> QED BY <1>7, <2>4, <3>1, <3>3 DEF Delay
  <2> QED BY <2>2, <2>3, <2>4
<1>16. ~Network!SentBefore(m, m)
  BY SentBeforeOrder DEF OInv, IInv
<1>17. LeaveInOrder'
  <2>1. ASSUME NEW o \in in_transit_messages', NEW p \in in_transit_messages'
        PROVE  /\ o.msg = p.msg => o = p
               /\ Network!SentBefore(o.msg, p.msg) /\ TargetPort[o.msg] = TargetPort[p.msg]
                    => o.left < p.left
    <3>1. CASE o \in in_transit_messages /\ p \in in_transit_messages
      BY <3>1 DEF OInv, LeaveInOrder
    <3>2. CASE o = new /\ p \in in_transit_messages
      BY <1>8, <1>15, <3>2
    <3>3. CASE o \in in_transit_messages /\ p = new
      BY <1>8, <1>15, <3>3
    <3>4. CASE o = new /\ p = new
      BY <1>8, <1>16, <3>4
    <3> QED BY <1>4, <3>1, <3>2, <3>3, <3>4
  <2> QED BY <1>9, <2>1 DEF LeaveInOrder
<1>18. OnTime'
  <2>1. phase'[1] = "take" => i + 1 = phase'[2]
    BY <1>1 DEF NextPort
  <2>2. ASSUME NEW o \in in_transit_messages, phase'[1] = "take", phase'[2] <= SourcePort[o.msg]
        PROVE  o.left < Delay(o.msg)
    <3>1. SourcePort[o.msg] \in Int /\ i \in Int
      BY <1>5, DelayType, IcntAssumption DEF Transit, Port
    <3>2. phase[1] = "take" /\ phase[2] <= SourcePort[o.msg]
      BY <1>1, <2>1, <2>2, <3>1
    <3> QED BY <3>2 DEF OInv, OnTime
  <2>3. ~(phase'[1] = "take" /\ phase'[2] <= SourcePort[new.msg])
    BY <1>7, <1>8, <2>1, IcntAssumption DEF Port
  <2>4. new.left <= Delay(new.msg)
    BY <1>8
  <2>5. \A o \in in_transit_messages : o.left <= Delay(o.msg)
    BY DEF OInv, OnTime
  <2>6. ASSUME NEW o \in in_transit_messages'
        PROVE  /\ o.left <= Delay(o.msg)
               /\ phase'[1] = "take" /\ phase'[2] <= SourcePort[o.msg] => o.left < Delay(o.msg)
    BY <1>4, <2>2, <2>3, <2>4, <2>5
  <2> QED BY <2>6 DEF OnTime, Delay
<1> QED BY <1>12, <1>14, <1>17, <1>18 DEF OInv

\* What neither sends nor takes a message only removes some from transit.
LEMMA OthersOInv ==
  ASSUME IInv, OInv, UNCHANGED <<sent, pending, in_port>>,
         in_transit_messages' \subseteq in_transit_messages,
         \/ phase' = phase \/ phase'[1] # "take"
         \/ phase[1] = "take" /\ phase[2] \in Port /\ phase'[2] = phase[2] + 1
  PROVE  OInv'
<1>1. \A n, y : Network!SentBefore(n, y)' <=> Network!SentBefore(n, y)
  BY SentStays
<1>2. SendsInOrder' /\ TransitFirst' /\ LeaveInOrder'
  BY <1>1 DEF OInv, SendsInOrder, TransitFirst, LeaveInOrder
<1>3. \A o \in in_transit_messages : SourcePort[o.msg] \in Int
  <2>1. \A o \in in_transit_messages : o.msg \in Message
    BY DEF IInv, TypeOK
  <2> QED BY <2>1, DelayType, IcntAssumption DEF Port
<1>4. ASSUME NEW o \in in_transit_messages, phase'[1] = "take", phase'[2] <= SourcePort[o.msg]
      PROVE  phase[1] = "take" /\ phase[2] <= SourcePort[o.msg]
  <2>1. CASE phase' = phase
    BY <1>4, <2>1
  <2>2. CASE phase[1] = "take" /\ phase[2] \in Port /\ phase'[2] = phase[2] + 1
    BY <1>3, <1>4, <2>2, IcntAssumption DEF Port
  <2> QED BY <1>4, <2>1, <2>2
<1>5. OnTime'
  BY <1>4 DEF OInv, OnTime, Delay
<1> QED BY <1>2, <1>5 DEF OInv

LEMMA NextOInv == 0 \notin Elapsed /\ IInv /\ OInv /\ [Next]_vars => OInv'
<1> SUFFICES ASSUME 0 \notin Elapsed, IInv, OInv, [Next]_vars PROVE OInv'
  OBVIOUS
<1>1. CASE ComponentSends
  BY <1>1, SendsOInv
<1>2. ASSUME NEW i \in Port, ComponentTakes(i) PROVE OInv'
  BY <1>2, OthersOInv DEF ComponentTakes
<1>3. ASSUME NEW d \in Elapsed, Call(d), UNCHANGED envVars PROVE OInv'
  BY <1>3, CallOInv
<1>4. ASSUME NEW i \in Port, Take(i), UNCHANGED envVars PROVE OInv'
  BY <1>4, TakeOInv
<1>5. ASSUME NEW i \in Port, SkipPort(i), UNCHANGED envVars PROVE OInv'
  <2>1. phase = <<"take", i>> /\ (phase'[1] # "take" \/ phase'[2] = i + 1)
    BY <1>5 DEF SkipPort, NextPort
  <2>2. UNCHANGED <<sent, pending, in_port, in_transit_messages>>
    BY <1>5 DEF SkipPort, envVars
  <2> QED BY <2>1, <2>2, OthersOInv
<1>6. CASE Deliver /\ UNCHANGED envVars
  <2>1. /\ UNCHANGED <<sent, pending, in_port, phase>>
        /\ in_transit_messages' \subseteq in_transit_messages
    BY <1>6 DEF Deliver, envVars
  <2> QED BY <2>1, OthersOInv
<1>7. CASE DeliverEnds /\ UNCHANGED envVars
  <2>1. /\ UNCHANGED <<sent, pending, in_port>> /\ phase'[1] # "take"
        /\ in_transit_messages' \subseteq in_transit_messages
    BY <1>7 DEF DeliverEnds, PutBack, envVars
  <2> QED BY <2>1, OthersOInv
<1>8. CASE UNCHANGED vars
  BY <1>8, OthersOInv DEF vars, icntVars, envVars
<1> QED BY <1>1, <1>2, <1>3, <1>4, <1>5, <1>6, <1>7, <1>8 DEF Next, Step

\* Time changes no message.
LEMMA AgedMessages ==
  ASSUME NEW transit \in SUBSET Transit, IsFiniteSet(transit), NEW d \in Nat
  PROVE  \A m : (\E o \in Aged(transit, d) : o.msg = m) <=> \E o \in transit : o.msg = m
<1> DEFINE later == {[o EXCEPT !.left = @ - d] : o \in transit}
           Overdue == {o.left : o \in {p \in later : p.left < 0}}
           Rank(v) == -Cardinality({w \in Overdue : w >= v})
           Ranked(o) == [o EXCEPT !.left = IF @ < 0 THEN Rank(@) ELSE @]
<1>1. \A o \in transit : [o EXCEPT !.left = @ - d].msg = o.msg
                         /\ [o EXCEPT !.left = @ - d] \in Transit
  BY DEF Transit
<1>2. later \subseteq Transit
  BY <1>1
<1>3. \A m : (\E o \in later : o.msg = m) <=> \E o \in transit : o.msg = m
  BY <1>1
<1> HIDE DEF later, Rank
<1>4. \A o \in later : Ranked(o).msg = o.msg
  BY <1>2 DEF Transit
<1>5. Aged(transit, d) = {Ranked(o) : o \in later}
  BY DEF Aged, Rank, later
<1> HIDE DEF Ranked
<1>6. \A m : (\E o \in Aged(transit, d) : o.msg = m) <=> \E o \in later : o.msg = m
  BY <1>4, <1>5
<1> QED BY <1>3, <1>6

LEMMA OnTheWayIs ==
  /\ \A m : m \in OnTheWay <=> \/ \E o \in in_transit_messages : o.msg = m
                               \/ \E i \in Port : m \in Range(in_port[i])
  /\ \A m : m \in OnTheWay' <=> \/ \E o \in in_transit_messages' : o.msg = m
                                \/ \E i \in Port : m \in Range(in_port'[i])
BY DEF OnTheWay

Arrived == [j \in Port |-> taken[j] \o out_port[j]]

LEMMA DeliverArrives ==
  ASSUME IInv, OInv, Deliver, UNCHANGED envVars
  PROVE  \E m \in Message : Network!Arrive(m)
<1>1. PICK o \in in_transit_messages :
        /\ First(o)
        /\ out_port' = [out_port EXCEPT ![TargetPort[o.msg]] = Sent(@, o.msg)]
        /\ in_transit_messages' = in_transit_messages \ {o}
  BY DEF Deliver
<1>2. PICK m \in Message : m = o.msg
  BY DEF IInv, TypeOK
<1>3. PICK j \in Port : j = TargetPort[m]
  BY DelayType
<1>4. UNCHANGED <<pending, sent, taken, in_port>>
  BY DEF Deliver, envVars
<1>5. \A i \in Port : m \notin Range(in_port[i])
  <2>1. SourcePort[m] \in Port /\ m \notin Range(in_port[SourcePort[m]])
    BY <1>2, DelayType DEF OInv, TransitFirst
  <2> QED BY <2>1 DEF OInv, SendsInOrder
<1>6. m \in OnTheWay /\ OnTheWay' = OnTheWay \ {m}
  <2>1. \A p \in in_transit_messages : p.msg = m <=> p = o
    BY <1>2 DEF OInv, LeaveInOrder
  <2>2. \A n : n \in OnTheWay' <=> n \in OnTheWay /\ n # m
    BY <1>1, <1>2, <1>4, <1>5, <2>1, OnTheWayIs
  <2>3. m \in OnTheWay
    BY <1>2, OnTheWayIs
  <2> QED BY <2>2, <2>3
<1>7. ASSUME NEW n \in OnTheWay, TargetPort[n] = TargetPort[m], Network!SentBefore(n, m)
      PROVE  FALSE
  <2>1. /\ SourcePort[n] \in Port /\ SourcePort[n] = SourcePort[m]
        /\ ~Network!SentBefore(m, n)
    BY <1>7, SentBeforeOrder DEF IInv, OInv
  <2>2. ASSUME NEW p \in in_transit_messages, p.msg = n PROVE FALSE
    <3>1. p.left < o.left
      BY <1>2, <1>7, <2>2 DEF OInv, LeaveInOrder
    <3>2. o.left <= p.left
      BY <1>1 DEF First
    <3>3. p.left \in Int /\ o.left \in Int
      BY DEF IInv, TypeOK
    <3> QED BY <3>1, <3>2, <3>3
  <2>3. ASSUME NEW i \in Port, n \in Range(in_port[i]) PROVE FALSE
    <3>1. i = SourcePort[m]
      BY <2>1, <2>3 DEF OInv, SendsInOrder
    <3> QED BY <1>2, <2>1, <2>3, <3>1 DEF OInv, TransitFirst
  <2> QED BY <1>7, <2>2, <2>3, OnTheWayIs
<1>8. Arrived' = [Arrived EXCEPT ![TargetPort[m]] = Append(@, m)]
  <2>1. /\ out_port \in [Port -> Seq(Message)] /\ taken \in [Port -> Seq(Message)]
        /\ <<m>> \in Seq(Message)
    BY DEF IInv, TypeOK
  <2>2. taken[j] \o Append(out_port[j], m) = Append(taken[j] \o out_port[j], m)
    <3>1. Append(out_port[j], m) = out_port[j] \o <<m>> /\ taken[j] \o out_port[j] \in Seq(Message)
      BY <2>1, AppendIsConcat, ConcatProperties
    <3>2. Append(taken[j] \o out_port[j], m) = (taken[j] \o out_port[j]) \o <<m>>
      BY <3>1, AppendIsConcat
    <3> QED BY <2>1, <3>1, <3>2, ConcatAssociative
  <2>3. out_port' = [out_port EXCEPT ![j] = Append(out_port[j], m)]
    BY <1>1, <1>2, <1>3, <2>1 DEF Sent
  <2> QED BY <1>3, <1>4, <2>1, <2>2, <2>3 DEF Arrived
<1> QED BY <1>4, <1>6, <1>7, <1>8 DEF Network!Arrive, Arrived

LEMMA StepOrdered ==
  ASSUME IInv, OInv, [Next]_vars
  PROVE  Network!OnNext \/ UNCHANGED <<pending, sent, OnTheWay, Arrived>>
<1>1. CASE ComponentSends
  <2>1. PICK m \in pending :
          /\ in_port' = [in_port EXCEPT ![SourcePort[m]] = Sent(@, m)]
          /\ pending' = pending \ {m}
          /\ sent' = [sent EXCEPT ![SourcePort[m]] = Append(@, m)]
    BY <1>1 DEF ComponentSends
  <2>2. m \in Message /\ SourcePort[m] \in Port
    BY <2>1, DelayType DEF IInv, TypeOK
  <2>3. PICK s \in Port : s = SourcePort[m]
    BY <2>2
  <2>4. in_port \in [Port -> Seq(Message)]
    BY DEF IInv, TypeOK
  <2>5. /\ Range(in_port'[s]) = Range(in_port[s]) \cup {m}
        /\ \A i \in Port \ {s} : in_port'[i] = in_port[i]
    BY <2>1, <2>2, <2>3, <2>4, AppendRange DEF Sent
  <2>6. in_transit_messages' = in_transit_messages /\ UNCHANGED <<taken, out_port>>
    BY <1>1 DEF ComponentSends
  <2>7. \A n : n \in OnTheWay' <=> n \in OnTheWay \/ n = m
    BY <2>5, <2>6, OnTheWayIs
  <2>8. OnTheWay' = OnTheWay \cup {m}
    BY <2>7
  <2>9. Network!Send(m, SourcePort[m])
    BY <2>1, <2>6, <2>8 DEF Network!Send
  <2> QED BY <2>2, <2>9 DEF Network!OnNext
<1>2. ASSUME NEW i \in Port, ComponentTakes(i)
      PROVE  UNCHANGED <<pending, sent, OnTheWay, Arrived>>
  <2>1. taken \in [Port -> Seq(Message)] /\ out_port \in [Port -> Seq(Message)]
    BY DEF IInv, TypeOK
  <2>2. /\ taken' = [taken EXCEPT ![i] = Append(taken[i], Head(out_port[i]))]
        /\ out_port' = [out_port EXCEPT ![i] = Tail(out_port[i])] /\ out_port[i] # <<>>
    BY <1>2, <2>1 DEF ComponentTakes, Received
  <2>3. Append(taken[i], Head(out_port[i])) \o Tail(out_port[i]) = taken[i] \o out_port[i]
    BY <2>1, <2>2, MoveKeepsConcat
  <2>4. Arrived' = Arrived
    BY <2>1, <2>2, <2>3 DEF Arrived
  <2> QED BY <1>2, <2>4 DEF ComponentTakes, OnTheWay
<1>3. ASSUME NEW d \in Elapsed, Call(d), UNCHANGED envVars
      PROVE  UNCHANGED <<pending, sent, OnTheWay, Arrived>>
  <2>1. /\ in_transit_messages \in SUBSET Transit /\ d \in Nat
        /\ in_transit_messages' = Aged(in_transit_messages, d)
    BY <1>3, EnvAssumption DEF IInv, TypeOK, Transit, Call
  <2>2. \A m : (\E o \in in_transit_messages' : o.msg = m)
                 <=> \E o \in in_transit_messages : o.msg = m
    BY <2>1, AgedMessages DEF IInv
  <2>3. UNCHANGED <<pending, sent, in_port, taken, out_port>>
    BY <1>3 DEF Call, envVars
  <2>4. OnTheWay' = OnTheWay
    BY <2>2, <2>3, OnTheWayIs
  <2> QED BY <2>3, <2>4 DEF Arrived
<1>4. ASSUME NEW i \in Port, Take(i), UNCHANGED envVars
      PROVE  UNCHANGED <<pending, sent, OnTheWay, Arrived>>
  <2>1. PICK m, c :
          /\ m = Head(in_port[i])
          /\ in_transit_messages' = in_transit_messages \cup {[msg |-> m, left |-> c]}
    BY <1>4 DEF Take
  <2>2. in_port[i] \in Seq(Message) /\ in_port[i] # <<>>
    BY <1>4 DEF IInv, TypeOK, Take
  <2>3. /\ in_port'[i] = Tail(in_port[i]) /\ \A j \in Port \ {i} : in_port'[j] = in_port[j]
        /\ Range(in_port[i]) = {m} \cup Range(in_port'[i])
    BY <1>4, <2>1, <2>2, TailRange DEF Take, Received, IInv, TypeOK
  <2>4. \A n : (\E o \in in_transit_messages' : o.msg = n)
                 <=> n = m \/ \E o \in in_transit_messages : o.msg = n
    <3>1. PICK new : new = [msg |-> m, left |-> c]
      OBVIOUS
    <3>2. new.msg = m /\ in_transit_messages' = in_transit_messages \cup {new}
      BY <2>1, <3>1
    <3> QED BY <3>2
  <2>5. \A n : n \in OnTheWay' <=> n \in OnTheWay
    BY <2>3, <2>4, OnTheWayIs
  <2>6. OnTheWay' = OnTheWay
    BY <2>5, OnTheWayIs DEF OnTheWay
  <2> QED BY <1>4, <2>6 DEF Take, envVars, Arrived
<1>5. ASSUME NEW i \in Port, SkipPort(i), UNCHANGED envVars
      PROVE  UNCHANGED <<pending, sent, OnTheWay, Arrived>>
  BY <1>5 DEF SkipPort, envVars, OnTheWay, Arrived
<1>6. CASE Deliver /\ UNCHANGED envVars
  BY <1>6, DeliverArrives DEF Network!OnNext
<1>7. CASE DeliverEnds /\ UNCHANGED envVars
  <2>1. in_transit_messages' = in_transit_messages
    BY <1>7 DEF DeliverEnds, PutBack
  <2> QED BY <1>7, <2>1 DEF DeliverEnds, envVars, OnTheWay, Arrived
<1>8. CASE UNCHANGED vars
  BY <1>8 DEF vars, icntVars, envVars, OnTheWay, Arrived
<1> QED BY <1>1, <1>2, <1>3, <1>4, <1>5, <1>6, <1>7, <1>8 DEF Next, Step

(* Between two ports messages arrive in the order in which they were sent,  *)
(* each once and at its port (icnt.rs:79-156), for every number of ports,   *)
(* every delay and limit, and whichever of two messages with the same       *)
(* leaving cycle the heap prefers; time has to pass between two updates.    *)
THEOREM IcntKeepsOrder ==
  ASSUME 0 \notin Elapsed
  PROVE  Spec => ImplementsOrderedNetwork
<1>1. EnvInit => Network!OnInit
  <2> SUFFICES ASSUME EnvInit PROVE Network!OnInit
    OBVIOUS
  <2>1. in_transit_messages = {} /\ \A i \in Port : Range(in_port[i]) = {}
    BY EmptySeq DEF EnvInit, Init, Range
  <2>2. OnTheWay = {}
    BY <2>1, OnTheWayIs
  <2>3. [j \in Port |-> taken[j] \o out_port[j]] = [j \in Port |-> <<>>]
    BY DEF EnvInit, Init
  <2> QED BY <2>2, <2>3 DEF EnvInit, Network!OnInit
<1>2. IInv /\ OInv /\ [Next]_vars
        => [Network!OnNext]_<<pending, sent, OnTheWay, [j \in Port |-> taken[j] \o out_port[j]]>>
  BY StepOrdered DEF Arrived
<1>3. IInv /\ OInv /\ [Next]_vars => OInv'
  BY NextOInv
<1> QED BY <1>1, <1>2, <1>3, InitInv, NextInv, InitOInv, PTL
        DEF Spec, ImplementsOrderedNetwork, Network!OnSpec
=============================================================================
