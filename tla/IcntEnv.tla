------------------------------- MODULE IcntEnv -------------------------------
(***************************************************************************)
(* The interconnect and the components at its ports, which send and take    *)
(* messages at any time between two updates.                               *)
(***************************************************************************)
EXTENDS Icnt, SequencesExt

CONSTANTS
  SourcePort,   \* the port of the component that sends a message
  Elapsed       \* the cycles that can pass between two calls of update
ASSUME EnvAssumption == SourcePort \in [Message -> Port] /\ Elapsed \subseteq Nat

VARIABLES
  pending,   \* messages not yet sent
  sent,      \* sent[i]: the messages the component at port i has sent
  taken      \* taken[i]: the messages the component at port i has taken

envVars == <<pending, sent, taken>>
vars == <<icntVars, envVars>>

ComponentSends ==
  /\ phase = <<"return", 0>>
  /\ \E m \in pending :
       /\ HaveSpace(in_port[SourcePort[m]], ChannelSize)
       /\ in_port' = [in_port EXCEPT ![SourcePort[m]] = Sent(@, m)]
       /\ pending' = pending \ {m}
       /\ sent' = [sent EXCEPT ![SourcePort[m]] = Append(@, m)]
  /\ UNCHANGED <<phase, busy, updated, out_port, in_transit_messages, taken>>

ComponentTakes(i) ==
  /\ phase = <<"return", 0>> /\ out_port[i] # <<>>
  /\ out_port' = [out_port EXCEPT ![i] = Received(@)]
  /\ taken' = [taken EXCEPT ![i] = Append(@, Head(out_port[i]))]
  /\ UNCHANGED <<phase, busy, updated, in_port, in_transit_messages, pending, sent>>

EnvInit ==
  /\ Init /\ pending = Message
  /\ sent = [i \in Port |-> <<>>] /\ taken = [i \in Port |-> <<>>]

Next ==
  \/ ComponentSends \/ \E i \in Port : ComponentTakes(i)
  \/ (Step \/ \E d \in Elapsed : Call(d)) /\ UNCHANGED envVars

Spec == EnvInit /\ [][Next]_vars

(* SimRunner::run calls every component in every cycle, two cycles apart.   *)
(* Of the components at the ports no more is asked than that each goes on   *)
(* taking what has arrived.                                                *)
FairSpec ==
  /\ Spec
  /\ WF_vars(Step /\ UNCHANGED envVars) /\ SF_vars(Call(2) /\ UNCHANGED envVars)
  /\ SF_vars(ComponentSends) /\ \A i \in Port : SF_vars(ComponentTakes(i))
-----------------------------------------------------------------------------
TypeOK ==
  /\ phase \in {<<"take", i>> : i \in Port} \cup {<<"deliver", 0>>, <<"return", 0>>}
  /\ busy \in BOOLEAN /\ updated \in BOOLEAN
  /\ in_port \in [Port -> Seq(Message)] /\ out_port \in [Port -> Seq(Message)]
  /\ in_transit_messages \subseteq [msg : Message, left : Int]
  /\ pending \subseteq Message
  /\ sent \in [Port -> Seq(Message)] /\ taken \in [Port -> Seq(Message)]

\* A busy interconnect always reports progress, also when all of its messages
\* wait behind a full port: it alone can never make SimRunner::run report a
\* stall (icnt.rs:125, sim.rs:148).
BusyIsProgress == phase = <<"return", 0>> => busy = updated

\* The messages between the components: taken by the interconnect, or not yet.
OnTheWay ==
  {o.msg : o \in in_transit_messages} \cup UNION {Range(in_port[i]) : i \in Port}

\* Two messages from one port to another never overtake each other, whatever
\* waits at full ports, and none is lost, doubled or sent to another port
\* (icnt.rs:123-145).  It takes cycles that pass between two updates: two
\* messages taken in the same cycle have the same leaving cycle.
Network == INSTANCE OrderedNetwork WITH
  Ports <- Port, Messages <- Message, PortOf <- TargetPort,
  unsent <- pending, wire <- OnTheWay,
  arrived <- [j \in Port |-> taken[j] \o out_port[j]]
ImplementsOrderedNetwork == Network!OnSpec

\* Every message is taken at last by the component at its port, although one
\* whose port is full holds up all others.
EveryMessageArrives == <>(\A m \in Message : Contains(taken[TargetPort[m]], m))
=============================================================================
