-------------------------------- MODULE Icnt --------------------------------
(***************************************************************************)
(* The interconnect (satacc/icnt.rs, satacc/wating_task.rs): a mesh that    *)
(* carries a message for as many cycles as its ports are apart.            *)
(*                                                                         *)
(* update takes one message from each port and then delivers those whose    *)
(* time has come, until a port is full: then all others wait behind that   *)
(* message.  Each of these is an action, and `phase` forces their order.    *)
(***************************************************************************)
EXTENDS SimChannel, Integers, FiniteSets

CONSTANTS
  NPorts,
  Message, TargetPort,        \* messages, and get_target_port
  ideal_icnt,                 \* every message takes one cycle
  MaxTransit,                 \* the literal 2048 of the code
  ChannelSize                 \* config.channel_size

Port == 0 .. NPorts - 1

ASSUME IcntAssumption ==
  /\ NPorts \in Nat \ {0} /\ MaxTransit \in Nat \ {0} /\ ChannelSize \in Nat \ {0}
  /\ TargetPort \in [Message -> Port] /\ ideal_icnt \in BOOLEAN

\* The side of the square the ports lie in, row by row.
row_size == CHOOSE n \in 1 .. NPorts : n * n <= NPorts /\ (n + 1) * (n + 1) > NPorts

AbsDiff(a, b) == IF a > b THEN a - b ELSE b - a

\* The cycles a message takes from port i to port j.
cycle_to_go(i, j) ==
  IF ideal_icnt THEN 1
  ELSE AbsDiff(i \div row_size, j \div row_size) + AbsDiff(i % row_size, j % row_size)

VARIABLES
  phase,               \* <<"take", port>>, <<"deliver", 0>> or <<"return", 0>>
  busy, updated,       \* the results of update, so far
  in_port, out_port,   \* channels from and to the components, per port
  in_transit_messages  \* WaitingTask: [msg, left] of each message, its cycles left

icntVars == <<phase, busy, updated, in_port, out_port, in_transit_messages>>

Init ==
  /\ phase = <<"return", 0>> /\ busy = FALSE /\ updated = FALSE
  /\ in_port = [i \in Port |-> <<>>] /\ out_port = [i \in Port |-> <<>>]
  /\ in_transit_messages = {}
-----------------------------------------------------------------------------
(* Of the overdue messages only the order of their leaving cycles counts:   *)
(* their ranks -1, -2, ... stand for it.                                   *)

Aged(transit, d) ==
  LET later == {[o EXCEPT !.left = @ - d] : o \in transit}
      Overdue == {o.left : o \in {p \in later : p.left < 0}}
      Rank(v) == -Cardinality({w \in Overdue : w >= v})
  IN {[o EXCEPT !.left = IF @ < 0 THEN Rank(@) ELSE @] : o \in later}

\* Tested once, before the ports are visited.
RoomInTransit == Cardinality(in_transit_messages) < MaxTransit

\* update is called, d cycles after the last call.
Call(d) ==
  /\ phase = <<"return", 0>>
  /\ phase' = IF RoomInTransit THEN <<"take", 0>> ELSE <<"deliver", 0>>
  /\ busy' = (in_transit_messages # {}) /\ updated' = FALSE
  /\ in_transit_messages' = Aged(in_transit_messages, d)
  /\ UNCHANGED <<in_port, out_port>>

NextPort(i) == IF i + 1 = NPorts THEN <<"deliver", 0>> ELSE <<"take", i + 1>>

Take(i) ==
  /\ phase = <<"take", i>> /\ in_port[i] # <<>>
  /\ LET m == Head(in_port[i]) IN
       in_transit_messages' = in_transit_messages
         \cup {[msg |-> m, left |-> cycle_to_go(i, TargetPort[m])]}
  /\ in_port' = [in_port EXCEPT ![i] = Received(@)]
  /\ busy' = TRUE /\ updated' = TRUE
  /\ phase' = NextPort(i)
  /\ UNCHANGED out_port

SkipPort(i) ==
  /\ phase = <<"take", i>> /\ in_port[i] = <<>>
  /\ phase' = NextPort(i)
  /\ UNCHANGED <<busy, updated, in_port, out_port, in_transit_messages>>
-----------------------------------------------------------------------------
(* The messages in the order of their leaving cycles; the heap decides      *)
(* which of two with the same cycle comes first.                           *)

First(o) == \A p \in in_transit_messages : o.left <= p.left

HaveSpaceFor(o) == HaveSpace(out_port[TargetPort[o.msg]], ChannelSize)

Deliver ==
  /\ phase = <<"deliver", 0>>
  /\ \E o \in in_transit_messages :
       /\ First(o) /\ o.left <= 0 /\ HaveSpaceFor(o)
       /\ out_port' = [out_port EXCEPT ![TargetPort[o.msg]] = Sent(@, o.msg)]
       /\ in_transit_messages' = in_transit_messages \ {o}
  /\ busy' = TRUE /\ updated' = TRUE
  /\ UNCHANGED <<phase, in_port>>

\* Mutant: a message that finds its port full tries again as if sent anew.
PutBackLate(o) == (in_transit_messages \ {o}) \cup {[o EXCEPT !.left = 1]}

\* Mutant: a message that finds its port full is dropped.
PutBackLost(o) == in_transit_messages \ {o}

\* The message goes back with the cycle it had.
PutBack(o) == (in_transit_messages \ {o}) \cup {o}

\* Mutant: a message that was put back is no progress.
NoProgress == FALSE

\* A message that was popped is progress, also when it is put back.
PopIsProgress == in_transit_messages # {}

\* No message is left, or the first is not due or its port is full.
DeliverEnds ==
  /\ phase = <<"deliver", 0>> /\ phase' = <<"return", 0>>
  /\ \/ in_transit_messages = {} /\ UNCHANGED in_transit_messages
     \/ \E o \in in_transit_messages :
          /\ First(o) /\ (o.left > 0 \/ ~HaveSpaceFor(o))
          /\ in_transit_messages' = PutBack(o)
  /\ busy' = (busy \/ in_transit_messages # {})
  /\ updated' = (updated \/ PopIsProgress)
  /\ UNCHANGED <<in_port, out_port>>

Step ==
  \/ \E i \in Port : Take(i) \/ SkipPort(i)
  \/ Deliver \/ DeliverEnds
=============================================================================
