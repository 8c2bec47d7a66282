--------------------------- MODULE OrderedNetwork ---------------------------
(***************************************************************************)
(* What the interconnect promises: each message arrives once, at its port,  *)
(* and messages from one port to another arrive in the order sent.         *)
(***************************************************************************)
EXTENDS Sequences, Naturals

CONSTANTS Ports, Messages, PortOf

VARIABLES
  unsent,    \* messages not yet sent
  sent,      \* sent[i]: the messages sent from port i, in order
  wire,      \* the messages on their way
  arrived    \* arrived[j]: the messages that have come to port j, in order

OnInit ==
  /\ unsent = Messages
  /\ sent = [i \in Ports |-> <<>>]
  /\ wire = {}
  /\ arrived = [j \in Ports |-> <<>>]

\* n was sent before m, from the same port.
SentBefore(n, m) ==
  \E i \in Ports : \E k, l \in DOMAIN sent[i] : k < l /\ sent[i][k] = n /\ sent[i][l] = m

Send(m, i) ==
  /\ m \in unsent /\ unsent' = unsent \ {m}
  /\ sent' = [sent EXCEPT ![i] = Append(@, m)]
  /\ wire' = wire \cup {m}
  /\ UNCHANGED arrived

Arrive(m) ==
  /\ m \in wire /\ wire' = wire \ {m}
  /\ \A n \in wire : PortOf[n] = PortOf[m] => ~SentBefore(n, m)
  /\ arrived' = [arrived EXCEPT ![PortOf[m]] = Append(@, m)]
  /\ UNCHANGED <<unsent, sent>>

OnNext == \E m \in Messages : Arrive(m) \/ \E i \in Ports : Send(m, i)

OnSpec == OnInit /\ [][OnNext]_<<unsent, sent, wire, arrived>>
=============================================================================
