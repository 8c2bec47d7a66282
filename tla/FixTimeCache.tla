---------------------------- MODULE FixTimeCache ----------------------------
(***************************************************************************)
(* The cache with fixed latencies (satacc/cache/cache_with_fix_time.rs).    *)
(* Requests for a block that is being read join that read; a read takes    *)
(* the latency of the request that started it.                             *)
(*                                                                         *)
(* update takes one request from each port, in order, ends the reads whose *)
(* time has come, and sends the answers until a port is full.  Each of     *)
(* these is an action, and `phase` forces their order.                     *)
(***************************************************************************)
EXTENDS FastCache, SimChannel, FiniteSets

CONSTANTS
  NPorts,                     \* ports of the cache
  Request, Addr, MemId,       \* requests, and their fields addr and mem_id
  Answer(_),                  \* the message that answers a request
  hit_latency, miss_latency,
  MaxOngoing,                 \* the literal 2048 of the code
  ChannelSize,                \* config.channel_size
  Elapsed                     \* the cycles that can pass between two calls of update

Port == 0 .. NPorts - 1

ASSUME PortsAssumption ==
  /\ NPorts \in Nat \ {0} /\ MaxOngoing \in Nat \ {0} /\ ChannelSize \in Nat \ {0}
  /\ Addr \in [Request -> Nat] /\ MemId \in [Request -> Port]
  /\ hit_latency \in Nat /\ miss_latency \in Nat /\ Elapsed \subseteq Nat

VARIABLES
  phase,              \* <<"access", port>>, or <<"complete", 0>> and so on
  busy, updated,      \* the results of update, so far
  in_port, out_port,  \* channels from and to the network, per port
  sets,               \* the tag store
  on_going_reqs,      \* WaitingTask: the blocks being read, with the cycles left
  tag_to_reqs,        \* the requests waiting for a block
  ready_reqs          \* requests to be answered

cacheVars == <<phase, busy, updated, in_port, out_port, sets, on_going_reqs,
               tag_to_reqs, ready_reqs>>

Init ==
  /\ phase = <<"return", 0>> /\ busy = FALSE /\ updated = FALSE
  /\ in_port = [i \in Port |-> <<>>] /\ out_port = [i \in Port |-> <<>>]
  /\ sets = [s \in 0 .. Sets - 1 |-> EmptySet]
  /\ on_going_reqs = {}
  /\ tag_to_reqs = << >>
  /\ ready_reqs = <<>>
-----------------------------------------------------------------------------
\* update is called, d cycles after the last call.
Call(d) ==
  /\ phase = <<"return", 0>> /\ phase' = <<"access", 0>>
  /\ busy' = (on_going_reqs # {}) /\ updated' = FALSE
  /\ on_going_reqs' = {[o EXCEPT !.left = IF @ > d THEN @ - d ELSE 0] : o \in on_going_reqs}
  /\ UNCHANGED <<in_port, out_port, sets, tag_to_reqs, ready_reqs>>

Works == busy' = TRUE /\ updated' = TRUE
-----------------------------------------------------------------------------
(* A port is visited.                                                       *)

NextPort(i) == IF i + 1 = NPorts THEN <<"complete", 0>> ELSE <<"access", i + 1>>

\* Mutant: no request is taken before the answers have left.
CanAccessIfAnswered(i) == ready_reqs = <<>> /\ in_port[i] # <<>>

CanAccess(i) == Cardinality(on_going_reqs) < MaxOngoing /\ in_port[i] # <<>>

SetOf(r) == sets[SetNumber(Addr[r])]
Latency(r) == IF IsHit(SetOf(r), Tag(Addr[r])) THEN hit_latency ELSE miss_latency

\* Mutant: only a hit joins the read of its block.
JoinsOnHit(r) ==
  Tag(Addr[r]) \in DOMAIN tag_to_reqs /\ IsHit(SetOf(r), Tag(Addr[r]))

\* The block is being read.
Joins(r) == Tag(Addr[r]) \in DOMAIN tag_to_reqs

\* Join the read of the block or start one.
Access(i) ==
  LET r == Head(in_port[i])
      tag == Tag(Addr[r])
  IN
  /\ phase = <<"access", i>> /\ CanAccess(i)
  /\ in_port' = [in_port EXCEPT ![i] = Received(@)]
  /\ sets' = [sets EXCEPT ![SetNumber(Addr[r])] = Accessed(@, tag)]
  /\ \/ /\ Joins(r)
        /\ tag_to_reqs' = [tag_to_reqs EXCEPT ![tag] = Append(@, r)]
        /\ UNCHANGED on_going_reqs
     \/ /\ ~Joins(r)
        /\ tag_to_reqs' = [t \in DOMAIN tag_to_reqs \cup {tag} |->
                             IF t = tag THEN <<r>> ELSE tag_to_reqs[t]]
        /\ on_going_reqs' = on_going_reqs \cup {[tag |-> tag, left |-> Latency(r)]}
  /\ Works
  /\ phase' = NextPort(i)
  /\ UNCHANGED <<out_port, ready_reqs>>

SkipPort(i) ==
  /\ phase = <<"access", i>> /\ ~CanAccess(i)
  /\ phase' = NextPort(i)
  /\ UNCHANGED <<busy, updated, in_port, out_port, sets, on_going_reqs, tag_to_reqs,
                 ready_reqs>>
-----------------------------------------------------------------------------
(* The reads whose time has come.  WaitingTask pops one with the fewest     *)
(* cycles left; which of several, its heap decides.                        *)

First(o) == \A p \in on_going_reqs : o.left <= p.left

Complete ==
  /\ phase = <<"complete", 0>>
  /\ \E o \in on_going_reqs :
       /\ First(o) /\ o.left = 0
       /\ on_going_reqs' = on_going_reqs \ {o}
       /\ ready_reqs' = ready_reqs \o tag_to_reqs[o.tag]
       /\ tag_to_reqs' = [t \in DOMAIN tag_to_reqs \ {o.tag} |-> tag_to_reqs[t]]
  /\ Works
  /\ UNCHANGED <<phase, in_port, out_port, sets>>

\* A read that was popped is progress, also when it is pushed back.
PopIsProgress == on_going_reqs # {}

\* No read is left, or the first one is not over: it is pushed back.
CompleteEnds ==
  /\ phase = <<"complete", 0>> /\ \A o \in on_going_reqs : o.left > 0
  /\ phase' = <<"push", 0>>
  /\ busy' = (busy \/ on_going_reqs # {})
  /\ updated' = (updated \/ PopIsProgress)
  /\ UNCHANGED <<in_port, out_port, sets, on_going_reqs, tag_to_reqs, ready_reqs>>
-----------------------------------------------------------------------------
(* The answers, in order, each to the port of its mem_id.                   *)

CanPush == ready_reqs # <<>> /\ HaveSpace(out_port[MemId[Head(ready_reqs)]], ChannelSize)

Push ==
  /\ phase = <<"push", 0>> /\ CanPush
  /\ LET r == Head(ready_reqs) IN
       out_port' = [out_port EXCEPT ![MemId[r]] = Sent(@, Answer(r))]
  /\ ready_reqs' = Tail(ready_reqs)
  /\ Works
  /\ UNCHANGED <<phase, in_port, sets, on_going_reqs, tag_to_reqs>>

\* Mutant: an answer that cannot be sent is not reported.
StaysBusy == busy

HeldIsBusy == busy \/ ready_reqs # <<>>

\* Nothing is left, or the port is full: the answer is pushed back to the front.
PushEnds ==
  /\ phase = <<"push", 0>> /\ ~CanPush
  /\ ready_reqs' = IF ready_reqs = <<>> THEN <<>> ELSE RecvThenRet(ready_reqs)
  /\ busy' = HeldIsBusy
  /\ phase' = <<"return", 0>>
  /\ UNCHANGED <<updated, in_port, out_port, sets, on_going_reqs, tag_to_reqs>>

Step ==
  \/ \E i \in Port : Access(i) \/ SkipPort(i)
  \/ Complete \/ CompleteEnds
  \/ Push \/ PushEnds
=============================================================================
