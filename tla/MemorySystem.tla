---------------------------- MODULE MemorySystem ----------------------------
(***************************************************************************)
(* The memory network and the shared cache behind it, as TrailAndOthers     *)
(* updates them in every cycle (satacc/simulator.rs): requests and answers *)
(* share the network and its limit.  The cache is FixTimeCache, the network *)
(* an instance of Icnt that has the channels at the ports of the cache from *)
(* the other side, and ports for the processing elements besides.          *)
(*                                                                         *)
(* The ports of the cache come first here and behind those of the          *)
(* processing elements in the code; a mesh then measures other distances.   *)
(***************************************************************************)
EXTENDS FixTimeCache, SequencesExt, FiniteSetsExt, Integers

CONSTANTS
  NPe, PeOf,               \* config.n_watchers, and the field watcher_pe_id
  EntryPort,               \* the port of the cache a request is sent to
  ideal_icnt, MaxTransit   \* of the network

Pe == 0 .. NPe - 1
PortOf(p) == NPorts + p

IsAnswer(m) == m \notin Request
Message == Request \cup {Answer(r) : r \in Request}

\* mem_target_port of a request and of an answer.  A request enters the cache at
\* the port its address names and is answered at the one its mem_id names, which
\* is the same but for a blocker's: get_blocker_req always sets 0.
TargetPort == [m \in Message |-> IF IsAnswer(m) THEN PortOf(PeOf[m.answer]) ELSE EntryPort[m]]

\* An answer is no request, but carries the one it answers.
ASSUME MemoryAssumption ==
  /\ NPe \in Nat \ {0} /\ MaxTransit \in Nat \ {0} /\ PeOf \in [Request -> Pe]
  /\ EntryPort \in [Request -> Port]
  /\ \A r \in Request : IsAnswer(Answer(r)) /\ Answer(r).answer = r

VARIABLES
  turn,     \* "others", "network" or "cache": whose update is next or goes on
  net_phase, net_busy, net_updated, in_transit_messages,
  unsent    \* requests the processing elements have not sent

networkOnly == <<net_phase, net_busy, net_updated, in_transit_messages>>
cacheOnly == <<phase, busy, updated, sets, on_going_reqs, tag_to_reqs, ready_reqs>>
memoryVars == <<turn, in_port, out_port, networkOnly, cacheOnly, unsent>>

\* What the cache sends, the network takes.
Network == INSTANCE Icnt WITH
  NPorts <- NPe + NPorts, phase <- net_phase, busy <- net_busy, updated <- net_updated,
  in_port <- out_port, out_port <- in_port

MemoryInit ==
  /\ Network!Init
  /\ phase = <<"return", 0>> /\ busy = FALSE /\ updated = FALSE
  /\ sets = [s \in 0 .. Sets - 1 |-> EmptySet]
  /\ on_going_reqs = {} /\ tag_to_reqs = << >> /\ ready_reqs = <<>>
  /\ turn = "others" /\ unsent = Request

\* The watchers and clause units send requests at the port of their processing
\* element, and its interface receives an answer.
Send(p, r) ==
  /\ turn = "others" /\ r \in unsent /\ PeOf[r] = p
  /\ HaveSpace(out_port[PortOf(p)], ChannelSize)
  /\ out_port' = [out_port EXCEPT ![PortOf(p)] = Sent(@, r)]
  /\ unsent' = unsent \ {r}
  /\ UNCHANGED <<turn, in_port, networkOnly, cacheOnly>>

Receive(p) ==
  /\ turn = "others" /\ in_port[PortOf(p)] # <<>>
  /\ in_port' = [in_port EXCEPT ![PortOf(p)] = Received(@)]
  /\ UNCHANGED <<turn, out_port, networkOnly, cacheOnly, unsent>>

\* One update of the network and then one of the cache.
UpdateNetwork ==
  /\ turn = "others" /\ turn' = "network"
  /\ \E d \in Elapsed : Network!Call(d)
  /\ UNCHANGED <<cacheOnly, unsent>>
NetworkStep ==
  /\ turn = "network" /\ Network!Step /\ UNCHANGED <<turn, cacheOnly, unsent>>
UpdateCache ==
  /\ turn = "network" /\ net_phase = <<"return", 0>> /\ turn' = "cache"
  /\ \E d \in Elapsed : Call(d)
  /\ UNCHANGED <<networkOnly, unsent>>
CacheStep ==
  /\ turn = "cache" /\ Step
  /\ turn' = IF phase' = <<"return", 0>> THEN "others" ELSE turn
  /\ UNCHANGED <<networkOnly, unsent>>

Update == UpdateNetwork \/ NetworkStep \/ UpdateCache \/ CacheStep
MemoryNext == Update \/ \E p \in Pe : Receive(p) \/ \E r \in Request : Send(p, r)

MemorySpec == MemoryInit /\ [][MemoryNext]_memoryVars

(* SimRunner::run goes on updating.  A processing element need not send, but *)
(* receives what has come for it.                                          *)
MemoryFairSpec ==
  /\ MemorySpec /\ WF_memoryVars(NetworkStep \/ UpdateCache \/ CacheStep)
  /\ SF_memoryVars(UpdateNetwork) /\ \A p \in Pe : SF_memoryVars(Receive(p))
-----------------------------------------------------------------------------
Requests(ch) == {m \in ToSet(ch) : ~IsAnswer(m)}
AnswersIn(S) == {m.answer : m \in {n \in S : IsAnswer(n)}}

\* Where the requests between the ports of the processing elements are, and
\* the answers on their way back.
Memory ==
  LET moving == {o.msg : o \in in_transit_messages} IN
  {m \in moving : ~IsAnswer(m)} \cup AnswersIn(moving)
    \cup ToSet(ready_reqs) \cup (UNION {ToSet(tag_to_reqs[t]) : t \in DOMAIN tag_to_reqs})
    \cup (UNION {Requests(in_port[i]) \cup AnswersIn(ToSet(out_port[i])) : i \in Port})

\* Network and cache keep the promise System relies on: no request is lost,
\* answered twice or at another processing element, whichever of them holds it.
Promise == INSTANCE MemoryService WITH
  AnswerPort <- LAMBDA r : PeOf[r],
  mem_out <- [p \in Pe |-> out_port[PortOf(p)]],
  mem_icnt_receiver <- [p \in Pe |-> [i \in DOMAIN in_port[PortOf(p)] |->
                                        in_port[PortOf(p)][i].answer]],
  memory <- Memory
ImplementsMemoryService == Promise!ServiceSpec

\* A cycle that is busy without an update ends the run with an error
\* (sim.rs:148).  Either may be idle or wait for the other; but while they hold
\* a request one of them is busy and one reports progress.
HeldIsProgress ==
  turn = "others" /\ Memory # {} =>
    /\ net_busy \/ busy
    /\ net_updated \/ updated

\* The requests and answers that share the network do not stop each other,
\* although it may be full of requests for a cache with answers to send.
EveryHeldAnswered ==
  \A r \in Request : [](r \in Memory => <>(r \notin Memory))
=============================================================================
