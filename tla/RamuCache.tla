------------------------------ MODULE RamuCache ------------------------------
(***************************************************************************)
(* The cache in front of the DRAM simulator                                *)
(* (satacc/cache/cache_with_ramulator.rs).  A miss reads its block from the *)
(* DRAM; requests for a block that is being read join that read.  A request *)
(* the DRAM refuses is kept in one slot, and while the slot is taken no     *)
(* port is visited.                                                        *)
(*                                                                         *)
(* As in FixTimeCache, each part of update is an action and `phase` forces  *)
(* their order.  The DRAM is external: it has a limited number of places    *)
(* per channel and ends its reads in any order, between two updates.       *)
(***************************************************************************)
EXTENDS FastCache, SimChannel, FiniteSets

CONSTANTS
  NPorts,                  \* ports of the cache
  Request, Addr, MemId,    \* requests, and their fields addr and mem_id
  hit_latency,
  ChannelSize,             \* config.channel_size
  DramChannel(_),          \* the channel of the DRAM a block is in
  DramRoom,                \* the reads a channel of the DRAM holds
  None                     \* Option::None

Port == 0 .. NPorts - 1

ASSUME PortsAssumption ==
  /\ NPorts \in Nat \ {0} /\ ChannelSize \in Nat \ {0} /\ DramRoom \in Nat \ {0}
  /\ Addr \in [Request -> Nat] /\ MemId \in [Request -> Port]
  /\ hit_latency \in Nat
  /\ None \notin Request

VARIABLES
  phase,                   \* <<"slot", 0>>, <<"access", port>> and so on
  busy, updated,           \* the results of update, so far
  in_port, out_port,       \* channels from and to the network, per port
  sets,                    \* the tag store
  on_going_reqs,           \* WaitingTask: answers, with the cycles left
  on_dram_reqs,            \* the requests waiting for a block of the DRAM
  temp_send_blocked_req,   \* the slot
  reading, returned        \* the DRAM: blocks being read, and read

dram == <<reading, returned>>
cacheVars == <<phase, busy, updated, in_port, out_port, sets, on_going_reqs,
               on_dram_reqs, temp_send_blocked_req, dram>>

Block(r) == Tag(Addr[r])
Blocks == {Block(r) : r \in Request}

\* RamulatorWrapper::available
Available(tag) == Cardinality({t \in reading : DramChannel(t) = DramChannel(tag)}) < DramRoom

Init ==
  /\ phase = <<"return", 0>> /\ busy = FALSE /\ updated = FALSE
  /\ in_port = [i \in Port |-> <<>>] /\ out_port = [i \in Port |-> <<>>]
  /\ sets = [s \in 0 .. Sets - 1 |-> EmptySet]
  /\ on_going_reqs = {} /\ on_dram_reqs = << >>
  /\ temp_send_blocked_req = None
  /\ reading = {} /\ returned = {}
-----------------------------------------------------------------------------
\* Mutant: the slot is looked at after the ports.
FirstPhaseAccess == <<"access", 0>>

\* The slot, or the ports.
FirstPhase == IF temp_send_blocked_req = None THEN <<"access", 0>> ELSE <<"slot", 0>>

NotReading == FALSE

HasWork == on_going_reqs # {} \/ on_dram_reqs # << >>
ReadIsProgress == on_dram_reqs # << >>

\* update is called, d cycles after the last call.
Call(d) ==
  /\ phase = <<"return", 0>>
  /\ phase' = FirstPhase
  /\ busy' = HasWork /\ updated' = ReadIsProgress
  /\ on_going_reqs' = {[o EXCEPT !.left = IF @ > d THEN @ - d ELSE 0] : o \in on_going_reqs}
  /\ UNCHANGED <<in_port, out_port, sets, on_dram_reqs, temp_send_blocked_req, dram>>

Works == busy' = TRUE /\ updated' = TRUE

\* send to the DRAM, and the entry for those who wait for the block.
SendToDram(r) ==
  /\ reading' = reading \cup {Block(r)}
  /\ on_dram_reqs' = [t \in DOMAIN on_dram_reqs \cup {Block(r)} |->
                        IF t = Block(r) THEN <<r>> ELSE on_dram_reqs[t]]
  /\ UNCHANGED returned

\* The slot: send its request now, or keep it.
SendBlocked ==
  /\ phase = <<"slot", 0>>
  /\ LET r == temp_send_blocked_req IN
       \/ /\ Available(Block(r))
          /\ SendToDram(r) /\ temp_send_blocked_req' = None
          /\ Works
       \/ /\ ~Available(Block(r))
          /\ busy' = TRUE /\ UNCHANGED updated
          /\ UNCHANGED <<on_dram_reqs, temp_send_blocked_req, dram>>
  /\ phase' = <<"answer", 0>>
  /\ UNCHANGED <<in_port, out_port, sets, on_going_reqs>>
-----------------------------------------------------------------------------
(* A port is visited.                                                       *)

NextPort(i) == IF i + 1 = NPorts THEN <<"answer", 0>> ELSE <<"access", i + 1>>

\* Mutant: only a hit joins the read of its block.
JoinsOnHit(r) ==
  Block(r) \in DOMAIN on_dram_reqs /\ IsHit(sets[SetNumber(Addr[r])], Block(r))

\* Hit or miss, a request for a block being read waits for that read.
Joins(r) == Block(r) \in DOMAIN on_dram_reqs

\* The slot is written whatever it holds.
KeepRefused(r) == temp_send_blocked_req' = r

Access(i) ==
  LET r == Head(in_port[i])
      hit == IsHit(sets[SetNumber(Addr[r])], Block(r))
  IN
  /\ phase = <<"access", i>> /\ in_port[i] # <<>>
  /\ in_port' = [in_port EXCEPT ![i] = Received(@)]
  /\ sets' = [sets EXCEPT ![SetNumber(Addr[r])] = Accessed(@, Block(r))]
  /\ \/ /\ Joins(r)
        /\ on_dram_reqs' = [on_dram_reqs EXCEPT ![Block(r)] = Append(@, r)]
        /\ UNCHANGED <<on_going_reqs, temp_send_blocked_req, dram>>
     \/ /\ ~Joins(r) /\ hit
        /\ on_going_reqs' = on_going_reqs \cup {[req |-> r, left |-> hit_latency]}
        /\ UNCHANGED <<on_dram_reqs, temp_send_blocked_req, dram>>
     \/ /\ ~Joins(r) /\ ~hit /\ Available(Block(r))
        /\ SendToDram(r)
        /\ UNCHANGED <<on_going_reqs, temp_send_blocked_req>>
     \/ /\ ~Joins(r) /\ ~hit /\ ~Available(Block(r))
        /\ KeepRefused(r)
        /\ UNCHANGED <<on_going_reqs, on_dram_reqs, dram>>
  /\ Works
  /\ phase' = NextPort(i)
  /\ UNCHANGED out_port

SkipPort(i) ==
  /\ phase = <<"access", i>> /\ in_port[i] = <<>>
  /\ phase' = NextPort(i)
  /\ UNCHANGED <<busy, updated, in_port, out_port, sets, on_going_reqs, on_dram_reqs,
                 temp_send_blocked_req, dram>>
-----------------------------------------------------------------------------
(* The answers whose time has come, one with the fewest cycles left first.  *)
(* An answer that is popped and pushed back counts as progress.            *)

First(o) == \A p \in on_going_reqs : o.left <= p.left

CanAnswer(o) ==
  First(o) /\ o.left = 0 /\ HaveSpace(out_port[MemId[o.req]], ChannelSize)

Answer ==
  /\ phase = <<"answer", 0>>
  /\ \E o \in on_going_reqs :
       /\ CanAnswer(o)
       /\ on_going_reqs' = on_going_reqs \ {o}
       /\ out_port' = [out_port EXCEPT ![MemId[o.req]] = Sent(@, o.req)]
  /\ Works
  /\ UNCHANGED <<phase, in_port, sets, on_dram_reqs, temp_send_blocked_req, dram>>

\* The answer popped last, if any, is pushed back.
AnswersEnd ==
  /\ phase = <<"answer", 0>>
  /\ \/ on_going_reqs = {} /\ UNCHANGED <<busy, updated>>
     \/ (\E o \in on_going_reqs : First(o) /\ ~CanAnswer(o)) /\ Works
  /\ phase' = <<"dram", 0>>
  /\ UNCHANGED <<in_port, out_port, sets, on_going_reqs, on_dram_reqs,
                 temp_send_blocked_req, dram>>
-----------------------------------------------------------------------------
(* What the DRAM has read: those who wait are answered like hits.           *)

\* Mutant: only the first of those who wait is answered.
FirstWaiting(tag) == {on_dram_reqs[tag][1]}

Waiting(tag) == {on_dram_reqs[tag][i] : i \in DOMAIN on_dram_reqs[tag]}

TakeBlock ==
  /\ phase = <<"dram", 0>>
  /\ \E tag \in returned :
       /\ tag \in DOMAIN on_dram_reqs
       /\ returned' = returned \ {tag}
       /\ on_going_reqs' = on_going_reqs \cup [req : Waiting(tag), left : {hit_latency}]
       /\ on_dram_reqs' = [t \in DOMAIN on_dram_reqs \ {tag} |-> on_dram_reqs[t]]
  /\ Works
  /\ UNCHANGED <<phase, in_port, out_port, sets, temp_send_blocked_req, reading>>

\* Nothing is left, and the DRAM is run for a cycle: its reads under way may
\* end from now on.
Return ==
  /\ phase = <<"dram", 0>> /\ returned = {}
  /\ phase' = <<"return", 0>>
  /\ UNCHANGED <<busy, updated, in_port, out_port, sets, on_going_reqs, on_dram_reqs,
                 temp_send_blocked_req, dram>>

Step ==
  \/ SendBlocked
  \/ \E i \in Port : Access(i) \/ SkipPort(i)
  \/ Answer \/ AnswersEnd
  \/ TakeBlock \/ Return
=============================================================================
