---------------------------- MODULE RamuCacheEnv ----------------------------
(***************************************************************************)
(* The cache in front of the DRAM, the network at its ports and the DRAM:   *)
(* requests arrive at any port and in any order, answers are taken at any  *)
(* time, and a read of the DRAM ends at any time.                          *)
(***************************************************************************)
EXTENDS RamuCache, SequencesExt

CONSTANT Elapsed   \* the cycles that can pass between two calls of update
ASSUME EnvAssumption == Elapsed \subseteq Nat

VARIABLES
  pending,   \* requests not yet sent
  answers    \* requests whose answer the network has taken

envVars == <<pending, answers>>
vars == <<cacheVars, envVars>>

NetworkSends ==
  /\ phase = <<"return", 0>>
  /\ \E r \in pending, i \in Port :
       /\ HaveSpace(in_port[i], ChannelSize)
       /\ in_port' = [in_port EXCEPT ![i] = Sent(@, r)]
       /\ pending' = pending \ {r}
  /\ UNCHANGED <<phase, busy, updated, out_port, sets, on_going_reqs, on_dram_reqs,
                 temp_send_blocked_req, dram, answers>>

NetworkTakes ==
  /\ phase = <<"return", 0>>
  /\ \E i \in Port : /\ out_port[i] # <<>>
                     /\ out_port' = [out_port EXCEPT ![i] = Received(@)]
                     /\ answers' = Append(answers, Head(out_port[i]))
  /\ UNCHANGED <<phase, busy, updated, in_port, sets, on_going_reqs, on_dram_reqs,
                 temp_send_blocked_req, dram, pending>>

\* RamulatorWrapper::cycle, as often as it takes to end a read.
DramReads ==
  /\ phase = <<"return", 0>>
  /\ \E tag \in reading : /\ reading' = reading \ {tag}
                          /\ returned' = returned \cup {tag}
  /\ UNCHANGED <<phase, busy, updated, in_port, out_port, sets, on_going_reqs,
                 on_dram_reqs, temp_send_blocked_req, pending, answers>>

EnvInit == Init /\ pending = Request /\ answers = <<>>

Next ==
  \/ NetworkSends \/ NetworkTakes \/ DramReads
  \/ (Step \/ \E d \in Elapsed : Call(d)) /\ UNCHANGED envVars

Spec == EnvInit /\ [][Next]_vars

(* SimRunner::run calls the cache, which runs the DRAM, and the network in  *)
(* every cycle.                                                            *)
FairSpec == Spec /\ WF_vars(Step /\ UNCHANGED envVars) /\ SF_vars(Call(2) /\ UNCHANGED envVars)
                 /\ SF_vars(NetworkSends) /\ SF_vars(NetworkTakes) /\ SF_vars(DramReads)
-----------------------------------------------------------------------------
TypeOK ==
  /\ phase \in {<<"access", i>> : i \in Port} \cup
               {<<"slot", 0>>, <<"answer", 0>>, <<"dram", 0>>, <<"return", 0>>}
  /\ busy \in BOOLEAN /\ updated \in BOOLEAN
  /\ in_port \in [Port -> Seq(Request)] /\ out_port \in [Port -> Seq(Request)]
  /\ sets \in [0 .. Sets - 1 -> [lines : Seq(Blocks), replace_ptr : 0 .. Associativity - 1]]
  /\ on_going_reqs \subseteq [req : Request, left : Nat]
  /\ DOMAIN on_dram_reqs \subseteq Blocks
  /\ \A t \in DOMAIN on_dram_reqs : on_dram_reqs[t] \in Seq(Request)
  /\ temp_send_blocked_req \in Request \cup {None}
  /\ phase = <<"slot", 0>> => temp_send_blocked_req # None
  /\ reading \subseteq Blocks /\ returned \subseteq Blocks
  /\ pending \subseteq Request /\ answers \in Seq(Request)

\* Requests wait for exactly the blocks the DRAM has been asked for and not given
\* back: the panic at line 186 is never reached, no entry waits for ever, and the
\* insert at line 75, which does not look for an entry of the refused request's
\* block, never drops one.
DramMatches ==
  /\ DOMAIN on_dram_reqs = reading \cup returned
  /\ reading \cap returned = {}
  /\ \A t \in DOMAIN on_dram_reqs :
       on_dram_reqs[t] # <<>> /\ \A r \in ToSet(on_dram_reqs[t]) : Block(r) = t
  /\ temp_send_blocked_req # None => Block(temp_send_blocked_req) \notin DOMAIN on_dram_reqs

Indices(ch, r) == {i \in DOMAIN ch : ch[i] = r}

\* The places a request has with the network, in the cache and its ports.
PlacesOf(r) ==
  ({"pending"} \X ({r} \cap pending))
    \cup ({"answers"} \X Indices(answers, r))
    \cup ({"going"} \X {o \in on_going_reqs : o.req = r})
    \cup ({"slot"} \X ({r} \cap {temp_send_blocked_req}))
    \cup (UNION {{"in"} \X {i} \X Indices(in_port[i], r) : i \in Port})
    \cup (UNION {{"out"} \X {i} \X Indices(out_port[i], r) : i \in Port})
    \cup (UNION {{"dram"} \X {t} \X Indices(on_dram_reqs[t], r) : t \in DOMAIN on_dram_reqs})

Places(r) == Cardinality(PlacesOf(r))

\* "the mem request received from the queue, and accessed the cache, but not yet
\* able to send to the dram. process it!" (line 24): a request that was received
\* is kept until it is answered.
NothingLost == \A r \in Request : Places(r) > 0

\* No request is answered, or kept, twice.
NothingDoubled == \A r \in Request : Places(r) <= 1

\* A request vanishes only when a second port of the same update is refused and
\* overwrites the slot (line 127).
LostOnlyInSlot ==
  [][\A r \in Request :
       Places(r)' = Places(r) \/ (/\ temp_send_blocked_req = r
                                  /\ temp_send_blocked_req' \notin {r, None}
                                  /\ phase[1] = "access" /\ phase[2] > 0)]_vars

\* SimRunner::run ends when no component is busy (sim.rs:158), and with an error
\* after a cycle that was busy without an update (sim.rs:148).  A cache that was
\* not busy holds nothing, and one that was reported progress: the slot is only
\* waited for while the DRAM reads.
ReportsHold ==
  phase = <<"return", 0>> =>
    /\ ~busy => on_going_reqs = {} /\ on_dram_reqs = << >> /\ temp_send_blocked_req = None
    /\ busy => updated

\* Every request that is not overwritten in the slot is answered.
EveryRequestAnswered ==
  <>(\A r \in Request : Contains(answers, r) \/ Places(r) = 0)
=============================================================================
