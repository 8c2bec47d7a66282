--------------------------- MODULE FixTimeCacheEnv ---------------------------
(***************************************************************************)
(* The cache with fixed latencies and the network at its ports: requests   *)
(* arrive at any port and in any order, answers are taken at any time.     *)
(***************************************************************************)
EXTENDS FixTimeCache, SequencesExt, FiniteSetsExt

\* An answer carries the id of its request.
ASSUME AnswersDistinct == \A r, q \in Request : Answer(r) = Answer(q) => r = q

VARIABLES
  pending,   \* requests not yet sent
  answers    \* the answers the network has taken

envVars == <<pending, answers>>
vars == <<cacheVars, envVars>>

NetworkSends ==
  /\ phase = <<"return", 0>>
  /\ \E r \in pending, i \in Port :
       /\ HaveSpace(in_port[i], ChannelSize)
       /\ in_port' = [in_port EXCEPT ![i] = Sent(@, r)]
       /\ pending' = pending \ {r}
  /\ UNCHANGED <<phase, busy, updated, out_port, sets, on_going_reqs, tag_to_reqs,
                 ready_reqs, answers>>

NetworkTakes ==
  /\ phase = <<"return", 0>>
  /\ \E i \in Port : /\ out_port[i] # <<>>
                     /\ out_port' = [out_port EXCEPT ![i] = Received(@)]
                     /\ answers' = Append(answers, Head(out_port[i]))
  /\ UNCHANGED <<phase, busy, updated, in_port, sets, on_going_reqs, tag_to_reqs,
                 ready_reqs, pending>>

EnvInit == Init /\ pending = Request /\ answers = <<>>

Next ==
  \/ NetworkSends \/ NetworkTakes
  \/ (Step \/ \E d \in Elapsed : Call(d)) /\ UNCHANGED envVars

Spec == EnvInit /\ [][Next]_vars

(* SimRunner::run calls the cache and the network in every cycle, two       *)
(* cycles apart; the network takes what waits at its ports.                *)
FairSpec == Spec /\ WF_vars(Step /\ UNCHANGED envVars) /\ SF_vars(Call(2) /\ UNCHANGED envVars)
                 /\ SF_vars(NetworkSends) /\ SF_vars(NetworkTakes)
-----------------------------------------------------------------------------
Blocks == {Tag(Addr[r]) : r \in Request}
Answers == {Answer(r) : r \in Request}

TypeOK ==
  /\ phase \in {<<"access", i>> : i \in Port} \cup
               {<<"complete", 0>>, <<"push", 0>>, <<"return", 0>>}
  /\ busy \in BOOLEAN /\ updated \in BOOLEAN
  /\ in_port \in [Port -> Seq(Request)] /\ out_port \in [Port -> Seq(Answers)]
  /\ sets \in [0 .. Sets - 1 -> [lines : Seq(Blocks), replace_ptr : 0 .. Associativity - 1]]
  /\ on_going_reqs \subseteq [tag : Blocks, left : Nat]
  /\ DOMAIN tag_to_reqs \subseteq Blocks
  /\ \A t \in DOMAIN tag_to_reqs : tag_to_reqs[t] \in Seq(Request)
  /\ ready_reqs \in Seq(Request)
  /\ pending \subseteq Request /\ answers \in Seq(Answers)

\* A block is read once at a time, also when its line has been replaced
\* meanwhile, and exactly while requests for it wait: the unwrap of phase
\* "complete" (cache_with_fix_time.rs:114) never fails.
OneReadPerBlock ==
  /\ \A o, p \in on_going_reqs : o.tag = p.tag => o = p
  /\ DOMAIN tag_to_reqs = {o.tag : o \in on_going_reqs}
  /\ \A t \in DOMAIN tag_to_reqs :
       tag_to_reqs[t] # <<>> /\ \A r \in ToSet(tag_to_reqs[t]) : Tag(Addr[r]) = t

Indices(ch, m) == {i \in DOMAIN ch : ch[i] = m}

\* The places a request has with the network, in the cache and its ports.
PlacesOf(r) ==
  ({"pending"} \X ({r} \cap pending))
    \cup ({"ready"} \X Indices(ready_reqs, r))
    \cup ({"answered"} \X Indices(answers, Answer(r)))
    \cup (UNION {{"in"} \X {i} \X Indices(in_port[i], r) : i \in Port})
    \cup (UNION {{"out"} \X {i} \X Indices(out_port[i], Answer(r)) : i \in Port})
    \cup (UNION {{"wait"} \X {t} \X Indices(tag_to_reqs[t], r) : t \in DOMAIN tag_to_reqs})

\* Every request is in one place until it is answered, once.
AnsweredOnce == \A r \in Request : Cardinality(PlacesOf(r)) = 1

\* SimRunner::run ends when no component is busy (sim.rs:158): a cache whose
\* update was not busy holds nothing.
QuietOnlyIfEmpty ==
  phase = <<"return", 0>> /\ ~busy => on_going_reqs = {} /\ ready_reqs = <<>>

\* The tag store replaces first in, first out.
Fifo == INSTANCE FifoCache WITH
  SetNumbers <- 0 .. Sets - 1, Tags <- Blocks, SetOfTag <- SetNumber,
  fifo <- [s \in DOMAIN sets |-> OldestFirst(sets[s])]
ImplementsFifo == Fifo!FifoSpec

\* Every request is answered.
EveryRequestAnswered == <>(\A r \in Request : Contains(answers, Answer(r)))
=============================================================================
