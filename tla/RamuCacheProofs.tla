--------------------------- MODULE RamuCacheProofs ---------------------------
(***************************************************************************)
(* Proofs about RamuCacheEnv: that the cache and the DRAM agree on the      *)
(* blocks being read, that what update reports is true, that no request is  *)
(* in two places, and that one vanishes only when the slot of a refused     *)
(* request is overwritten; for any requests, ports, geometry, latency and  *)
(* any room in the DRAM.                                                   *)
(***************************************************************************)
EXTENDS RamuCacheEnv, ChannelLemmas, FiniteSetTheorems

(* A set of the tag store that holds some of the tags.                      *)
SetWith(tags) == [lines : Seq(tags), replace_ptr : 0 .. Associativity - 1]

LEMMA EmptySetType ==
  ASSUME NEW tags
  PROVE  EmptySet \in SetWith(tags)
BY CacheAssumption, EmptySeq DEF EmptySet, SetWith

(* An access keeps a set of the tag store well formed, whether it hits,     *)
(* fills a free line or replaces one.                                       *)
LEMMA AccessedType ==
  ASSUME NEW tags, NEW set \in SetWith(tags), NEW tag \in tags
  PROVE  Accessed(set, tag) \in SetWith(tags)
<1> USE DEF SetWith
<1>1. CASE IsHit(set, tag)
  BY <1>1 DEF Accessed
<1>2. CASE ~IsHit(set, tag) /\ Len(set.lines) < Associativity
  <2>1. Append(set.lines, tag) \in Seq(tags)
    BY AppendProperties
  <2> QED BY <1>2, <2>1 DEF Accessed
<1>3. CASE ~IsHit(set, tag) /\ ~(Len(set.lines) < Associativity)
  <2> DEFINE l == set.lines
             i == set.replace_ptr + 1
  <2>1. [l EXCEPT ![i] = tag] \in Seq(tags)
    <3>1. l \in Seq(tags)
      OBVIOUS
    <3> HIDE DEF l, i
    <3>2. CASE i \in 1 .. Len(l)
      BY <3>1, <3>2, ExceptSeq
    <3>3. CASE i \notin 1 .. Len(l)
      <4>1. DOMAIN l = 1 .. Len(l) /\ l = [k \in DOMAIN l |-> l[k]]
        BY <3>1
      <4>2. [l EXCEPT ![i] = tag] = l
        BY <3>3, <4>1
      <4> QED BY <3>1, <4>2
    <3> QED BY <3>2, <3>3
  <2>2. (set.replace_ptr + 1) % Associativity \in 0 .. Associativity - 1
    BY CacheAssumption
  <2> QED BY <1>3, <2>1, <2>2 DEF Accessed, Replace
<1> QED BY <1>1, <1>2, <1>3
-----------------------------------------------------------------------------

(* While the ports are visited nothing leaves the DRAM, so that it would    *)
(* still refuse the request it has refused: no later port can ask it for    *)
(* the same block.                                                         *)
StillRefused ==
  phase[1] = "access" /\ temp_send_blocked_req # None =>
    ~Available(Block(temp_send_blocked_req))

IInv == TypeOK /\ DramMatches /\ IsFiniteSet(reading) /\ StillRefused

LEMMA InitIInv == EnvInit => IInv
<1> SUFFICES ASSUME EnvInit PROVE IInv
  OBVIOUS
<1> USE DEF EnvInit, Init
<1>1. sets \in [0 .. Sets - 1 -> [lines : Seq(Blocks), replace_ptr : 0 .. Associativity - 1]]
  BY EmptySetType DEF SetWith
<1>2. DOMAIN on_dram_reqs = {}
  OBVIOUS
<1>3. TypeOK
  BY <1>1, <1>2, EmptySeq DEF TypeOK
<1>4. DramMatches
  BY <1>2 DEF DramMatches
<1>5. IsFiniteSet(reading) /\ StillRefused
  BY FS_EmptySet DEF StillRefused
<1> QED BY <1>3, <1>4, <1>5 DEF IInv

(* A DRAM that reads one more block has no more room than before.           *)
LEMMA RefusedStays ==
  ASSUME IsFiniteSet(reading), NEW t, NEW b, ~Available(b), reading' = reading \cup {t}
  PROVE  ~Available(b)'
<1> DEFINE S == {x \in reading : DramChannel(x) = DramChannel(b)}
           T == {x \in reading \cup {t} : DramChannel(x) = DramChannel(b)}
<1>1. IsFiniteSet(reading \cup {t})
  BY FS_AddElement
<1>2. T \subseteq reading \cup {t} /\ S \subseteq T
  OBVIOUS
<1>3. IsFiniteSet(T) /\ Cardinality(S) <= Cardinality(T)
  <2>1. IsFiniteSet(T)
    BY <1>1, <1>2, FS_Subset
  <2> QED BY <2>1, <1>2, FS_Subset
<1>4. IsFiniteSet(S) /\ Cardinality(S) \in Nat /\ Cardinality(T) \in Nat /\ DramRoom \in Nat
  BY <1>2, <1>3, FS_Subset, FS_CardinalityType, PortsAssumption
<1>5. ~(Cardinality(S) < DramRoom)
  BY DEF Available
<1>6. ~(Cardinality(T) < DramRoom)
  <2> HIDE DEF S, T
  <2> QED BY <1>3, <1>4, <1>5
<1> QED BY <1>6 DEF Available

(* Asking the DRAM for a block nobody waits for keeps the two in agreement. *)
LEMMA SendToDramKeeps ==
  ASSUME IInv, NEW r \in Request, Block(r) \notin DOMAIN on_dram_reqs, SendToDram(r)
  PROVE  /\ DOMAIN on_dram_reqs' = reading' \cup returned'
         /\ reading' \cap returned' = {}
         /\ DOMAIN on_dram_reqs' = DOMAIN on_dram_reqs \cup {Block(r)}
         /\ DOMAIN on_dram_reqs' \subseteq Blocks
         /\ \A t \in DOMAIN on_dram_reqs' :
              /\ on_dram_reqs'[t] \in Seq(Request) /\ on_dram_reqs'[t] # <<>>
              /\ \A q \in ToSet(on_dram_reqs'[t]) : Block(q) = t
         /\ reading' \subseteq Blocks /\ returned' = returned
         /\ IsFiniteSet(reading')
<1> DEFINE b == Block(r)
<1>1. /\ reading' = reading \cup {b} /\ returned' = returned
      /\ on_dram_reqs' = [t \in DOMAIN on_dram_reqs \cup {b} |->
                            IF t = b THEN <<r>> ELSE on_dram_reqs[t]]
      /\ b \in Blocks /\ b \notin DOMAIN on_dram_reqs
  BY DEF SendToDram, Blocks
<1>2. <<r>> \in Seq(Request) /\ <<r>> # <<>> /\ \A q \in ToSet(<<r>>) : Block(q) = b
  BY DEF ToSet
<1>3. /\ DOMAIN on_dram_reqs = reading \cup returned /\ reading \cap returned = {}
      /\ DOMAIN on_dram_reqs \subseteq Blocks /\ reading \subseteq Blocks
      /\ \A t \in DOMAIN on_dram_reqs :
           /\ on_dram_reqs[t] \in Seq(Request) /\ on_dram_reqs[t] # <<>>
           /\ \A q \in ToSet(on_dram_reqs[t]) : Block(q) = t
  BY DEF IInv, TypeOK, DramMatches
<1>4. IsFiniteSet(reading')
  BY <1>1, FS_AddElement DEF IInv
<1> HIDE DEF b
<1>5. DOMAIN on_dram_reqs' = DOMAIN on_dram_reqs \cup {b}
  BY <1>1
<1>6. \A t \in DOMAIN on_dram_reqs' :
        /\ on_dram_reqs'[t] \in Seq(Request) /\ on_dram_reqs'[t] # <<>>
        /\ \A q \in ToSet(on_dram_reqs'[t]) : Block(q) = t
  BY <1>1, <1>2, <1>3, <1>5
<1> QED BY <1>1, <1>3, <1>4, <1>5, <1>6 DEF b

LEMMA CallIInv ==
  ASSUME IInv, NEW d \in Elapsed, Call(d), UNCHANGED envVars
  PROVE  IInv'
<1>1. /\ on_going_reqs \subseteq [req : Request, left : Nat]
      /\ on_going_reqs' = {[o EXCEPT !.left = IF @ > d THEN @ - d ELSE 0] : o \in on_going_reqs}
      /\ d \in Nat
  BY EnvAssumption DEF IInv, TypeOK, Call
<1>2. on_going_reqs' \subseteq [req : Request, left : Nat]
  BY <1>1
<1>3. \/ phase' = <<"access", 0>> /\ temp_send_blocked_req = None
      \/ phase' = <<"slot", 0>> /\ temp_send_blocked_req # None
  BY DEF Call, FirstPhase
<1>4. 0 \in Port
  BY PortsAssumption DEF Port
<1>5. TypeOK'
  BY <1>2, <1>3, <1>4 DEF IInv, TypeOK, Call, HasWork, ReadIsProgress, dram, envVars
<1>6. DramMatches' /\ IsFiniteSet(reading') /\ StillRefused'
  BY <1>3 DEF IInv, DramMatches, StillRefused, Call, dram
<1> QED BY <1>5, <1>6 DEF IInv

LEMMA SendBlockedIInv ==
  ASSUME IInv, SendBlocked, UNCHANGED envVars
  PROVE  IInv'
<1> DEFINE r == temp_send_blocked_req
<1>1. r \in Request /\ r # None /\ Block(r) \notin DOMAIN on_dram_reqs
  BY DEF IInv, TypeOK, DramMatches, SendBlocked
<1>2. /\ phase' = <<"answer", 0>> /\ busy' = TRUE /\ updated' \in BOOLEAN
      /\ UNCHANGED <<in_port, out_port, sets, on_going_reqs, pending, answers>>
  BY DEF SendBlocked, Works, envVars, IInv, TypeOK
<1>3. CASE Available(Block(r)) /\ SendToDram(r) /\ temp_send_blocked_req' = None
  <2>1. TypeOK'
    BY <1>1, <1>2, <1>3, SendToDramKeeps DEF IInv, TypeOK
  <2>2. DramMatches' /\ IsFiniteSet(reading')
    BY <1>1, <1>3, SendToDramKeeps DEF DramMatches
  <2> QED BY <1>2, <2>1, <2>2 DEF IInv, StillRefused
<1>4. CASE UNCHANGED <<on_dram_reqs, temp_send_blocked_req, dram>>
  <2>1. TypeOK'
    BY <1>2, <1>4 DEF IInv, TypeOK, dram
  <2>2. DramMatches' /\ IsFiniteSet(reading')
    BY <1>4 DEF IInv, DramMatches, dram
  <2> QED BY <1>2, <2>1, <2>2 DEF IInv, StillRefused
<1> QED BY <1>3, <1>4 DEF SendBlocked

(* The four ways an access can go.                                          *)
LEMMA AccessIInv ==
  ASSUME IInv, NEW i \in Port, Access(i), UNCHANGED envVars
  PROVE  IInv'
<1> DEFINE r == Head(in_port[i])
           b == Block(r)
           s == temp_send_blocked_req
<1>1. /\ in_port[i] \in Seq(Request) /\ in_port[i] # <<>>
      /\ r \in Request /\ Received(in_port[i]) \in Seq(Request) /\ b \in Blocks
  <2>1. in_port[i] \in Seq(Request) /\ in_port[i] # <<>>
    BY DEF IInv, TypeOK, Access
  <2>2. r \in Request /\ Received(in_port[i]) \in Seq(Request)
    BY <2>1, ReceivedType
  <2> QED BY <2>1, <2>2 DEF Blocks
<1>2. /\ phase' \in {<<"access", j>> : j \in Port} \cup {<<"answer", 0>>}
      /\ busy' = TRUE /\ updated' = TRUE
      /\ UNCHANGED <<out_port, pending, answers>>
  BY PortsAssumption DEF Access, NextPort, Port, Works, envVars
<1>3. /\ sets' \in [0 .. Sets - 1 -> [lines : Seq(Blocks), replace_ptr : 0 .. Associativity - 1]]
      /\ in_port' \in [Port -> Seq(Request)]
  BY <1>1, AccessedType DEF IInv, TypeOK, Access, SetWith
<1>4. s # None => ~Available(Block(s))
  BY DEF IInv, StillRefused, Access
<1> HIDE DEF r
<1>5. CASE /\ Joins(r)
           /\ on_dram_reqs' = [on_dram_reqs EXCEPT ![b] = Append(@, r)]
           /\ UNCHANGED <<on_going_reqs, temp_send_blocked_req, dram>>
  <2>1. b \in DOMAIN on_dram_reqs /\ DOMAIN on_dram_reqs' = DOMAIN on_dram_reqs
    BY <1>5 DEF Joins
  <2>2. ASSUME NEW t \in DOMAIN on_dram_reqs'
        PROVE  /\ on_dram_reqs'[t] \in Seq(Request) /\ on_dram_reqs'[t] # <<>>
               /\ \A q \in ToSet(on_dram_reqs'[t]) : Block(q) = t
    <3> DEFINE old == on_dram_reqs[t]
    <3>1. /\ old \in Seq(Request) /\ old # <<>>
          /\ \A q \in ToSet(old) : Block(q) = t
      BY <2>1 DEF IInv, TypeOK, DramMatches
    <3>2. CASE t # b
      BY <1>5, <2>1, <3>1, <3>2
    <3>3. CASE t = b
      <4> DEFINE now == Append(old, r)
      <4>1. on_dram_reqs'[t] = now
        BY <1>5, <2>1, <3>3
      <4>2. /\ now \in Seq(Request) /\ Len(now) = Len(old) + 1 /\ now[Len(old) + 1] = r
            /\ \A k \in 1 .. Len(old) : now[k] = old[k]
        BY <1>1, <3>1, AppendProperties
      <4>3. Len(old) \in Nat /\ DOMAIN now = 1 .. (Len(old) + 1) /\ DOMAIN old = 1 .. Len(old)
        BY <3>1, <4>2
      <4>4. now # <<>>
        <5>1. Len(now) # Len(<<>>)
          BY <4>2, <4>3
        <5> QED BY <5>1
      <4> HIDE DEF now, old
      <4>5. ASSUME NEW k \in DOMAIN now PROVE Block(now[k]) = t
        BY <3>1, <3>3, <4>2, <4>3 DEF ToSet
      <4> QED BY <4>1, <4>2, <4>4, <4>5 DEF ToSet
    <3> QED BY <3>2, <3>3
  <2> HIDE DEF b
  <2>3. TypeOK'
    BY <1>2, <1>3, <1>5, <2>1, <2>2 DEF IInv, TypeOK, dram
  <2>4. DramMatches'
    BY <1>5, <2>1, <2>2 DEF IInv, DramMatches, dram
  <2>5. IsFiniteSet(reading') /\ StillRefused'
    BY <1>4, <1>5 DEF IInv, StillRefused, Available, dram
  <2> QED BY <2>3, <2>4, <2>5 DEF IInv
<1>6. CASE /\ on_going_reqs' = on_going_reqs \cup {[req |-> r, left |-> hit_latency]}
           /\ UNCHANGED <<on_dram_reqs, temp_send_blocked_req, dram>>
  <2>1. [req |-> r, left |-> hit_latency] \in [req : Request, left : Nat]
    BY <1>1, PortsAssumption
  <2>2. TypeOK'
    BY <1>2, <1>3, <1>6, <2>1 DEF IInv, TypeOK, dram
  <2>3. DramMatches'
    BY <1>6 DEF IInv, DramMatches, dram
  <2>4. IsFiniteSet(reading') /\ StillRefused'
    BY <1>4, <1>6 DEF IInv, StillRefused, Available, dram
  <2> QED BY <2>2, <2>3, <2>4 DEF IInv
<1>7. CASE /\ ~Joins(r) /\ Available(b) /\ SendToDram(r)
           /\ UNCHANGED <<on_going_reqs, temp_send_blocked_req>>
  <2>1. b \notin DOMAIN on_dram_reqs
    BY <1>7 DEF Joins
  <2>2. TypeOK'
    <3>1. /\ DOMAIN on_dram_reqs' \subseteq Blocks
          /\ \A t \in DOMAIN on_dram_reqs' : on_dram_reqs'[t] \in Seq(Request)
          /\ reading' \subseteq Blocks /\ returned' = returned
      BY <1>1, <1>7, <2>1, SendToDramKeeps
    <3> HIDE DEF b
    <3> QED BY <1>2, <1>3, <1>7, <3>1 DEF IInv, TypeOK
  <2>3. s # None => ~Available(Block(s))'
    BY <1>4, <1>7, RefusedStays DEF IInv, SendToDram
  <2>4. s # None => Block(s) # b
    BY <1>4, <1>7
  <2>5. DramMatches' /\ IsFiniteSet(reading')
    <3>1. s # None => Block(s) \notin DOMAIN on_dram_reqs'
      BY <1>1, <1>7, <2>1, <2>4, SendToDramKeeps DEF IInv, DramMatches
    <3> QED BY <1>1, <1>7, <2>1, <3>1, SendToDramKeeps DEF DramMatches
  <2> QED BY <1>7, <2>2, <2>3, <2>5 DEF IInv, StillRefused
<1>8. CASE /\ ~Joins(r) /\ ~Available(b) /\ KeepRefused(r)
           /\ UNCHANGED <<on_going_reqs, on_dram_reqs, dram>>
  <2>1. temp_send_blocked_req' = r /\ b \notin DOMAIN on_dram_reqs
    BY <1>8 DEF KeepRefused, Joins
  <2>2. TypeOK'
    BY <1>1, <1>2, <1>3, <1>8, <2>1, PortsAssumption DEF IInv, TypeOK, dram
  <2>3. DramMatches'
    BY <1>8, <2>1 DEF IInv, DramMatches, dram
  <2>4. IsFiniteSet(reading') /\ StillRefused'
    BY <1>8, <2>1 DEF IInv, StillRefused, Available, dram
  <2> QED BY <2>2, <2>3, <2>4 DEF IInv
<1> QED BY <1>5, <1>6, <1>7, <1>8 DEF Access, r

LEMMA AnswerIInv ==
  ASSUME IInv, Answer, UNCHANGED envVars
  PROVE  IInv'
<1>1. PICK o \in on_going_reqs :
        /\ on_going_reqs' = on_going_reqs \ {o}
        /\ out_port' = [out_port EXCEPT ![MemId[o.req]] = Sent(out_port[MemId[o.req]], o.req)]
  BY DEF Answer
<1>2. o.req \in Request /\ MemId[o.req] \in Port
  BY PortsAssumption DEF IInv, TypeOK
<1>3. out_port' \in [Port -> Seq(Request)]
  BY <1>1, <1>2, SentType DEF IInv, TypeOK
<1>4. TypeOK'
  BY <1>1, <1>3 DEF IInv, TypeOK, Answer, Works, dram, envVars
<1> QED BY <1>4 DEF IInv, DramMatches, StillRefused, Answer, dram

LEMMA TakeBlockIInv ==
  ASSUME IInv, TakeBlock, UNCHANGED envVars
  PROVE  IInv'
<1>1. PICK tag \in returned :
        /\ tag \in DOMAIN on_dram_reqs
        /\ returned' = returned \ {tag}
        /\ on_going_reqs' = on_going_reqs \cup [req : Waiting(tag), left : {hit_latency}]
        /\ on_dram_reqs' = [t \in DOMAIN on_dram_reqs \ {tag} |-> on_dram_reqs[t]]
  BY DEF TakeBlock
<1>2. Waiting(tag) \subseteq Request
  <2>1. on_dram_reqs[tag] \in Seq(Request)
    BY <1>1 DEF IInv, TypeOK
  <2> QED BY <2>1 DEF Waiting
<1>3. on_going_reqs' \subseteq [req : Request, left : Nat]
  BY <1>1, <1>2, PortsAssumption DEF IInv, TypeOK
<1>4. /\ DOMAIN on_dram_reqs' = DOMAIN on_dram_reqs \ {tag}
      /\ \A t \in DOMAIN on_dram_reqs' : on_dram_reqs'[t] = on_dram_reqs[t]
  BY <1>1
<1>5. TypeOK'
  BY <1>1, <1>3, <1>4 DEF IInv, TypeOK, TakeBlock, Works, envVars
<1>6. /\ UNCHANGED <<temp_send_blocked_req, reading>>
      /\ phase = <<"dram", 0>> /\ phase' = phase
  BY DEF TakeBlock
<1>7. DramMatches'
  BY <1>1, <1>4, <1>6 DEF IInv, DramMatches
<1> QED BY <1>5, <1>6, <1>7 DEF IInv, StillRefused

LEMMA NextIInv == IInv /\ [Next]_vars => IInv'
<1> SUFFICES ASSUME IInv, [Next]_vars PROVE IInv'
  OBVIOUS
<1>1. CASE NetworkSends
  <2>1. PICK r \in pending, i \in Port :
          /\ in_port' = [in_port EXCEPT ![i] = Sent(in_port[i], r)]
          /\ pending' = pending \ {r}
    BY <1>1 DEF NetworkSends
  <2>2. Sent(in_port[i], r) \in Seq(Request)
    BY <2>1, SentType DEF IInv, TypeOK
  <2>3. in_port' \in [Port -> Seq(Request)]
    BY <2>1, <2>2 DEF IInv, TypeOK
  <2>4. TypeOK'
    BY <1>1, <2>1, <2>3 DEF NetworkSends, IInv, TypeOK, dram
  <2> QED BY <1>1, <2>4 DEF NetworkSends, IInv, DramMatches, StillRefused, dram
<1>2. CASE NetworkTakes
  <2>1. PICK i \in Port : /\ out_port[i] # <<>>
                          /\ out_port' = [out_port EXCEPT ![i] = Received(out_port[i])]
                          /\ answers' = Append(answers, Head(out_port[i]))
    BY <1>2 DEF NetworkTakes
  <2>2. Received(out_port[i]) \in Seq(Request) /\ Head(out_port[i]) \in Request
    BY <2>1, ReceivedType DEF IInv, TypeOK
  <2>3. answers' \in Seq(Request)
    BY <2>1, <2>2, SentType DEF IInv, TypeOK
  <2>4. out_port' \in [Port -> Seq(Request)]
    BY <2>1, <2>2 DEF IInv, TypeOK
  <2>5. TypeOK'
    BY <1>2, <2>3, <2>4 DEF NetworkTakes, IInv, TypeOK, dram
  <2> QED BY <1>2, <2>5 DEF NetworkTakes, IInv, DramMatches, StillRefused, dram
<1>3. CASE DramReads
  <2>1. PICK tag \in reading : /\ reading' = reading \ {tag}
                               /\ returned' = returned \cup {tag}
    BY <1>3 DEF DramReads
  <2>2. /\ phase = <<"return", 0>>
        /\ UNCHANGED <<phase, busy, updated, in_port, out_port, sets, on_going_reqs,
                       on_dram_reqs, temp_send_blocked_req, pending, answers>>
    BY <1>3 DEF DramReads
  <2>3. TypeOK'
    BY <2>1, <2>2 DEF IInv, TypeOK
  <2>4. DramMatches'
    BY <2>1, <2>2 DEF IInv, DramMatches
  <2>5. IsFiniteSet(reading') /\ StillRefused'
    BY <2>1, <2>2, FS_RemoveElement DEF IInv, StillRefused
  <2> QED BY <2>3, <2>4, <2>5 DEF IInv
<1>4. ASSUME NEW d \in Elapsed, Call(d), UNCHANGED envVars PROVE IInv'
  BY <1>4, CallIInv
<1>5. ASSUME SendBlocked, UNCHANGED envVars PROVE IInv'
  BY <1>5, SendBlockedIInv
<1>6. ASSUME NEW i \in Port, Access(i), UNCHANGED envVars PROVE IInv'
  BY <1>6, AccessIInv
<1>7. ASSUME NEW i \in Port, SkipPort(i), UNCHANGED envVars PROVE IInv'
  <2>1. phase' \in {<<"access", j>> : j \in Port} \cup {<<"answer", 0>>}
    BY <1>7, PortsAssumption DEF SkipPort, NextPort, Port
  <2>2. TypeOK'
    BY <1>7, <2>1 DEF SkipPort, IInv, TypeOK, dram, envVars
  <2> QED BY <1>7, <2>2 DEF SkipPort, IInv, DramMatches, StillRefused, Available, dram
<1>8. ASSUME Answer, UNCHANGED envVars PROVE IInv'
  BY <1>8, AnswerIInv
<1>9. ASSUME AnswersEnd, UNCHANGED envVars PROVE IInv'
  <2>1. TypeOK'
    BY <1>9 DEF AnswersEnd, Works, IInv, TypeOK, dram, envVars
  <2> QED BY <1>9, <2>1 DEF AnswersEnd, IInv, DramMatches, StillRefused, dram
<1>10. ASSUME TakeBlock, UNCHANGED envVars PROVE IInv'
  BY <1>10, TakeBlockIInv
<1>11. ASSUME Return, UNCHANGED envVars PROVE IInv'
  BY <1>11 DEF Return, IInv, TypeOK, DramMatches, StillRefused, dram, envVars
<1>12. CASE UNCHANGED vars
  BY <1>12 DEF vars, cacheVars, envVars, IInv, TypeOK, DramMatches, StillRefused, Available, dram
<1> QED
  BY <1>1, <1>2, <1>3, <1>4, <1>5, <1>6, <1>7, <1>8, <1>9, <1>10, <1>11, <1>12 DEF Next, Step

(* Requests wait for exactly the blocks the DRAM has been asked for and not  *)
(* given back, although the refused request's block is entered without a    *)
(* look (cache_with_ramulator.rs:75): the panic of line 186 is unreachable.  *)
THEOREM DramAgrees == Spec => []DramMatches
<1>1. IInv => DramMatches
  BY DEF IInv
<1> QED BY <1>1, InitIInv, NextIInv, PTL DEF Spec
-----------------------------------------------------------------------------
(* What busy and updated say while update runs: the slot is looked at first  *)
(* if it is taken, and only answers that still wait are not yet progress.   *)
ReportsSoFar ==
  /\ ~busy => /\ on_going_reqs = {} /\ on_dram_reqs = << >>
              /\ phase = <<"slot", 0>> \/ temp_send_blocked_req = None
  /\ on_dram_reqs # << >> => updated
  /\ busy /\ ~updated => on_going_reqs # {} /\ phase[1] \in {"slot", "access", "answer"}

LEMMA NextReports == IInv /\ ReportsSoFar /\ [Next]_vars => ReportsSoFar'
<1> SUFFICES ASSUME IInv, ReportsSoFar, [Next]_vars PROVE ReportsSoFar'
  OBVIOUS
<1> USE DEF ReportsSoFar
<1>0. busy \in BOOLEAN /\ updated \in BOOLEAN
  BY DEF IInv, TypeOK
<1>1. CASE NetworkSends \/ NetworkTakes \/ DramReads
  BY <1>1 DEF NetworkSends, NetworkTakes, DramReads
<1>2. ASSUME NEW d \in Elapsed, Call(d) PROVE ReportsSoFar'
  <2>1. on_going_reqs' = {} <=> on_going_reqs = {}
    BY <1>2 DEF Call
  <2>2. /\ UNCHANGED <<on_dram_reqs, temp_send_blocked_req>>
        /\ busy' = (on_going_reqs # {} \/ on_dram_reqs # << >>)
        /\ updated' = (on_dram_reqs # << >>)
    BY <1>2 DEF Call, HasWork, ReadIsProgress
  <2>3. \/ phase' = <<"access", 0>> /\ temp_send_blocked_req = None
        \/ phase' = <<"slot", 0>>
    BY <1>2 DEF Call, FirstPhase
  <2>4. CASE busy'
    BY <1>0, <2>1, <2>2, <2>3, <2>4
  <2>5. CASE ~busy'
    BY <2>1, <2>2, <2>3, <2>5
  <2> QED BY <2>4, <2>5
<1>3. CASE SendBlocked
  <2> DEFINE b == Block(temp_send_blocked_req)
  <2>1. CASE Works
    BY <2>1 DEF Works
  <2>2. CASE ~Available(b) /\ busy' = TRUE /\ UNCHANGED <<updated, on_dram_reqs>>
    <3>1. reading # {}
      <4>1. SUFFICES ASSUME reading = {} PROVE FALSE
        OBVIOUS
      <4>2. {t \in reading : DramChannel(t) = DramChannel(b)} = {}
        BY <4>1
      <4>3. Cardinality({t \in reading : DramChannel(t) = DramChannel(b)}) = 0
        BY <4>2, FS_EmptySet
      <4> QED BY <2>2, <4>3, PortsAssumption DEF Available
    <3>2. DOMAIN on_dram_reqs # {}
      BY <3>1 DEF IInv, DramMatches
    <3>3. on_dram_reqs # << >>
      BY <3>2
    <3> QED BY <2>2, <3>3
  <2> QED BY <1>3, <2>1, <2>2 DEF SendBlocked
<1>4. ASSUME NEW i \in Port, Access(i) PROVE ReportsSoFar'
  BY <1>4 DEF Access, Works
<1>5. ASSUME NEW i \in Port, SkipPort(i) PROVE ReportsSoFar'
  <2>1. phase'[1] \in {"access", "answer"} /\ phase # <<"slot", 0>>
    BY <1>5 DEF SkipPort, NextPort
  <2> QED BY <1>5, <2>1 DEF SkipPort
<1>6. CASE Answer \/ TakeBlock
  BY <1>6 DEF Answer, TakeBlock, Works
<1>7. CASE AnswersEnd
  BY <1>7 DEF AnswersEnd, Works
<1>8. CASE Return
  BY <1>8 DEF Return
<1>9. CASE UNCHANGED vars
  BY <1>9 DEF vars, cacheVars
<1> QED BY <1>1, <1>2, <1>3, <1>4, <1>5, <1>6, <1>7, <1>8, <1>9 DEF Next, Step

(* A cache that reports to be idle holds nothing, also not in its slot, and  *)
(* one that is busy reports progress: neither of the two exits of           *)
(* SimRunner::run (sim.rs:148, 158) is taken on its account while it can     *)
(* go on.                                                                  *)
THEOREM RamuCacheReportsHold == Spec => []ReportsHold
<1>1. EnvInit => ReportsSoFar
  BY DEF EnvInit, Init, ReportsSoFar
<1>2. ReportsSoFar => ReportsHold
  BY DEF ReportsSoFar, ReportsHold
<1> QED BY <1>1, <1>2, InitIInv, NextIInv, NextReports, PTL DEF Spec
-----------------------------------------------------------------------------
(* Where a request is: in one place at most, until it is overwritten.       *)

At(r, a, i) ==
  \/ a = "pending" /\ i = 0 /\ r \in pending
  \/ a = "answers" /\ i = 0 /\ r \in Range(answers)
  \/ a = "going" /\ i = 0 /\ \E o \in on_going_reqs : o.req = r
  \/ a = "slot" /\ i = 0 /\ r = temp_send_blocked_req
  \/ a = "in" /\ i \in Port /\ r \in Range(in_port[i])
  \/ a = "out" /\ i \in Port /\ r \in Range(out_port[i])
  \/ a = "dram" /\ i \in DOMAIN on_dram_reqs /\ r \in Range(on_dram_reqs[i])

Kind == {"pending", "answers", "going", "slot", "in", "out", "dram"}

LEMMA AtIs ==
  ASSUME NEW r, NEW i
  PROVE  /\ At(r, "pending", i) <=> i = 0 /\ r \in pending
         /\ At(r, "answers", i) <=> i = 0 /\ r \in Range(answers)
         /\ At(r, "going", i) <=> i = 0 /\ \E o \in on_going_reqs : o.req = r
         /\ At(r, "slot", i) <=> i = 0 /\ r = temp_send_blocked_req
         /\ At(r, "in", i) <=> i \in Port /\ r \in Range(in_port[i])
         /\ At(r, "out", i) <=> i \in Port /\ r \in Range(out_port[i])
         /\ At(r, "dram", i) <=> i \in DOMAIN on_dram_reqs /\ r \in Range(on_dram_reqs[i])
BY DEF At

LEMMA AtIsNext ==
  ASSUME NEW r, NEW i
  PROVE  /\ At(r, "pending", i)' <=> i = 0 /\ r \in pending'
         /\ At(r, "answers", i)' <=> i = 0 /\ r \in Range(answers')
         /\ At(r, "going", i)' <=> i = 0 /\ \E o \in on_going_reqs' : o.req = r
         /\ At(r, "slot", i)' <=> i = 0 /\ r = temp_send_blocked_req'
         /\ At(r, "in", i)' <=> i \in Port /\ r \in Range(in_port'[i])
         /\ At(r, "out", i)' <=> i \in Port /\ r \in Range(out_port'[i])
         /\ At(r, "dram", i)' <=> i \in DOMAIN on_dram_reqs' /\ r \in Range(on_dram_reqs'[i])
BY DEF At

LEMMA AtKind ==
  ASSUME NEW r, NEW i, NEW a
  PROVE  (At(r, a, i) => a \in Kind) /\ (At(r, a, i)' => a \in Kind)
BY DEF At, Kind

OnePlace ==
  \A r \in Request : \A a, b, i, j : At(r, a, i) /\ At(r, b, j) => a = b /\ i = j

NoDoubles ==
  /\ IsInjective(answers)
  /\ \A o, p \in on_going_reqs : o.req = p.req => o = p
  /\ \A i \in Port : IsInjective(in_port[i]) /\ IsInjective(out_port[i])
  /\ \A t \in DOMAIN on_dram_reqs : IsInjective(on_dram_reqs[t])

\* The slot is not taken when the first port is visited.
SlotFirst == phase = <<"access", 0>> => temp_send_blocked_req = None

PInv == OnePlace /\ NoDoubles /\ SlotFirst

Kept(r) == \E a, i : At(r, a, i)

\* A step that takes the requests X to place i of kind a, and L to none.
Relocates(X, a, i, L) ==
  /\ \A r \in X : Kept(r)
  /\ X \cap L = {}
  /\ \A r \in Request : \A b, j :
       At(r, b, j)' <=> IF r \in X THEN b = a /\ j = i ELSE r \notin L /\ At(r, b, j)

\* Only a request overwritten in the slot vanishes.
Overwritten(r) ==
  /\ temp_send_blocked_req = r /\ temp_send_blocked_req' \notin {r, None}
  /\ phase[1] = "access" /\ phase[2] > 0

KeptOrOverwritten == \A r \in Request : (Kept(r)' <=> Kept(r)) \/ (~Kept(r)' /\ Overwritten(r))

LEMMA RelocatesKeeps ==
  ASSUME OnePlace, NEW X, NEW a, NEW i, NEW L, Relocates(X, a, i, L),
         \A r \in Request : r \in L => Overwritten(r)
  PROVE  OnePlace' /\ KeptOrOverwritten
<1>1. OnePlace'
  BY DEF OnePlace, Relocates
<1>2. ASSUME NEW r \in Request, r \in X PROVE Kept(r)' /\ Kept(r)
  BY <1>2 DEF Relocates, Kept
<1>3. ASSUME NEW r \in Request, r \notin X PROVE Kept(r)' <=> r \notin L /\ Kept(r)
  BY <1>3 DEF Relocates, Kept
<1> QED BY <1>1, <1>2, <1>3 DEF KeptOrOverwritten

(* A step that takes X from the one place it was at: it is enough to say    *)
(* what each kind of place holds afterwards.                                *)
LEMMA RelocatesFrom ==
  ASSUME OnePlace, NEW X, NEW a, NEW i, NEW b, NEW j, a # b,
         X \subseteq Request, \A r \in Request : r \in X => At(r, a, i) /\ At(r, b, j)',
         \A r \in Request : \A c \in Kind : \A k :
           At(r, c, k)' <=> \/ r \in X /\ c = b /\ k = j
                            \/ At(r, c, k) /\ ~(r \in X /\ c = a /\ k = i)
  PROVE  Relocates(X, b, j, {})
<1>1. ASSUME NEW r \in Request, NEW c, NEW k
      PROVE  At(r, c, k)' <=> IF r \in X THEN c = b /\ k = j ELSE At(r, c, k)
  <2>1. CASE r \in X
    <3>1. \A d, l : At(r, d, l) => d = a /\ l = i
      BY <2>1 DEF OnePlace
    <3>2. At(r, c, k)' => c = b /\ k = j
      BY <2>1, <3>1, AtKind
    <3> QED BY <2>1, <3>2
  <2>2. CASE r \notin X
    BY <2>2, AtKind
  <2> QED BY <2>1, <2>2
<1>2. \A r \in X : Kept(r)
  BY DEF Kept
<1> QED BY <1>1, <1>2 DEF Relocates

\* The same for a single request.
LEMMA RelocatesOne ==
  ASSUME OnePlace, NEW r \in Request, NEW a, NEW i, NEW b, NEW j, a # b,
         At(r, a, i), At(r, b, j)',
         \A q \in Request : \A c \in Kind : \A k :
           At(q, c, k)' <=> \/ q = r /\ c = b /\ k = j
                            \/ At(q, c, k) /\ ~(q = r /\ c = a /\ k = i)
  PROVE  OnePlace' /\ KeptOrOverwritten
<1>1. \A c, k : At(r, c, k) => c = a /\ k = i
  BY DEF OnePlace
<1>2. \A c, k : At(r, c, k)' <=> c = b /\ k = j
  BY <1>1, AtKind
<1>3. \A q \in Request : q # r => \A c, k : At(q, c, k)' <=> At(q, c, k)
  BY AtKind
<1>4. OnePlace'
  BY <1>2, <1>3 DEF OnePlace
<1>5. Kept(r) /\ Kept(r)'
  BY <1>2 DEF Kept
<1>6. \A q \in Request : q # r => (Kept(q)' <=> Kept(q))
  BY <1>3 DEF Kept
<1> QED BY <1>4, <1>5, <1>6 DEF KeptOrOverwritten

\* A step that moves no request.
LEMMA StaysPlaces ==
  ASSUME OnePlace, \A r \in Request : \A c \in Kind : \A k : At(r, c, k)' <=> At(r, c, k)
  PROVE  OnePlace' /\ KeptOrOverwritten
<1>1. \A r \in Request : \A c, k : At(r, c, k)' <=> At(r, c, k)
  BY AtKind
<1>2. PICK none : none = {}
  OBVIOUS
<1>3. Relocates(none, "in", 0, none)
  BY <1>1, <1>2 DEF Relocates
<1>4. \A r \in Request : r \in none => Overwritten(r)
  BY <1>2
<1> QED BY <1>3, <1>4, RelocatesKeeps

LEMMA UnchangedPlaces ==
  ASSUME PInv, UNCHANGED <<pending, answers, on_going_reqs, temp_send_blocked_req, in_port,
                           out_port, on_dram_reqs>>
  PROVE  OnePlace' /\ NoDoubles' /\ KeptOrOverwritten
<1>1. \A r, a, i : At(r, a, i)' <=> At(r, a, i)
  BY DEF At
<1>2. NoDoubles'
  BY DEF PInv, NoDoubles
<1> QED BY <1>1, <1>2, StaysPlaces DEF PInv

LEMMA NetworkSendsPlaces ==
  ASSUME TypeOK, PInv, NetworkSends
  PROVE  OnePlace' /\ NoDoubles' /\ KeptOrOverwritten
<1>1. PICK r \in pending, i \in Port :
        /\ in_port' = [in_port EXCEPT ![i] = Append(in_port[i], r)] /\ pending' = pending \ {r}
  BY DEF NetworkSends, Sent
<1>2. /\ in_port \in [Port -> Seq(Request)] /\ in_port[i] \in Seq(Request) /\ r \in Request
      /\ UNCHANGED <<out_port, on_going_reqs, on_dram_reqs, temp_send_blocked_req, answers>>
  BY DEF NetworkSends, TypeOK
<1>3. At(r, "pending", 0) /\ r \notin Range(in_port[i])
  <2>1. At(r, "pending", 0) /\ (r \in Range(in_port[i]) => At(r, "in", i))
    BY AtIs
  <2> QED BY <1>2, <2>1 DEF PInv, OnePlace
<1>4. /\ Range(Append(in_port[i], r)) = Range(in_port[i]) \cup {r}
      /\ IsInjective(Append(in_port[i], r))
  BY <1>2, <1>3, AppendRange DEF PInv, NoDoubles
<1>5. \A k \in Port : in_port'[k] = IF k = i THEN Append(in_port[i], r) ELSE in_port[k]
  BY <1>1, <1>2
<1>6. NoDoubles'
  BY <1>2, <1>4, <1>5 DEF PInv, NoDoubles
<1>7. At(r, "in", i)'
  BY <1>4, <1>5, AtIsNext
<1>8. ASSUME NEW q \in Request, NEW c \in Kind, NEW k
      PROVE  At(q, c, k)' <=> \/ q = r /\ c = "in" /\ k = i
                              \/ At(q, c, k) /\ ~(q = r /\ c = "pending" /\ k = 0)
  <2>1. CASE c = "in"
    BY <1>4, <1>5, <2>1, AtIs, AtIsNext
  <2>2. CASE c = "pending"
    BY <1>1, <2>2, AtIs, AtIsNext
  <2>3. CASE c \in Kind \ {"in", "pending"}
    BY <1>2, <2>3, AtIs, AtIsNext DEF Kind
  <2> QED BY <2>1, <2>2, <2>3
<1>9. OnePlace' /\ KeptOrOverwritten
  <2>1. OnePlace /\ "pending" # "in" /\ At(r, "pending", 0) /\ At(r, "in", i)'
    BY <1>3, <1>7 DEF PInv
  <2> QED BY <1>2, <1>8, <2>1, RelocatesOne
<1> QED BY <1>6, <1>9

LEMMA NetworkTakesPlaces ==
  ASSUME TypeOK, PInv, NetworkTakes
  PROVE  OnePlace' /\ NoDoubles' /\ KeptOrOverwritten
<1>1. PICK i \in Port : /\ out_port[i] # <<>>
                        /\ out_port' = [out_port EXCEPT ![i] = Tail(out_port[i])]
                        /\ answers' = Append(answers, Head(out_port[i]))
  BY DEF NetworkTakes, Received
<1>2. PICK r : r = Head(out_port[i])
  OBVIOUS
<1>3. /\ out_port \in [Port -> Seq(Request)] /\ out_port[i] \in Seq(Request)
      /\ answers \in Seq(Request)
      /\ UNCHANGED <<in_port, on_going_reqs, on_dram_reqs, temp_send_blocked_req, pending>>
  BY DEF NetworkTakes, TypeOK
<1>4. /\ r \in Request /\ r \in Range(out_port[i]) /\ IsInjective(Tail(out_port[i]))
      /\ Range(Tail(out_port[i])) = Range(out_port[i]) \ {r}
  BY <1>1, <1>2, <1>3, ReceivedType, TailRange DEF PInv, NoDoubles
<1>5. At(r, "out", i) /\ r \notin Range(answers)
  <2>1. At(r, "out", i) /\ (r \in Range(answers) => At(r, "answers", 0))
    BY <1>4, AtIs
  <2> QED BY <1>4, <2>1 DEF PInv, OnePlace
<1>6. /\ Range(answers') = Range(answers) \cup {r} /\ IsInjective(answers')
  BY <1>1, <1>2, <1>3, <1>4, <1>5, AppendRange DEF PInv, NoDoubles
<1>7. \A k \in Port : out_port'[k] = IF k = i THEN Tail(out_port[i]) ELSE out_port[k]
  BY <1>1, <1>3
<1>8. NoDoubles'
  BY <1>3, <1>4, <1>6, <1>7 DEF PInv, NoDoubles
<1>9. At(r, "answers", 0)'
  BY <1>6, AtIsNext
<1>10. ASSUME NEW q \in Request, NEW c \in Kind, NEW k
       PROVE  At(q, c, k)' <=> \/ q = r /\ c = "answers" /\ k = 0
                               \/ At(q, c, k) /\ ~(q = r /\ c = "out" /\ k = i)
  <2>1. CASE c = "out"
    BY <1>4, <1>7, <2>1, AtIs, AtIsNext
  <2>2. CASE c = "answers"
    BY <1>6, <2>2, AtIs, AtIsNext
  <2>3. CASE c \in Kind \ {"out", "answers"}
    BY <1>3, <2>3, AtIs, AtIsNext DEF Kind
  <2> QED BY <2>1, <2>2, <2>3
<1>11. OnePlace' /\ KeptOrOverwritten
  <2>1. OnePlace /\ "out" # "answers" /\ At(r, "out", i) /\ At(r, "answers", 0)'
    BY <1>5, <1>9 DEF PInv
  <2> QED BY <1>4, <1>10, <2>1, RelocatesOne
<1> QED BY <1>8, <1>11

LEMMA CallPlaces ==
  ASSUME TypeOK, PInv, NEW d \in Elapsed, Call(d), UNCHANGED envVars
  PROVE  OnePlace' /\ NoDoubles' /\ KeptOrOverwritten
<1>1. /\ UNCHANGED <<in_port, out_port, on_dram_reqs, temp_send_blocked_req, pending, answers>>
      /\ on_going_reqs \subseteq [req : Request, left : Nat]
  BY DEF Call, envVars, TypeOK
<1> DEFINE After(o) == [req |-> o.req, left |-> IF o.left > d THEN o.left - d ELSE 0]
<1>2. ASSUME NEW o \in on_going_reqs
      PROVE  [o EXCEPT !.left = IF @ > d THEN @ - d ELSE 0] = After(o)
  <2>1. o \in [req : Request, left : Nat]
    BY <1>1
  <2> QED BY <2>1
<1>3. on_going_reqs' = {[o EXCEPT !.left = IF @ > d THEN @ - d ELSE 0] : o \in on_going_reqs}
  BY DEF Call
<1>4. /\ \A o \in on_going_reqs : After(o) \in on_going_reqs' /\ After(o).req = o.req
      /\ \A p \in on_going_reqs' : \E o \in on_going_reqs : p = After(o)
  <2>1. \A o \in on_going_reqs : After(o).req = o.req
    OBVIOUS
  <2> HIDE DEF After
  <2> QED BY <1>2, <1>3, <2>1
<1> HIDE DEF After
<1>5. ASSUME NEW o \in on_going_reqs', NEW p \in on_going_reqs', o.req = p.req
      PROVE  o = p
  <2>1. PICK x \in on_going_reqs : o = After(x)
    BY <1>4
  <2>2. PICK y \in on_going_reqs : p = After(y)
    BY <1>4
  <2>3. x = y
    BY <1>4, <1>5, <2>1, <2>2 DEF PInv, NoDoubles
  <2> QED BY <2>1, <2>2, <2>3
<1>6. NoDoubles'
  BY <1>1, <1>5 DEF PInv, NoDoubles
<1>7. ASSUME NEW q \in Request, NEW c \in Kind, NEW k
      PROVE  At(q, c, k)' <=> At(q, c, k)
  <2>1. CASE c = "going"
    BY <1>4, <2>1, AtIs, AtIsNext
  <2>2. CASE c \in Kind \ {"going"}
    BY <1>1, <2>2, AtIs, AtIsNext DEF Kind
  <2> QED BY <2>1, <2>2
<1> QED BY <1>6, <1>7, StaysPlaces DEF PInv

\* A request joins those who wait for its block.
Queues(r) ==
  /\ \A t \in DOMAIN on_dram_reqs' : IsInjective(on_dram_reqs'[t])
  /\ \A q, k : k \in DOMAIN on_dram_reqs' /\ q \in Range(on_dram_reqs'[k]) <=>
                 \/ q = r /\ k = Block(r)
                 \/ k \in DOMAIN on_dram_reqs /\ q \in Range(on_dram_reqs[k])

LEMMA SendToDramQueues ==
  ASSUME PInv, NEW r \in Request, Block(r) \notin DOMAIN on_dram_reqs, SendToDram(r)
  PROVE  Queues(r)
<1>1. PICK b : b = Block(r)
  OBVIOUS
<1>2. /\ on_dram_reqs' = [t \in DOMAIN on_dram_reqs \cup {b} |->
                            IF t = b THEN <<r>> ELSE on_dram_reqs[t]]
      /\ b \notin DOMAIN on_dram_reqs
  BY <1>1 DEF SendToDram
<1>3. Range(<<r>>) = {r} /\ IsInjective(<<r>>)
  BY DEF Range, IsInjective
<1>4. /\ DOMAIN on_dram_reqs' = DOMAIN on_dram_reqs \cup {b}
      /\ on_dram_reqs'[b] = <<r>>
      /\ \A t \in DOMAIN on_dram_reqs : on_dram_reqs'[t] = on_dram_reqs[t]
  BY <1>2
<1>5. \A t \in DOMAIN on_dram_reqs' : IsInjective(on_dram_reqs'[t])
  BY <1>3, <1>4 DEF PInv, NoDoubles
<1>6. ASSUME NEW q, NEW k
      PROVE  k \in DOMAIN on_dram_reqs' /\ q \in Range(on_dram_reqs'[k]) <=>
               (q = r /\ k = b) \/ (k \in DOMAIN on_dram_reqs /\ q \in Range(on_dram_reqs[k]))
  BY <1>2, <1>3, <1>4
<1> QED BY <1>1, <1>5, <1>6 DEF Queues

LEMMA JoinQueues ==
  ASSUME TypeOK, PInv, NEW r \in Request, Joins(r), r \notin Range(on_dram_reqs[Block(r)]),
         on_dram_reqs' = [on_dram_reqs EXCEPT ![Block(r)] = Append(on_dram_reqs[Block(r)], r)]
  PROVE  Queues(r)
<1>1. PICK b : b = Block(r)
  OBVIOUS
<1>2. /\ b \in DOMAIN on_dram_reqs /\ on_dram_reqs[b] \in Seq(Request)
      /\ IsInjective(on_dram_reqs[b]) /\ r \notin Range(on_dram_reqs[b])
  BY <1>1 DEF Joins, TypeOK, PInv, NoDoubles
<1>3. /\ Range(Append(on_dram_reqs[b], r)) = Range(on_dram_reqs[b]) \cup {r}
      /\ IsInjective(Append(on_dram_reqs[b], r))
  BY <1>2, AppendRange
<1>4. /\ DOMAIN on_dram_reqs' = DOMAIN on_dram_reqs
      /\ on_dram_reqs'[b] = Append(on_dram_reqs[b], r)
      /\ \A t \in DOMAIN on_dram_reqs : t # b => on_dram_reqs'[t] = on_dram_reqs[t]
  BY <1>1, <1>2
<1>5. \A t \in DOMAIN on_dram_reqs' : IsInjective(on_dram_reqs'[t])
  BY <1>3, <1>4 DEF PInv, NoDoubles
<1>6. ASSUME NEW q, NEW k
      PROVE  k \in DOMAIN on_dram_reqs' /\ q \in Range(on_dram_reqs'[k]) <=>
               (q = r /\ k = b) \/ (k \in DOMAIN on_dram_reqs /\ q \in Range(on_dram_reqs[k]))
  <2>1. CASE k = b
    BY <1>2, <1>3, <1>4, <2>1
  <2>2. CASE k # b
    BY <1>4, <2>2
  <2> QED BY <2>1, <2>2
<1> QED BY <1>1, <1>5, <1>6 DEF Queues

LEMMA SendBlockedPlaces ==
  ASSUME IInv, PInv, SendBlocked, UNCHANGED envVars
  PROVE  OnePlace' /\ NoDoubles' /\ KeptOrOverwritten
<1>1. PICK r : r = temp_send_blocked_req
  OBVIOUS
<1>2. r \in Request /\ Block(r) \notin DOMAIN on_dram_reqs
  BY <1>1 DEF IInv, TypeOK, DramMatches, SendBlocked
<1>3. UNCHANGED <<in_port, out_port, on_going_reqs, pending, answers>>
  BY DEF SendBlocked, envVars
<1>4. CASE UNCHANGED <<on_dram_reqs, temp_send_blocked_req>>
  BY <1>3, <1>4, UnchangedPlaces
<1>5. CASE SendToDram(r) /\ temp_send_blocked_req' = None
  <2>1. Queues(r)
    BY <1>2, <1>5, SendToDramQueues
  <2>2. At(r, "slot", 0) /\ At(r, "dram", Block(r))'
    <3>1. Block(r) \in DOMAIN on_dram_reqs' /\ r \in Range(on_dram_reqs'[Block(r)])
      BY <2>1 DEF Queues
    <3> QED BY <1>1, <3>1, AtIs, AtIsNext
  <2>3. ASSUME NEW q \in Request, NEW c \in Kind, NEW k
        PROVE  At(q, c, k)' <=> \/ q = r /\ c = "dram" /\ k = Block(r)
                                \/ At(q, c, k) /\ ~(q = r /\ c = "slot" /\ k = 0)
    <3>1. CASE c = "slot"
      BY <1>1, <1>5, <3>1, AtIs, AtIsNext, PortsAssumption
    <3>2. CASE c = "dram"
      BY <2>1, <3>2, AtIs, AtIsNext DEF Queues
    <3>3. CASE c \in Kind \ {"slot", "dram"}
      BY <1>3, <3>3, AtIs, AtIsNext DEF Kind
    <3> QED BY <3>1, <3>2, <3>3
  <2>4. NoDoubles'
    BY <1>3, <2>1 DEF PInv, NoDoubles, Queues
  <2>5. OnePlace /\ "slot" # "dram"
    BY DEF PInv
  <2>6. OnePlace' /\ KeptOrOverwritten
    BY <1>2, <2>2, <2>3, <2>5, RelocatesOne
  <2> QED BY <2>4, <2>6
<1> QED BY <1>1, <1>4, <1>5 DEF SendBlocked

LEMMA AccessPlaces ==
  ASSUME IInv, PInv, NEW i \in Port, Access(i), UNCHANGED envVars
  PROVE  OnePlace' /\ NoDoubles' /\ KeptOrOverwritten
<1>0. PICK r : r = Head(in_port[i])
  OBVIOUS
<1>1. PICK s : s = temp_send_blocked_req
  OBVIOUS
<1>2. /\ in_port \in [Port -> Seq(Request)] /\ in_port[i] \in Seq(Request) /\ in_port[i] # <<>>
      /\ in_port' = [in_port EXCEPT ![i] = Tail(in_port[i])]
      /\ UNCHANGED <<out_port, pending, answers>>
  BY DEF Access, Received, IInv, TypeOK, envVars
<1>3. /\ r \in Request /\ r \in Range(in_port[i]) /\ IsInjective(Tail(in_port[i]))
      /\ Range(Tail(in_port[i])) = Range(in_port[i]) \ {r}
  BY <1>0, <1>2, ReceivedType, TailRange DEF PInv, NoDoubles
<1>4. At(r, "in", i)
  BY <1>3, AtIs
<1>5. \A c, k : At(r, c, k) => c = "in" /\ k = i
  BY <1>3, <1>4 DEF PInv, OnePlace
<1>6. \A k \in Port : in_port'[k] = IF k = i THEN Tail(in_port[i]) ELSE in_port[k]
  BY <1>2
<1>7. /\ \A k \in Port : IsInjective(in_port'[k]) /\ IsInjective(out_port'[k])
      /\ IsInjective(answers')
      /\ \A q, k : At(q, "in", k)' <=> At(q, "in", k) /\ ~(q = r /\ k = i)
  BY <1>2, <1>3, <1>6, AtIs, AtIsNext DEF PInv, NoDoubles
<1>8. ASSUME Queues(r), UNCHANGED <<on_going_reqs, temp_send_blocked_req>>
      PROVE  OnePlace' /\ NoDoubles' /\ KeptOrOverwritten
  <2>1. At(r, "dram", Block(r))'
    <3>1. Block(r) \in DOMAIN on_dram_reqs' /\ r \in Range(on_dram_reqs'[Block(r)])
      BY <1>8 DEF Queues
    <3> QED BY <3>1, AtIsNext
  <2>2. ASSUME NEW q \in Request, NEW c \in Kind, NEW k
        PROVE  At(q, c, k)' <=> \/ q = r /\ c = "dram" /\ k = Block(r)
                                \/ At(q, c, k) /\ ~(q = r /\ c = "in" /\ k = i)
    <3>1. CASE c = "in"
      BY <1>7, <3>1
    <3>2. CASE c = "dram"
      BY <1>8, <3>2, AtIs, AtIsNext DEF Queues
    <3>3. CASE c \in Kind \ {"in", "dram"}
      BY <1>2, <1>8, <3>3, AtIs, AtIsNext DEF Kind
    <3> QED BY <3>1, <3>2, <3>3
  <2>3. NoDoubles'
    BY <1>7, <1>8 DEF PInv, NoDoubles, Queues
  <2>4. OnePlace /\ "in" # "dram"
    BY DEF PInv
  <2>5. OnePlace' /\ KeptOrOverwritten
    BY <1>3, <1>4, <2>1, <2>2, <2>4, RelocatesOne
  <2> QED BY <2>3, <2>5
<1>9. CASE /\ Joins(r)
           /\ on_dram_reqs' = [on_dram_reqs EXCEPT ![Block(r)] = Append(@, r)]
           /\ UNCHANGED <<on_going_reqs, temp_send_blocked_req>>
  <2>1. r \notin Range(on_dram_reqs[Block(r)])
    <3>1. Block(r) \in DOMAIN on_dram_reqs
      BY <1>9 DEF Joins
    <3>2. r \in Range(on_dram_reqs[Block(r)]) => At(r, "dram", Block(r))
      BY <3>1, AtIs
    <3> QED BY <1>5, <3>2
  <2>2. Queues(r)
    BY <1>3, <1>9, <2>1, JoinQueues DEF IInv
  <2> QED BY <1>8, <1>9, <2>2
<1>10. CASE ~Joins(r) /\ SendToDram(r) /\ UNCHANGED <<on_going_reqs, temp_send_blocked_req>>
  BY <1>3, <1>8, <1>10, SendToDramQueues DEF Joins
<1>11. CASE /\ on_going_reqs' = on_going_reqs \cup {[req |-> r, left |-> hit_latency]}
            /\ UNCHANGED <<on_dram_reqs, temp_send_blocked_req>>
  <2>1. PICK o : o = [req |-> r, left |-> hit_latency]
    OBVIOUS
  <2>2. o.req = r /\ on_going_reqs' = on_going_reqs \cup {o}
    BY <1>11, <2>1
  <2>3. \A p \in on_going_reqs : p.req # r
    <3>1. (\E p \in on_going_reqs : p.req = r) => At(r, "going", 0)
      BY AtIs
    <3> QED BY <1>5, <3>1
  <2>4. NoDoubles'
    BY <1>7, <1>11, <2>2, <2>3 DEF PInv, NoDoubles
  <2>5. At(r, "going", 0)'
    BY <2>2, AtIsNext
  <2>6. ASSUME NEW q \in Request, NEW c \in Kind, NEW k
        PROVE  At(q, c, k)' <=> \/ q = r /\ c = "going" /\ k = 0
                                \/ At(q, c, k) /\ ~(q = r /\ c = "in" /\ k = i)
    <3>1. CASE c = "in"
      BY <1>7, <3>1
    <3>2. CASE c = "going"
      BY <2>2, <3>2, AtIs, AtIsNext
    <3>3. CASE c \in Kind \ {"in", "going"}
      BY <1>2, <1>11, <3>3, AtIs, AtIsNext DEF Kind
    <3> QED BY <3>1, <3>2, <3>3
  <2>7. OnePlace /\ "in" # "going"
    BY DEF PInv
  <2>8. OnePlace' /\ KeptOrOverwritten
    BY <1>3, <1>4, <2>5, <2>6, <2>7, RelocatesOne
  <2> QED BY <2>4, <2>8
<1>12. CASE KeepRefused(r) /\ UNCHANGED <<on_going_reqs, on_dram_reqs>>
  <2>1. temp_send_blocked_req' = r
    BY <1>12 DEF KeepRefused
  <2>2. NoDoubles'
    BY <1>7, <1>12 DEF PInv, NoDoubles
  <2>3. PICK X, L : X = {r} /\ L = {q \in Request : q = s}
    OBVIOUS
  <2>4. r # s
    <3>1. r = s => At(r, "slot", 0)
      BY <1>1, AtIs
    <3> QED BY <1>5, <3>1
  <2>5. ASSUME NEW q \in Request, NEW c \in Kind, NEW k, q # r
        PROVE  At(q, c, k)' <=> q # s /\ At(q, c, k)
    <3>1. At(q, "slot", 0) => q = s
      BY <1>1, AtIs
    <3>2. q = s => At(q, "slot", 0)
      BY <1>1, AtIs
    <3>3. q = s => (At(q, c, k) => c = "slot")
      BY <3>2 DEF PInv, OnePlace
    <3>4. CASE c = "slot"
      BY <1>1, <2>1, <2>5, <3>4, AtIs, AtIsNext
    <3>5. CASE c # "slot"
      <4>1. At(q, c, k)' <=> At(q, c, k)
        <5>1. CASE c = "in"
          BY <1>7, <2>5, <5>1
        <5>2. CASE c \in Kind \ {"in", "slot"}
          BY <1>2, <1>12, <5>2, AtIs, AtIsNext DEF Kind
        <5> QED BY <3>5, <5>1, <5>2
      <4> QED BY <3>3, <3>5, <4>1
    <3> QED BY <3>4, <3>5
  <2>6. ASSUME NEW c, NEW k
        PROVE  At(r, c, k)' <=> c = "slot" /\ k = 0
    <3>1. At(r, "slot", k)' <=> k = 0
      BY <2>1, AtIsNext
    <3>2. c # "slot" => ~At(r, c, k)'
      <4>1. CASE c = "in"
        BY <1>5, <1>7, <4>1
      <4>2. CASE c \in Kind \ {"in", "slot"}
        <5>1. At(r, c, k)' <=> At(r, c, k)
          BY <1>2, <1>12, <4>2, AtIs, AtIsNext DEF Kind
        <5> QED BY <1>5, <4>2, <5>1
      <4>3. CASE c \notin Kind
        BY <4>3, AtKind
      <4> QED BY <4>1, <4>2, <4>3
    <3> QED BY <3>1, <3>2
  <2>7. Relocates(X, "slot", 0, L)
    <3>1. \A q \in X : Kept(q)
      BY <1>4, <2>3 DEF Kept
    <3>2. X \cap L = {}
      BY <2>3, <2>4
    <3>3. ASSUME NEW q \in Request, NEW c, NEW k
          PROVE  At(q, c, k)' <=> IF q \in X THEN c = "slot" /\ k = 0 ELSE q \notin L /\ At(q, c, k)
      <4>1. CASE q = r
        BY <2>3, <2>6, <4>1
      <4>2. CASE q # r /\ c \in Kind
        BY <2>3, <2>5, <4>2
      <4>3. CASE q # r /\ c \notin Kind
        BY <2>3, <4>3, AtKind
      <4> QED BY <4>1, <4>2, <4>3
    <3> QED BY <3>1, <3>2, <3>3 DEF Relocates
  <2>8. ASSUME NEW q \in Request, q \in L PROVE Overwritten(q)
    <3>1. temp_send_blocked_req = q /\ q # None /\ r # None
      BY <1>1, <1>3, <2>3, <2>8, PortsAssumption
    <3>2. phase = <<"access", i>> /\ i # 0 /\ i \in 0 .. NPorts - 1
      BY <3>1 DEF Access, PInv, SlotFirst, Port
    <3> QED BY <2>1, <2>3, <2>4, <2>8, <3>1, <3>2, PortsAssumption DEF Overwritten
  <2>9. OnePlace' /\ KeptOrOverwritten
    BY <2>7, <2>8, RelocatesKeeps DEF PInv
  <2> QED BY <2>2, <2>9
<1> QED BY <1>0, <1>9, <1>10, <1>11, <1>12 DEF Access

LEMMA AnswerPlaces ==
  ASSUME TypeOK, PInv, Answer, UNCHANGED envVars
  PROVE  OnePlace' /\ NoDoubles' /\ KeptOrOverwritten
<1>1. PICK o \in on_going_reqs :
        /\ on_going_reqs' = on_going_reqs \ {o}
        /\ out_port' = [out_port EXCEPT ![MemId[o.req]] = Append(out_port[MemId[o.req]], o.req)]
  BY DEF Answer, Sent
<1>2. PICK r \in Request : r = o.req
  BY DEF TypeOK
<1>3. PICK i \in Port : i = MemId[r]
  BY PortsAssumption
<1>4. /\ out_port \in [Port -> Seq(Request)] /\ out_port[i] \in Seq(Request)
      /\ out_port' = [out_port EXCEPT ![i] = Append(out_port[i], r)]
      /\ UNCHANGED <<in_port, pending, answers, on_dram_reqs, temp_send_blocked_req>>
  BY <1>1, <1>2, <1>3 DEF Answer, envVars, TypeOK
<1>5. At(r, "going", 0) /\ r \notin Range(out_port[i])
  <2>1. At(r, "going", 0) /\ (r \in Range(out_port[i]) => At(r, "out", i))
    BY <1>2, AtIs
  <2> QED BY <2>1 DEF PInv, OnePlace
<1>6. /\ Range(Append(out_port[i], r)) = Range(out_port[i]) \cup {r}
      /\ IsInjective(Append(out_port[i], r))
  BY <1>4, <1>5, AppendRange DEF PInv, NoDoubles
<1>7. \A k \in Port : out_port'[k] = IF k = i THEN Append(out_port[i], r) ELSE out_port[k]
  BY <1>4
<1>8. \A p \in on_going_reqs : p.req = r <=> p = o
  BY <1>2 DEF PInv, NoDoubles
<1>9. NoDoubles'
  BY <1>1, <1>4, <1>6, <1>7 DEF PInv, NoDoubles
<1>10. At(r, "out", i)'
  BY <1>6, <1>7, AtIsNext
<1>11. ASSUME NEW q \in Request, NEW c \in Kind, NEW k
       PROVE  At(q, c, k)' <=> \/ q = r /\ c = "out" /\ k = i
                               \/ At(q, c, k) /\ ~(q = r /\ c = "going" /\ k = 0)
  <2>1. CASE c = "out"
    BY <1>6, <1>7, <2>1, AtIs, AtIsNext
  <2>2. CASE c = "going"
    <3>1. (\E p \in on_going_reqs' : p.req = q) <=> q # r /\ \E p \in on_going_reqs : p.req = q
      BY <1>1, <1>2, <1>8
    <3> QED BY <2>2, <3>1, AtIs, AtIsNext
  <2>3. CASE c \in Kind \ {"out", "going"}
    BY <1>4, <2>3, AtIs, AtIsNext DEF Kind
  <2> QED BY <2>1, <2>2, <2>3
<1>12. OnePlace /\ "going" # "out"
  BY DEF PInv
<1>13. OnePlace' /\ KeptOrOverwritten
  BY <1>5, <1>10, <1>11, <1>12, RelocatesOne
<1> QED BY <1>9, <1>13

LEMMA TakeBlockPlaces ==
  ASSUME TypeOK, PInv, TakeBlock, UNCHANGED envVars
  PROVE  OnePlace' /\ NoDoubles' /\ KeptOrOverwritten
<1>1. PICK tag \in DOMAIN on_dram_reqs :
        /\ on_going_reqs' = on_going_reqs \cup [req : Waiting(tag), left : {hit_latency}]
        /\ on_dram_reqs' = [t \in DOMAIN on_dram_reqs \ {tag} |-> on_dram_reqs[t]]
  BY DEF TakeBlock
<1>2. PICK X : X = Waiting(tag)
  OBVIOUS
<1>3. X = Range(on_dram_reqs[tag]) /\ on_dram_reqs[tag] \in Seq(Request)
  BY <1>1, <1>2 DEF Waiting, Range, TypeOK
<1>4. \A r \in X : r \in Request
  BY <1>3 DEF Range
<1>5. UNCHANGED <<in_port, out_port, pending, answers, temp_send_blocked_req>>
  BY DEF TakeBlock, envVars
<1>6. /\ \A p \in on_going_reqs' : p \in on_going_reqs \/ (p.req \in X /\ p.left = hit_latency
                                                          /\ p = [req |-> p.req, left |-> p.left])
      /\ \A p \in on_going_reqs : p \in on_going_reqs'
      /\ \A r \in X : [req |-> r, left |-> hit_latency] \in on_going_reqs'
  BY <1>1, <1>2
<1>7. \A r \in X : At(r, "dram", tag) /\ At(r, "going", 0)'
  <2>1. ASSUME NEW r \in X PROVE At(r, "dram", tag) /\ At(r, "going", 0)'
    <3>1. [req |-> r, left |-> hit_latency].req = r
      OBVIOUS
    <3>2. \E p \in on_going_reqs' : p.req = r
      BY <1>6, <3>1
    <3> QED BY <1>1, <1>3, <3>2, AtIs, AtIsNext
  <2> QED BY <2>1
<1>8. \A p \in on_going_reqs : p.req \notin X
  <2>1. ASSUME NEW p \in on_going_reqs, p.req \in X PROVE FALSE
    <3>1. At(p.req, "going", 0) /\ At(p.req, "dram", tag)
      BY <1>7, <2>1, AtIs
    <3> QED BY <1>4, <2>1, <3>1 DEF PInv, OnePlace
  <2> QED BY <2>1
<1>9. ASSUME NEW o \in on_going_reqs', NEW p \in on_going_reqs', o.req = p.req PROVE o = p
  BY <1>6, <1>8, <1>9 DEF PInv, NoDoubles
<1>10. /\ DOMAIN on_dram_reqs' = DOMAIN on_dram_reqs \ {tag}
       /\ \A t \in DOMAIN on_dram_reqs' : on_dram_reqs'[t] = on_dram_reqs[t]
  BY <1>1
<1>11. NoDoubles'
  BY <1>5, <1>9, <1>10 DEF PInv, NoDoubles
<1>12. ASSUME NEW q \in Request, NEW c \in Kind, NEW k
       PROVE  At(q, c, k)' <=> \/ q \in X /\ c = "going" /\ k = 0
                               \/ At(q, c, k) /\ ~(q \in X /\ c = "dram" /\ k = tag)
  <2>1. CASE c = "going"
    <3>1. (\E p \in on_going_reqs' : p.req = q) <=> q \in X \/ \E p \in on_going_reqs : p.req = q
      <4>1. q \in X => \E p \in on_going_reqs' : p.req = q
        BY <1>7, AtIsNext
      <4> QED BY <1>6, <4>1
    <3> QED BY <2>1, <3>1, AtIs, AtIsNext
  <2>2. CASE c = "dram"
    <3>1. k = tag => (At(q, "dram", k) => q \in X)
      BY <1>3, AtIs
    <3>2. At(q, "dram", k)' <=> k # tag /\ At(q, "dram", k)
      BY <1>10, AtIs, AtIsNext
    <3> QED BY <2>2, <3>1, <3>2
  <2>3. CASE c \in Kind \ {"going", "dram"}
    BY <1>5, <2>3, AtIs, AtIsNext DEF Kind
  <2> QED BY <2>1, <2>2, <2>3
<1>13. /\ OnePlace /\ "dram" # "going" /\ X \subseteq Request
       /\ \A r \in Request : r \in X => At(r, "dram", tag) /\ At(r, "going", 0)'
  BY <1>4, <1>7 DEF PInv
<1>14. Relocates(X, "going", 0, {})
  BY <1>12, <1>13, RelocatesFrom
<1> QED BY <1>11, <1>13, <1>14, RelocatesKeeps

LEMMA NextSlotFirst == SlotFirst /\ [Next]_vars => SlotFirst'
<1> SUFFICES ASSUME SlotFirst, [Next]_vars, phase' = <<"access", 0>>
             PROVE  temp_send_blocked_req' = None
  BY DEF SlotFirst
<1>1. CASE NetworkSends \/ NetworkTakes \/ DramReads
  BY <1>1 DEF NetworkSends, NetworkTakes, DramReads
<1>2. ASSUME NEW d \in Elapsed, Call(d) PROVE temp_send_blocked_req' = None
  BY <1>2 DEF Call, FirstPhase
<1>3. ASSUME NEW i \in Port, Access(i) \/ SkipPort(i) PROVE FALSE
  BY <1>3, PortsAssumption DEF Access, SkipPort, NextPort, Port
<1>4. CASE SendBlocked \/ Answer \/ AnswersEnd \/ TakeBlock \/ Return
  BY <1>4 DEF SendBlocked, Answer, AnswersEnd, TakeBlock, Return
<1>5. CASE UNCHANGED vars
  BY <1>5 DEF vars, cacheVars, SlotFirst
<1> QED BY <1>1, <1>2, <1>3, <1>4, <1>5 DEF Next, Step

LEMMA NextPInv == IInv /\ PInv /\ [Next]_vars => PInv' /\ KeptOrOverwritten
<1> SUFFICES ASSUME IInv, PInv, [Next]_vars
             PROVE  OnePlace' /\ NoDoubles' /\ KeptOrOverwritten
  BY NextSlotFirst DEF PInv
<1>0. TypeOK
  BY DEF IInv
<1>1. CASE NetworkSends
  BY <1>0, <1>1, NetworkSendsPlaces
<1>2. CASE NetworkTakes
  BY <1>0, <1>2, NetworkTakesPlaces
<1>3. CASE DramReads
  BY <1>3, UnchangedPlaces DEF DramReads
<1>4. ASSUME NEW d \in Elapsed, Call(d), UNCHANGED envVars
      PROVE  OnePlace' /\ NoDoubles' /\ KeptOrOverwritten
  BY <1>0, <1>4, CallPlaces
<1>5. ASSUME NEW i \in Port, Access(i), UNCHANGED envVars
      PROVE  OnePlace' /\ NoDoubles' /\ KeptOrOverwritten
  BY <1>5, AccessPlaces
<1>6. ASSUME NEW i \in Port, SkipPort(i), UNCHANGED envVars
      PROVE  OnePlace' /\ NoDoubles' /\ KeptOrOverwritten
  BY <1>6, UnchangedPlaces DEF SkipPort, envVars
<1>7. ASSUME SendBlocked, UNCHANGED envVars
      PROVE  OnePlace' /\ NoDoubles' /\ KeptOrOverwritten
  BY <1>7, SendBlockedPlaces
<1>8. ASSUME Answer, UNCHANGED envVars
      PROVE  OnePlace' /\ NoDoubles' /\ KeptOrOverwritten
  BY <1>0, <1>8, AnswerPlaces
<1>9. ASSUME TakeBlock, UNCHANGED envVars
      PROVE  OnePlace' /\ NoDoubles' /\ KeptOrOverwritten
  BY <1>0, <1>9, TakeBlockPlaces
<1>10. ASSUME AnswersEnd \/ Return, UNCHANGED envVars
       PROVE  OnePlace' /\ NoDoubles' /\ KeptOrOverwritten
  BY <1>10, UnchangedPlaces DEF AnswersEnd, Return, envVars
<1>11. CASE UNCHANGED vars
  BY <1>11, UnchangedPlaces DEF vars, cacheVars, envVars
<1> QED BY <1>1, <1>2, <1>3, <1>4, <1>5, <1>6, <1>7, <1>8, <1>9, <1>10, <1>11 DEF Next, Step

LEMMA InitPInv == EnvInit => PInv
<1> SUFFICES ASSUME EnvInit PROVE PInv
  OBVIOUS
<1>1. Range(<<>>) = {} /\ IsInjective(<<>>)
  BY EmptySeq DEF Range, IsInjective
<1>2. \A r \in Request : \A a, i : At(r, a, i) => a = "pending" /\ i = 0
  BY <1>1, PortsAssumption DEF At, EnvInit, Init
<1>3. OnePlace
  BY <1>2 DEF OnePlace
<1>4. NoDoubles /\ SlotFirst
  BY <1>1 DEF NoDoubles, SlotFirst, EnvInit, Init
<1> QED BY <1>3, <1>4 DEF PInv

\* The places of a request are the ones it is at, once each.
LEMMA PlacesAre ==
  ASSUME TypeOK, PInv, NEW r \in Request
  PROVE  Places(r) = IF Kept(r) THEN 1 ELSE 0
<1>1. PICK P, A, G, S :
        /\ P = {r} \cap pending /\ A = Indices(answers, r)
        /\ G = {o \in on_going_reqs : o.req = r} /\ S = {r} \cap {temp_send_blocked_req}
  OBVIOUS
<1>2. PICK I, O, D :
        /\ I = UNION {{"in"} \X {i} \X Indices(in_port[i], r) : i \in Port}
        /\ O = UNION {{"out"} \X {i} \X Indices(out_port[i], r) : i \in Port}
        /\ D = UNION {{"dram"} \X {t} \X Indices(on_dram_reqs[t], r) : t \in DOMAIN on_dram_reqs}
  OBVIOUS
<1>3. PlacesOf(r) = ({"pending"} \X P) \cup ({"answers"} \X A) \cup ({"going"} \X G)
                      \cup ({"slot"} \X S) \cup I \cup O \cup D
  BY <1>1, <1>2 DEF PlacesOf
<1>4. \A s, k : k \in Indices(s, r) => r \in Range(s)
  BY DEF Indices, Range
<1>5. \A s, k, l : IsInjective(s) /\ k \in Indices(s, r) /\ l \in Indices(s, r) => k = l
  BY DEF Indices, IsInjective
<1>6. /\ \A x \in P : \A y \in P : x = y
      /\ \A x \in A : \A y \in A : x = y
      /\ \A x \in G : \A y \in G : x = y
      /\ \A x \in S : \A y \in S : x = y
  BY <1>1, <1>5 DEF PInv, NoDoubles
<1>7. ASSUME NEW z \in PlacesOf(r)
      PROVE  \/ \E x \in P : z = <<"pending", x>> /\ At(r, "pending", 0)
             \/ \E x \in A : z = <<"answers", x>> /\ At(r, "answers", 0)
             \/ \E x \in G : z = <<"going", x>> /\ At(r, "going", 0)
             \/ \E x \in S : z = <<"slot", x>> /\ At(r, "slot", 0)
             \/ \E i \in Port : \E x \in Indices(in_port[i], r) :
                  z = <<"in", i, x>> /\ At(r, "in", i)
             \/ \E i \in Port : \E x \in Indices(out_port[i], r) :
                  z = <<"out", i, x>> /\ At(r, "out", i)
             \/ \E i \in DOMAIN on_dram_reqs : \E x \in Indices(on_dram_reqs[i], r) :
                  z = <<"dram", i, x>> /\ At(r, "dram", i)
  <2>1. CASE z \in {"pending"} \X P
    BY <1>1, <2>1, AtIs
  <2>2. CASE z \in {"answers"} \X A
    BY <1>1, <1>4, <2>2, AtIs
  <2>3. CASE z \in {"going"} \X G
    BY <1>1, <2>3, AtIs
  <2>4. CASE z \in {"slot"} \X S
    BY <1>1, <2>4, AtIs
  <2>5. CASE z \in I
    <3>1. PICK i \in Port : z \in {"in"} \X {i} \X Indices(in_port[i], r)
      BY <1>2, <2>5
    <3>2. PICK x \in Indices(in_port[i], r) : z = <<"in", i, x>>
      BY <3>1
    <3> QED BY <1>4, <3>2, AtIs
  <2>6. CASE z \in O
    <3>1. PICK i \in Port : z \in {"out"} \X {i} \X Indices(out_port[i], r)
      BY <1>2, <2>6
    <3>2. PICK x \in Indices(out_port[i], r) : z = <<"out", i, x>>
      BY <3>1
    <3> QED BY <1>4, <3>2, AtIs
  <2>7. CASE z \in D
    <3>1. PICK i \in DOMAIN on_dram_reqs : z \in {"dram"} \X {i} \X Indices(on_dram_reqs[i], r)
      BY <1>2, <2>7
    <3>2. PICK x \in Indices(on_dram_reqs[i], r) : z = <<"dram", i, x>>
      BY <3>1
    <3> QED BY <1>4, <3>2, AtIs
  <2> QED BY <1>3, <2>1, <2>2, <2>3, <2>4, <2>5, <2>6, <2>7
<1>8. \A a, b, i, j : At(r, a, i) /\ At(r, b, j) => a = b /\ i = j
  BY DEF PInv, OnePlace
<1>9. ASSUME NEW y \in PlacesOf(r), NEW z \in PlacesOf(r) PROVE y = z
  <2>1. ASSUME NEW x \in P, y = <<"pending", x>>, At(r, "pending", 0) PROVE y = z
    <3>1. \E w \in P : z = <<"pending", w>>
      BY <1>7, <1>8, <2>1
    <3> QED BY <1>6, <2>1, <3>1
  <2>2. ASSUME NEW x \in A, y = <<"answers", x>>, At(r, "answers", 0) PROVE y = z
    <3>1. \E w \in A : z = <<"answers", w>>
      BY <1>7, <1>8, <2>2
    <3> QED BY <1>6, <2>2, <3>1
  <2>3. ASSUME NEW x \in G, y = <<"going", x>>, At(r, "going", 0) PROVE y = z
    <3>1. \E w \in G : z = <<"going", w>>
      BY <1>7, <1>8, <2>3
    <3> QED BY <1>6, <2>3, <3>1
  <2>4. ASSUME NEW x \in S, y = <<"slot", x>>, At(r, "slot", 0) PROVE y = z
    <3>1. \E w \in S : z = <<"slot", w>>
      BY <1>7, <1>8, <2>4
    <3> QED BY <1>6, <2>4, <3>1
  <2>5. ASSUME NEW i \in Port, NEW x \in Indices(in_port[i], r), y = <<"in", i, x>>,
               At(r, "in", i)
        PROVE  y = z
    <3>1. PICK w \in Indices(in_port[i], r) : z = <<"in", i, w>>
      BY <1>7, <1>8, <2>5
    <3>2. x = w
      BY <1>5, <2>5, <3>1 DEF PInv, NoDoubles
    <3> QED BY <2>5, <3>1, <3>2
  <2>6. ASSUME NEW i \in Port, NEW x \in Indices(out_port[i], r), y = <<"out", i, x>>,
               At(r, "out", i)
        PROVE  y = z
    <3>1. PICK w \in Indices(out_port[i], r) : z = <<"out", i, w>>
      BY <1>7, <1>8, <2>6
    <3>2. x = w
      BY <1>5, <2>6, <3>1 DEF PInv, NoDoubles
    <3> QED BY <2>6, <3>1, <3>2
  <2>7. ASSUME NEW i \in DOMAIN on_dram_reqs, NEW x \in Indices(on_dram_reqs[i], r),
               y = <<"dram", i, x>>, At(r, "dram", i)
        PROVE  y = z
    <3>1. PICK w \in Indices(on_dram_reqs[i], r) : z = <<"dram", i, w>>
      BY <1>7, <1>8, <2>7
    <3>2. x = w
      BY <1>5, <2>7, <3>1 DEF PInv, NoDoubles
    <3> QED BY <2>7, <3>1, <3>2
  <2> QED BY <1>7, <2>1, <2>2, <2>3, <2>4, <2>5, <2>6, <2>7
<1>10. ASSUME NEW a, NEW i, At(r, a, i) PROVE PlacesOf(r) # {}
  <2>0. \A s : r \in Range(s) => \E k : k \in Indices(s, r)
    BY DEF Indices, Range
  <2>1. CASE a = "pending"
    <3>1. <<"pending", r>> \in {"pending"} \X P
      BY <1>1, <1>10, <2>1, AtIs
    <3> QED BY <1>3, <3>1
  <2>2. CASE a = "answers"
    <3>1. PICK k : k \in A
      BY <1>1, <1>10, <2>0, <2>2, AtIs
    <3>2. <<"answers", k>> \in {"answers"} \X A
      BY <3>1
    <3> QED BY <1>3, <3>2
  <2>3. CASE a = "going"
    <3>1. PICK o : o \in G
      BY <1>1, <1>10, <2>3, AtIs
    <3>2. <<"going", o>> \in {"going"} \X G
      BY <3>1
    <3> QED BY <1>3, <3>2
  <2>4. CASE a = "slot"
    <3>1. <<"slot", r>> \in {"slot"} \X S
      BY <1>1, <1>10, <2>4, AtIs
    <3> QED BY <1>3, <3>1
  <2>5. CASE a = "in"
    <3>1. i \in Port /\ r \in Range(in_port[i])
      BY <1>10, <2>5, AtIs
    <3>2. PICK k : k \in Indices(in_port[i], r)
      BY <2>0, <3>1
    <3>3. <<"in", i, k>> \in {"in"} \X {i} \X Indices(in_port[i], r)
      BY <3>2
    <3>4. <<"in", i, k>> \in I
      BY <1>2, <3>1, <3>3
    <3> QED BY <1>3, <3>4
  <2>6. CASE a = "out"
    <3>1. i \in Port /\ r \in Range(out_port[i])
      BY <1>10, <2>6, AtIs
    <3>2. PICK k : k \in Indices(out_port[i], r)
      BY <2>0, <3>1
    <3>3. <<"out", i, k>> \in {"out"} \X {i} \X Indices(out_port[i], r)
      BY <3>2
    <3>4. <<"out", i, k>> \in O
      BY <1>2, <3>1, <3>3
    <3> QED BY <1>3, <3>4
  <2>7. CASE a = "dram"
    <3>1. i \in DOMAIN on_dram_reqs /\ r \in Range(on_dram_reqs[i])
      BY <1>10, <2>7, AtIs
    <3>2. PICK k : k \in Indices(on_dram_reqs[i], r)
      BY <2>0, <3>1
    <3>3. <<"dram", i, k>> \in {"dram"} \X {i} \X Indices(on_dram_reqs[i], r)
      BY <3>2
    <3>4. <<"dram", i, k>> \in D
      BY <1>2, <3>1, <3>3
    <3> QED BY <1>3, <3>4
  <2>8. a \in Kind
    BY <1>10, AtKind
  <2> QED BY <2>1, <2>2, <2>3, <2>4, <2>5, <2>6, <2>7, <2>8 DEF Kind
<1>11. CASE Kept(r)
  <2>1. PICK z : z \in PlacesOf(r)
    BY <1>10, <1>11 DEF Kept
  <2>2. PlacesOf(r) = {z}
    BY <1>9, <2>1
  <2> QED BY <1>11, <2>2, FS_Singleton DEF Places
<1>12. CASE ~Kept(r)
  <2>1. PlacesOf(r) = {}
    BY <1>7, <1>12 DEF Kept
  <2> QED BY <1>12, <2>1, FS_EmptySet DEF Places
<1> QED BY <1>11, <1>12

PlacesMatch == \A r \in Request : Places(r) = IF Kept(r) THEN 1 ELSE 0

(* No request is answered, or kept, twice: it is in one place at most, in   *)
(* whatever order the DRAM answers and however many wait for a block.       *)
THEOREM RamuCacheNothingDoubled == Spec => []NothingDoubled
<1>1. IInv /\ PInv => NothingDoubled
  BY PlacesAre DEF NothingDoubled, IInv
<1> QED BY <1>1, InitIInv, InitPInv, NextIInv, NextPInv, PTL DEF Spec

(* A request vanishes only when a second port of the same update is refused *)
(* and overwrites the slot (cache_with_ramulator.rs:127).                   *)
THEOREM RamuCacheLostOnlyInSlot == Spec => LostOnlyInSlot
<1>1. IInv /\ PInv => PlacesMatch
  BY PlacesAre DEF PlacesMatch, IInv
<1>2. ASSUME PlacesMatch, PlacesMatch', KeptOrOverwritten, NEW r \in Request
      PROVE  Places(r)' = Places(r) \/ (/\ temp_send_blocked_req = r
                                        /\ temp_send_blocked_req' \notin {r, None}
                                        /\ phase[1] = "access" /\ phase[2] > 0)
  <2>1. Places(r) = (IF Kept(r) THEN 1 ELSE 0) /\ Places(r)' = (IF Kept(r)' THEN 1 ELSE 0)
    BY <1>2 DEF PlacesMatch
  <2>2. (Kept(r)' <=> Kept(r)) \/ Overwritten(r)
    BY <1>2 DEF KeptOrOverwritten
  <2> QED BY <2>1, <2>2 DEF Overwritten
<1> DEFINE Safe == \A r \in Request :
              Places(r)' = Places(r) \/ (/\ temp_send_blocked_req = r
                                         /\ temp_send_blocked_req' \notin {r, None}
                                         /\ phase[1] = "access" /\ phase[2] > 0)
<1>3. PlacesMatch /\ PlacesMatch' /\ IInv /\ PInv /\ [Next]_vars => Safe
  BY <1>2, NextPInv
<1>4. EnvInit /\ [][Next]_vars => [][Safe]_vars
  <2> HIDE DEF Safe
  <2> QED BY <1>1, <1>3, InitIInv, InitPInv, NextIInv, NextPInv, PTL
<1> QED BY <1>4 DEF Spec, LostOnlyInSlot
=============================================================================
