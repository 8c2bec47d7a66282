------------------------- MODULE FixTimeCacheProofs -------------------------
(***************************************************************************)
(* Proofs about FixTimeCacheEnv: types, that a block is read once at a     *)
(* time, that an idle cache is empty, that the tag store is first in first *)
(* out, and that every request is answered once, for any requests, ports,  *)
(* cache geometry, latencies and limits.                                   *)
(*                                                                         *)
(* Types and single reads do not hold alone: the requests of a read that   *)
(* ends are a sequence because every read has its entry in tag_to_reqs.    *)
(* For the tag store, the lines a set holds are those of its blocks, and   *)
(* for the answers, no channel holds a request twice: At names the places  *)
(* of a request, and every step takes some requests from one to the next.  *)
(* The first lemmas are about the tag store itself, FastCache.             *)
(*                                                                         *)
(* The second half is about the cache behind the network, MemorySystem:    *)
(* that a request held by either is progress, and that the two implement   *)
(* MemoryService.                                                          *)
(***************************************************************************)
EXTENDS FixTimeCacheEnv, MemorySystem, ChannelLemmas, WellFoundedInduction,
        FiniteSetTheorems

(* A set of the tag store that holds some of the tags.                      *)
SetWith(tags) == [lines : Seq(tags), replace_ptr : 0 .. Associativity - 1]

LEMMA EmptySetType ==
  ASSUME NEW tags
  PROVE  EmptySet \in SetWith(tags)
BY CacheAssumption, EmptySeq DEF EmptySet, SetWith

(* An access keeps a set of the tag store well formed, whether it hits,     *)
(* fills a free line or replaces one.                                       *)
LEMMA AccessedType ==
  ASSUME NEW tags, NEW set \in SetWith(tags), NEW tag \in tags
  PROVE  Accessed(set, tag) \in SetWith(tags)
<1> USE DEF SetWith
<1>1. CASE IsHit(set, tag)
  BY <1>1 DEF Accessed
<1>2. CASE ~IsHit(set, tag) /\ Len(set.lines) < Associativity
  <2>1. Append(set.lines, tag) \in Seq(tags)
    BY AppendProperties
  <2> QED BY <1>2, <2>1 DEF Accessed
<1>3. CASE ~IsHit(set, tag) /\ ~(Len(set.lines) < Associativity)
  <2> DEFINE l == set.lines
             i == set.replace_ptr + 1
  <2>1. [l EXCEPT ![i] = tag] \in Seq(tags)
    <3>1. l \in Seq(tags)
      OBVIOUS
    <3> HIDE DEF l, i
    <3>2. CASE i \in 1 .. Len(l)
      BY <3>1, <3>2, ExceptSeq
    <3>3. CASE i \notin 1 .. Len(l)
      <4>1. DOMAIN l = 1 .. Len(l) /\ l = [k \in DOMAIN l |-> l[k]]
        BY <3>1
      <4>2. [l EXCEPT ![i] = tag] = l
        BY <3>3, <4>1
      <4> QED BY <3>1, <4>2
    <3> QED BY <3>2, <3>3
  <2>2. (set.replace_ptr + 1) % Associativity \in 0 .. Associativity - 1
    BY CacheAssumption
  <2> QED BY <1>3, <2>1, <2>2 DEF Accessed, Replace
<1> QED BY <1>1, <1>2, <1>3
-----------------------------------------------------------------------------
(* Induction over the numbers, with sets for the predicates.                *)

LEMMA LeastNat ==
  ASSUME NEW T \in SUBSET Nat, T # {}
  PROVE  \E m \in T : \A k \in T : m <= k
<1> DEFINE R == OpToRel(<, Nat)
<1>1. IsWellFoundedOn(R, Nat)
  BY NatLessThanWellFounded
<1>2. \A a, b \in Nat : a < b => <<a, b>> \in R
  BY DEF OpToRel
<1> HIDE DEF R
<1>3. PICK m \in T : \A k \in T : <<k, m>> \notin R
  BY <1>1, WFMin
<1>4. \A k \in T : ~(k < m)
  BY <1>2, <1>3
<1> QED BY <1>4

LEMMA SetInduction ==
  ASSUME NEW T \in SUBSET Nat, \A n \in Nat : (\A k \in 0 .. n - 1 : k \in T) => n \in T
  PROVE  T = Nat
<1> SUFFICES ASSUME Nat \ T # {} PROVE FALSE
  OBVIOUS
<1>1. PICK m \in Nat \ T : \A k \in Nat \ T : m <= k
  BY LeastNat
<1> QED BY <1>1
-----------------------------------------------------------------------------
(* The recursion of get_bit_lens ends for every size, and the power of two  *)
(* it stands for is not above the size: so no address selects a set that    *)
(* is not there.                                                           *)

HalfOf(f, n) == IF n > 1 THEN 2 * f[n \div 2] ELSE 1

\* f gives the sizes up to n.
SizesUpTo(f, n) == f \in [0 .. n -> Nat] /\ \A k \in 0 .. n : f[k] = HalfOf(f, k)

LEMMA Half ==
  ASSUME NEW n \in Nat, n > 1
  PROVE  n \div 2 \in Nat /\ n \div 2 < n /\ 2 * (n \div 2) <= n /\ n \div 2 > 0
OBVIOUS

LEMMA SizesAgree ==
  ASSUME NEW m \in Nat, NEW n \in Nat, NEW f, NEW g, SizesUpTo(f, m), SizesUpTo(g, n),
         NEW i \in Nat, i <= m, i <= n
  PROVE  f[i] = g[i]
<1> DEFINE T == {k \in Nat : k <= m /\ k <= n => f[k] = g[k]}
<1>1. ASSUME NEW k \in Nat, \A j \in 0 .. k - 1 : j \in T PROVE k \in T
  <2> SUFFICES ASSUME k <= m, k <= n PROVE f[k] = g[k]
    OBVIOUS
  <2>1. f[k] = HalfOf(f, k) /\ g[k] = HalfOf(g, k)
    BY DEF SizesUpTo
  <2>2. k > 1 => f[k \div 2] = g[k \div 2]
    BY <1>1, Half
  <2> QED BY <2>1, <2>2 DEF HalfOf
<1>2. T \in SUBSET Nat
  OBVIOUS
<1> HIDE DEF T
<1>3. T = Nat
  BY <1>1, <1>2, SetInduction
<1>4. i \in T
  BY <1>3
<1> QED BY <1>4 DEF T

LEMMA SizesExist ==
  ASSUME NEW n \in Nat
  PROVE  \E f : SizesUpTo(f, n)
<1> DEFINE T == {k \in Nat : \E f : SizesUpTo(f, k)}
<1>1. ASSUME NEW k \in Nat, \A j \in 0 .. k - 1 : j \in T PROVE k \in T
  <2>1. CASE k = 0
    <3> DEFINE f == [j \in 0 .. 0 |-> 1]
    <3>1. SizesUpTo(f, 0)
      BY DEF SizesUpTo, HalfOf
    <3> QED BY <2>1, <3>1
  <2>2. CASE k > 0
    <3>1. PICK g : SizesUpTo(g, k - 1)
      BY <1>1, <2>2
    <3> DEFINE f == [j \in 0 .. k |-> IF j = k THEN HalfOf(g, k) ELSE g[j]]
    <3>2. k > 1 => k \div 2 \in 0 .. k - 1
      BY Half
    <3>3. g \in [0 .. k - 1 -> Nat] /\ \A j \in 0 .. k - 1 : g[j] = HalfOf(g, j)
      BY <3>1 DEF SizesUpTo
    <3>4. HalfOf(g, k) \in Nat
      BY <3>2, <3>3 DEF HalfOf
    <3>5. f \in [0 .. k -> Nat]
      BY <2>2, <3>3, <3>4
    <3>6. ASSUME NEW j \in 0 .. k PROVE f[j] = HalfOf(f, j)
      <4>1. HalfOf(f, j) = HalfOf(g, j)
        <5>1. j > 1 => j \div 2 \in 0 .. k - 1 /\ j \div 2 # k
          BY Half
        <5> QED BY <5>1 DEF HalfOf
      <4> QED BY <2>2, <3>3, <4>1
    <3>7. SizesUpTo(f, k)
      BY <3>5, <3>6 DEF SizesUpTo
    <3> HIDE DEF f
    <3> QED BY <3>7
  <2> QED BY <2>1, <2>2
<1>2. T \in SUBSET Nat
  OBVIOUS
<1> HIDE DEF T
<1>3. n \in T
  BY <1>1, <1>2, SetInduction
<1> QED BY <1>3 DEF T

LEMMA BitSizeIs == \A n \in Nat : BitSize[n] = HalfOf(BitSize, n)
<1> DEFINE U(n) == CHOOSE f : SizesUpTo(f, n)
           F == [n \in Nat |-> U(n)[n]]
<1>1. \A n \in Nat : SizesUpTo(U(n), n)
  BY SizesExist
<1> HIDE DEF U
<1>2. ASSUME NEW n \in Nat PROVE F[n] = HalfOf(F, n)
  <2>1. U(n)[n] = HalfOf(U(n), n)
    BY <1>1 DEF SizesUpTo
  <2>2. CASE n > 1
    <3>1. n \div 2 \in Nat /\ n \div 2 <= n
      BY <2>2, Half
    <3>2. SizesUpTo(U(n), n) /\ SizesUpTo(U(n \div 2), n \div 2)
      BY <1>1, <3>1
    <3>3. U(n)[n \div 2] = U(n \div 2)[n \div 2]
      BY <3>1, <3>2, SizesAgree
    <3> QED BY <2>1, <3>1, <3>3 DEF HalfOf
  <2>3. CASE ~(n > 1)
    BY <2>1, <2>3 DEF HalfOf
  <2> QED BY <2>2, <2>3
<1>3. F = [n \in Nat |-> IF n > 1 THEN 2 * F[n \div 2] ELSE 1]
  BY <1>2 DEF HalfOf
<1> HIDE DEF F
<1>4. BitSize = [n \in Nat |-> IF n > 1 THEN 2 * BitSize[n \div 2] ELSE 1]
  BY <1>3 DEF BitSize
<1> QED BY <1>4 DEF HalfOf

LEMMA BitSizeBound ==
  ASSUME NEW n \in Nat \ {0}
  PROVE  BitSize[n] \in 1 .. n
<1> DEFINE T == {k \in Nat : k > 0 => BitSize[k] \in 1 .. k}
<1>1. ASSUME NEW k \in Nat, \A j \in 0 .. k - 1 : j \in T PROVE k \in T
  <2>1. BitSize[k] = HalfOf(BitSize, k)
    BY BitSizeIs
  <2>2. CASE k > 1
    <3>1. k \div 2 \in 1 .. k - 1 /\ 2 * (k \div 2) <= k
      BY <2>2, Half
    <3>2. BitSize[k \div 2] \in 1 .. k \div 2
      BY <1>1, <3>1
    <3> QED BY <2>1, <2>2, <3>1, <3>2 DEF HalfOf
  <2>3. CASE ~(k > 1)
    BY <2>1, <2>3 DEF HalfOf
  <2> QED BY <2>2, <2>3
<1>2. T \in SUBSET Nat
  OBVIOUS
<1> HIDE DEF T
<1>3. n \in T
  BY <1>1, <1>2, SetInduction
<1> QED BY <1>3 DEF T

(* Every address selects a set of the tag store: the index of               *)
(* FastCache::access (fast_cache.rs:58) never panics.  And a tag, the       *)
(* address of its block, selects the same set as every address in it.       *)
THEOREM AddressSelectsSet ==
  ASSUME NEW a \in Nat
  PROVE  /\ Tag(a) \in Nat /\ SetNumber(a) \in 0 .. Sets - 1
         /\ SetNumber(Tag(a)) = SetNumber(a)
<1>1. IndexedSets \in 1 .. Sets /\ IndexedBlock \in Nat \ {0}
  BY BitSizeBound, CacheAssumption DEF IndexedSets, IndexedBlock
<1>2. ASSUME NEW B \in Nat \ {0}
      PROVE  a - (a % B) \in Nat /\ (a - (a % B)) \div B = a \div B /\ a \div B \in Nat
  OBVIOUS
<1>3. Tag(a) \in Nat /\ Tag(a) \div IndexedBlock = a \div IndexedBlock
      /\ a \div IndexedBlock \in Nat
  BY <1>1, <1>2 DEF Tag
<1>4. ASSUME NEW x \in Nat, NEW m \in Nat \ {0} PROVE x % m \in 0 .. m - 1
  OBVIOUS
<1>5. SetNumber(a) \in 0 .. IndexedSets - 1
  BY <1>1, <1>3, <1>4 DEF SetNumber
<1> QED BY <1>1, <1>3, <1>5, CacheAssumption DEF SetNumber
-----------------------------------------------------------------------------
(* The order in which the lines of a set are given up.                      *)

\* A set is filled from line 0 before its pointer moves.
Filled(set) ==
  /\ Len(set.lines) <= Associativity
  /\ Len(set.lines) < Associativity => set.replace_ptr = 0

LEMMA ModSmall ==
  ASSUME NEW n \in Nat \ {0}, NEW x \in 0 .. 2 * n - 1
  PROVE  x % n = IF x < n THEN x ELSE x - n
OBVIOUS

LEMMA FunctionIsSeq ==
  ASSUME NEW S, NEW n \in Nat, NEW f \in [1 .. n -> S]
  PROVE  f \in Seq(S) /\ Len(f) = n
OBVIOUS

LEMMA OldestFirstIs ==
  ASSUME NEW tags, NEW set \in SetWith(tags), Filled(set)
  PROVE  LET l == set.lines
             p == set.replace_ptr
         IN  /\ OldestFirst(set) \in Seq(tags) /\ Len(OldestFirst(set)) = Len(l)
             /\ \A i \in 1 .. Len(l) :
                  OldestFirst(set)[i] = l[IF p + i <= Associativity THEN p + i
                                                                    ELSE p + i - Associativity]
             /\ \A i \in 1 .. Len(l) : (IF p + i <= Associativity THEN p + i
                                                 ELSE p + i - Associativity) \in 1 .. Len(l)
<1> DEFINE l == set.lines
           p == set.replace_ptr
           A == Associativity
           at(i) == IF p + i <= A THEN p + i ELSE p + i - A
<1>1. /\ l \in Seq(tags) /\ Len(l) \in Nat /\ Len(l) <= A /\ p \in 0 .. A - 1
      /\ Len(l) < A => p = 0
      /\ DOMAIN l = 1 .. Len(l) /\ A \in Nat \ {0}
  BY CacheAssumption DEF SetWith, Filled
<1>2. OldestFirst(set) = [i \in 1 .. Len(l) |->
                            l[IF Len(l) < A THEN i ELSE ((p + i - 1) % A) + 1]]
  BY <1>1 DEF OldestFirst
<1> HIDE DEF l, p, A
<1>3. ASSUME NEW i \in 1 .. Len(l)
      PROVE  /\ at(i) \in 1 .. Len(l)
             /\ (IF Len(l) < A THEN i ELSE ((p + i - 1) % A) + 1) = at(i)
  <2>1. CASE Len(l) < A
    BY <1>1, <2>1
  <2>2. CASE Len(l) = A
    <3>1. PICK x \in 0 .. 2 * A - 1 : x = p + i - 1
      BY <1>1, <2>2
    <3>2. x % A = IF x < A THEN x ELSE x - A
      BY <1>1, ModSmall
    <3>3. ((p + i - 1) % A) + 1 = at(i)
      BY <1>1, <2>2, <3>1, <3>2
    <3> QED BY <1>1, <2>2, <3>3
  <2>3. Len(l) < A \/ Len(l) = A
    <3>1. Len(l) \in Nat /\ A \in Nat /\ Len(l) <= A
      BY <1>1
    <3> QED BY <3>1
  <2> QED BY <2>1, <2>2, <2>3
<1> HIDE DEF at
<1>4. OldestFirst(set) = [i \in 1 .. Len(l) |-> l[at(i)]]
  BY <1>2, <1>3
<1>5. [i \in 1 .. Len(l) |-> l[at(i)]] \in [1 .. Len(l) -> tags]
  BY <1>1, <1>3
<1>6. OldestFirst(set) \in Seq(tags) /\ Len(OldestFirst(set)) = Len(l)
  BY <1>1, <1>4, <1>5, FunctionIsSeq
<1> QED BY <1>3, <1>4, <1>6 DEF l, p, A, at

(* A hit changes nothing.  A miss puts the tag last, and takes the place of  *)
(* the tag that has been there longest when the set is full.               *)
LEMMA AccessedOrder ==
  ASSUME NEW tags, NEW set \in SetWith(tags), Filled(set), NEW tag \in tags
  PROVE  LET new == Accessed(set, tag)
             old == OldestFirst(set)
             kept == IF Len(old) < Associativity THEN old ELSE Tail(old)
         IN  /\ Filled(new)
             /\ \/ new = set
                \/ /\ \A i \in DOMAIN old : old[i] # tag
                   /\ OldestFirst(new) = Append(kept, tag)
<1> DEFINE l == set.lines
           p == set.replace_ptr
           A == Associativity
           new == Accessed(set, tag)
           old == OldestFirst(set)
           kept == IF Len(old) < A THEN old ELSE Tail(old)
<1>1. /\ l \in Seq(tags) /\ Len(l) \in Nat /\ Len(l) <= A /\ p \in 0 .. A - 1
      /\ Len(l) < A => p = 0
      /\ DOMAIN l = 1 .. Len(l) /\ A \in Nat \ {0}
      /\ set = [lines |-> l, replace_ptr |-> p]
  BY CacheAssumption DEF SetWith, Filled
<1>2. /\ old \in Seq(tags) /\ Len(old) = Len(l)
      /\ \A i \in 1 .. Len(l) : old[i] = l[IF p + i <= A THEN p + i ELSE p + i - A]
      /\ \A i \in 1 .. Len(l) : (IF p + i <= A THEN p + i ELSE p + i - A) \in 1 .. Len(l)
  BY OldestFirstIs
<1>3. new \in SetWith(tags)
  BY AccessedType
<1>4. CASE IsHit(set, tag)
  BY <1>4 DEF Accessed
<1>5. ASSUME ~IsHit(set, tag) PROVE \A i \in DOMAIN old : old[i] # tag
  <2>1. \A i \in 1 .. Len(l) : l[i] # tag
    BY <1>1, <1>5 DEF IsHit
  <2>2. DOMAIN old = 1 .. Len(l)
    BY <1>2
  <2> HIDE DEF old, l, p, A
  <2> QED BY <1>2, <2>1, <2>2
<1>6. CASE ~IsHit(set, tag) /\ Len(l) < A
  <2>1. new = [lines |-> Append(l, tag), replace_ptr |-> p]
    BY <1>1, <1>6 DEF Accessed
  <2>2. /\ Append(l, tag) \in Seq(tags) /\ Len(Append(l, tag)) = Len(l) + 1
        /\ \A i \in 1 .. Len(l) : Append(l, tag)[i] = l[i]
        /\ Append(l, tag)[Len(l) + 1] = tag
    BY <1>1, AppendProperties
  <2>3. new.lines = Append(l, tag) /\ new.replace_ptr = p /\ p = 0
    BY <1>1, <1>6, <2>1
  <2>4. Filled(new)
    BY <1>1, <1>6, <2>2, <2>3 DEF Filled
  <2>5. /\ OldestFirst(new) \in Seq(tags) /\ Len(OldestFirst(new)) = Len(l) + 1
        /\ \A i \in 1 .. Len(l) + 1 :
             OldestFirst(new)[i] = Append(l, tag)[IF 0 + i <= A THEN 0 + i ELSE 0 + i - A]
    BY <1>3, <2>2, <2>3, <2>4, OldestFirstIs
  <2>6. kept = old
    BY <1>2, <1>6
  <2>7. /\ Append(old, tag) \in Seq(tags) /\ Len(Append(old, tag)) = Len(l) + 1
        /\ \A i \in 1 .. Len(l) : Append(old, tag)[i] = old[i]
        /\ Append(old, tag)[Len(l) + 1] = tag
    BY <1>2, AppendProperties
  <2> HIDE DEF new, old, kept, l, p, A
  <2>8. ASSUME NEW i \in 1 .. Len(l) + 1 PROVE OldestFirst(new)[i] = Append(old, tag)[i]
    <3>1. CASE i \in 1 .. Len(l)
      <4>1. OldestFirst(new)[i] = l[i]
        BY <1>1, <1>6, <2>2, <2>5, <3>1
      <4>2. old[i] = l[i]
        BY <1>1, <1>2, <1>6, <2>3, <3>1
      <4> QED BY <2>7, <3>1, <4>1, <4>2
    <3>2. CASE i = Len(l) + 1
      BY <1>1, <1>6, <2>2, <2>5, <2>7, <3>2
    <3>3. i \in 1 .. Len(l) \/ i = Len(l) + 1
      BY <1>1
    <3> QED BY <3>1, <3>2, <3>3
  <2>9. OldestFirst(new) = Append(old, tag)
    BY <2>5, <2>7, <2>8, SeqEqual
  <2> QED BY <1>5, <1>6, <2>4, <2>6, <2>9 DEF new, old, kept, A
<1>7. CASE ~IsHit(set, tag) /\ Len(l) = A
  <2> DEFINE n == IF p + 1 < A THEN p + 1 ELSE 0
  <2>1. new.lines = [l EXCEPT ![p + 1] = tag] /\ new.replace_ptr = n
    <3>1. (p + 1) % A = n
      <4>1. p + 1 \in 0 .. 2 * A - 1
        BY <1>1
      <4> HIDE DEF p, A
      <4>2. (p + 1) % A = IF p + 1 < A THEN p + 1 ELSE p + 1 - A
        BY <1>1, <4>1, ModSmall
      <4> QED BY <1>1, <4>2
    <3> QED BY <1>7, <3>1 DEF Accessed, Replace
  <2> DEFINE m == [l EXCEPT ![p + 1] = tag]
  <2>2. /\ m \in Seq(tags) /\ Len(m) = A
        /\ \A i \in 1 .. A : m[i] = IF i = p + 1 THEN tag ELSE l[i]
    <3> HIDE DEF l, p, A
    <3> QED BY <1>1, <1>7, ExceptSeq
  <2>3. Filled(new)
    BY <1>1, <2>1, <2>2 DEF Filled
  <2>4. /\ OldestFirst(new) \in Seq(tags) /\ Len(OldestFirst(new)) = A
        /\ \A i \in 1 .. A : OldestFirst(new)[i] = m[IF n + i <= A THEN n + i ELSE n + i - A]
    <3>1. new.lines = m
      BY <2>1
    <3> HIDE DEF m, n, new
    <3> QED BY <1>3, <2>1, <2>2, <2>3, <3>1, OldestFirstIs
  <2>5. kept = Tail(old) /\ old # <<>>
    BY <1>1, <1>2, <1>7, EmptySeq
  <2>6. /\ Tail(old) \in Seq(tags) /\ Len(Tail(old)) = A - 1
        /\ \A i \in 1 .. A - 1 : Tail(old)[i] = old[i + 1]
    BY <1>2, <1>7, <2>5, HeadTailProperties
  <2>7. /\ Append(kept, tag) \in Seq(tags) /\ Len(Append(kept, tag)) = A
        /\ \A i \in 1 .. A - 1 : Append(kept, tag)[i] = Tail(old)[i]
        /\ Append(kept, tag)[A] = tag
    <3> HIDE DEF kept, old, A
    <3> QED BY <1>1, <2>5, <2>6, AppendProperties
  <2> HIDE DEF new, old, kept, l, p, A, m
  <2>8. ASSUME NEW i \in 1 .. A PROVE OldestFirst(new)[i] = Append(kept, tag)[i]
    <3>1. CASE i = A
      <4>1. (IF n + i <= A THEN n + i ELSE n + i - A) = p + 1 /\ p + 1 \in 1 .. A
        BY <1>1, <3>1
      <4> HIDE DEF n
      <4> QED BY <2>2, <2>4, <2>7, <3>1, <4>1
    <3>2. CASE i < A
      <4>1. Append(kept, tag)[i] = old[i + 1]
        BY <1>1, <2>6, <2>7, <3>2
      <4>2. old[i + 1] = l[IF p + (i + 1) <= A THEN p + (i + 1) ELSE p + (i + 1) - A]
        BY <1>1, <1>2, <1>7, <3>2
      <4>3. (IF n + i <= A THEN n + i ELSE n + i - A)
              = IF p + (i + 1) <= A THEN p + (i + 1) ELSE p + (i + 1) - A
        BY <1>1, <3>2
      <4>4. (IF n + i <= A THEN n + i ELSE n + i - A) \in 1 .. A
            /\ (IF n + i <= A THEN n + i ELSE n + i - A) # p + 1
        BY <1>1, <3>2
      <4> HIDE DEF n
      <4> QED BY <2>2, <2>4, <4>1, <4>2, <4>3, <4>4
    <3>3. i = A \/ i < A
      BY <1>1
    <3> QED BY <3>1, <3>2, <3>3
  <2>9. OldestFirst(new) = Append(kept, tag)
    BY <2>4, <2>7, <2>8, SeqEqual
  <2> QED BY <1>5, <1>7, <2>3, <2>9 DEF new, old, kept, A
<1> QED BY <1>1, <1>4, <1>6, <1>7
-----------------------------------------------------------------------------
(* Types, and that a block is read once at a time.                         *)

IInv == TypeOK /\ OneReadPerBlock

LEMMA InitIInv == EnvInit => IInv
<1> SUFFICES ASSUME EnvInit PROVE IInv
  OBVIOUS
<1> USE DEF EnvInit, Init
<1>1. TypeOK
  <2>1. EmptySet \in [lines : Seq(Blocks), replace_ptr : 0 .. Associativity - 1]
    BY EmptySetType DEF SetWith
  <2>2. sets \in [0 .. Sets - 1 -> [lines : Seq(Blocks), replace_ptr : 0 .. Associativity - 1]]
    BY <2>1
  <2>3. DOMAIN tag_to_reqs = {}
    OBVIOUS
  <2> QED BY <2>2, <2>3, EmptySeq DEF TypeOK
<1>2. OneReadPerBlock
  BY DEF OneReadPerBlock
<1> QED BY <1>1, <1>2 DEF IInv

LEMMA CallIInv ==
  ASSUME IInv, NEW d \in Elapsed, Call(d), UNCHANGED envVars
  PROVE  IInv'
<1> DEFINE aged(o) == [o EXCEPT !.left = IF @ > d THEN @ - d ELSE 0]
<1>1. /\ on_going_reqs \subseteq [tag : Blocks, left : Nat]
      /\ on_going_reqs' = {aged(o) : o \in on_going_reqs}
      /\ d \in Nat
  BY PortsAssumption DEF IInv, TypeOK, Call
<1>2. \A o \in on_going_reqs : aged(o) \in [tag : Blocks, left : Nat] /\ aged(o).tag = o.tag
  BY <1>1
<1> HIDE DEF aged
<1>3. TypeOK'
  <2>1. on_going_reqs' \subseteq [tag : Blocks, left : Nat]
    BY <1>1, <1>2
  <2>2. phase' = <<"access", 0>> /\ 0 \in Port
    BY PortsAssumption DEF Call, Port
  <2> QED BY <2>1, <2>2 DEF IInv, TypeOK, Call, envVars
<1>4. OneReadPerBlock'
  <2>1. \A o, p \in on_going_reqs : o.tag = p.tag => o = p
    BY DEF IInv, OneReadPerBlock
  <2>2. \A o, p \in on_going_reqs' : o.tag = p.tag => o = p
    BY <1>1, <1>2, <2>1
  <2>3. {o.tag : o \in on_going_reqs'} = {o.tag : o \in on_going_reqs}
    BY <1>1, <1>2
  <2> QED BY <2>2, <2>3 DEF IInv, OneReadPerBlock, Call
<1> QED BY <1>3, <1>4 DEF IInv

LEMMA AccessIInv ==
  ASSUME IInv, NEW i \in Port, Access(i), UNCHANGED envVars
  PROVE  IInv'
<1> DEFINE r == Head(in_port[i])
           tag == Tag(Addr[r])
           new == [tag |-> tag, left |-> Latency(r)]
<1>1. /\ in_port[i] \in Seq(Request) /\ in_port[i] # <<>>
      /\ r \in Request /\ Received(in_port[i]) \in Seq(Request)
      /\ tag \in Blocks
  <2>1. in_port[i] \in Seq(Request) /\ in_port[i] # <<>>
    BY DEF IInv, TypeOK, Access, CanAccess
  <2>2. r \in Request /\ Received(in_port[i]) \in Seq(Request)
    BY <2>1, ReceivedType
  <2> QED BY <2>1, <2>2 DEF Blocks
<1>2. new \in [tag : Blocks, left : Nat]
  BY <1>1, PortsAssumption DEF Latency
<1>3. phase' \in {<<"access", j>> : j \in Port} \cup
                 {<<"complete", 0>>, <<"push", 0>>, <<"return", 0>>}
  BY PortsAssumption DEF Access, NextPort, Port
<1>4. sets' \in [0 .. Sets - 1 -> [lines : Seq(Blocks), replace_ptr : 0 .. Associativity - 1]]
  BY <1>1, AccessedType DEF IInv, TypeOK, Access, SetWith
<1>5. /\ in_port' \in [Port -> Seq(Request)] /\ out_port' = out_port
      /\ busy' \in BOOLEAN /\ updated' \in BOOLEAN
      /\ UNCHANGED <<ready_reqs, pending, answers>>
  BY <1>1 DEF IInv, TypeOK, Access, Works, envVars
<1>6. CASE Joins(r)
  <2>1. /\ tag \in DOMAIN tag_to_reqs /\ on_going_reqs' = on_going_reqs
        /\ tag_to_reqs' = [tag_to_reqs EXCEPT ![tag] = Append(@, r)]
    BY <1>6 DEF Access, Joins
  <2> HIDE DEF tag
  <2>2. DOMAIN tag_to_reqs' = DOMAIN tag_to_reqs
    BY <2>1
  <2>3. ASSUME NEW t \in DOMAIN tag_to_reqs'
        PROVE  /\ tag_to_reqs'[t] \in Seq(Request) /\ tag_to_reqs'[t] # <<>>
               /\ \A q \in ToSet(tag_to_reqs'[t]) : Tag(Addr[q]) = t
    <3> DEFINE old == tag_to_reqs[t]
    <3>1. /\ old \in Seq(Request) /\ old # <<>>
          /\ \A k \in DOMAIN old : Tag(Addr[old[k]]) = t
      <4>1. /\ old \in Seq(Request) /\ old # <<>>
            /\ \A q \in ToSet(old) : Tag(Addr[q]) = t
        BY <2>2 DEF IInv, TypeOK, OneReadPerBlock
      <4> HIDE DEF old
      <4> QED BY <4>1 DEF ToSet
    <3>2. CASE t # tag
      BY <2>1, <2>2, <3>1, <3>2 DEF ToSet
    <3>3. CASE t = tag
      <4> DEFINE now == Append(old, r)
      <4>1. tag_to_reqs'[t] = now
        BY <2>1, <2>2, <3>3
      <4>2. /\ now \in Seq(Request) /\ Len(now) = Len(old) + 1 /\ now[Len(old) + 1] = r
            /\ \A k \in 1 .. Len(old) : now[k] = old[k]
        BY <1>1, <3>1, AppendProperties
      <4>3. Len(old) \in Nat /\ DOMAIN now = 1 .. (Len(old) + 1) /\ DOMAIN old = 1 .. Len(old)
        BY <3>1, <4>2
      <4>4. now # <<>>
        <5>1. Len(now) # Len(<<>>)
          BY <4>2, <4>3
        <5> QED BY <5>1
      <4>5. \A k \in DOMAIN now : Tag(Addr[now[k]]) = t
        BY <3>1, <3>3, <4>2, <4>3 DEF tag
      <4> HIDE DEF now
      <4> QED BY <4>1, <4>2, <4>4, <4>5 DEF ToSet
    <3> QED BY <3>2, <3>3
  <2>4. TypeOK'
    BY <1>3, <1>4, <1>5, <2>1, <2>2, <2>3 DEF IInv, TypeOK
  <2>5. OneReadPerBlock'
    BY <2>1, <2>2, <2>3 DEF IInv, OneReadPerBlock
  <2> QED BY <2>4, <2>5 DEF IInv
<1>7. CASE ~Joins(r)
  <2>1. /\ tag \notin DOMAIN tag_to_reqs /\ on_going_reqs' = on_going_reqs \cup {new}
        /\ tag_to_reqs' = [t \in DOMAIN tag_to_reqs \cup {tag} |->
                             IF t = tag THEN <<r>> ELSE tag_to_reqs[t]]
    BY <1>7 DEF Access, Joins
  <2>2. DOMAIN tag_to_reqs' = DOMAIN tag_to_reqs \cup {tag}
    BY <2>1
  <2>3. <<r>> \in Seq(Request) /\ <<r>> # <<>> /\ \A q \in ToSet(<<r>>) : Tag(Addr[q]) = tag
    BY <1>1 DEF ToSet
  <2>4. \A t \in DOMAIN tag_to_reqs :
          /\ tag_to_reqs[t] \in Seq(Request) /\ tag_to_reqs[t] # <<>>
          /\ \A q \in ToSet(tag_to_reqs[t]) : Tag(Addr[q]) = t
    BY DEF IInv, TypeOK, OneReadPerBlock
  <2>5. \A t \in DOMAIN tag_to_reqs' :
          /\ tag_to_reqs'[t] \in Seq(Request) /\ tag_to_reqs'[t] # <<>>
          /\ \A q \in ToSet(tag_to_reqs'[t]) : Tag(Addr[q]) = t
    <3> HIDE DEF r, tag
    <3> QED BY <2>1, <2>2, <2>3, <2>4
  <2>6. TypeOK'
    BY <1>1, <1>2, <1>3, <1>4, <1>5, <2>1, <2>2, <2>5 DEF IInv, TypeOK
  <2>7. /\ \A o, p \in on_going_reqs : o.tag = p.tag => o = p
        /\ DOMAIN tag_to_reqs = {o.tag : o \in on_going_reqs}
        /\ new.tag = tag
    BY DEF IInv, OneReadPerBlock
  <2>8. OneReadPerBlock'
    <3> HIDE DEF new, tag
    <3>1. \A o, p \in on_going_reqs' : o.tag = p.tag => o = p
      BY <2>1, <2>7
    <3>2. DOMAIN tag_to_reqs' = {o.tag : o \in on_going_reqs'}
      BY <2>1, <2>2, <2>7
    <3> QED BY <2>5, <3>1, <3>2 DEF OneReadPerBlock
  <2> QED BY <2>6, <2>8 DEF IInv
<1> QED BY <1>6, <1>7

LEMMA CompleteIInv ==
  ASSUME IInv, Complete, UNCHANGED envVars
  PROVE  IInv'
<1>1. PICK o \in on_going_reqs :
        /\ on_going_reqs' = on_going_reqs \ {o}
        /\ ready_reqs' = ready_reqs \o tag_to_reqs[o.tag]
        /\ tag_to_reqs' = [t \in DOMAIN tag_to_reqs \ {o.tag} |-> tag_to_reqs[t]]
  BY DEF Complete
<1>2. /\ \A p, q \in on_going_reqs : p.tag = q.tag => p = q
      /\ DOMAIN tag_to_reqs = {p.tag : p \in on_going_reqs}
  BY DEF IInv, OneReadPerBlock
<1>3. ready_reqs' \in Seq(Request)
  BY <1>1, <1>2, ConcatProperties DEF IInv, TypeOK
<1>4. DOMAIN tag_to_reqs' = DOMAIN tag_to_reqs \ {o.tag}
      /\ \A t \in DOMAIN tag_to_reqs' : tag_to_reqs'[t] = tag_to_reqs[t]
  BY <1>1
<1>5. TypeOK'
  BY <1>1, <1>3, <1>4 DEF IInv, TypeOK, Complete, Works, envVars
<1>6. DOMAIN tag_to_reqs' = {p.tag : p \in on_going_reqs'}
  BY <1>1, <1>2, <1>4
<1>7. OneReadPerBlock'
  BY <1>1, <1>2, <1>4, <1>6 DEF IInv, OneReadPerBlock
<1> QED BY <1>5, <1>7 DEF IInv

LEMMA PushIInv ==
  ASSUME IInv, Push, UNCHANGED envVars
  PROVE  IInv'
<1> DEFINE r == Head(ready_reqs)
<1>1. ready_reqs \in Seq(Request) /\ ready_reqs # <<>>
  BY DEF IInv, TypeOK, Push, CanPush
<1>2. r \in Request /\ Tail(ready_reqs) \in Seq(Request)
  BY <1>1, ReceivedType
<1>3. MemId[r] \in Port /\ Sent(out_port[MemId[r]], Answer(r)) \in Seq(Answers)
  BY <1>2, PortsAssumption, SentType DEF IInv, TypeOK, Answers
<1>4. TypeOK'
  BY <1>2, <1>3 DEF IInv, TypeOK, Push, Works, envVars
<1>5. OneReadPerBlock'
  BY DEF IInv, OneReadPerBlock, Push
<1> QED BY <1>4, <1>5 DEF IInv

(* Every step of the cache and of the network keeps the invariant.          *)
LEMMA NextIInv == IInv /\ [Next]_vars => IInv'
<1> SUFFICES ASSUME IInv, [Next]_vars PROVE IInv'
  OBVIOUS
<1>1. CASE NetworkSends
  <2>1. PICK r \in pending, i \in Port :
          /\ in_port' = [in_port EXCEPT ![i] = Sent(@, r)] /\ pending' = pending \ {r}
    BY <1>1 DEF NetworkSends
  <2>2. Sent(in_port[i], r) \in Seq(Request)
    BY <2>1, SentType DEF IInv, TypeOK
  <2> QED BY <1>1, <2>1, <2>2 DEF NetworkSends, IInv, TypeOK, OneReadPerBlock
<1>2. CASE NetworkTakes
  <2>1. PICK i \in Port : /\ out_port[i] # <<>>
                          /\ out_port' = [out_port EXCEPT ![i] = Received(@)]
                          /\ answers' = Append(answers, Head(out_port[i]))
    BY <1>2 DEF NetworkTakes
  <2>2. Received(out_port[i]) \in Seq(Answers) /\ Head(out_port[i]) \in Answers
    BY <2>1, ReceivedType DEF IInv, TypeOK
  <2>3. answers' \in Seq(Answers)
    BY <2>1, <2>2, SentType DEF IInv, TypeOK
  <2> QED BY <1>2, <2>1, <2>2, <2>3 DEF NetworkTakes, IInv, TypeOK, OneReadPerBlock
<1>3. ASSUME NEW d \in Elapsed, Call(d), UNCHANGED envVars PROVE IInv'
  BY <1>3, CallIInv
<1>4. ASSUME NEW i \in Port, Access(i), UNCHANGED envVars PROVE IInv'
  BY <1>4, AccessIInv
<1>5. ASSUME NEW i \in Port, SkipPort(i), UNCHANGED envVars PROVE IInv'
  <2>1. phase' \in {<<"access", j>> : j \in Port} \cup
                   {<<"complete", 0>>, <<"push", 0>>, <<"return", 0>>}
    BY <1>5, PortsAssumption DEF SkipPort, NextPort, Port
  <2> QED BY <1>5, <2>1 DEF SkipPort, IInv, TypeOK, OneReadPerBlock, envVars
<1>6. ASSUME Complete, UNCHANGED envVars PROVE IInv'
  BY <1>6, CompleteIInv
<1>7. ASSUME CompleteEnds, UNCHANGED envVars PROVE IInv'
  BY <1>7 DEF CompleteEnds, IInv, TypeOK, OneReadPerBlock, envVars
<1>8. ASSUME Push, UNCHANGED envVars PROVE IInv'
  BY <1>8, PushIInv
<1>9. ASSUME PushEnds, UNCHANGED envVars PROVE IInv'
  <2>1. ready_reqs' = ready_reqs
    BY <1>9, RetRestores DEF PushEnds, IInv, TypeOK
  <2> QED BY <1>9, <2>1 DEF PushEnds, HeldIsBusy, IInv, TypeOK, OneReadPerBlock, envVars
<1>10. CASE UNCHANGED vars
  BY <1>10 DEF vars, cacheVars, envVars, IInv, TypeOK, OneReadPerBlock
<1> QED BY <1>1, <1>2, <1>3, <1>4, <1>5, <1>6, <1>7, <1>8, <1>9, <1>10 DEF Next, Step

(* All states of the cache are well typed, for any geometry and limits.     *)
THEOREM CacheTypeCorrect == Spec => []TypeOK
<1>1. IInv => TypeOK
  BY DEF IInv
<1> QED BY <1>1, InitIInv, NextIInv, PTL DEF Spec

(* A block is read once at a time and exactly while requests wait for it,   *)
(* also when its line is replaced meanwhile: the unwrap of                  *)
(* cache_with_fix_time.rs:114 cannot fail.                                  *)
THEOREM CacheReadsOnce == Spec => []OneReadPerBlock
<1>1. IInv => OneReadPerBlock
  BY DEF IInv
<1> QED BY <1>1, InitIInv, NextIInv, PTL DEF Spec

(* While update runs, what it has found so far is in busy; the answers are  *)
(* looked at last.                                                         *)
QuietSoFar ==
  ~busy => on_going_reqs = {} /\ (phase = <<"return", 0>> => ready_reqs = <<>>)

LEMMA NextQuietSoFar == QuietSoFar /\ [Next]_vars => QuietSoFar'
<1> SUFFICES ASSUME QuietSoFar, [Next]_vars PROVE QuietSoFar'
  OBVIOUS
<1> USE DEF QuietSoFar
<1>1. CASE NetworkSends \/ NetworkTakes
  BY <1>1 DEF NetworkSends, NetworkTakes
<1>2. ASSUME NEW d \in Elapsed, Call(d) PROVE QuietSoFar'
  BY <1>2 DEF Call
<1>3. ASSUME NEW i \in Port, Access(i) PROVE QuietSoFar'
  BY <1>3 DEF Access, Works
<1>4. ASSUME NEW i \in Port, SkipPort(i) PROVE QuietSoFar'
  <2>1. phase' # <<"return", 0>>
    BY <1>4 DEF SkipPort, NextPort
  <2> QED BY <1>4, <2>1 DEF SkipPort
<1>5. CASE Complete \/ Push
  BY <1>5 DEF Complete, Push, Works
<1>6. CASE CompleteEnds
  BY <1>6 DEF CompleteEnds
<1>7. CASE PushEnds
  BY <1>7 DEF PushEnds, HeldIsBusy
<1>8. CASE UNCHANGED vars
  BY <1>8 DEF vars, cacheVars
<1> QED BY <1>1, <1>2, <1>3, <1>4, <1>5, <1>6, <1>7, <1>8 DEF Next, Step

(* A cache that reports to be idle holds no read and no answer, so that     *)
(* SimRunner::run (sim.rs:158) cannot end over them.                       *)
THEOREM CacheQuietOnlyIfEmpty == Spec => []QuietOnlyIfEmpty
<1>1. EnvInit => QuietSoFar
  BY DEF EnvInit, Init, QuietSoFar
<1>2. QuietSoFar => QuietOnlyIfEmpty
  BY DEF QuietSoFar, QuietOnlyIfEmpty
<1> QED BY <1>1, <1>2, NextQuietSoFar, PTL DEF Spec
-----------------------------------------------------------------------------
(* The tag store is a FifoCache: an access is a miss of it or changes no    *)
(* order.                                                                   *)

Order == [s \in DOMAIN sets |-> OldestFirst(sets[s])]

SetsFilled == \A s \in DOMAIN sets : Filled(sets[s])

LEMMA AccessFifo ==
  ASSUME TypeOK, SetsFilled, NEW i \in Port, Access(i)
  PROVE  SetsFilled' /\ [\E t \in Blocks : Fifo!Miss(t)]_Order
<1>1. PICK r \in Request :
        sets' = [sets EXCEPT ![SetNumber(Addr[r])] = Accessed(@, Tag(Addr[r]))]
  <2>1. in_port[i] \in Seq(Request) /\ in_port[i] # <<>>
    BY DEF TypeOK, Access, CanAccess
  <2>2. Head(in_port[i]) \in Request
    BY <2>1, ReceivedType
  <2> QED BY <2>2 DEF Access
<1> DEFINE s == SetNumber(Addr[r])
           tag == Tag(Addr[r])
           old == OldestFirst(sets[s])
           kept == IF Len(old) < Associativity THEN old ELSE Tail(old)
<1>2. /\ sets \in [0 .. Sets - 1 -> SetWith(Blocks)] /\ s \in 0 .. Sets - 1 /\ tag \in Blocks
      /\ SetNumber(tag) = s /\ Filled(sets[s])
  <2>1. Addr[r] \in Nat
    BY PortsAssumption
  <2>2. s \in 0 .. Sets - 1 /\ SetNumber(tag) = s
    BY <2>1, AddressSelectsSet
  <2> QED BY <2>2 DEF TypeOK, SetWith, Blocks, SetsFilled
<1>3. /\ Filled(Accessed(sets[s], tag))
      /\ \/ Accessed(sets[s], tag) = sets[s]
         \/ /\ \A k \in DOMAIN old : old[k] # tag
            /\ OldestFirst(Accessed(sets[s], tag)) = Append(kept, tag)
  <2>1. sets[s] \in SetWith(Blocks)
    BY <1>2
  <2> QED BY <1>2, <2>1, AccessedOrder
<1> HIDE DEF s, tag, old, kept
<1>4. /\ DOMAIN sets' = DOMAIN sets /\ DOMAIN sets = 0 .. Sets - 1
      /\ \A k \in DOMAIN sets : sets'[k] = IF k = s THEN Accessed(sets[s], tag) ELSE sets[k]
  BY <1>1, <1>2 DEF s, tag
<1>5. SetsFilled'
  BY <1>2, <1>3, <1>4 DEF SetsFilled
<1>6. CASE Accessed(sets[s], tag) = sets[s]
  <2>1. sets' = sets
    BY <1>1, <1>2, <1>6 DEF s, tag
  <2> QED BY <1>5, <2>1 DEF Order
<1>7. CASE /\ \A k \in DOMAIN old : old[k] # tag
           /\ OldestFirst(Accessed(sets[s], tag)) = Append(kept, tag)
  <2>1. Order' = [Order EXCEPT ![s] = Append(kept, tag)]
    <3>1. \A k \in DOMAIN sets :
            OldestFirst(sets'[k]) = IF k = s THEN Append(kept, tag) ELSE OldestFirst(sets[k])
      BY <1>4, <1>7
    <3> QED BY <1>4, <3>1 DEF Order
  <2>2. Order[s] = old
    BY <1>2, <1>4 DEF old, Order
  <2>3. Fifo!Miss(tag)
    BY <1>2, <1>7, <2>1, <2>2 DEF Fifo!Miss, Order, kept
  <2> QED BY <1>2, <1>5, <2>3
<1> QED BY <1>3, <1>6, <1>7

LEMMA NextFifo ==
  TypeOK /\ SetsFilled /\ [Next]_vars =>
    SetsFilled' /\ [\E t \in Blocks : Fifo!Miss(t)]_Order
<1> SUFFICES ASSUME TypeOK, SetsFilled, [Next]_vars
             PROVE  SetsFilled' /\ [\E t \in Blocks : Fifo!Miss(t)]_Order
  OBVIOUS
<1>1. CASE UNCHANGED sets
  BY <1>1 DEF SetsFilled, Order
<1>2. ASSUME NEW i \in Port, Access(i)
      PROVE  SetsFilled' /\ [\E t \in Blocks : Fifo!Miss(t)]_Order
  BY <1>2, AccessFifo
<1> QED BY <1>1, <1>2 DEF Next, Step, NetworkSends, NetworkTakes, Call, SkipPort, Complete,
           CompleteEnds, Push, PushEnds, vars, cacheVars

(* Each set of the tag store gives up its tags in the order in which they   *)
(* came (fast_cache.rs:47-93), also when a hit comes between and when a      *)
(* tag is stored before its data has been read.                            *)
THEOREM CacheIsFifo == Spec => ImplementsFifo
<1>1. EnvInit => SetsFilled /\ Fifo!FifoInit
  <2> SUFFICES ASSUME EnvInit PROVE SetsFilled /\ Fifo!FifoInit
    OBVIOUS
  <2>1. sets = [s \in 0 .. Sets - 1 |-> EmptySet]
    BY DEF EnvInit, Init
  <2>2. Filled(EmptySet) /\ OldestFirst(EmptySet) = <<>>
    BY CacheAssumption, EmptySeq DEF Filled, EmptySet, OldestFirst
  <2> QED BY <2>1, <2>2 DEF SetsFilled, Fifo!FifoInit
<1>2. IInv => TypeOK
  BY DEF IInv
<1> QED BY <1>1, <1>2, InitIInv, NextIInv, NextFifo, PTL
        DEF Spec, ImplementsFifo, Fifo!FifoSpec, Order
-----------------------------------------------------------------------------
(* Where a request is, until its answer has been taken.                     *)

At(r, a, i) ==
  \/ a = "pending" /\ i = 0 /\ r \in pending
  \/ a = "ready" /\ i = 0 /\ r \in Range(ready_reqs)
  \/ a = "answered" /\ i = 0 /\ Answer(r) \in Range(answers)
  \/ a = "in" /\ i \in Port /\ r \in Range(in_port[i])
  \/ a = "out" /\ i \in Port /\ Answer(r) \in Range(out_port[i])
  \/ a = "wait" /\ i \in DOMAIN tag_to_reqs /\ r \in Range(tag_to_reqs[i])

OnePlace ==
  \A r \in Request : \E a, i : At(r, a, i) /\ \A b, j : At(r, b, j) => b = a /\ j = i

NoDoubles ==
  /\ IsInjective(ready_reqs) /\ IsInjective(answers)
  /\ \A i \in Port : IsInjective(in_port[i]) /\ IsInjective(out_port[i])
  /\ \A t \in DOMAIN tag_to_reqs : IsInjective(tag_to_reqs[t])

\* A step that takes the requests X to place i of kind a.
Relocates(X, a, i) ==
  \A r \in Request : \A b, j : At(r, b, j)' <=> IF r \in X THEN b = a /\ j = i ELSE At(r, b, j)

LEMMA RelocatesOnePlace ==
  ASSUME OnePlace, NEW X, NEW a, NEW i, Relocates(X, a, i)
  PROVE  OnePlace'
<1> SUFFICES ASSUME NEW r \in Request
             PROVE  \E b, j : At(r, b, j)' /\ \A c, k : At(r, c, k)' => c = b /\ k = j
  BY DEF OnePlace
<1>1. CASE r \in X
  BY <1>1 DEF Relocates
<1>2. CASE r \notin X
  <2>1. PICK b, j : At(r, b, j) /\ \A c, k : At(r, c, k) => c = b /\ k = j
    BY DEF OnePlace
  <2> QED BY <1>2, <2>1 DEF Relocates
<1> QED BY <1>1, <1>2

LEMMA OneAt ==
  ASSUME OnePlace, NEW r \in Request, NEW a, NEW b, NEW i, NEW j, At(r, a, i), At(r, b, j)
  PROVE  a = b /\ i = j
BY DEF OnePlace

LEMMA AtIs ==
  ASSUME NEW r, NEW i
  PROVE  /\ At(r, "pending", i) <=> i = 0 /\ r \in pending
         /\ At(r, "ready", i) <=> i = 0 /\ r \in Range(ready_reqs)
         /\ At(r, "answered", i) <=> i = 0 /\ Answer(r) \in Range(answers)
         /\ At(r, "in", i) <=> i \in Port /\ r \in Range(in_port[i])
         /\ At(r, "out", i) <=> i \in Port /\ Answer(r) \in Range(out_port[i])
         /\ At(r, "wait", i) <=> i \in DOMAIN tag_to_reqs /\ r \in Range(tag_to_reqs[i])
BY DEF At

LEMMA AtIsNext ==
  ASSUME NEW r, NEW i
  PROVE  /\ At(r, "pending", i)' <=> i = 0 /\ r \in pending'
         /\ At(r, "ready", i)' <=> i = 0 /\ r \in Range(ready_reqs')
         /\ At(r, "answered", i)' <=> i = 0 /\ Answer(r) \in Range(answers')
         /\ At(r, "in", i)' <=> i \in Port /\ r \in Range(in_port'[i])
         /\ At(r, "out", i)' <=> i \in Port /\ Answer(r) \in Range(out_port'[i])
         /\ At(r, "wait", i)' <=> i \in DOMAIN tag_to_reqs' /\ r \in Range(tag_to_reqs'[i])
BY DEF At

Kind == {"pending", "ready", "answered", "in", "out", "wait"}

LEMMA AtKind ==
  ASSUME NEW r, NEW i, NEW a
  PROVE  (At(r, a, i) => a \in Kind) /\ (At(r, a, i)' => a \in Kind)
BY DEF At, Kind

(* A step that takes X from the one place it was at: it is enough to say    *)
(* what each kind of place holds afterwards.                                *)
LEMMA RelocatesFrom ==
  ASSUME OnePlace, NEW X, NEW a, NEW i, NEW b, NEW j, a # b,
         \A r \in Request : r \in X => At(r, a, i) /\ At(r, b, j)',
         \A r \in Request : \A c \in Kind : \A k :
           At(r, c, k)' <=> \/ r \in X /\ c = b /\ k = j
                            \/ At(r, c, k) /\ ~(r \in X /\ c = a /\ k = i)
  PROVE  Relocates(X, b, j)
<1> SUFFICES ASSUME NEW r \in Request, NEW c, NEW k
             PROVE  At(r, c, k)' <=> IF r \in X THEN c = b /\ k = j ELSE At(r, c, k)
  BY DEF Relocates
<1>1. CASE r \in X
  <2>1. \A d, l : At(r, d, l) => d = a /\ l = i
    BY <1>1 DEF OnePlace
  <2>2. At(r, c, k)' => c = b /\ k = j
    BY <1>1, <2>1, AtKind
  <2> QED BY <1>1, <2>2
<1>2. CASE r \notin X
  BY <1>2, AtKind
<1> QED BY <1>1, <1>2

\* The same for a single request.
LEMMA RelocatesOne ==
  ASSUME OnePlace, NEW r \in Request, NEW a, NEW i, NEW b, NEW j, a # b,
         At(r, a, i), At(r, b, j)',
         \A q \in Request : \A c \in Kind : \A k :
           At(q, c, k)' <=> \/ q = r /\ c = b /\ k = j
                            \/ At(q, c, k) /\ ~(q = r /\ c = a /\ k = i)
  PROVE  OnePlace'
<1>1. \A c, k : At(r, c, k) => c = a /\ k = i
  BY DEF OnePlace
<1>2. SUFFICES ASSUME NEW q \in Request
               PROVE  \E c, k : At(q, c, k)' /\ \A d, l : At(q, d, l)' => d = c /\ l = k
  BY DEF OnePlace
<1>3. CASE q = r
  BY <1>1, <1>3, AtKind
<1>4. CASE q # r
  <2>1. \A c, k : At(q, c, k)' <=> At(q, c, k)
    BY <1>4, AtKind
  <2>2. PICK c, k : At(q, c, k) /\ \A d, l : At(q, d, l) => d = c /\ l = k
    BY DEF OnePlace
  <2> QED BY <2>1, <2>2
<1> QED BY <1>3, <1>4

PInv == OnePlace /\ NoDoubles

LEMMA UnchangedPInv ==
  ASSUME PInv, UNCHANGED <<pending, ready_reqs, answers, in_port, out_port, tag_to_reqs>>
  PROVE  PInv'
<1>1. \A r, a, i : At(r, a, i)' <=> At(r, a, i)
  BY DEF At
<1>2. OnePlace'
  BY <1>1 DEF PInv, OnePlace
<1>3. NoDoubles'
  BY DEF PInv, NoDoubles
<1> QED BY <1>2, <1>3 DEF PInv

LEMMA NetworkSendsPInv ==
  ASSUME TypeOK, PInv, NetworkSends
  PROVE  PInv'
<1>1. PICK r \in pending, i \in Port :
        /\ in_port' = [in_port EXCEPT ![i] = Append(in_port[i], r)] /\ pending' = pending \ {r}
  BY DEF NetworkSends, Sent
<1>2. /\ in_port \in [Port -> Seq(Request)] /\ in_port[i] \in Seq(Request) /\ r \in Request
      /\ UNCHANGED <<out_port, tag_to_reqs, ready_reqs, answers>>
  BY DEF NetworkSends, TypeOK
<1>3. At(r, "pending", 0) /\ r \notin Range(in_port[i])
  <2>1. At(r, "pending", 0) /\ (r \in Range(in_port[i]) => At(r, "in", i))
    BY AtIs
  <2> QED BY <1>2, <2>1, OneAt DEF PInv
<1>4. /\ Range(Append(in_port[i], r)) = Range(in_port[i]) \cup {r}
      /\ IsInjective(Append(in_port[i], r))
  BY <1>2, <1>3, AppendRange DEF PInv, NoDoubles
<1>5. \A k \in Port : in_port'[k] = IF k = i THEN Append(in_port[i], r) ELSE in_port[k]
  BY <1>1, <1>2
<1>6. NoDoubles'
  BY <1>2, <1>4, <1>5 DEF PInv, NoDoubles
<1>7. \A q : \A k \in Port :
        q \in Range(in_port'[k]) <=> (q = r /\ k = i) \/ q \in Range(in_port[k])
  BY <1>4, <1>5
<1>8. At(r, "in", i)'
  BY <1>7, AtIsNext
<1>9. ASSUME NEW q \in Request, NEW c \in Kind, NEW k
      PROVE  At(q, c, k)' <=> \/ q = r /\ c = "in" /\ k = i
                              \/ At(q, c, k) /\ ~(q = r /\ c = "pending" /\ k = 0)
  <2>1. CASE c = "in"
    BY <1>7, <2>1, AtIs, AtIsNext
  <2>2. CASE c = "pending"
    BY <1>1, <2>2, AtIs, AtIsNext
  <2>3. CASE c \in Kind \ {"in", "pending"}
    BY <1>2, <2>3, AtIs, AtIsNext DEF Kind
  <2> QED BY <2>1, <2>2, <2>3
<1>10. OnePlace'
  <2>1. OnePlace /\ r \in Request /\ "pending" # "in" /\ At(r, "pending", 0) /\ At(r, "in", i)'
    BY <1>2, <1>3, <1>3, <1>8 DEF PInv
  <2> QED BY <1>9, <2>1, RelocatesOne
<1> QED BY <1>6, <1>10 DEF PInv

LEMMA NetworkTakesPInv ==
  ASSUME TypeOK, PInv, NetworkTakes
  PROVE  PInv'
<1>1. PICK i \in Port : /\ out_port[i] # <<>>
                        /\ out_port' = [out_port EXCEPT ![i] = Tail(out_port[i])]
                        /\ answers' = Append(answers, Head(out_port[i]))
  BY DEF NetworkTakes, Received
<1>2. /\ out_port \in [Port -> Seq(Answers)] /\ out_port[i] \in Seq(Answers)
      /\ answers \in Seq(Answers) /\ Head(out_port[i]) \in Answers
      /\ UNCHANGED <<in_port, tag_to_reqs, ready_reqs, pending>>
  BY <1>1, ReceivedType DEF NetworkTakes, TypeOK
<1>3. PICK r \in Request : Head(out_port[i]) = Answer(r)
  BY <1>2 DEF Answers
<1>4. /\ Answer(r) \in Range(out_port[i]) /\ IsInjective(Tail(out_port[i]))
      /\ Range(Tail(out_port[i])) = Range(out_port[i]) \ {Answer(r)}
  BY <1>1, <1>2, <1>3, TailRange DEF PInv, NoDoubles
<1>5. At(r, "out", i) /\ Answer(r) \notin Range(answers)
  <2>1. At(r, "out", i) /\ (Answer(r) \in Range(answers) => At(r, "answered", 0))
    BY <1>4, AtIs
  <2> QED BY <2>1, OneAt DEF PInv
<1>6. /\ Range(answers') = Range(answers) \cup {Answer(r)} /\ IsInjective(answers')
  BY <1>1, <1>2, <1>3, <1>5, AppendRange DEF PInv, NoDoubles
<1>7. \A k \in Port : out_port'[k] = IF k = i THEN Tail(out_port[i]) ELSE out_port[k]
  BY <1>1, <1>2
<1>8. NoDoubles'
  BY <1>2, <1>4, <1>6, <1>7 DEF PInv, NoDoubles
<1>9. \A q \in Request : Answer(q) = Answer(r) <=> q = r
  BY AnswersDistinct
<1>10. At(r, "answered", 0)'
  BY <1>6, AtIsNext
<1>11. ASSUME NEW q \in Request, NEW c \in Kind, NEW k
       PROVE  At(q, c, k)' <=> \/ q = r /\ c = "answered" /\ k = 0
                               \/ At(q, c, k) /\ ~(q = r /\ c = "out" /\ k = i)
  <2>1. CASE c = "out"
    BY <1>4, <1>7, <1>9, <2>1, AtIs, AtIsNext
  <2>2. CASE c = "answered"
    BY <1>6, <1>9, <2>2, AtIs, AtIsNext
  <2>3. CASE c \in Kind \ {"out", "answered"}
    BY <1>2, <2>3, AtIs, AtIsNext DEF Kind
  <2> QED BY <2>1, <2>2, <2>3
<1>12. OnePlace'
  BY <1>3, <1>5, <1>10, <1>11, RelocatesOne DEF PInv
<1> QED BY <1>8, <1>12 DEF PInv

LEMMA AccessPInv ==
  ASSUME IInv, PInv, NEW i \in Port, Access(i), UNCHANGED envVars
  PROVE  PInv'
<1>0. PICK r : r = Head(in_port[i])
  OBVIOUS
<1>1. PICK t : t = Tag(Addr[r])
  OBVIOUS
<1>2. /\ in_port \in [Port -> Seq(Request)] /\ in_port[i] \in Seq(Request) /\ in_port[i] # <<>>
      /\ in_port' = [in_port EXCEPT ![i] = Tail(in_port[i])]
      /\ UNCHANGED <<out_port, ready_reqs, pending, answers>>
  BY DEF Access, CanAccess, Received, IInv, TypeOK, envVars
<1>3. /\ r \in Request /\ r \in Range(in_port[i]) /\ IsInjective(Tail(in_port[i]))
      /\ Range(Tail(in_port[i])) = Range(in_port[i]) \ {r}
  BY <1>0, <1>2, ReceivedType, TailRange DEF PInv, NoDoubles
<1>4. At(r, "in", i)
  BY <1>3, AtIs
<1>5. \A k \in Port : in_port'[k] = IF k = i THEN Tail(in_port[i]) ELSE in_port[k]
  BY <1>2
<1>6. /\ DOMAIN tag_to_reqs' = DOMAIN tag_to_reqs \cup {t}
      /\ \A u \in DOMAIN tag_to_reqs' : u # t => tag_to_reqs'[u] = tag_to_reqs[u]
      /\ IsInjective(tag_to_reqs'[t])
      /\ Range(tag_to_reqs'[t]) =
           (IF t \in DOMAIN tag_to_reqs THEN Range(tag_to_reqs[t]) ELSE {}) \cup {r}
  <2>1. CASE Joins(r)
    <3>1. /\ t \in DOMAIN tag_to_reqs
          /\ tag_to_reqs' = [tag_to_reqs EXCEPT ![t] = Append(tag_to_reqs[t], r)]
      BY <1>0, <1>1, <2>1 DEF Access, Joins
    <3>2. r \notin Range(tag_to_reqs[t])
      <4>1. r \in Range(tag_to_reqs[t]) => At(r, "wait", t)
        BY <3>1, AtIs
      <4> QED BY <1>3, <1>4, <4>1, OneAt DEF PInv
    <3>3. /\ Range(Append(tag_to_reqs[t], r)) = Range(tag_to_reqs[t]) \cup {r}
          /\ IsInjective(Append(tag_to_reqs[t], r))
      <4>1. tag_to_reqs[t] \in Seq(Request) /\ IsInjective(tag_to_reqs[t])
        BY <3>1 DEF IInv, TypeOK, PInv, NoDoubles
      <4> QED BY <1>3, <3>2, <4>1, AppendRange
    <3> QED BY <3>1, <3>3
  <2>2. CASE ~Joins(r)
    <3>1. /\ t \notin DOMAIN tag_to_reqs
          /\ tag_to_reqs' = [u \in DOMAIN tag_to_reqs \cup {t} |->
                               IF u = t THEN <<r>> ELSE tag_to_reqs[u]]
      BY <1>0, <1>1, <2>2 DEF Access, Joins
    <3>2. Range(<<r>>) = {r} /\ IsInjective(<<r>>)
      BY DEF Range, IsInjective
    <3> QED BY <3>1, <3>2
  <2> QED BY <2>1, <2>2
<1>7. NoDoubles'
  BY <1>2, <1>3, <1>5, <1>6 DEF PInv, NoDoubles
<1>8. At(r, "wait", t)'
  BY <1>6, AtIsNext
<1>9. ASSUME NEW q \in Request, NEW c \in Kind, NEW k
      PROVE  At(q, c, k)' <=> \/ q = r /\ c = "wait" /\ k = t
                              \/ At(q, c, k) /\ ~(q = r /\ c = "in" /\ k = i)
  <2>1. CASE c = "in"
    BY <1>3, <1>5, <2>1, AtIs, AtIsNext
  <2>2. CASE c = "wait"
    BY <1>6, <2>2, AtIs, AtIsNext
  <2>3. CASE c \in Kind \ {"in", "wait"}
    BY <1>2, <2>3, AtIs, AtIsNext DEF Kind
  <2> QED BY <2>1, <2>2, <2>3
<1>10. OnePlace'
  <2>1. OnePlace /\ r \in Request /\ "in" # "wait" /\ At(r, "in", i) /\ At(r, "wait", t)'
    BY <1>2, <1>3, <1>4, <1>8 DEF PInv
  <2> QED BY <1>9, <2>1, RelocatesOne
<1> QED BY <1>7, <1>10 DEF PInv

LEMMA CompletePInv ==
  ASSUME IInv, PInv, Complete, UNCHANGED envVars
  PROVE  PInv'
<1>1. PICK o \in on_going_reqs :
        /\ ready_reqs' = ready_reqs \o tag_to_reqs[o.tag]
        /\ tag_to_reqs' = [t \in DOMAIN tag_to_reqs \ {o.tag} |-> tag_to_reqs[t]]
  BY DEF Complete
<1>2. PICK t : t = o.tag
  OBVIOUS
<1>3. PICK X : X = Range(tag_to_reqs[t])
  OBVIOUS
<1>4. /\ t \in DOMAIN tag_to_reqs /\ tag_to_reqs[t] \in Seq(Request)
      /\ ready_reqs \in Seq(Request) /\ IsInjective(tag_to_reqs[t]) /\ IsInjective(ready_reqs)
      /\ UNCHANGED <<in_port, out_port, pending, answers>>
  BY <1>2 DEF IInv, TypeOK, OneReadPerBlock, PInv, NoDoubles, Complete, envVars
<1>5. \A r \in X : r \in Request /\ At(r, "wait", t)
  <2>1. X \subseteq Request
    BY <1>3, <1>4, RangeOfSeq
  <2> QED BY <1>3, <1>4, <2>1, AtIs
<1>6. X \cap Range(ready_reqs) = {}
  <2>1. \A r \in Range(ready_reqs) : At(r, "ready", 0)
    BY AtIs
  <2> QED BY <1>5, <2>1, OneAt DEF PInv
<1>7. IsInjective(ready_reqs') /\ Range(ready_reqs') = Range(ready_reqs) \cup X
  <2>1. IsInjective(ready_reqs \o tag_to_reqs[t])
    BY <1>3, <1>4, <1>6, ConcatInjective
  <2>2. Range(ready_reqs \o tag_to_reqs[t]) = Range(ready_reqs) \cup Range(tag_to_reqs[t])
    BY <1>4, RangeConcatenation
  <2> QED BY <1>1, <1>2, <1>3, <2>1, <2>2
<1>8. /\ DOMAIN tag_to_reqs' = DOMAIN tag_to_reqs \ {t}
      /\ \A u \in DOMAIN tag_to_reqs' : tag_to_reqs'[u] = tag_to_reqs[u]
  BY <1>1, <1>2
<1>9. NoDoubles'
  BY <1>4, <1>7, <1>8 DEF PInv, NoDoubles
<1>10. \A r \in X : At(r, "ready", 0)'
  BY <1>7, AtIsNext
<1>11. ASSUME NEW q \in Request, NEW c \in Kind, NEW k
       PROVE  At(q, c, k)' <=> \/ q \in X /\ c = "ready" /\ k = 0
                               \/ At(q, c, k) /\ ~(q \in X /\ c = "wait" /\ k = t)
  <2>1. CASE c = "ready"
    BY <1>7, <2>1, AtIs, AtIsNext
  <2>2. CASE c = "wait"
    BY <1>3, <1>8, <2>2, AtIs, AtIsNext
  <2>3. CASE c \in Kind \ {"ready", "wait"}
    BY <1>4, <2>3, AtIs, AtIsNext DEF Kind
  <2> QED BY <2>1, <2>2, <2>3
<1>12. Relocates(X, "ready", 0)
  <2>1. OnePlace /\ \A q \in X : At(q, "wait", t) /\ At(q, "ready", 0)'
    BY <1>5, <1>10 DEF PInv
  <2> QED BY <1>11, <2>1, RelocatesFrom
<1> QED BY <1>9, <1>12, RelocatesOnePlace DEF PInv

LEMMA PushPInv ==
  ASSUME TypeOK, PInv, Push, UNCHANGED envVars
  PROVE  PInv'
<1>1. PICK r : r = Head(ready_reqs)
  OBVIOUS
<1>2. /\ ready_reqs \in Seq(Request) /\ ready_reqs # <<>> /\ ready_reqs' = Tail(ready_reqs)
      /\ out_port \in [Port -> Seq(Answers)]
      /\ UNCHANGED <<in_port, tag_to_reqs, pending, answers>>
  BY DEF TypeOK, Push, CanPush, envVars
<1>3. /\ r \in Request /\ r \in Range(ready_reqs) /\ IsInjective(Tail(ready_reqs))
      /\ Range(Tail(ready_reqs)) = Range(ready_reqs) \ {r}
  BY <1>1, <1>2, ReceivedType, TailRange DEF PInv, NoDoubles
<1>4. PICK i \in Port : i = MemId[r]
  BY <1>3, PortsAssumption
<1>5. out_port' = [out_port EXCEPT ![i] = Append(out_port[i], Answer(r))]
  BY <1>1, <1>4 DEF Push, Sent
<1>6. At(r, "ready", 0) /\ Answer(r) \notin Range(out_port[i])
  <2>1. At(r, "ready", 0) /\ (Answer(r) \in Range(out_port[i]) => At(r, "out", i))
    BY <1>3, AtIs
  <2> QED BY <1>3, <2>1, OneAt DEF PInv
<1>7. /\ Range(Append(out_port[i], Answer(r))) = Range(out_port[i]) \cup {Answer(r)}
      /\ IsInjective(Append(out_port[i], Answer(r)))
  <2>1. out_port[i] \in Seq(Answers) /\ Answer(r) \in Answers /\ IsInjective(out_port[i])
    BY <1>2, <1>3 DEF Answers, PInv, NoDoubles
  <2> QED BY <1>6, <2>1, AppendRange
<1>8. \A k \in Port :
        out_port'[k] = IF k = i THEN Append(out_port[i], Answer(r)) ELSE out_port[k]
  BY <1>2, <1>5
<1>9. NoDoubles'
  BY <1>2, <1>3, <1>7, <1>8 DEF PInv, NoDoubles
<1>10. At(r, "out", i)'
  BY <1>7, <1>8, AtIsNext
<1>11. ASSUME NEW q \in Request, NEW c \in Kind, NEW k
       PROVE  At(q, c, k)' <=> \/ q = r /\ c = "out" /\ k = i
                               \/ At(q, c, k) /\ ~(q = r /\ c = "ready" /\ k = 0)
  <2>0. Answer(q) = Answer(r) <=> q = r
    BY <1>3, AnswersDistinct
  <2>1. CASE c = "out"
    BY <1>7, <1>8, <2>0, <2>1, AtIs, AtIsNext
  <2>2. CASE c = "ready"
    BY <1>2, <1>3, <2>2, AtIs, AtIsNext
  <2>3. CASE c \in Kind \ {"ready", "out"}
    BY <1>2, <2>3, AtIs, AtIsNext DEF Kind
  <2> QED BY <2>1, <2>2, <2>3
<1>12. OnePlace'
  <2>1. OnePlace /\ r \in Request /\ "ready" # "out" /\ At(r, "ready", 0) /\ At(r, "out", i)'
    BY <1>2, <1>3, <1>6, <1>10 DEF PInv
  <2> QED BY <1>11, <2>1, RelocatesOne
<1> QED BY <1>9, <1>12 DEF PInv

LEMMA NextPInv == IInv /\ PInv /\ [Next]_vars => PInv'
<1> SUFFICES ASSUME IInv, PInv, [Next]_vars PROVE PInv'
  OBVIOUS
<1>0. TypeOK
  BY DEF IInv
<1>1. CASE NetworkSends \/ NetworkTakes
  BY <1>0, <1>1, NetworkSendsPInv, NetworkTakesPInv
<1>2. ASSUME NEW i \in Port, Access(i), UNCHANGED envVars PROVE PInv'
  BY <1>2, AccessPInv
<1>3. CASE (Complete \/ Push) /\ UNCHANGED envVars
  BY <1>0, <1>3, CompletePInv, PushPInv
<1>4. CASE PushEnds /\ UNCHANGED envVars
  <2>1. ready_reqs' = ready_reqs
    BY <1>0, <1>4, RetRestores DEF PushEnds, TypeOK
  <2> QED BY <1>4, <2>1, UnchangedPInv DEF PushEnds, envVars
<1>5. CASE UNCHANGED <<pending, ready_reqs, answers, in_port, out_port, tag_to_reqs>>
  BY <1>5, UnchangedPInv
<1> QED BY <1>1, <1>2, <1>3, <1>4, <1>5
        DEF Next, Step, Call, SkipPort, CompleteEnds, vars, cacheVars, envVars

LEMMA InitPInv == EnvInit => PInv
<1> SUFFICES ASSUME EnvInit PROVE PInv
  OBVIOUS
<1>1. Range(<<>>) = {} /\ IsInjective(<<>>)
  BY EmptySeq DEF Range, IsInjective
<1>2. \A r \in Request : \A a, i : At(r, a, i) <=> a = "pending" /\ i = 0
  BY <1>1 DEF At, EnvInit, Init
<1> QED BY <1>1, <1>2 DEF PInv, OnePlace, NoDoubles, EnvInit, Init

\* The places of m in a channel of which nothing occurs twice.
LEMMA IndicesAre ==
  ASSUME NEW S, NEW s \in Seq(S), IsInjective(s), NEW m
  PROVE  /\ m \in Range(s) => \E k : Indices(s, m) = {k}
         /\ m \notin Range(s) => Indices(s, m) = {}
<1>1. ASSUME m \in Range(s) PROVE \E k : Indices(s, m) = {k}
  <2>1. PICK k \in DOMAIN s : {j \in DOMAIN s : s[j] = m} = {k}
    BY <1>1, OneIndex
  <2> QED BY <2>1 DEF Indices
<1>2. m \notin Range(s) => Indices(s, m) = {}
  BY DEF Indices, Range
<1> QED BY <1>1, <1>2

LEMMA OnePlaceOf ==
  ASSUME TypeOK, PInv, NEW r \in Request
  PROVE  Cardinality(PlacesOf(r)) = 1
<1> DEFINE I(i) == {"in"} \X {i} \X Indices(in_port[i], r)
           O(i) == {"out"} \X {i} \X Indices(out_port[i], Answer(r))
           W(t) == {"wait"} \X {t} \X Indices(tag_to_reqs[t], r)
<1>1. PICK P, R, A : /\ P = {"pending"} \X ({r} \cap pending)
                     /\ R = {"ready"} \X Indices(ready_reqs, r)
                     /\ A = {"answered"} \X Indices(answers, Answer(r))
  OBVIOUS
<1>2. PICK UI, UO, UW : /\ UI = UNION {I(i) : i \in Port}
                        /\ UO = UNION {O(i) : i \in Port}
                        /\ UW = UNION {W(t) : t \in DOMAIN tag_to_reqs}
  OBVIOUS
<1>3. PlacesOf(r) = P \cup R \cup A \cup UI \cup UO \cup UW
  BY <1>1, <1>2 DEF PlacesOf
<1>4. IF At(r, "pending", 0) THEN \E x : P = {x} ELSE P = {}
  <2>1. CASE r \in pending
    <3>1. P = {<<"pending", r>>}
      BY <1>1, <2>1
    <3> QED BY <3>1, <2>1, AtIs
  <2>2. CASE r \notin pending
    BY <1>1, <2>2, AtIs
  <2> QED BY <2>1, <2>2
<1>5. IF At(r, "ready", 0) THEN \E x : R = {x} ELSE R = {}
  <2>0. ready_reqs \in Seq(Request) /\ IsInjective(ready_reqs)
    BY DEF TypeOK, PInv, NoDoubles
  <2>1. CASE r \in Range(ready_reqs)
    <3>1. PICK k : Indices(ready_reqs, r) = {k}
      BY <2>0, <2>1, IndicesAre
    <3>2. R = {<<"ready", k>>}
      BY <1>1, <3>1
    <3> QED BY <3>2, <2>1, AtIs
  <2>2. CASE r \notin Range(ready_reqs)
    <3>1. Indices(ready_reqs, r) = {}
      BY <2>0, <2>2, IndicesAre
    <3> QED BY <1>1, <2>2, <3>1, AtIs
  <2> QED BY <2>1, <2>2
<1>6. IF At(r, "answered", 0) THEN \E x : A = {x} ELSE A = {}
  <2>0. answers \in Seq(Answers) /\ IsInjective(answers)
    BY DEF TypeOK, PInv, NoDoubles
  <2>1. CASE Answer(r) \in Range(answers)
    <3>1. PICK k : Indices(answers, Answer(r)) = {k}
      BY <2>0, <2>1, IndicesAre
    <3>2. A = {<<"answered", k>>}
      BY <1>1, <3>1
    <3> QED BY <3>2, <2>1, AtIs
  <2>2. CASE Answer(r) \notin Range(answers)
    <3>1. Indices(answers, Answer(r)) = {}
      BY <2>0, <2>2, IndicesAre
    <3> QED BY <1>1, <2>2, <3>1, AtIs
  <2> QED BY <2>1, <2>2
<1>7. ASSUME NEW i \in Port
      PROVE  IF At(r, "in", i) THEN \E x : I(i) = {x} ELSE I(i) = {}
  <2>0. in_port[i] \in Seq(Request) /\ IsInjective(in_port[i])
    BY DEF TypeOK, PInv, NoDoubles
  <2>1. CASE r \in Range(in_port[i])
    <3>1. PICK k : Indices(in_port[i], r) = {k}
      BY <2>0, <2>1, IndicesAre
    <3>2. I(i) = {<<"in", i, k>>}
      BY <3>1
    <3> QED BY <3>2, <2>1, AtIs
  <2>2. CASE r \notin Range(in_port[i])
    <3>1. Indices(in_port[i], r) = {}
      BY <2>0, <2>2, IndicesAre
    <3> QED BY <2>2, <3>1, AtIs
  <2> QED BY <2>1, <2>2
<1>8. ASSUME NEW i \in Port
      PROVE  IF At(r, "out", i) THEN \E x : O(i) = {x} ELSE O(i) = {}
  <2>0. out_port[i] \in Seq(Answers) /\ IsInjective(out_port[i])
    BY DEF TypeOK, PInv, NoDoubles
  <2>1. CASE Answer(r) \in Range(out_port[i])
    <3>1. PICK k : Indices(out_port[i], Answer(r)) = {k}
      BY <2>0, <2>1, IndicesAre
    <3>2. O(i) = {<<"out", i, k>>}
      BY <3>1
    <3> QED BY <3>2, <2>1, AtIs
  <2>2. CASE Answer(r) \notin Range(out_port[i])
    <3>1. Indices(out_port[i], Answer(r)) = {}
      BY <2>0, <2>2, IndicesAre
    <3> QED BY <2>2, <3>1, AtIs
  <2> QED BY <2>1, <2>2
<1>9. ASSUME NEW t \in DOMAIN tag_to_reqs
      PROVE  IF At(r, "wait", t) THEN \E x : W(t) = {x} ELSE W(t) = {}
  <2>0. tag_to_reqs[t] \in Seq(Request) /\ IsInjective(tag_to_reqs[t])
    BY DEF TypeOK, PInv, NoDoubles
  <2>1. CASE r \in Range(tag_to_reqs[t])
    <3>1. PICK k : Indices(tag_to_reqs[t], r) = {k}
      BY <2>0, <2>1, IndicesAre
    <3>2. W(t) = {<<"wait", t, k>>}
      BY <3>1
    <3> QED BY <3>2, <2>1, AtIs
  <2>2. CASE r \notin Range(tag_to_reqs[t])
    <3>1. Indices(tag_to_reqs[t], r) = {}
      BY <2>0, <2>2, IndicesAre
    <3> QED BY <2>2, <3>1, AtIs
  <2> QED BY <2>1, <2>2
<1> HIDE DEF I, O, W
<1>10. PICK a, i : At(r, a, i) /\ \A b, j : At(r, b, j) => b = a /\ j = i
  BY DEF PInv, OnePlace
<1>11. a \in Kind
  BY <1>10, AtKind
<1>12. a # "in" => UI = {}
  BY <1>2, <1>7, <1>10
<1>13. a # "out" => UO = {}
  BY <1>2, <1>8, <1>10
<1>14. a # "wait" => UW = {}
  BY <1>2, <1>9, <1>10
<1>15. /\ a # "pending" => P = {}
       /\ a # "ready" => R = {}
       /\ a # "answered" => A = {}
  BY <1>4, <1>5, <1>6, <1>10
<1>16. \E x : PlacesOf(r) = {x}
  <2>1. CASE a = "in"
    <3>1. i \in Port
      BY <1>10, <2>1, AtIs
    <3>2. UI = I(i)
      BY <1>2, <1>7, <1>10, <2>1, <3>1
    <3>3. PICK x : I(i) = {x}
      BY <1>7, <1>10, <2>1, <3>1
    <3> QED BY <1>3, <1>13, <1>14, <1>15, <2>1, <3>2, <3>3
  <2>2. CASE a = "out"
    <3>1. i \in Port
      BY <1>10, <2>2, AtIs
    <3>2. UO = O(i)
      BY <1>2, <1>8, <1>10, <2>2, <3>1
    <3>3. PICK x : O(i) = {x}
      BY <1>8, <1>10, <2>2, <3>1
    <3> QED BY <1>3, <1>12, <1>14, <1>15, <2>2, <3>2, <3>3
  <2>3. CASE a = "wait"
    <3>1. i \in DOMAIN tag_to_reqs
      BY <1>10, <2>3, AtIs
    <3>2. UW = W(i)
      BY <1>2, <1>9, <1>10, <2>3, <3>1
    <3>3. PICK x : W(i) = {x}
      BY <1>9, <1>10, <2>3, <3>1
    <3> QED BY <1>3, <1>12, <1>13, <1>15, <2>3, <3>2, <3>3
  <2>4. CASE a \in {"pending", "ready", "answered"}
    <3>1. i = 0
      BY <1>10, <2>4, AtIs
    <3>2. PICK x : P \cup R \cup A = {x}
      BY <1>4, <1>5, <1>6, <1>10, <1>15, <2>4, <3>1
    <3>3. UI = {} /\ UO = {} /\ UW = {}
      BY <1>12, <1>13, <1>14, <2>4
    <3> QED BY <1>3, <3>2, <3>3
  <2> QED BY <1>11, <2>1, <2>2, <2>3, <2>4 DEF Kind
<1> QED BY <1>16, FS_Singleton

(* No request is lost, doubled or answered twice: it is in one place from   *)
(* the network's first queue to its answer, whatever requests join it.      *)
THEOREM CacheAnswersOnce == Spec => []AnsweredOnce
<1>1. IInv /\ PInv => AnsweredOnce
  BY OnePlaceOf DEF AnsweredOnce, IInv
<1> QED BY InitIInv, NextIInv, InitPInv, NextPInv, <1>1, PTL DEF Spec
-----------------------------------------------------------------------------
(* The cache behind the memory network, MemorySystem.  The limits and the   *)
(* requests are those from above; in_port and out_port are the ends of the  *)
(* channels of the network.                                                *)

Wire == 0 .. NPe + NPorts - 1

\* What leaves a port, and what arrives there.
Leaving == [i \in Wire |-> IF i < NPorts THEN {Answer(r) : r \in Request} ELSE Request]
Arriving == [i \in Wire |-> {m \in Message : TargetPort[m] = i}]

MemoryTypes ==
  /\ turn \in {"others", "network", "cache"}
  /\ net_busy \in BOOLEAN /\ net_updated \in BOOLEAN /\ busy \in BOOLEAN /\ updated \in BOOLEAN
  /\ out_port \in [Wire -> Seq(Message)] /\ in_port \in [Wire -> Seq(Message)]
  /\ \A i \in Wire : out_port[i] \in Seq(Leaving[i]) /\ in_port[i] \in Seq(Arriving[i])
  /\ \A o \in in_transit_messages : o = [msg |-> o.msg, left |-> o.left] /\ o.msg \in Message
  /\ \A o \in on_going_reqs : o = [tag |-> o.tag, left |-> o.left]
  /\ \A o, p \in on_going_reqs : o.tag = p.tag => o = p
  /\ DOMAIN tag_to_reqs = {o.tag : o \in on_going_reqs}
  /\ \A t \in DOMAIN tag_to_reqs : tag_to_reqs[t] \in Seq(Request)
  /\ ready_reqs \in Seq(Request) /\ unsent \subseteq Request

LEMMA WireIs ==
  /\ NPe \in Nat \ {0} /\ NPorts \in Nat \ {0} /\ Port \subseteq Wire
  /\ Wire = Network!Port
  /\ \A p \in Pe : PortOf(p) \in Wire /\ ~(PortOf(p) < NPorts) /\ PortOf(p) = NPorts + p
  /\ \A i \in Wire : i < NPorts <=> i \in Port
  /\ \A i \in Wire : i \notin Port => i - NPorts \in Pe /\ PortOf(i - NPorts) = i
BY PortsAssumption, MemoryAssumption DEF Wire, Port, Network!Port, Pe, PortOf

\* A message is a request or an answer, and its port is the one it is for.
LEMMA MessageIs ==
  /\ \A r \in Request : /\ r \in Message /\ ~IsAnswer(r)
                        /\ TargetPort[r] = EntryPort[r] /\ EntryPort[r] \in Port
                        /\ MemId[r] \in Port
  /\ \A r \in Request : /\ Answer(r) \in Message /\ IsAnswer(Answer(r))
                        /\ Answer(r).answer = r /\ PeOf[r] \in Pe
                        /\ TargetPort[Answer(r)] = PortOf(PeOf[r])
  /\ \A m \in Message : /\ TargetPort[m] \in Wire
                        /\ IsAnswer(m) => /\ m.answer \in Request
                                          /\ m = Answer(m.answer)
                        /\ ~IsAnswer(m) => m \in Request
<1>1. /\ \A r \in Request : IsAnswer(Answer(r)) /\ Answer(r).answer = r /\ PeOf[r] \in Pe
      /\ \A r \in Request : EntryPort[r] \in Port /\ MemId[r] \in Port
  BY MemoryAssumption, PortsAssumption
<1>2. /\ \A m \in Message : TargetPort[m] = IF IsAnswer(m) THEN PortOf(PeOf[m.answer])
                                                ELSE EntryPort[m]
      /\ Request \subseteq Message /\ \A r \in Request : Answer(r) \in Message
      /\ \A r \in Request : ~IsAnswer(r)
  BY DEF TargetPort, Message, IsAnswer
<1>3. \A m \in Message : /\ IsAnswer(m) => \E r \in Request : m = Answer(r)
                         /\ ~IsAnswer(m) => m \in Request
  BY DEF Message, IsAnswer
<1>4. \A m \in Message : IsAnswer(m) => m.answer \in Request /\ m = Answer(m.answer)
  BY <1>1, <1>3
<1>5. \A m \in Message : TargetPort[m] \in Wire
  BY <1>1, <1>2, <1>3, <1>4, WireIs
<1> QED BY <1>1, <1>2, <1>3, <1>4, <1>5

LEMMA WireTypes ==
  ASSUME MemoryTypes, NEW i \in Wire
  PROVE  /\ out_port[i] \in Seq(Message) /\ in_port[i] \in Seq(Message)
         /\ out_port[i] \in Seq(Leaving[i]) /\ in_port[i] \in Seq(Arriving[i])
         /\ Leaving[i] \subseteq Message /\ Arriving[i] \subseteq Message
         /\ i \in Port => \A m \in Arriving[i] : m \in Request
         /\ i \notin Port => \A m \in Arriving[i] : IsAnswer(m)
<1>1. Leaving[i] \subseteq Message /\ Arriving[i] \subseteq Message
  BY MessageIs DEF Leaving, Arriving
<1>2. ASSUME NEW m \in Arriving[i]
      PROVE  IF i \in Port THEN m \in Request ELSE IsAnswer(m)
  BY <1>2, MessageIs, WireIs DEF Arriving
<1> QED BY <1>1, <1>2 DEF MemoryTypes

\* A channel that gets a message of its kind or loses its first one keeps its type.
LEMMA OntoWire ==
  ASSUME NEW wire \in [Wire -> Seq(Message)], NEW K,
         \A k \in Wire : wire[k] \in Seq(K[k]) /\ K[k] \subseteq Message,
         NEW i \in Wire, NEW m \in K[i]
  PROVE  /\ [wire EXCEPT ![i] = Append(@, m)] \in [Wire -> Seq(Message)]
         /\ \A k \in Wire : [wire EXCEPT ![i] = Append(@, m)][k] \in Seq(K[k])
<1>1. Append(wire[i], m) \in Seq(K[i]) /\ Append(wire[i], m) \in Seq(Message)
  BY SentType
<1> QED BY <1>1

LEMMA OffWire ==
  ASSUME NEW wire \in [Wire -> Seq(Message)], NEW K,
         \A k \in Wire : wire[k] \in Seq(K[k]) /\ K[k] \subseteq Message,
         NEW i \in Wire, wire[i] # <<>>
  PROVE  /\ Head(wire[i]) \in K[i]
         /\ [wire EXCEPT ![i] = Tail(@)] \in [Wire -> Seq(Message)]
         /\ \A k \in Wire : [wire EXCEPT ![i] = Tail(@)][k] \in Seq(K[k])
<1>1. Tail(wire[i]) \in Seq(K[i]) /\ Tail(wire[i]) \in Seq(Message) /\ Head(wire[i]) \in K[i]
  BY ReceivedType
<1> QED BY <1>1

LEMMA ToWire ==
  ASSUME MemoryTypes, NEW i \in Wire, NEW m \in Leaving[i],
         out_port' = [out_port EXCEPT ![i] = Append(@, m)]
  PROVE  /\ out_port' \in [Wire -> Seq(Message)]
         /\ \A k \in Wire : out_port'[k] \in Seq(Leaving[k])
BY OntoWire, WireTypes DEF MemoryTypes

LEMMA FromWire ==
  ASSUME MemoryTypes, NEW i \in Wire, NEW m \in Arriving[i],
         in_port' = [in_port EXCEPT ![i] = Append(@, m)]
  PROVE  /\ in_port' \in [Wire -> Seq(Message)]
         /\ \A k \in Wire : in_port'[k] \in Seq(Arriving[k])
BY OntoWire, WireTypes DEF MemoryTypes

LEMMA TakenFromWire ==
  ASSUME MemoryTypes, NEW i \in Wire, in_port[i] # <<>>
  PROVE  /\ Head(in_port[i]) \in Arriving[i]
         /\ in_port' = [in_port EXCEPT ![i] = Tail(@)] =>
              /\ in_port' \in [Wire -> Seq(Message)]
              /\ \A k \in Wire : in_port'[k] \in Seq(Arriving[k])
<1>1. /\ in_port \in [Wire -> Seq(Message)]
      /\ \A k \in Wire : in_port[k] \in Seq(Arriving[k]) /\ Arriving[k] \subseteq Message
  BY WireTypes DEF MemoryTypes
<1>2. PICK next : next = [in_port EXCEPT ![i] = Tail(@)]
  OBVIOUS
<1>3. /\ Head(in_port[i]) \in Arriving[i] /\ next \in [Wire -> Seq(Message)]
      /\ \A k \in Wire : next[k] \in Seq(Arriving[k])
  BY <1>1, <1>2, OffWire
<1> QED BY <1>2, <1>3

LEMMA TakenToWire ==
  ASSUME MemoryTypes, NEW i \in Wire, out_port[i] # <<>>
  PROVE  /\ Head(out_port[i]) \in Leaving[i]
         /\ out_port' = [out_port EXCEPT ![i] = Tail(@)] =>
              /\ out_port' \in [Wire -> Seq(Message)]
              /\ \A k \in Wire : out_port'[k] \in Seq(Leaving[k])
<1>1. /\ out_port \in [Wire -> Seq(Message)]
      /\ \A k \in Wire : out_port[k] \in Seq(Leaving[k]) /\ Leaving[k] \subseteq Message
  BY WireTypes DEF MemoryTypes
<1>2. PICK next : next = [out_port EXCEPT ![i] = Tail(@)]
  OBVIOUS
<1>3. /\ Head(out_port[i]) \in Leaving[i] /\ next \in [Wire -> Seq(Message)]
      /\ \A k \in Wire : next[k] \in Seq(Leaving[k])
  BY <1>1, <1>2, OffWire
<1> QED BY <1>2, <1>3

LEMMA InitMemoryTypes ==
  ASSUME MemoryInit
  PROVE  MemoryTypes
<1>1. \A S : <<>> \in Seq(S)
  OBVIOUS
<1>2. out_port = [i \in Wire |-> <<>>] /\ in_port = [i \in Wire |-> <<>>]
  BY WireIs DEF MemoryInit, Network!Init
<1>3. <<>> \in Seq(Request) /\ DOMAIN tag_to_reqs = {} /\ on_going_reqs = {}
      /\ ready_reqs = <<>> /\ unsent = Request /\ in_transit_messages = {}
  BY <1>1, EmptySeq DEF MemoryInit, Network!Init
<1>4. turn = "others" /\ ~net_busy /\ ~net_updated /\ ~busy /\ ~updated
      /\ net_busy \in BOOLEAN /\ net_updated \in BOOLEAN /\ busy \in BOOLEAN /\ updated \in BOOLEAN
  BY DEF MemoryInit, Network!Init
<1> QED BY <1>1, <1>2, <1>3, <1>4 DEF MemoryTypes

LEMMA OthersTypes ==
  ASSUME MemoryTypes,
         \/ \E p \in Pe, r \in Request : Send(p, r)
         \/ \E p \in Pe : Receive(p)
  PROVE  MemoryTypes'
<1> USE DEF networkOnly, cacheOnly
<1>1. ASSUME NEW p \in Pe, NEW r \in Request, Send(p, r) PROVE MemoryTypes'
  <2>1. /\ PortOf(p) \in Wire /\ r \in Leaving[PortOf(p)]
        /\ out_port' = [out_port EXCEPT ![PortOf(p)] = Append(@, r)]
    BY <1>1, WireIs DEF Send, Sent, Leaving
  <2> QED BY <1>1, <2>1, ToWire DEF Send, MemoryTypes
<1>2. ASSUME NEW p \in Pe, Receive(p) PROVE MemoryTypes'
  <2>1. /\ PortOf(p) \in Wire /\ in_port[PortOf(p)] # <<>>
        /\ in_port' = [in_port EXCEPT ![PortOf(p)] = Tail(@)]
    BY <1>2, WireIs DEF Receive, Received
  <2> QED BY <1>2, <2>1, TakenFromWire DEF Receive, MemoryTypes
<1> QED BY <1>1, <1>2

LEMMA AgedIs ==
  ASSUME NEW transit, NEW d, \A o \in transit : o = [msg |-> o.msg, left |-> o.left]
  PROVE  /\ \A q \in Network!Aged(transit, d) :
              /\ q = [msg |-> q.msg, left |-> q.left]
              /\ \E o \in transit : q.msg = o.msg
         /\ \A o \in transit : \E q \in Network!Aged(transit, d) : q.msg = o.msg
         /\ (\A o, p \in transit : o.msg = p.msg => o = p) =>
              \A o, p \in Network!Aged(transit, d) : o.msg = p.msg => o = p
<1> DEFINE Later(o) == [o EXCEPT !.left = @ - d]
           later == {Later(o) : o \in transit}
           Overdue == {o.left : o \in {p \in later : p.left < 0}}
           Rank(v) == -Network!Cardinality({w \in Overdue : w >= v})
           Ranked(o) == [o EXCEPT !.left = IF @ < 0 THEN Rank(@) ELSE @]
<1>1. Network!Aged(transit, d) = {Ranked(o) : o \in later}
  BY DEF Network!Aged
<1>2. \A o \in transit : Later(o).msg = o.msg /\ Later(o) = [msg |-> o.msg, left |-> Later(o).left]
  OBVIOUS
<1> HIDE DEF Later, Rank
<1>3. \A o \in later : Ranked(o).msg = o.msg /\ Ranked(o) = [msg |-> o.msg, left |-> Ranked(o).left]
  <2>1. \A o \in later : o = [msg |-> o.msg, left |-> o.left]
    BY <1>2
  <2> HIDE DEF later
  <2> QED BY <2>1
<1> HIDE DEF Ranked
<1> QED BY <1>1, <1>2, <1>3

LEMMA NetworkTypes ==
  ASSUME MemoryTypes, UpdateNetwork \/ NetworkStep
  PROVE  MemoryTypes'
<1> USE DEF cacheOnly
<1>1. turn' \in {"others", "network", "cache"} /\ UNCHANGED <<cacheOnly, unsent>>
  BY DEF UpdateNetwork, NetworkStep, MemoryTypes
<1>2. ASSUME NEW d \in Elapsed, Network!Call(d) PROVE MemoryTypes'
  <2>1. \A o \in in_transit_messages' : o = [msg |-> o.msg, left |-> o.left] /\ o.msg \in Message
    BY <1>2, AgedIs DEF Network!Call, MemoryTypes
  <2>2. UNCHANGED <<out_port, in_port>> /\ net_busy' \in BOOLEAN /\ net_updated' \in BOOLEAN
    BY <1>2 DEF Network!Call
  <2> QED BY <1>1, <2>1, <2>2 DEF MemoryTypes
<1>3. ASSUME NEW i \in Wire, Network!Take(i) PROVE MemoryTypes'
  <2> DEFINE m == Head(out_port[i])
  <2>1. /\ out_port[i] # <<>> /\ out_port' = [out_port EXCEPT ![i] = Tail(@)]
        /\ UNCHANGED in_port /\ net_busy' /\ net_updated'
        /\ net_busy' \in BOOLEAN /\ net_updated' \in BOOLEAN
        /\ \E l : in_transit_messages' = in_transit_messages \cup {[msg |-> m, left |-> l]}
    BY <1>3 DEF Network!Take, Network!Received
  <2>2. m \in Message
    BY <2>1, TakenToWire, WireTypes
  <2>3. \A o \in in_transit_messages' : o = [msg |-> o.msg, left |-> o.left] /\ o.msg \in Message
    <3> HIDE DEF m
    <3> QED BY <2>1, <2>2 DEF MemoryTypes
  <2> QED BY <1>1, <2>1, <2>3, TakenToWire DEF MemoryTypes
<1>4. ASSUME NEW i \in Wire, Network!SkipPort(i) PROVE MemoryTypes'
  BY <1>1, <1>4 DEF Network!SkipPort, MemoryTypes
<1>5. ASSUME Network!Deliver PROVE MemoryTypes'
  <2>1. PICK o \in in_transit_messages :
          /\ in_port' = [in_port EXCEPT ![TargetPort[o.msg]] = Append(@, o.msg)]
          /\ in_transit_messages' = in_transit_messages \ {o}
    BY <1>5 DEF Network!Deliver, Network!Sent
  <2>2. TargetPort[o.msg] \in Wire /\ o.msg \in Arriving[TargetPort[o.msg]]
    BY MessageIs DEF MemoryTypes, Arriving
  <2>3. /\ in_port' \in [Wire -> Seq(Message)]
        /\ \A k \in Wire : in_port'[k] \in Seq(Arriving[k])
    BY <2>1, <2>2, FromWire
  <2> QED BY <1>1, <1>5, <2>1, <2>3 DEF Network!Deliver, MemoryTypes
<1>6. ASSUME Network!DeliverEnds PROVE MemoryTypes'
  <2>1. in_transit_messages' = in_transit_messages
    BY <1>6 DEF Network!DeliverEnds, Network!PutBack
  <2>2. net_busy' \in BOOLEAN /\ net_updated' \in BOOLEAN /\ UNCHANGED <<out_port, in_port>>
    BY <1>6 DEF Network!DeliverEnds, MemoryTypes
  <2> QED BY <1>1, <2>1, <2>2 DEF MemoryTypes
<1> QED BY <1>2, <1>3, <1>4, <1>5, <1>6, WireIs
        DEF UpdateNetwork, NetworkStep, Network!Step

LEMMA CacheStepIs ==
  ASSUME UpdateCache \/ CacheStep
  PROVE  turn' \in {"others", "cache"} \cup {turn} /\ UNCHANGED <<networkOnly, unsent>>
BY DEF UpdateCache, CacheStep

LEMMA AccessTypes ==
  ASSUME MemoryTypes, turn' \in {"others", "network", "cache"},
         UNCHANGED <<networkOnly, unsent>>, NEW i \in Port, Access(i)
  PROVE  MemoryTypes'
<1> USE DEF networkOnly
<1> DEFINE r == Head(in_port[i])
           tag == Tag(Addr[r])
<1>1. /\ i \in Wire /\ in_port[i] # <<>> /\ r \in Request
      /\ in_port' = [in_port EXCEPT ![i] = Tail(@)]
      /\ busy' \in BOOLEAN /\ updated' \in BOOLEAN /\ UNCHANGED <<out_port, ready_reqs>>
  <2>1. i \in Wire /\ in_port[i] # <<>>
    BY WireIs DEF Access, CanAccess
  <2> QED BY <2>1, TakenFromWire, WireTypes
          DEF Access, Received, Works
<1>2. CASE Joins(r)
  <2>1. /\ tag \in DOMAIN tag_to_reqs /\ on_going_reqs' = on_going_reqs
        /\ tag_to_reqs' = [tag_to_reqs EXCEPT ![tag] = Append(@, r)]
    BY <1>2 DEF Access, Joins
  <2>2. Append(tag_to_reqs[tag], r) \in Seq(Request)
    BY <1>1, <2>1, SentType DEF MemoryTypes
  <2> HIDE DEF tag, r
  <2> QED BY <1>1, <2>1, <2>2, TakenFromWire DEF MemoryTypes
<1>3. CASE ~Joins(r)
  <2>1. /\ tag \notin DOMAIN tag_to_reqs
        /\ \E l : on_going_reqs' = on_going_reqs \cup {[tag |-> tag, left |-> l]}
        /\ tag_to_reqs' = [t \in DOMAIN tag_to_reqs \cup {tag} |->
                             IF t = tag THEN <<r>> ELSE tag_to_reqs[t]]
    BY <1>3 DEF Access, Joins
  <2>2. <<r>> \in Seq(Request)
    BY <1>1
  <2>3. PICK l : on_going_reqs' = on_going_reqs \cup {[tag |-> tag, left |-> l]}
    BY <2>1
  <2> HIDE DEF tag, r
  <2>4. /\ \A o \in on_going_reqs' : o = [tag |-> o.tag, left |-> o.left]
        /\ \A o, p \in on_going_reqs' : o.tag = p.tag => o = p
        /\ DOMAIN tag_to_reqs' = {o.tag : o \in on_going_reqs'}
    <3>1. /\ \A o \in on_going_reqs : o = [tag |-> o.tag, left |-> o.left] /\ o.tag # tag
          /\ \A o, p \in on_going_reqs : o.tag = p.tag => o = p
          /\ DOMAIN tag_to_reqs = {o.tag : o \in on_going_reqs}
      BY <2>1 DEF MemoryTypes
    <3>2. DOMAIN tag_to_reqs' = DOMAIN tag_to_reqs \cup {tag}
      BY <2>1
    <3> DEFINE new == [tag |-> tag, left |-> l]
    <3>3. new.tag = tag /\ new = [tag |-> new.tag, left |-> new.left]
      OBVIOUS
    <3> HIDE DEF new
    <3>4. on_going_reqs' = on_going_reqs \cup {new}
      BY <2>3 DEF new
    <3>5. \A o, p \in on_going_reqs' : o.tag = p.tag => o = p
      BY <3>1, <3>3, <3>4
    <3>6. DOMAIN tag_to_reqs' = {o.tag : o \in on_going_reqs'}
      BY <3>1, <3>2, <3>3, <3>4
    <3> QED BY <3>1, <3>3, <3>4, <3>5, <3>6
  <2>5. \A t \in DOMAIN tag_to_reqs' : tag_to_reqs'[t] \in Seq(Request)
    BY <2>1, <2>2 DEF MemoryTypes
  <2> QED BY <1>1, <2>4, <2>5, TakenFromWire DEF MemoryTypes
<1> QED BY <1>2, <1>3

LEMMA CacheTypes ==
  ASSUME MemoryTypes, UpdateCache \/ CacheStep
  PROVE  MemoryTypes'
<1> USE DEF networkOnly
<1>1. turn' \in {"others", "network", "cache"} /\ UNCHANGED <<networkOnly, unsent>>
  BY CacheStepIs DEF MemoryTypes
<1>2. ASSUME NEW d \in Elapsed, Call(d) PROVE MemoryTypes'
  <2> DEFINE aged(o) == [o EXCEPT !.left = IF @ > d THEN @ - d ELSE 0]
  <2>1. on_going_reqs' = {aged(o) : o \in on_going_reqs}
    BY <1>2 DEF Call
  <2>2. \A o \in on_going_reqs : aged(o).tag = o.tag /\ aged(o) = [tag |-> o.tag, left |-> aged(o).left]
    BY DEF MemoryTypes
  <2> HIDE DEF aged
  <2>3. /\ \A o \in on_going_reqs' : o = [tag |-> o.tag, left |-> o.left]
        /\ \A o, p \in on_going_reqs' : o.tag = p.tag => o = p
        /\ DOMAIN tag_to_reqs = {o.tag : o \in on_going_reqs'}
    BY <2>1, <2>2 DEF MemoryTypes
  <2>4. busy' \in BOOLEAN /\ updated' \in BOOLEAN
        /\ UNCHANGED <<out_port, in_port, tag_to_reqs, ready_reqs>>
    BY <1>2 DEF Call
  <2> QED BY <1>1, <2>3, <2>4 DEF MemoryTypes
<1>3. ASSUME NEW i \in Port, Access(i) PROVE MemoryTypes'
  BY <1>1, <1>3, AccessTypes
<1>4. ASSUME NEW i \in Port, SkipPort(i) PROVE MemoryTypes'
  BY <1>1, <1>4 DEF SkipPort, MemoryTypes
<1>5. ASSUME Complete PROVE MemoryTypes'
  <2>1. PICK o \in on_going_reqs :
          /\ on_going_reqs' = on_going_reqs \ {o}
          /\ ready_reqs' = ready_reqs \o tag_to_reqs[o.tag]
          /\ tag_to_reqs' = [t \in DOMAIN tag_to_reqs \ {o.tag} |-> tag_to_reqs[t]]
    BY <1>5 DEF Complete
  <2>2. ready_reqs' \in Seq(Request)
    BY <2>1, ConcatProperties DEF MemoryTypes
  <2>3. DOMAIN tag_to_reqs' = {p.tag : p \in on_going_reqs'}
    <3>1. DOMAIN tag_to_reqs' = DOMAIN tag_to_reqs \ {o.tag}
      BY <2>1
    <3> QED BY <2>1, <3>1 DEF MemoryTypes
  <2>4. busy' \in BOOLEAN /\ updated' \in BOOLEAN /\ UNCHANGED <<out_port, in_port>>
    BY <1>5 DEF Complete, Works
  <2> QED BY <1>1, <2>1, <2>2, <2>3, <2>4 DEF MemoryTypes
<1>6. ASSUME CompleteEnds PROVE MemoryTypes'
  BY <1>1, <1>6 DEF CompleteEnds, MemoryTypes
<1>7. ASSUME Push PROVE MemoryTypes'
  <2> DEFINE r == Head(ready_reqs)
  <2>1. ready_reqs # <<>> /\ ready_reqs' = Tail(ready_reqs)
        /\ out_port' = [out_port EXCEPT ![MemId[r]] = Append(@, Answer(r))]
    BY <1>7 DEF Push, CanPush, Sent
  <2>2. r \in Request /\ ready_reqs' \in Seq(Request)
    BY <2>1, ReceivedType DEF MemoryTypes
  <2>3. MemId[r] \in Wire /\ Answer(r) \in Leaving[MemId[r]]
    BY <2>2, MessageIs, WireIs DEF Leaving
  <2>4. /\ out_port' \in [Wire -> Seq(Message)]
        /\ \A k \in Wire : out_port'[k] \in Seq(Leaving[k])
    BY <2>1, <2>3, ToWire
  <2>5. busy' \in BOOLEAN /\ updated' \in BOOLEAN
        /\ UNCHANGED <<in_port, on_going_reqs, tag_to_reqs>>
    BY <1>7 DEF Push, Works
  <2> QED BY <1>1, <2>2, <2>4, <2>5 DEF MemoryTypes
<1>8. ASSUME PushEnds PROVE MemoryTypes'
  <2>1. ready_reqs' = ready_reqs
    BY <1>8, RetRestores DEF PushEnds, MemoryTypes, RecvThenRet,
       Returned, Received
  <2>2. busy' \in BOOLEAN /\ UNCHANGED <<updated, out_port, in_port, on_going_reqs, tag_to_reqs>>
    BY <1>8 DEF PushEnds, HeldIsBusy, MemoryTypes
  <2> QED BY <1>1, <2>1, <2>2 DEF MemoryTypes
<1> QED BY <1>2, <1>3, <1>4, <1>5, <1>6, <1>7, <1>8, WireIs
        DEF UpdateCache, CacheStep, Step

LEMMA NextMemoryTypes ==
  ASSUME MemoryTypes, [MemoryNext]_memoryVars
  PROVE  MemoryTypes'
<1>1. CASE UNCHANGED memoryVars
  BY <1>1 DEF memoryVars, networkOnly, cacheOnly, MemoryTypes
<1> QED BY <1>1, OthersTypes, NetworkTypes, CacheTypes DEF MemoryNext, Update
-----------------------------------------------------------------------------
(* What the reports of the two are worth while the cycle goes on.           *)

NetReports == net_busy /\ net_updated
CacheReports == busy /\ updated

NoAnswerLeft == \A j \in Port : out_port[j] = <<>>
NoRequestCame == \A j \in Port : in_port[j] = <<>>

NetworkSoFar ==
  turn = "network" =>
    /\ \A i \in Wire : net_phase = <<"take", i>> =>
         \A j \in Port : j < i => NetReports \/ out_port[j] = <<>>
    /\ net_phase = <<"deliver", 0>> => NetReports \/ in_transit_messages # {} \/ NoAnswerLeft
    /\ net_phase = <<"return", 0>> => NetReports \/ (in_transit_messages = {} /\ NoAnswerLeft)

CacheSoFar ==
  turn = "cache" =>
    /\ \A i \in Port : phase = <<"access", i>> =>
         \A j \in Port : j < i => CacheReports \/ on_going_reqs # {} \/ in_port[j] = <<>>
    /\ phase = <<"complete", 0>> => CacheReports \/ on_going_reqs # {} \/ NoRequestCame
    /\ phase = <<"push", 0>> => CacheReports \/ (on_going_reqs = {} /\ NoRequestCame)
    /\ phase # <<"return", 0>>

NetworkSaid ==
  turn # "network" =>
    NetReports \/ (in_transit_messages = {} /\ (CacheReports \/ NoAnswerLeft))

CacheSaid ==
  turn = "others" =>
    /\ CacheReports \/ (on_going_reqs = {} /\ NoRequestCame)
    /\ ready_reqs # <<>> => busy /\ (NetReports \/ CacheReports)

Reports == NetworkSoFar /\ CacheSoFar /\ NetworkSaid /\ CacheSaid

LEMMA InitReports ==
  ASSUME MemoryInit
  PROVE  Reports
<1>1. NoAnswerLeft /\ NoRequestCame
  BY WireIs DEF MemoryInit, Network!Init, NoAnswerLeft, NoRequestCame
<1> QED BY <1>1 DEF Reports, NetworkSoFar, CacheSoFar, NetworkSaid, CacheSaid, MemoryInit, Network!Init

LEMMA SameCardinality ==
  \A S : Network!Cardinality(S) = Cardinality(S)
BY DEF Cardinality, Network!Cardinality

LEMMA OthersReports ==
  ASSUME MemoryTypes, Reports,
         \/ \E p \in Pe, r \in Request : Send(p, r)
         \/ \E p \in Pe : Receive(p)
  PROVE  Reports'
<1>1. /\ turn = "others" /\ turn' = turn /\ UNCHANGED <<networkOnly, cacheOnly>>
      /\ \A j \in Port : out_port'[j] = out_port[j] /\ in_port'[j] = in_port[j]
  BY WireIs DEF Send, Receive, MemoryTypes
<1>2. (NoAnswerLeft' <=> NoAnswerLeft) /\ (NoRequestCame' <=> NoRequestCame)
  BY <1>1 DEF NoAnswerLeft, NoRequestCame
<1> QED BY <1>1, <1>2 DEF Reports, NetworkSoFar, CacheSoFar, NetworkSaid, CacheSaid, NetReports,
        CacheReports, networkOnly, cacheOnly

LEMMA NetworkReports ==
  ASSUME MemoryTypes, Reports, UpdateNetwork \/ NetworkStep
  PROVE  Reports'
<1> USE DEF cacheOnly
<1>1. turn' = "network" /\ UNCHANGED cacheOnly
  BY DEF UpdateNetwork, NetworkStep
<1>2. SUFFICES NetworkSoFar'
  BY <1>1 DEF Reports, CacheSoFar, NetworkSaid, CacheSaid
<1>3. ASSUME NEW d \in Elapsed, Network!Call(d) PROVE NetworkSoFar'
  <2>1. CASE Network!RoomInTransit
    <3>1. net_phase' = <<"take", 0>> /\ \A j \in Port : ~(j < 0)
      BY <1>3, <2>1 DEF Network!Call, Port
    <3> QED BY <3>1 DEF NetworkSoFar
  <2>2. CASE ~Network!RoomInTransit
    <3>1. in_transit_messages # {}
      <4>1. MaxTransit \in Nat \ {0}
        BY MemoryAssumption
      <4>2. Network!Cardinality({}) = 0
        BY SameCardinality, FS_EmptySet
      <4> QED BY <2>2, <4>1, <4>2 DEF Network!RoomInTransit
    <3>2. in_transit_messages' # {}
      BY <1>3, <3>1, AgedIs DEF Network!Call, MemoryTypes
    <3> QED BY <1>3, <2>2, <3>2 DEF Network!Call, NetworkSoFar
  <2> QED BY <2>1, <2>2
<1>4. \A i \in Wire : Network!NextPort(i) =
        IF i + 1 = NPe + NPorts THEN <<"deliver", 0>> ELSE <<"take", i + 1>>
  BY DEF Network!NextPort
<1>5. ASSUME NEW i \in Wire, NetworkStep, Network!Take(i) PROVE NetworkSoFar'
  <2>1. NetReports'
    BY <1>5 DEF Network!Take, NetReports
  <2> QED BY <2>1 DEF NetworkSoFar
<1>6. ASSUME NEW i \in Wire, NetworkStep, Network!SkipPort(i) PROVE NetworkSoFar'
  <2>1. /\ turn = "network" /\ net_phase = <<"take", i>> /\ out_port[i] = <<>>
        /\ net_phase' = Network!NextPort(i)
        /\ UNCHANGED <<net_busy, net_updated, out_port, in_transit_messages>>
    BY <1>6 DEF NetworkStep, Network!SkipPort
  <2>2. \A j \in Port : j < i + 1 => NetReports' \/ out_port'[j] = <<>>
    BY <2>1 DEF Reports, NetworkSoFar, NetReports, Port, Wire
  <2>3. CASE i + 1 = NPe + NPorts
    <3>1. NetReports' \/ NoAnswerLeft'
      BY <2>2, <2>3, WireIs DEF NoAnswerLeft, Port, Wire
    <3>2. net_phase' = <<"deliver", 0>>
      BY <1>4, <1>6, <2>1, <2>3
    <3> QED BY <3>1, <3>2 DEF NetworkSoFar
  <2>4. CASE i + 1 # NPe + NPorts
    <3>1. net_phase' = <<"take", i + 1>>
      BY <1>4, <1>6, <2>1, <2>4
    <3> QED BY <2>2, <3>1 DEF NetworkSoFar
  <2> QED BY <2>3, <2>4
<1>7. ASSUME NetworkStep, Network!Deliver PROVE NetworkSoFar'
  <2>1. NetReports' /\ net_phase' = <<"deliver", 0>>
    BY <1>7 DEF Network!Deliver, NetReports
  <2> QED BY <2>1 DEF NetworkSoFar
<1>8. ASSUME NetworkStep, Network!DeliverEnds PROVE NetworkSoFar'
  <2>1. /\ turn = "network" /\ net_phase = <<"deliver", 0>> /\ net_phase' = <<"return", 0>>
        /\ in_transit_messages' = in_transit_messages /\ UNCHANGED out_port
        /\ net_busy' = (net_busy \/ in_transit_messages # {})
        /\ net_updated' = (net_updated \/ in_transit_messages # {})
    BY <1>8 DEF NetworkStep, Network!DeliverEnds, Network!PutBack, Network!PopIsProgress
  <2>2. NetReports \/ in_transit_messages # {} \/ NoAnswerLeft
    BY <2>1 DEF Reports, NetworkSoFar
  <2>3. NetReports' \/ (in_transit_messages' = {} /\ NoAnswerLeft')
    BY <2>1, <2>2 DEF NetReports, NoAnswerLeft
  <2> QED BY <2>1, <2>3 DEF NetworkSoFar
<1> QED BY <1>3, <1>5, <1>6, <1>7, <1>8, WireIs DEF UpdateNetwork, NetworkStep, Network!Step

LEMMA CacheStepReports ==
  ASSUME MemoryTypes, Reports, CacheStep
  PROVE  Reports'
<1> USE DEF networkOnly
<1>0. /\ turn = "cache" /\ UNCHANGED networkOnly
      /\ turn' = IF phase' = <<"return", 0>> THEN "others" ELSE "cache"
  BY DEF CacheStep
<1>1. NetworkSoFar' /\ (NetReports' <=> NetReports)
  BY <1>0 DEF NetworkSoFar, NetReports
\* What is left to show of a step that has work, and of one that has none.
<1>2. ASSUME CacheReports', phase' # <<"return", 0>> PROVE Reports'
  BY <1>0, <1>1, <1>2 DEF Reports, CacheSoFar, NetworkSaid, CacheSaid
<1>3. ASSUME CacheSoFar', phase' # <<"return", 0>>, UNCHANGED out_port,
             CacheReports => CacheReports'
      PROVE  Reports'
  <2>1. NetReports' \/ (in_transit_messages' = {} /\ (CacheReports' \/ NoAnswerLeft'))
    BY <1>0, <1>3 DEF Reports, NetworkSaid, NetReports, NoAnswerLeft
  <2> QED BY <1>0, <1>1, <1>3, <2>1 DEF Reports, NetworkSaid, CacheSaid
<1>4. \A i \in Port : NextPort(i) =
        IF i + 1 = NPorts THEN <<"complete", 0>> ELSE <<"access", i + 1>>
  BY DEF NextPort
<1>5. ASSUME NEW i \in Port, Access(i) PROVE Reports'
  <2>1. CacheReports' /\ phase' = NextPort(i)
    BY <1>5 DEF Access, Works, CacheReports
  <2> QED BY <1>2, <1>4, <2>1
<1>6. ASSUME NEW i \in Port, SkipPort(i) PROVE Reports'
  <2>1. /\ phase = <<"access", i>> /\ phase' = NextPort(i)
        /\ in_port[i] = <<>> \/ on_going_reqs # {}
        /\ UNCHANGED <<busy, updated, out_port, in_port, on_going_reqs>>
    <3>1. on_going_reqs = {} => Cardinality(on_going_reqs) < MaxOngoing
      BY FS_EmptySet, PortsAssumption
    <3> QED BY <1>6, <3>1 DEF SkipPort, CanAccess
  <2>2. \A j \in Port : j < i + 1 => CacheReports' \/ on_going_reqs' # {} \/ in_port'[j] = <<>>
    BY <1>0, <2>1 DEF Reports, CacheSoFar, CacheReports, Port
  <2>3. CASE i + 1 = NPorts
    <3>1. CacheReports' \/ on_going_reqs' # {} \/ NoRequestCame'
      BY <2>2, <2>3 DEF NoRequestCame, Port
    <3>2. phase' = <<"complete", 0>>
      BY <1>4, <2>1, <2>3
    <3>3. CacheSoFar'
      BY <3>1, <3>2 DEF CacheSoFar
    <3> QED BY <1>3, <2>1, <3>2, <3>3 DEF CacheReports
  <2>4. CASE i + 1 # NPorts
    <3>1. phase' = <<"access", i + 1>>
      BY <1>4, <2>1, <2>4
    <3>2. CacheSoFar'
      BY <2>2, <3>1 DEF CacheSoFar
    <3> QED BY <1>3, <2>1, <3>1, <3>2 DEF CacheReports
  <2> QED BY <2>3, <2>4
<1>7. ASSUME Complete PROVE Reports'
  BY <1>2, <1>7 DEF Complete, Works, CacheReports
<1>8. ASSUME CompleteEnds PROVE Reports'
  <2>1. /\ phase = <<"complete", 0>> /\ phase' = <<"push", 0>>
        /\ busy' = (busy \/ on_going_reqs # {}) /\ updated' = (updated \/ on_going_reqs # {})
        /\ UNCHANGED <<out_port, in_port, on_going_reqs>>
    BY <1>8 DEF CompleteEnds, PopIsProgress
  <2>2. CacheReports \/ on_going_reqs # {} \/ NoRequestCame
    BY <1>0, <2>1 DEF Reports, CacheSoFar
  <2>3. CacheReports' \/ (on_going_reqs' = {} /\ NoRequestCame')
    BY <2>1, <2>2 DEF CacheReports, NoRequestCame
  <2>4. CacheSoFar'
    BY <2>1, <2>3 DEF CacheSoFar
  <2> QED BY <1>3, <2>1, <2>4 DEF CacheReports
<1>9. ASSUME Push PROVE Reports'
  BY <1>2, <1>9 DEF Push, Works, CacheReports
<1>10. ASSUME PushEnds PROVE Reports'
  <2>1. /\ phase = <<"push", 0>> /\ phase' = <<"return", 0>> /\ turn' = "others"
        /\ busy' = (busy \/ ready_reqs # <<>>)
        /\ UNCHANGED <<updated, out_port, in_port, on_going_reqs>>
    BY <1>0, <1>10 DEF PushEnds, HeldIsBusy
  <2>2. CacheReports \/ (on_going_reqs = {} /\ NoRequestCame)
    BY <1>0, <2>1 DEF Reports, CacheSoFar
  <2>3. NetReports \/ (in_transit_messages = {} /\ (CacheReports \/ NoAnswerLeft))
    BY <1>0 DEF Reports, NetworkSaid
  <2>4. ready_reqs' = ready_reqs
    BY <1>10, RetRestores DEF PushEnds, MemoryTypes, RecvThenRet,
       Returned, Received
  <2>5. ASSUME ready_reqs # <<>> PROVE NetReports \/ CacheReports
    <3> DEFINE r == Head(ready_reqs)
    <3>1. ~(Len(out_port[MemId[r]]) < ChannelSize) /\ r \in Request
      BY <1>10, <2>5, ReceivedType
         DEF PushEnds, CanPush, HaveSpace, MemoryTypes
    <3>2. MemId[r] \in Port /\ out_port[MemId[r]] # <<>>
      BY <3>1, MessageIs, PortsAssumption, EmptySeq
    <3> QED BY <2>3, <3>2 DEF NoAnswerLeft
  <2>6. CacheSaid'
    BY <1>1, <2>1, <2>2, <2>4, <2>5 DEF CacheSaid, CacheReports, NoRequestCame
  <2>7. NetworkSaid'
    BY <1>0, <1>1, <2>1, <2>3 DEF NetworkSaid, CacheReports, NoAnswerLeft
  <2>8. CacheSoFar'
    BY <2>1 DEF CacheSoFar
  <2> QED BY <1>1, <2>6, <2>7, <2>8 DEF Reports
<1> QED BY <1>5, <1>6, <1>7, <1>8, <1>9, <1>10, WireIs DEF CacheStep, Step

LEMMA NextReports ==
  ASSUME MemoryTypes, Reports, [MemoryNext]_memoryVars
  PROVE  Reports'
<1>1. CASE UNCHANGED memoryVars
  BY <1>1 DEF memoryVars, networkOnly, cacheOnly, Reports, NetworkSoFar, CacheSoFar, NetworkSaid,
              CacheSaid, NetReports, CacheReports, NoAnswerLeft, NoRequestCame
<1>2. CASE UpdateCache
  <2>1. /\ turn = "network" /\ net_phase = <<"return", 0>> /\ turn' = "cache"
        /\ phase' = <<"access", 0>>
        /\ UNCHANGED <<net_busy, net_updated, in_transit_messages, out_port>>
    BY <1>2 DEF UpdateCache, Call, networkOnly
  <2>2. NetReports' \/ (in_transit_messages' = {} /\ NoAnswerLeft')
    BY <2>1 DEF Reports, NetworkSoFar, NetReports, NoAnswerLeft
  <2>3. \A j \in Port : ~(j < 0)
    BY DEF Port
  <2> QED BY <2>1, <2>2, <2>3 DEF Reports, NetworkSoFar, CacheSoFar, NetworkSaid, CacheSaid
<1> QED BY <1>1, <1>2, OthersReports, NetworkReports, CacheStepReports DEF MemoryNext, Update

\* What the network and the cache hold, in the words of the reports.
LEMMA MemoryHeld ==
  ASSUME MemoryTypes, Memory # {}
  PROVE  \/ in_transit_messages # {} \/ on_going_reqs # {} \/ ready_reqs # <<>>
         \/ ~NoAnswerLeft \/ ~NoRequestCame
<1>1. SUFFICES ASSUME in_transit_messages = {}, on_going_reqs = {}, ready_reqs = <<>>,
                      NoAnswerLeft, NoRequestCame
               PROVE  Memory = {}
  OBVIOUS
<1>2. DOMAIN tag_to_reqs = {}
  BY <1>1 DEF MemoryTypes
<1>3. \A i \in Port : out_port[i] = <<>> /\ in_port[i] = <<>>
  BY <1>1 DEF NoAnswerLeft, NoRequestCame, Port
<1>4. ToSet(<<>>) = {} /\ AnswersIn({}) = {} /\ Requests(<<>>) = {}
  BY EmptySeq DEF ToSet, AnswersIn, Requests
<1>5. {o.msg : o \in in_transit_messages} = {}
  BY <1>1
<1>6. UNION {ToSet(tag_to_reqs[t]) : t \in DOMAIN tag_to_reqs} = {}
  BY <1>2
<1>7. UNION {Requests(in_port[i]) \cup AnswersIn(ToSet(out_port[i])) :
               i \in Port} = {}
  BY <1>3, <1>4
<1> QED BY <1>1, <1>4, <1>5, <1>6, <1>7 DEF Memory

\* A cycle with a request in the network or the cache is never one that
\* SimRunner::run takes for a stall (sim.rs:148), nor for the end of the run:
\* one of the two is busy, and one reports progress, although either may be
\* idle while it waits for the other.
THEOREM MemoryHeldIsProgress == MemorySpec => []HeldIsProgress
<1>1. MemoryTypes /\ Reports => HeldIsProgress
  BY MemoryHeld DEF Reports, NetworkSaid, CacheSaid, NetReports, CacheReports, HeldIsProgress
<1>2. MemoryInit => MemoryTypes /\ Reports
  BY InitMemoryTypes, InitReports
<1>3. MemoryTypes /\ Reports /\ [MemoryNext]_memoryVars => (MemoryTypes /\ Reports)'
  BY NextMemoryTypes, NextReports
<1> QED BY <1>1, <1>2, <1>3, PTL DEF MemorySpec
-----------------------------------------------------------------------------
(* Where a request is, from the processing element that sends it to the one *)
(* that receives the answer, which is on its way in place of the request.   *)

Req(m) == IF IsAnswer(m) THEN m.answer ELSE m
Reqs(ch) == [k \in DOMAIN ch |-> Req(ch[k])]

Spot == {"unsent", "to", "transit", "from", "wait", "ready"}

Lies(r, a, i) ==
  \/ a = "unsent" /\ i = 0 /\ r \in unsent
  \/ a = "to" /\ i \in Wire /\ r \in Range(Reqs(out_port[i]))
  \/ a = "transit" /\ i = 0 /\ \E o \in in_transit_messages : Req(o.msg) = r
  \/ a = "from" /\ i \in Wire /\ r \in Range(Reqs(in_port[i]))
  \/ a = "wait" /\ i \in DOMAIN tag_to_reqs /\ r \in Range(tag_to_reqs[i])
  \/ a = "ready" /\ i = 0 /\ r \in Range(ready_reqs)

OneSpot ==
  \A r \in Request : \A a, i, b, j : Lies(r, a, i) /\ Lies(r, b, j) => a = b /\ i = j

NoTwins ==
  /\ IsInjective(ready_reqs) /\ \A t \in DOMAIN tag_to_reqs : IsInjective(tag_to_reqs[t])
  /\ \A i \in Wire : IsInjective(Reqs(out_port[i])) /\ IsInjective(Reqs(in_port[i]))
  /\ \A o, p \in in_transit_messages : Req(o.msg) = Req(p.msg) => o = p

LEMMA ReqIs ==
  /\ \A r \in Request : Req(r) = r /\ Req(Answer(r)) = r
  /\ \A m \in Message : /\ Req(m) \in Request
                        /\ m = IF IsAnswer(m) THEN Answer(Req(m)) ELSE Req(m)
BY MessageIs DEF Req

LEMMA ReqsType ==
  ASSUME NEW s \in Seq(Message)
  PROVE  Reqs(s) \in Seq(Request) /\ Len(Reqs(s)) = Len(s) /\ (s = <<>> <=> Reqs(s) = <<>>)
<1>1. Reqs(s) \in [1 .. Len(s) -> Request] /\ Len(s) \in Nat
  BY ReqIs, LenProperties, ElementOfSeq DEF Reqs
<1>2. Reqs(s) \in Seq(Request) /\ Len(Reqs(s)) = Len(s)
  BY <1>1, SeqDef, LenProperties
<1> QED BY <1>2, EmptySeq

LEMMA ReqsAppend ==
  ASSUME NEW s \in Seq(Message), NEW m \in Message
  PROVE  Reqs(Append(s, m)) = Append(Reqs(s), Req(m))
<1>1. /\ Append(s, m) \in Seq(Message) /\ Len(Append(s, m)) = Len(s) + 1 /\ Len(s) \in Nat
      /\ \A k \in 1 .. Len(s) : Append(s, m)[k] = s[k]
      /\ Append(s, m)[Len(s) + 1] = m
  BY AppendProperties, LenProperties
<1>2. Reqs(s) \in Seq(Request) /\ Len(Reqs(s)) = Len(s) /\ Req(m) \in Request
  BY ReqsType, ReqIs
<1>3. /\ Append(Reqs(s), Req(m)) \in Seq(Request) /\ Len(Append(Reqs(s), Req(m))) = Len(s) + 1
      /\ \A k \in 1 .. Len(s) : Append(Reqs(s), Req(m))[k] = Reqs(s)[k]
      /\ Append(Reqs(s), Req(m))[Len(s) + 1] = Req(m)
  BY <1>1, <1>2, AppendProperties
<1>4. Reqs(Append(s, m)) \in Seq(Request) /\ Len(Reqs(Append(s, m))) = Len(s) + 1
  BY <1>1, ReqsType
<1>5. \A k \in 1 .. Len(s) + 1 : Reqs(Append(s, m))[k] = Append(Reqs(s), Req(m))[k]
  <2>1. DOMAIN Append(s, m) = 1 .. Len(s) + 1 /\ DOMAIN s = 1 .. Len(s)
    BY <1>1
  <2>2. \A k \in 1 .. Len(s) + 1 : k \in 1 .. Len(s) \/ k = Len(s) + 1
    BY <1>1
  <2> QED BY <1>1, <1>3, <2>1, <2>2 DEF Reqs
<1> QED BY <1>3, <1>4, <1>5, SeqEqual

LEMMA ReqsTail ==
  ASSUME NEW s \in Seq(Message), s # <<>>
  PROVE  /\ Reqs(s) # <<>> /\ Reqs(Tail(s)) = Tail(Reqs(s)) /\ Req(Head(s)) = Head(Reqs(s))
         /\ Req(Head(s)) \in Request /\ Head(s) \in Message
<1>1. /\ Tail(s) \in Seq(Message) /\ Len(Tail(s)) = Len(s) - 1 /\ Len(s) \in Nat \ {0}
      /\ \A k \in 1 .. Len(Tail(s)) : Tail(s)[k] = s[k + 1]
      /\ Head(s) = s[1] /\ Head(s) \in Message
  BY HeadTailProperties, EmptySeq
<1>2. Reqs(s) \in Seq(Request) /\ Len(Reqs(s)) = Len(s) /\ Reqs(s) # <<>>
  BY ReqsType
<1>3. /\ Tail(Reqs(s)) \in Seq(Request) /\ Len(Tail(Reqs(s))) = Len(s) - 1
      /\ \A k \in 1 .. Len(Tail(Reqs(s))) : Tail(Reqs(s))[k] = Reqs(s)[k + 1]
      /\ Head(Reqs(s)) = Reqs(s)[1]
  BY <1>2, HeadTailProperties
<1>4. Reqs(Tail(s)) \in Seq(Request) /\ Len(Reqs(Tail(s))) = Len(s) - 1
  BY <1>1, ReqsType
<1>5. \A k \in 1 .. Len(s) - 1 : Reqs(Tail(s))[k] = Tail(Reqs(s))[k]
  <2>1. DOMAIN Tail(s) = 1 .. Len(s) - 1 /\ DOMAIN s = 1 .. Len(s)
    BY <1>1
  <2>2. \A k \in 1 .. Len(s) - 1 : k + 1 \in 1 .. Len(s)
    BY <1>1
  <2> QED BY <1>1, <1>3, <2>1, <2>2 DEF Reqs
<1>6. Reqs(Tail(s)) = Tail(Reqs(s))
  BY <1>3, <1>4, <1>5, SeqEqual
<1>7. Req(Head(s)) = Head(Reqs(s))
  BY <1>1, <1>3 DEF Reqs
<1> QED BY <1>1, <1>2, <1>6, <1>7, ReqIs

LEMMA ReqsGain ==
  ASSUME NEW s \in Seq(Message), NEW m \in Message,
         IsInjective(Reqs(s)), Req(m) \notin Range(Reqs(s))
  PROVE  /\ IsInjective(Reqs(Append(s, m)))
         /\ Range(Reqs(Append(s, m))) = Range(Reqs(s)) \cup {Req(m)}
<1>1. /\ Reqs(s) \in Seq(Request) /\ Req(m) \in Request
      /\ Reqs(Append(s, m)) = Append(Reqs(s), Req(m))
  BY ReqsType, ReqsAppend, ReqIs
<1> QED BY <1>1, AppendRange

LEMMA ReqsLose ==
  ASSUME NEW s \in Seq(Message), s # <<>>, IsInjective(Reqs(s))
  PROVE  /\ Req(Head(s)) \in Range(Reqs(s)) /\ Req(Head(s)) \in Request
         /\ IsInjective(Reqs(Tail(s)))
         /\ Range(Reqs(Tail(s))) = Range(Reqs(s)) \ {Req(Head(s))}
<1>1. /\ Reqs(s) \in Seq(Request) /\ Reqs(s) # <<>> /\ Req(Head(s)) \in Request
      /\ Reqs(Tail(s)) = Tail(Reqs(s)) /\ Req(Head(s)) = Head(Reqs(s))
  BY ReqsType, ReqsTail
<1> QED BY <1>1, TailRange

\* A step that takes the requests X from place i of kind a to place j of kind b.
Goes(X, a, i, b, j) ==
  /\ X \subseteq Request /\ \A r \in X : Lies(r, a, i)
  /\ \A r \in Request : \A c \in Spot : \A k :
       Lies(r, c, k)' <=> \/ r \in X /\ c = b /\ k = j
                          \/ Lies(r, c, k) /\ ~(r \in X /\ c = a /\ k = i)

LEMMA LiesIs ==
  ASSUME NEW r, NEW i
  PROVE  /\ Lies(r, "unsent", i) <=> i = 0 /\ r \in unsent
         /\ Lies(r, "to", i) <=> i \in Wire /\ r \in Range(Reqs(out_port[i]))
         /\ Lies(r, "transit", i) <=> i = 0 /\ \E o \in in_transit_messages : Req(o.msg) = r
         /\ Lies(r, "from", i) <=> i \in Wire /\ r \in Range(Reqs(in_port[i]))
         /\ Lies(r, "wait", i) <=> i \in DOMAIN tag_to_reqs /\ r \in Range(tag_to_reqs[i])
         /\ Lies(r, "ready", i) <=> i = 0 /\ r \in Range(ready_reqs)
BY DEF Lies

LEMMA LiesIsNext ==
  ASSUME NEW r, NEW i
  PROVE  /\ Lies(r, "unsent", i)' <=> i = 0 /\ r \in unsent'
         /\ Lies(r, "to", i)' <=> i \in Wire /\ r \in Range(Reqs(out_port'[i]))
         /\ Lies(r, "transit", i)' <=> i = 0 /\ \E o \in in_transit_messages' : Req(o.msg) = r
         /\ Lies(r, "from", i)' <=> i \in Wire /\ r \in Range(Reqs(in_port'[i]))
         /\ Lies(r, "wait", i)' <=> i \in DOMAIN tag_to_reqs' /\ r \in Range(tag_to_reqs'[i])
         /\ Lies(r, "ready", i)' <=> i = 0 /\ r \in Range(ready_reqs')
BY DEF Lies, Reqs, Req, IsAnswer

LEMMA LiesSpot ==
  ASSUME NEW r, NEW a, NEW i
  PROVE  (Lies(r, a, i) => a \in Spot) /\ (Lies(r, a, i)' => a \in Spot)
BY DEF Lies, Spot

LEMMA GoesOneSpot ==
  ASSUME OneSpot, NEW X, NEW a, NEW i, NEW b, NEW j, Goes(X, a, i, b, j)
  PROVE  OneSpot'
<1> SUFFICES ASSUME NEW r \in Request, NEW c, NEW k, NEW d, NEW l, Lies(r, c, k)', Lies(r, d, l)'
             PROVE  c = d /\ k = l
  BY DEF OneSpot
<1>1. c \in Spot /\ d \in Spot
  BY LiesSpot
<1>2. CASE r \in X
  <2>1. Lies(r, a, i)
    BY <1>2 DEF Goes
  <2>2. \A e, n : Lies(r, e, n) => e = a /\ n = i
    BY <2>1 DEF OneSpot
  <2> QED BY <1>1, <1>2, <2>2 DEF Goes
<1>3. CASE r \notin X
  <2>1. Lies(r, c, k) /\ Lies(r, d, l)
    BY <1>1, <1>3 DEF Goes
  <2> QED BY <2>1 DEF OneSpot
<1> QED BY <1>2, <1>3

\* The places that MemoryService takes for one.
Inside(c, k) == c \in {"transit", "wait", "ready"} \/ (c \in {"to", "from"} /\ k \in Port)

LEMMA MemoryIs ==
  ASSUME MemoryTypes
  PROVE  \A r : r \in Memory <=> r \in Request /\ \E c, k : Inside(c, k) /\ Lies(r, c, k)
<1>1. \A f : ToSet(f) = Range(f)
  BY DEF ToSet, Range
<1>2. ASSUME NEW i \in Port, NEW r
      PROVE  /\ r \in Requests(in_port[i]) <=> r \in Range(Reqs(in_port[i]))
             /\ r \in AnswersIn(ToSet(out_port[i])) <=> r \in Range(Reqs(out_port[i]))
             /\ r \in Range(Reqs(in_port[i])) \/ r \in Range(Reqs(out_port[i])) => r \in Request
  <2>1. /\ i \in Wire /\ out_port[i] \in Seq(Leaving[i]) /\ in_port[i] \in Seq(Arriving[i])
        /\ \A m \in Arriving[i] : m \in Request
        /\ \A m \in Leaving[i] : IsAnswer(m) /\ m.answer \in Request
    <3>1. i \in Wire /\ i < NPorts
      BY WireIs
    <3>2. Leaving[i] = {Answer(q) : q \in Request}
      BY <3>1 DEF Leaving
    <3> QED BY <3>1, <3>2, WireTypes, MessageIs
  <2>2. /\ \A k \in DOMAIN in_port[i] : in_port[i][k] \in Request
        /\ \A k \in DOMAIN out_port[i] : IsAnswer(out_port[i][k]) /\ out_port[i][k].answer \in Request
    BY <2>1, LenProperties, ElementOfSeq
  <2>3. \A q \in Request : ~IsAnswer(q)
    BY MessageIs
  <2> QED BY <1>1, <2>2, <2>3 DEF Requests, AnswersIn, Range, Reqs, Req
<1>3. ASSUME NEW r
      PROVE  /\ \/ r \in {m \in {o.msg : o \in in_transit_messages} : ~IsAnswer(m)}
                \/ r \in AnswersIn({o.msg : o \in in_transit_messages})
                <=> \E o \in in_transit_messages : Req(o.msg) = r
             /\ (\E o \in in_transit_messages : Req(o.msg) = r) => r \in Request
  BY ReqIs DEF AnswersIn, Req, MemoryTypes
<1>4. ASSUME NEW r
      PROVE  /\ r \in Range(ready_reqs) => r \in Request
             /\ \A t \in DOMAIN tag_to_reqs : r \in Range(tag_to_reqs[t]) => r \in Request
  BY RangeOfSeq DEF MemoryTypes
<1>5. ASSUME NEW r
      PROVE  r \in Memory <=>
               \/ \E o \in in_transit_messages : Req(o.msg) = r
               \/ r \in Range(ready_reqs) \/ \E t \in DOMAIN tag_to_reqs : r \in Range(tag_to_reqs[t])
               \/ \E i \in Port : r \in Range(Reqs(in_port[i])) \/ r \in Range(Reqs(out_port[i]))
  <2> DEFINE moving == {o.msg : o \in in_transit_messages}
  <2>1. r \in Memory <=>
          \/ r \in {m \in moving : ~IsAnswer(m)} \/ r \in AnswersIn(moving)
          \/ r \in ToSet(ready_reqs) \/ \E t \in DOMAIN tag_to_reqs : r \in ToSet(tag_to_reqs[t])
          \/ \E i \in Port : r \in Requests(in_port[i]) \/ r \in AnswersIn(ToSet(out_port[i]))
    <3> HIDE DEF moving
    <3>1. Memory = {m \in moving : ~IsAnswer(m)} \cup AnswersIn(moving) \cup ToSet(ready_reqs)
                     \cup (UNION {ToSet(tag_to_reqs[t]) : t \in DOMAIN tag_to_reqs})
                     \cup (UNION {Requests(in_port[i]) \cup AnswersIn(ToSet(out_port[i])) : i \in Port})
      BY DEF Memory, moving
    <3> QED BY <3>1
  <2>2. /\ r \in ToSet(ready_reqs) <=> r \in Range(ready_reqs)
        /\ \A t \in DOMAIN tag_to_reqs : r \in ToSet(tag_to_reqs[t]) <=> r \in Range(tag_to_reqs[t])
    BY <1>1
  <2>3. \A i \in Port : /\ r \in Requests(in_port[i]) <=> r \in Range(Reqs(in_port[i]))
                        /\ r \in AnswersIn(ToSet(out_port[i])) <=> r \in Range(Reqs(out_port[i]))
    BY <1>2
  <2>4. \/ r \in {m \in moving : ~IsAnswer(m)} \/ r \in AnswersIn(moving)
        <=> \E o \in in_transit_messages : Req(o.msg) = r
    BY <1>3
  <2> HIDE DEF moving
  <2> QED BY <2>1, <2>2, <2>3, <2>4
<1> SUFFICES ASSUME NEW r
             PROVE  r \in Memory <=> r \in Request /\ \E c, k : Inside(c, k) /\ Lies(r, c, k)
  OBVIOUS
<1>6. (\E c, k : Inside(c, k) /\ Lies(r, c, k)) <=>
        \/ Lies(r, "transit", 0) \/ Lies(r, "ready", 0) \/ \E t : Lies(r, "wait", t)
        \/ \E i \in Port : Lies(r, "from", i) \/ Lies(r, "to", i)
  <2>1. \A k : /\ Lies(r, "transit", k) => k = 0
               /\ Lies(r, "ready", k) => k = 0
    BY LiesIs
  <2>2. \A c, k : Inside(c, k) <=> \/ c = "transit" \/ c = "wait" \/ c = "ready"
                                   \/ (c = "to" \/ c = "from") /\ k \in Port
    BY DEF Inside
  <2> QED BY <2>1, <2>2
<1>7. Port \subseteq Wire
  BY WireIs
<1> QED BY <1>2, <1>3, <1>4, <1>5, <1>6, <1>7, LiesIs

LEMMA GoesMemory ==
  ASSUME MemoryTypes, MemoryTypes', OneSpot,
         NEW X, NEW a, NEW i, NEW b, NEW j, Goes(X, a, i, b, j)
  PROVE  Memory' = IF b \in Spot /\ Inside(b, j) THEN Memory \cup X ELSE Memory \ X
<1>1. \A r : r \in Memory <=> r \in Request /\ \E c, k : Inside(c, k) /\ Lies(r, c, k)
  BY MemoryIs
<1>2. \A r : r \in Memory' <=> r \in Request /\ \E c, k : Inside(c, k) /\ Lies(r, c, k)'
  <2>1. (MemoryTypes => \A r : r \in Memory <=>
                                 r \in Request /\ \E c, k : Inside(c, k) /\ Lies(r, c, k))'
    BY MemoryIs, PTL
  <2> QED BY <2>1 DEF Inside, Port
<1>3. ASSUME NEW r \in Request, r \notin X
      PROVE  (\E c, k : Inside(c, k) /\ Lies(r, c, k)') <=> \E c, k : Inside(c, k) /\ Lies(r, c, k)
  BY <1>3, LiesSpot DEF Goes
<1>4. ASSUME NEW r \in X
      PROVE  r \in Request /\ ((\E c, k : Inside(c, k) /\ Lies(r, c, k)') <=> b \in Spot /\ Inside(b, j))
  <2>1. r \in Request /\ Lies(r, a, i)
    BY DEF Goes
  <2>2. \A c, k : Lies(r, c, k) => c = a /\ k = i
    BY <2>1 DEF OneSpot
  <2>3. \A c, k : Lies(r, c, k)' <=> c \in Spot /\ c = b /\ k = j
    BY <2>1, <2>2, LiesSpot DEF Goes
  <2> QED BY <2>1, <2>3
<1> QED BY <1>1, <1>2, <1>3, <1>4

PlaceInv == OneSpot /\ NoTwins

LEMMA NoTwinsNext ==
  NoTwins' <=>
    /\ IsInjective(ready_reqs') /\ \A t \in DOMAIN tag_to_reqs' : IsInjective(tag_to_reqs'[t])
    /\ \A i \in Wire : IsInjective(Reqs(out_port'[i])) /\ IsInjective(Reqs(in_port'[i]))
    /\ \A o, p \in in_transit_messages' : Req(o.msg) = Req(p.msg) => o = p
BY DEF NoTwins, Reqs, Req, IsAnswer

LEMMA NobodyGoes ==
  ASSUME NoTwins, UNCHANGED <<unsent, out_port, in_port, in_transit_messages, tag_to_reqs,
                              ready_reqs>>
  PROVE  Goes({}, "gone", 0, "gone", 0) /\ NoTwins'
<1>1. \A r, a, i : Lies(r, a, i)' <=> Lies(r, a, i)
  BY DEF Lies, Reqs, Req, IsAnswer
<1>2. NoTwins'
  BY DEF NoTwins, Reqs, Req, IsAnswer
<1> QED BY <1>1, <1>2 DEF Goes

LEMMA SendGoes ==
  ASSUME MemoryTypes, PlaceInv, NEW p \in Pe, NEW r \in Request, Send(p, r)
  PROVE  Goes({r}, "unsent", 0, "to", PortOf(p)) /\ NoTwins'
<1> DEFINE i == PortOf(p)
<1>1. /\ i \in Wire /\ r \in unsent /\ unsent' = unsent \ {r}
      /\ out_port' = [out_port EXCEPT ![i] = Append(@, r)]
      /\ out_port \in [Wire -> Seq(Message)] /\ r \in Message /\ Req(r) = r
      /\ \A k \in Wire : IsInjective(Reqs(out_port[k]))
      /\ UNCHANGED <<in_port, in_transit_messages, tag_to_reqs, ready_reqs>>
  BY WireIs, MessageIs, ReqIs
     DEF Send, Sent, MemoryTypes, networkOnly, cacheOnly, PlaceInv, NoTwins
<1> HIDE DEF i
<1>2. Lies(r, "unsent", 0) /\ r \notin Range(Reqs(out_port[i]))
  BY <1>1, LiesIs DEF PlaceInv, OneSpot
<1>3. /\ \A k \in Wire : IsInjective(Reqs(out_port'[k]))
      /\ \A q : \A k \in Wire :
           q \in Range(Reqs(out_port'[k])) <=> (q = r /\ k = i) \/ q \in Range(Reqs(out_port[k]))
  <2>1. /\ IsInjective(Reqs(Append(out_port[i], r)))
        /\ Range(Reqs(Append(out_port[i], r))) = Range(Reqs(out_port[i])) \cup {r}
    BY <1>1, <1>2, ReqsGain
  <2>2. \A k \in Wire : out_port'[k] = IF k = i THEN Append(out_port[i], r) ELSE out_port[k]
    BY <1>1
  <2> QED BY <1>1, <2>1, <2>2
<1>4. ASSUME NEW q \in Request, NEW c \in Spot, NEW k
      PROVE  Lies(q, c, k)' <=> \/ q \in {r} /\ c = "to" /\ k = i
                                \/ Lies(q, c, k) /\ ~(q \in {r} /\ c = "unsent" /\ k = 0)
  <2>1. CASE c = "to"
    BY <1>1, <1>3, <2>1, LiesIs, LiesIsNext
  <2>2. CASE c = "unsent"
    BY <1>1, <2>2, LiesIs, LiesIsNext
  <2>3. CASE c \in Spot \ {"to", "unsent"}
    BY <1>1, <2>3, LiesIs, LiesIsNext DEF Spot
  <2> QED BY <2>1, <2>2, <2>3
<1>5. NoTwins'
  BY NoTwinsNext, <1>1, <1>3 DEF PlaceInv, NoTwins
<1> QED BY <1>2, <1>4, <1>5 DEF Goes, i

LEMMA ReceiveGoes ==
  ASSUME MemoryTypes, PlaceInv, NEW p \in Pe, Receive(p)
  PROVE  /\ \E r \in Request : Goes({r}, "from", PortOf(p), "gone", 0)
         /\ NoTwins'
<1> DEFINE i == PortOf(p)
           r == Req(Head(in_port[i]))
<1>1. /\ i \in Wire /\ in_port[i] # <<>>
      /\ in_port' = [in_port EXCEPT ![i] = Tail(@)]
      /\ in_port \in [Wire -> Seq(Message)]
      /\ \A k \in Wire : IsInjective(Reqs(in_port[k]))
      /\ UNCHANGED <<unsent, out_port, in_transit_messages, tag_to_reqs, ready_reqs>>
  BY WireIs DEF Receive, Received, MemoryTypes, networkOnly, cacheOnly, PlaceInv, NoTwins
<1> HIDE DEF i
<1>2. /\ r \in Range(Reqs(in_port[i])) /\ r \in Request
      /\ \A k \in Wire : IsInjective(Reqs(in_port'[k]))
      /\ \A q : \A k \in Wire :
           q \in Range(Reqs(in_port'[k])) <=>
             q \in Range(Reqs(in_port[k])) /\ ~(q = r /\ k = i)
  <2>1. /\ r \in Range(Reqs(in_port[i])) /\ r \in Request
        /\ IsInjective(Reqs(Tail(in_port[i])))
        /\ Range(Reqs(Tail(in_port[i]))) = Range(Reqs(in_port[i])) \ {r}
    BY <1>1, ReqsLose
  <2>2. \A k \in Wire : in_port'[k] = IF k = i THEN Tail(in_port[i]) ELSE in_port[k]
    BY <1>1
  <2> HIDE DEF r
  <2> QED BY <1>1, <2>1, <2>2
<1> HIDE DEF r
<1>3. Lies(r, "from", i)
  BY <1>1, <1>2, LiesIs
<1>4. ASSUME NEW q \in Request, NEW c \in Spot, NEW k
      PROVE  Lies(q, c, k)' <=> \/ q \in {r} /\ c = "gone" /\ k = 0
                                \/ Lies(q, c, k) /\ ~(q \in {r} /\ c = "from" /\ k = i)
  <2>1. CASE c = "from"
    BY <1>2, <2>1, LiesIs, LiesIsNext
  <2>2. CASE c \in Spot \ {"from"}
    BY <1>1, <2>2, LiesIs, LiesIsNext DEF Spot
  <2> QED BY <2>1, <2>2
<1>5. NoTwins'
  BY NoTwinsNext, <1>1, <1>2 DEF PlaceInv, NoTwins
<1>6. Goes({r}, "from", i, "gone", 0)
  BY <1>2, <1>3, <1>4 DEF Goes
<1> QED BY <1>2, <1>5, <1>6 DEF i

LEMMA TakeGoes ==
  ASSUME MemoryTypes, PlaceInv, UNCHANGED <<cacheOnly, unsent>>,
         NEW i \in Wire, Network!Take(i)
  PROVE  Goes({Req(Head(out_port[i]))}, "to", i, "transit", 0) /\ NoTwins'
<1> DEFINE m == Head(out_port[i])
           r == Req(m)
<1>1. /\ out_port[i] # <<>> /\ out_port' = [out_port EXCEPT ![i] = Tail(@)]
      /\ out_port \in [Wire -> Seq(Message)]
      /\ \A k \in Wire : IsInjective(Reqs(out_port[k]))
      /\ UNCHANGED <<unsent, in_port, tag_to_reqs, ready_reqs>>
  BY DEF Network!Take, Network!Received, MemoryTypes, cacheOnly, PlaceInv, NoTwins
<1>2. PICK o : o.msg = m /\ in_transit_messages' = in_transit_messages \cup {o}
  BY DEF Network!Take
<1>3. /\ r \in Range(Reqs(out_port[i])) /\ r \in Request
      /\ \A k \in Wire : IsInjective(Reqs(out_port'[k]))
      /\ \A q : \A k \in Wire :
           q \in Range(Reqs(out_port'[k])) <=>
             q \in Range(Reqs(out_port[k])) /\ ~(q = r /\ k = i)
  <2>1. /\ r \in Range(Reqs(out_port[i])) /\ r \in Request
        /\ IsInjective(Reqs(Tail(out_port[i])))
        /\ Range(Reqs(Tail(out_port[i]))) = Range(Reqs(out_port[i])) \ {r}
    BY <1>1, ReqsLose
  <2>2. \A k \in Wire : out_port'[k] = IF k = i THEN Tail(out_port[i]) ELSE out_port[k]
    BY <1>1
  <2> HIDE DEF r
  <2> QED BY <1>1, <2>1, <2>2
<1>4. Req(o.msg) = r
  BY <1>2
<1> HIDE DEF r, m
<1>5. Lies(r, "to", i) /\ \A p \in in_transit_messages : Req(p.msg) # r
  <2>1. Lies(r, "to", i)
    BY <1>3, LiesIs
  <2>2. ASSUME NEW p \in in_transit_messages, Req(p.msg) = r PROVE FALSE
    <3>1. Lies(r, "transit", 0)
      BY <2>2, LiesIs
    <3> QED BY <1>3, <2>1, <3>1 DEF PlaceInv, OneSpot
  <2> QED BY <2>1, <2>2
<1>6. \A q : (\E p \in in_transit_messages' : Req(p.msg) = q) <=>
               q = r \/ \E p \in in_transit_messages : Req(p.msg) = q
  BY <1>2, <1>4
<1>7. ASSUME NEW q \in Request, NEW c \in Spot, NEW k
      PROVE  Lies(q, c, k)' <=> \/ q \in {r} /\ c = "transit" /\ k = 0
                                \/ Lies(q, c, k) /\ ~(q \in {r} /\ c = "to" /\ k = i)
  <2>1. CASE c = "to"
    BY <1>3, <2>1, LiesIs, LiesIsNext
  <2>2. CASE c = "transit"
    BY <1>6, <2>2, LiesIs, LiesIsNext
  <2>3. CASE c \in Spot \ {"to", "transit"}
    BY <1>1, <2>3, LiesIs, LiesIsNext DEF Spot
  <2> QED BY <2>1, <2>2, <2>3
<1>8. NoTwins'
  <2>1. \A p, q \in in_transit_messages' : Req(p.msg) = Req(q.msg) => p = q
    BY <1>2, <1>4, <1>5 DEF PlaceInv, NoTwins
  <2> QED BY <1>1, <1>3, <2>1, NoTwinsNext DEF PlaceInv, NoTwins
<1>9. Goes({r}, "to", i, "transit", 0)
  BY <1>3, <1>5, <1>7 DEF Goes
<1> QED BY <1>8, <1>9 DEF r, m

LEMMA DeliverGoes ==
  ASSUME MemoryTypes, PlaceInv, UNCHANGED <<cacheOnly, unsent>>,
         NEW o \in in_transit_messages, in_transit_messages' = in_transit_messages \ {o},
         in_port' = [in_port EXCEPT ![TargetPort[o.msg]] = Append(@, o.msg)],
         UNCHANGED out_port
  PROVE  Goes({Req(o.msg)}, "transit", 0, "from", TargetPort[o.msg]) /\ NoTwins'
<1> DEFINE i == TargetPort[o.msg]
           r == Req(o.msg)
<1>1. /\ i \in Wire /\ o.msg \in Message /\ r \in Request
      /\ in_port' = [in_port EXCEPT ![i] = Append(@, o.msg)]
      /\ in_port \in [Wire -> Seq(Message)]
      /\ \A k \in Wire : IsInjective(Reqs(in_port[k]))
      /\ UNCHANGED <<unsent, out_port, tag_to_reqs, ready_reqs>>
  BY MessageIs, ReqIs DEF MemoryTypes, cacheOnly, PlaceInv, NoTwins
<1> HIDE DEF i
<1>2. /\ Lies(r, "transit", 0) /\ r \notin Range(Reqs(in_port[i]))
      /\ \A p \in in_transit_messages : Req(p.msg) = r <=> p = o
  <2>1. Lies(r, "transit", 0)
    BY LiesIs
  <2>2. r \in Range(Reqs(in_port[i])) => Lies(r, "from", i)
    BY <1>1, LiesIs
  <2>3. \A p \in in_transit_messages : Req(p.msg) = r <=> p = o
    BY DEF PlaceInv, NoTwins
  <2> HIDE DEF r
  <2> QED BY <1>1, <2>1, <2>2, <2>3 DEF PlaceInv, OneSpot
<1>3. /\ \A k \in Wire : IsInjective(Reqs(in_port'[k]))
      /\ \A q : \A k \in Wire :
           q \in Range(Reqs(in_port'[k])) <=> (q = r /\ k = i) \/ q \in Range(Reqs(in_port[k]))
  <2>1. /\ IsInjective(Reqs(Append(in_port[i], o.msg)))
        /\ Range(Reqs(Append(in_port[i], o.msg))) = Range(Reqs(in_port[i])) \cup {r}
    BY <1>1, <1>2, ReqsGain
  <2>2. \A k \in Wire : in_port'[k] = IF k = i THEN Append(in_port[i], o.msg) ELSE in_port[k]
    BY <1>1
  <2> QED BY <1>1, <2>1, <2>2
<1> HIDE DEF r
<1>4. \A q : (\E p \in in_transit_messages' : Req(p.msg) = q) <=>
               q # r /\ \E p \in in_transit_messages : Req(p.msg) = q
  BY <1>2
<1>5. ASSUME NEW q \in Request, NEW c \in Spot, NEW k
      PROVE  Lies(q, c, k)' <=> \/ q \in {r} /\ c = "from" /\ k = i
                                \/ Lies(q, c, k) /\ ~(q \in {r} /\ c = "transit" /\ k = 0)
  <2>1. CASE c = "from"
    BY <1>1, <1>3, <2>1, LiesIs, LiesIsNext
  <2>2. CASE c = "transit"
    BY <1>4, <2>2, LiesIs, LiesIsNext
  <2>3. CASE c \in Spot \ {"from", "transit"}
    BY <1>1, <2>3, LiesIs, LiesIsNext DEF Spot
  <2> QED BY <2>1, <2>2, <2>3
<1>6. NoTwins'
  BY NoTwinsNext, <1>1, <1>3 DEF PlaceInv, NoTwins
<1>7. Goes({r}, "transit", 0, "from", i)
  BY <1>1, <1>2, <1>5 DEF Goes
<1> QED BY <1>6, <1>7 DEF i, r

LEMMA AccessGoes ==
  ASSUME MemoryTypes, PlaceInv, UNCHANGED <<networkOnly, unsent>>,
         NEW i \in Port, Access(i)
  PROVE  Goes({Req(Head(in_port[i]))}, "from", i, "wait",
              Tag(Addr[Head(in_port[i])])) /\ NoTwins'
<1> DEFINE r == Head(in_port[i])
           t == Tag(Addr[r])
<1>1. /\ i \in Wire /\ in_port[i] # <<>> /\ r \in Request /\ Req(r) = r
      /\ in_port' = [in_port EXCEPT ![i] = Tail(@)]
      /\ in_port \in [Wire -> Seq(Message)]
      /\ \A k \in Wire : IsInjective(Reqs(in_port[k]))
      /\ UNCHANGED <<unsent, out_port, in_transit_messages, ready_reqs>>
  <2>1. i \in Wire /\ in_port[i] # <<>>
    BY WireIs DEF Access, CanAccess
  <2>2. r \in Request
    BY <2>1, TakenFromWire, WireTypes
  <2>3. in_port \in [Wire -> Seq(Message)] /\ \A k \in Wire : IsInjective(Reqs(in_port[k]))
    BY DEF MemoryTypes, PlaceInv, NoTwins
  <2> HIDE DEF t
  <2> QED BY <2>1, <2>2, <2>3, ReqIs DEF Access, Received, networkOnly
<1>2. /\ r \in Range(Reqs(in_port[i]))
      /\ \A k \in Wire : IsInjective(Reqs(in_port'[k]))
      /\ \A q : \A k \in Wire :
           q \in Range(Reqs(in_port'[k])) <=>
             q \in Range(Reqs(in_port[k])) /\ ~(q = r /\ k = i)
  <2>1. /\ r \in Range(Reqs(in_port[i]))
        /\ IsInjective(Reqs(Tail(in_port[i])))
        /\ Range(Reqs(Tail(in_port[i]))) = Range(Reqs(in_port[i])) \ {r}
    BY <1>1, ReqsLose
  <2>2. \A k \in Wire : in_port'[k] = IF k = i THEN Tail(in_port[i]) ELSE in_port[k]
    BY <1>1
  <2> HIDE DEF r
  <2> QED BY <1>1, <2>1, <2>2
<1>3. Lies(r, "from", i)
  BY <1>1, <1>2, LiesIs
<1>4. /\ DOMAIN tag_to_reqs' = DOMAIN tag_to_reqs \cup {t}
      /\ \A u \in DOMAIN tag_to_reqs' : u # t => tag_to_reqs'[u] = tag_to_reqs[u]
      /\ IsInjective(tag_to_reqs'[t])
      /\ Range(tag_to_reqs'[t]) =
           (IF t \in DOMAIN tag_to_reqs THEN Range(tag_to_reqs[t]) ELSE {}) \cup {r}
  <2>1. CASE Joins(r)
    <3>1. t \in DOMAIN tag_to_reqs /\ tag_to_reqs' = [tag_to_reqs EXCEPT ![t] = Append(@, r)]
      BY <2>1 DEF Access, Joins
    <3> HIDE DEF t, r
    <3>2. r \notin Range(tag_to_reqs[t])
      <4>1. r \in Range(tag_to_reqs[t]) => Lies(r, "wait", t)
        BY <3>1, LiesIs
      <4> QED BY <1>1, <1>3, <4>1 DEF PlaceInv, OneSpot
    <3>3. /\ Range(Append(tag_to_reqs[t], r)) = Range(tag_to_reqs[t]) \cup {r}
          /\ IsInjective(Append(tag_to_reqs[t], r))
      <4>1. tag_to_reqs[t] \in Seq(Request) /\ IsInjective(tag_to_reqs[t])
        BY <3>1 DEF MemoryTypes, PlaceInv, NoTwins
      <4> QED BY <1>1, <3>2, <4>1, AppendRange
    <3> QED BY <3>1, <3>3
  <2>2. CASE ~Joins(r)
    <3>1. /\ t \notin DOMAIN tag_to_reqs
          /\ tag_to_reqs' = [u \in DOMAIN tag_to_reqs \cup {t} |->
                               IF u = t THEN <<r>> ELSE tag_to_reqs[u]]
      BY <2>2 DEF Access, Joins
    <3> HIDE DEF t, r
    <3>2. Range(<<r>>) = {r} /\ IsInjective(<<r>>)
      BY DEF Range, IsInjective
    <3> QED BY <3>1, <3>2
  <2> QED BY <2>1, <2>2
<1>5. t = Tag(Addr[Head(in_port[i])]) /\ r = Req(Head(in_port[i]))
  BY <1>1
<1> HIDE DEF r, t
<1>6. ASSUME NEW q \in Request, NEW c \in Spot, NEW k
      PROVE  Lies(q, c, k)' <=> \/ q \in {r} /\ c = "wait" /\ k = t
                                \/ Lies(q, c, k) /\ ~(q \in {r} /\ c = "from" /\ k = i)
  <2>1. CASE c = "from"
    BY <1>2, <2>1, LiesIs, LiesIsNext
  <2>2. CASE c = "wait"
    BY <1>4, <2>2, LiesIs, LiesIsNext
  <2>3. CASE c \in Spot \ {"from", "wait"}
    BY <1>1, <2>3, LiesIs, LiesIsNext DEF Spot
  <2> QED BY <2>1, <2>2, <2>3
<1>7. NoTwins'
  BY NoTwinsNext, <1>1, <1>2, <1>4 DEF PlaceInv, NoTwins
<1>8. Goes({r}, "from", i, "wait", t)
  BY <1>1, <1>3, <1>6 DEF Goes
<1> QED BY <1>5, <1>7, <1>8

LEMMA CompleteGoes ==
  ASSUME MemoryTypes, PlaceInv, UNCHANGED <<networkOnly, unsent>>, Complete
  PROVE  (\E X, t : Goes(X, "wait", t, "ready", 0)) /\ NoTwins'
<1>1. PICK o \in on_going_reqs :
        /\ ready_reqs' = ready_reqs \o tag_to_reqs[o.tag]
        /\ tag_to_reqs' = [t \in DOMAIN tag_to_reqs \ {o.tag} |-> tag_to_reqs[t]]
  BY DEF Complete
<1>2. PICK t : t = o.tag
  OBVIOUS
<1>3. PICK X : X = Range(tag_to_reqs[t])
  OBVIOUS
<1>4. /\ t \in DOMAIN tag_to_reqs /\ tag_to_reqs[t] \in Seq(Request)
      /\ ready_reqs \in Seq(Request) /\ IsInjective(tag_to_reqs[t]) /\ IsInjective(ready_reqs)
      /\ UNCHANGED <<unsent, out_port, in_port, in_transit_messages>>
  BY <1>2 DEF MemoryTypes, PlaceInv, NoTwins, Complete, networkOnly
<1>5. X \subseteq Request /\ \A r \in X : Lies(r, "wait", t)
  <2>1. X \subseteq Request
    BY <1>3, <1>4, RangeOfSeq
  <2> QED BY <1>3, <1>4, <2>1, LiesIs
<1>6. X \cap Range(ready_reqs) = {}
  <2>1. \A r \in Range(ready_reqs) : Lies(r, "ready", 0)
    BY LiesIs
  <2> QED BY <1>5, <2>1 DEF PlaceInv, OneSpot
<1>7. IsInjective(ready_reqs') /\ Range(ready_reqs') = Range(ready_reqs) \cup X
  <2>1. IsInjective(ready_reqs \o tag_to_reqs[t])
    BY <1>3, <1>4, <1>6, ConcatInjective
  <2>2. Range(ready_reqs \o tag_to_reqs[t]) = Range(ready_reqs) \cup Range(tag_to_reqs[t])
    BY <1>4, RangeConcatenation
  <2> QED BY <1>1, <1>2, <1>3, <2>1, <2>2
<1>8. /\ DOMAIN tag_to_reqs' = DOMAIN tag_to_reqs \ {t}
      /\ \A u \in DOMAIN tag_to_reqs' : tag_to_reqs'[u] = tag_to_reqs[u]
  BY <1>1, <1>2
<1>9. NoTwins'
  BY <1>4, <1>7, <1>8, NoTwinsNext DEF PlaceInv, NoTwins
<1>10. ASSUME NEW q \in Request, NEW c \in Spot, NEW k
       PROVE  Lies(q, c, k)' <=> \/ q \in X /\ c = "ready" /\ k = 0
                                 \/ Lies(q, c, k) /\ ~(q \in X /\ c = "wait" /\ k = t)
  <2>1. CASE c = "ready"
    BY <1>7, <2>1, LiesIs, LiesIsNext
  <2>2. CASE c = "wait"
    BY <1>3, <1>8, <2>2, LiesIs, LiesIsNext
  <2>3. CASE c \in Spot \ {"ready", "wait"}
    BY <1>4, <2>3, LiesIs, LiesIsNext DEF Spot
  <2> QED BY <2>1, <2>2, <2>3
<1>11. Goes(X, "wait", t, "ready", 0)
  BY <1>5, <1>10 DEF Goes
<1> QED BY <1>9, <1>11

LEMMA PushGoes ==
  ASSUME MemoryTypes, PlaceInv, UNCHANGED <<networkOnly, unsent>>, Push
  PROVE  (\E r : \E i \in Port : Goes({r}, "ready", 0, "to", i)) /\ NoTwins'
<1> DEFINE r == Head(ready_reqs)
           i == MemId[r]
           m == Answer(r)
<1>1. /\ ready_reqs \in Seq(Request) /\ ready_reqs # <<>> /\ ready_reqs' = Tail(ready_reqs)
      /\ out_port' = [out_port EXCEPT ![i] = Append(@, m)]
      /\ out_port \in [Wire -> Seq(Message)] /\ IsInjective(ready_reqs)
      /\ \A k \in Wire : IsInjective(Reqs(out_port[k]))
      /\ UNCHANGED <<unsent, in_port, in_transit_messages, tag_to_reqs>>
  BY DEF Push, CanPush, Sent, networkOnly, MemoryTypes, PlaceInv, NoTwins
<1>2. /\ r \in Request /\ r \in Range(ready_reqs) /\ IsInjective(Tail(ready_reqs))
      /\ Range(Tail(ready_reqs)) = Range(ready_reqs) \ {r}
  BY <1>1, ReceivedType, TailRange
<1>3. i \in Port /\ i \in Wire /\ m \in Message /\ Req(m) = r
  BY <1>2, MessageIs, ReqIs, WireIs
<1> HIDE DEF m, i, r
<1>4. Lies(r, "ready", 0) /\ r \notin Range(Reqs(out_port[i]))
  <2>1. Lies(r, "ready", 0) /\ (r \in Range(Reqs(out_port[i])) => Lies(r, "to", i))
    BY <1>2, <1>3, LiesIs
  <2> QED BY <1>2, <2>1 DEF PlaceInv, OneSpot
<1>5. /\ \A k \in Wire : IsInjective(Reqs(out_port'[k]))
      /\ \A q : \A k \in Wire :
           q \in Range(Reqs(out_port'[k])) <=> (q = r /\ k = i) \/ q \in Range(Reqs(out_port[k]))
  <2>1. /\ IsInjective(Reqs(Append(out_port[i], m)))
        /\ Range(Reqs(Append(out_port[i], m))) = Range(Reqs(out_port[i])) \cup {r}
    BY <1>1, <1>3, <1>4, ReqsGain
  <2>2. \A k \in Wire : out_port'[k] = IF k = i THEN Append(out_port[i], m) ELSE out_port[k]
    BY <1>1
  <2> QED BY <1>1, <1>3, <2>1, <2>2
<1>6. ASSUME NEW q \in Request, NEW c \in Spot, NEW k
      PROVE  Lies(q, c, k)' <=> \/ q \in {r} /\ c = "to" /\ k = i
                                \/ Lies(q, c, k) /\ ~(q \in {r} /\ c = "ready" /\ k = 0)
  <2>1. CASE c = "to"
    BY <1>3, <1>5, <2>1, LiesIs, LiesIsNext
  <2>2. CASE c = "ready"
    BY <1>1, <1>2, <2>2, LiesIs, LiesIsNext
  <2>3. CASE c \in Spot \ {"to", "ready"}
    BY <1>1, <2>3, LiesIs, LiesIsNext DEF Spot
  <2> QED BY <2>1, <2>2, <2>3
<1>7. NoTwins'
  BY NoTwinsNext, <1>1, <1>2, <1>5 DEF PlaceInv, NoTwins
<1>8. Goes({r}, "ready", 0, "to", i)
  BY <1>2, <1>4, <1>6 DEF Goes
<1> QED BY <1>3, <1>7, <1>8
-----------------------------------------------------------------------------
(* The service that the two keep together.                                  *)

Out == [p \in Pe |-> out_port[PortOf(p)]]
In == [p \in Pe |-> [i \in DOMAIN in_port[PortOf(p)] |->
                          in_port[PortOf(p)][i].answer]]

\* What comes to a processing element is answers, each of a request.
LEMMA InIs ==
  ASSUME MemoryTypes
  PROVE  In = [p \in Pe |-> Reqs(in_port[PortOf(p)])]
<1>1. ASSUME NEW p \in Pe, NEW k \in DOMAIN in_port[PortOf(p)]
      PROVE  Req(in_port[PortOf(p)][k]) = in_port[PortOf(p)][k].answer
  <2>1. /\ in_port[PortOf(p)] \in Seq(Arriving[PortOf(p)])
        /\ \A m \in Arriving[PortOf(p)] : IsAnswer(m)
    BY WireIs, WireTypes
  <2> QED BY <2>1, LenProperties, ElementOfSeq DEF Req
<1> QED BY <1>1 DEF In, Reqs

LEMMA InIsNext ==
  ASSUME MemoryTypes'
  PROVE  In' = [p \in Pe |-> Reqs(in_port'[PortOf(p)])]
<1>1. (MemoryTypes => In = [p \in Pe |-> Reqs(in_port[PortOf(p)])])'
  BY InIs, PTL
<1> QED BY <1>1 DEF Pe, PortOf, Reqs, Req, IsAnswer

LEMMA SameMemory ==
  ASSUME MemoryTypes, MemoryTypes', OneSpot,
         NEW X, NEW a, NEW i, NEW b, NEW j, Goes(X, a, i, b, j),
         X = {} \/ (Inside(a, i) <=> b \in Spot /\ Inside(b, j))
  PROVE  Memory' = Memory
<1>1. Memory' = IF b \in Spot /\ Inside(b, j) THEN Memory \cup X ELSE Memory \ X
  BY GoesMemory
<1>2. \A r : r \in Memory <=> r \in Request /\ \E c, k : Inside(c, k) /\ Lies(r, c, k)
  BY MemoryIs
<1>3. \A r \in X : r \in Request /\ \A c, k : Lies(r, c, k) <=> c = a /\ k = i
  BY DEF Goes, OneSpot
<1> QED BY <1>1, <1>2, <1>3

\* A step between two places inside the memory, or from none to none.
LEMMA InnerStep ==
  ASSUME MemoryTypes, MemoryTypes', PlaceInv,
         NEW X, NEW a, NEW i, NEW b, NEW j, Goes(X, a, i, b, j), NoTwins',
         X = {} \/ (Inside(a, i) /\ b \in Spot /\ Inside(b, j)),
         \A k \in Wire \ Port : out_port'[k] = out_port[k] /\ in_port'[k] = in_port[k]
  PROVE  PlaceInv' /\ UNCHANGED Promise!serviceVars
<1>1. OneSpot'
  BY GoesOneSpot DEF PlaceInv
<1>2. Memory' = Memory
  BY SameMemory DEF PlaceInv
<1>3. \A p \in Pe : /\ out_port'[PortOf(p)] = out_port[PortOf(p)]
                    /\ in_port'[PortOf(p)] = in_port[PortOf(p)]
  BY WireIs
<1>4. UNCHANGED Promise!serviceVars
  BY <1>2, <1>3 DEF Promise!serviceVars
<1> QED BY <1>1, <1>4 DEF PlaceInv

LEMMA OutIs ==
  ASSUME MemoryTypes, NEW p \in Pe
  PROVE  /\ PortOf(p) \in Wire /\ PortOf(p) \notin Port
         /\ Out[p] = out_port[PortOf(p)] /\ Out[p] \in Seq(Request)
         /\ In[p] = Reqs(in_port[PortOf(p)]) /\ In[p] \in Seq(Request)
         /\ Len(In[p]) = Len(in_port[PortOf(p)])
         /\ \A q \in Pe : PortOf(p) = PortOf(q) => p = q
<1>1. PortOf(p) \in Wire /\ ~(PortOf(p) < NPorts) /\ PortOf(p) \notin Port
  BY WireIs
<1>2. Leaving[PortOf(p)] = Request
  BY <1>1 DEF Leaving
<1>3. \A q \in Pe : PortOf(p) = PortOf(q) => p = q
  BY WireIs DEF Pe
<1> QED BY <1>1, <1>2, <1>3, InIs, WireTypes, ReqsType DEF Out

LEMMA NoAnswerGiven ==
  LET a == [q \in Pe |-> <<>>] IN
  a \in Promise!Answers /\ Promise!Delivered(a) = {}
BY EmptySeq DEF Promise!Answers, Promise!Deliveries, Promise!Delivered, Promise!ToSet

LEMMA OneAnswerGiven ==
  ASSUME MemoryTypes, NEW p \in Pe, NEW r \in Memory, PeOf[r] = p,
         Len(In[p]) < ChannelSize
  PROVE  LET a == [q \in Pe |-> IF q = p THEN <<r>> ELSE <<>>] IN
         a \in Promise!Answers /\ Promise!Delivered(a) = {r}
<1> DEFINE a == [q \in Pe |-> IF q = p THEN <<r>> ELSE <<>>]
           held == {q \in Memory : PeOf[q] = p}
           n == ChannelSize - Len(In[p])
<1>1. Len(In[p]) \in Nat /\ n \in Nat \ {0}
  BY OutIs, LenProperties, PortsAssumption
<1>2. <<r>> \in Promise!SeqOf(held, n) /\ Promise!IsInjective(<<r>>)
  <2>1. <<r>> \in [1 .. 1 -> held] /\ 1 \in 0 .. n
    BY <1>1
  <2>2. <<r>> \in UNION {[1 .. k -> held] : k \in 0 .. n}
    BY <2>1
  <2> QED BY <2>2 DEF Promise!SeqOf, Promise!IsInjective
<1>3. a \in Promise!Answers
  <2> DEFINE heldFor == [q \in Pe |-> {s \in Memory : PeOf[s] = q}]
             To(q) == {<<>>} \cup {s \in Promise!SeqOf(heldFor[q], ChannelSize - Len(In[q])) :
                                    Promise!IsInjective(s)}
  <2>1. Promise!Answers = {f \in [Pe -> UNION {To(q) : q \in Pe}] : \A q \in Pe : f[q] \in To(q)}
    BY DEF Promise!Answers, Promise!Deliveries, In
  <2>2. \A q \in Pe : a[q] \in To(q)
    BY <1>2
  <2> HIDE DEF To
  <2>3. a \in [Pe -> UNION {To(q) : q \in Pe}]
    BY <2>2
  <2> QED BY <2>1, <2>2, <2>3
<1>4. Promise!ToSet(<<r>>) = {r} /\ Promise!ToSet(<<>>) = {}
  BY DEF Promise!ToSet
<1>5. Promise!Delivered(a) = {r}
  BY <1>4 DEF Promise!Delivered
<1> QED BY <1>3, <1>5

LEMMA SendServes ==
  ASSUME MemoryTypes, MemoryTypes', PlaceInv,
         NEW p \in Pe, NEW r \in Request, Send(p, r)
  PROVE  PlaceInv' /\ Promise!Send(p)
<1>1. Goes({r}, "unsent", 0, "to", PortOf(p)) /\ NoTwins'
  BY SendGoes
<1>2. PlaceInv'
  BY <1>1, GoesOneSpot DEF PlaceInv
<1>3. Memory' = Memory
  <2>1. ~Inside("unsent", 0) /\ ~Inside("to", PortOf(p))
    BY OutIs DEF Inside
  <2> QED BY <1>1, <2>1, SameMemory DEF PlaceInv
<1>4. /\ Len(Out[p]) < ChannelSize /\ Out' = [Out EXCEPT ![p] = Append(@, r)]
      /\ UNCHANGED In
  <2>1. /\ out_port' = [out_port EXCEPT ![PortOf(p)] = Append(@, r)]
        /\ Len(out_port[PortOf(p)]) < ChannelSize /\ UNCHANGED in_port
    BY DEF Send, Sent, HaveSpace
  <2>2. \A q \in Pe : out_port'[PortOf(q)] =
          IF q = p THEN Append(Out[p], r) ELSE out_port[PortOf(q)]
    BY <2>1, OutIs DEF MemoryTypes
  <2>3. Out' = [q \in Pe |-> out_port'[PortOf(q)]]
    BY DEF Out, Pe, PortOf
  <2>4. Out' = [q \in Pe |-> IF q = p THEN Append(Out[p], r) ELSE Out[q]]
    BY <2>2, <2>3, OutIs
  <2>5. Out = [q \in Pe |-> Out[q]] /\ UNCHANGED In
    BY <2>1 DEF Out, In
  <2> QED BY <2>1, <2>4, <2>5, OutIs
<1>5. Out'[p] = Append(Out[p], r) /\ Out'[p] # <<>> /\ Promise!Last(Out'[p]) = r
  <2>1. Out'[p] = Append(Out[p], r) /\ Out[p] \in Seq(Request)
    BY <1>4, OutIs DEF Out
  <2>2. /\ Append(Out[p], r) \in Seq(Request) /\ Len(Append(Out[p], r)) = Len(Out[p]) + 1
        /\ Append(Out[p], r)[Len(Out[p]) + 1] = r /\ Len(Out[p]) \in Nat
    BY <2>1, AppendProperties, LenProperties
  <2> QED BY <2>1, <2>2, EmptySeq DEF Promise!Last
<1>6. /\ Promise!HaveSpace(Out[p], ChannelSize)
      /\ Out' = [Out EXCEPT ![p] = Promise!Sent(@, Promise!Last(Out'[p]))]
  BY <1>4, <1>5 DEF Promise!HaveSpace, Promise!Sent
<1>7. Promise!Send(p)
  BY <1>3, <1>4, <1>5, <1>6 DEF Promise!Send, Out, In
<1> QED BY <1>2, <1>7

LEMMA ReceiveServes ==
  ASSUME MemoryTypes, MemoryTypes', PlaceInv, NEW p \in Pe, Receive(p)
  PROVE  PlaceInv' /\ Promise!Receive(p)
<1>1. PICK r \in Request : Goes({r}, "from", PortOf(p), "gone", 0)
  BY ReceiveGoes
<1>2. PlaceInv'
  BY <1>1, ReceiveGoes, GoesOneSpot DEF PlaceInv
<1>3. Memory' = Memory
  <2>1. ~Inside("from", PortOf(p)) /\ "gone" \notin Spot
    BY OutIs DEF Inside, Spot
  <2> QED BY <1>1, <2>1, SameMemory DEF PlaceInv
<1>4. In[p] # <<>> /\ In' = [In EXCEPT ![p] = Tail(@)] /\ UNCHANGED Out
  <2>1. /\ in_port' = [in_port EXCEPT ![PortOf(p)] = Tail(@)]
        /\ in_port[PortOf(p)] # <<>> /\ UNCHANGED out_port
        /\ in_port[PortOf(p)] \in Seq(Message)
    BY OutIs, WireTypes DEF Receive, Received
  <2>2. /\ Reqs(Tail(in_port[PortOf(p)])) = Tail(In[p]) /\ In[p] # <<>>
    BY <2>1, OutIs, ReqsTail
  <2>3. \A q \in Pe : in_port'[PortOf(q)] =
          IF q = p THEN Tail(in_port[PortOf(p)]) ELSE in_port[PortOf(q)]
    BY <2>1, OutIs DEF MemoryTypes
  <2>4. \A q \in Pe : Reqs(in_port'[PortOf(q)]) = IF q = p THEN Tail(In[p]) ELSE In[q]
    BY <2>2, <2>3, OutIs
  <2>5. In' = [q \in Pe |-> IF q = p THEN Tail(In[p]) ELSE In[q]]
    BY <2>4, InIsNext
  <2>6. In = [q \in Pe |-> In[q]]
    BY DEF In
  <2> QED BY <2>1, <2>2, <2>5, <2>6 DEF Out
<1>5. Promise!Receive(p)
  BY <1>3, <1>4 DEF Promise!Receive, Promise!Received, Out, In
<1> QED BY <1>2, <1>5

LEMMA TakeServes ==
  ASSUME MemoryTypes, MemoryTypes', PlaceInv,
         UNCHANGED <<cacheOnly, unsent>>, NEW i \in Wire, Network!Take(i)
  PROVE  PlaceInv' /\ [Promise!ServiceNext]_Promise!serviceVars
<1> DEFINE r == Req(Head(out_port[i]))
<1>1. Goes({r}, "to", i, "transit", 0) /\ NoTwins'
  BY TakeGoes
<1>2. out_port[i] # <<>> /\ out_port' = [out_port EXCEPT ![i] = Tail(@)] /\ UNCHANGED in_port
  BY DEF Network!Take, Network!Received
<1>3. Inside("transit", 0) /\ "transit" \in Spot /\ (i \in Port => Inside("to", i))
  BY DEF Inside, Spot
<1>4. CASE i \in Port
  <2>1. \A k \in Wire \ Port : out_port'[k] = out_port[k] /\ in_port'[k] = in_port[k]
    BY <1>2, <1>4 DEF MemoryTypes
  <2> HIDE DEF r
  <2> QED BY <1>1, <1>3, <1>4, <2>1, InnerStep
<1>5. CASE i \notin Port
  <2>1. PICK p \in Pe : PortOf(p) = i
    BY <1>5, WireIs
  <2>2. /\ Out[p] # <<>> /\ r = Head(Out[p])
        /\ Out' = [q \in Pe |-> IF q \in {p} THEN Tail(Out[q]) ELSE Out[q]]
        /\ UNCHANGED In
    <3>1. Out[p] = out_port[i] /\ Head(out_port[i]) \in Request
      BY <1>2, <2>1, OutIs, ReceivedType
    <3>2. r = Head(Out[p])
      BY <3>1, ReqIs
    <3>3. \A q \in Pe : out_port'[PortOf(q)] = IF q = p THEN Tail(Out[q]) ELSE Out[q]
      BY <1>2, <2>1, <3>1, OutIs DEF MemoryTypes
    <3>4. Out' = [q \in Pe |-> out_port'[PortOf(q)]]
      BY DEF Out, Pe, PortOf
    <3> QED BY <1>2, <3>1, <3>2, <3>3, <3>4 DEF In
  <2> HIDE DEF r
  <2>3. Memory' = Memory \cup {r}
    BY <1>1, <1>3, GoesMemory DEF PlaceInv
  <2> DEFINE a == [q \in Pe |-> <<>>]
  <2>4. a \in Promise!Answers /\ Promise!Delivered(a) = {}
    BY NoAnswerGiven
  <2>5. In' = [q \in Pe |-> In[q] \o a[q]]
    <3>1. \A q \in Pe : In[q] \o a[q] = In[q]
      BY OutIs
    <3>2. In = [q \in Pe |-> In[q]]
      BY DEF In
    <3> QED BY <2>2, <3>1, <3>2
  <2> HIDE DEF a
  <2>6. /\ \A q \in {p} : Out[q] # <<>>
        /\ Memory' = (Memory \ Promise!Delivered(a)) \cup {Head(Out[q]) : q \in {p}}
        /\ Out' = [q \in Pe |-> IF q \in {p} THEN Promise!Received(Out[q]) ELSE Out[q]]
    BY <2>2, <2>3, <2>4 DEF Promise!Received
  <2>7. Promise!Serve({p}, a)
    BY <2>5, <2>6 DEF Promise!Serve, Out, In
  <2>8. Promise!ServiceNext
    BY <2>4, <2>7 DEF Promise!ServiceNext
  <2>9. PlaceInv'
    BY <1>1, GoesOneSpot DEF PlaceInv
  <2> QED BY <2>8, <2>9
<1> QED BY <1>4, <1>5

LEMMA DeliverServes ==
  ASSUME MemoryTypes, MemoryTypes', PlaceInv,
         UNCHANGED <<cacheOnly, unsent>>, Network!Deliver
  PROVE  PlaceInv' /\ [Promise!ServiceNext]_Promise!serviceVars
<1>1. PICK o \in in_transit_messages :
        /\ Len(in_port[TargetPort[o.msg]]) < ChannelSize
        /\ in_port' = [in_port EXCEPT ![TargetPort[o.msg]] = Append(@, o.msg)]
        /\ in_transit_messages' = in_transit_messages \ {o} /\ UNCHANGED out_port
  BY DEF Network!Deliver, Network!Sent, Network!HaveSpaceFor, Network!HaveSpace
<1> DEFINE r == Req(o.msg)
           i == TargetPort[o.msg]
<1>2. Goes({r}, "transit", 0, "from", i) /\ NoTwins'
  BY <1>1, DeliverGoes
<1>3. o.msg \in Message /\ i \in Wire /\ r \in Request
  BY MessageIs, ReqIs DEF MemoryTypes
<1>4. Inside("transit", 0) /\ "from" \in Spot /\ (Inside("from", i) <=> i \in Port)
  BY DEF Inside, Spot
<1>5. CASE i \in Port
  <2>1. \A k \in Wire \ Port : out_port'[k] = out_port[k] /\ in_port'[k] = in_port[k]
    BY <1>1, <1>5 DEF MemoryTypes
  <2> HIDE DEF r, i
  <2> QED BY <1>2, <1>4, <1>5, <2>1, InnerStep
<1>6. CASE i \notin Port
  <2> DEFINE p == PeOf[r]
  <2>1. p \in Pe /\ PortOf(p) = i
    <3>1. ~IsAnswer(o.msg) => i \in Port
      BY <1>3, MessageIs
    <3>2. o.msg = Answer(r)
      BY <1>3, <1>6, <3>1, ReqIs
    <3> HIDE DEF r
    <3> QED BY <1>3, <3>2, MessageIs
  <2>2. /\ Len(In[p]) < ChannelSize /\ Out' = Out
        /\ In' = [q \in Pe |-> IF q = p THEN In[q] \o <<r>> ELSE In[q]]
    <3>1. Len(In[p]) < ChannelSize /\ in_port[i] \in Seq(Message) /\ In[p] = Reqs(in_port[i])
      BY <1>1, <1>3, <2>1, OutIs, WireTypes
    <3>2. Reqs(Append(in_port[i], o.msg)) = In[p] \o <<r>>
      <4>1. Reqs(Append(in_port[i], o.msg)) = Append(In[p], r)
        BY <1>3, <3>1, ReqsAppend
      <4>2. In[p] \in Seq(Request)
        BY <2>1, OutIs
      <4> HIDE DEF r, p
      <4> QED BY <1>3, <4>1, <4>2, AppendIsConcat
    <3> HIDE DEF r, p
    <3>3. \A q \in Pe : in_port'[PortOf(q)] =
            IF q = p THEN Append(in_port[i], o.msg) ELSE in_port[PortOf(q)]
      <4>1. \A k \in Wire : in_port'[k] =
              IF k = i THEN Append(in_port[i], o.msg) ELSE in_port[k]
        BY <1>1, <1>3 DEF MemoryTypes
      <4> HIDE DEF i
      <4> QED BY <2>1, <4>1, OutIs
    <3>4. \A q \in Pe : Reqs(in_port'[PortOf(q)]) = IF q = p THEN In[q] \o <<r>> ELSE In[q]
      BY <3>2, <3>3, OutIs
    <3>5. In' = [q \in Pe |-> IF q = p THEN In[q] \o <<r>> ELSE In[q]]
      BY <3>4, InIsNext
    <3> QED BY <1>1, <3>1, <3>5 DEF Out
  <2>3. r \in Memory
    BY <1>2, <1>3, <1>4, MemoryIs DEF Goes
  <2> DEFINE a == [q \in Pe |-> IF q = p THEN <<r>> ELSE <<>>]
  <2>4. a \in Promise!Answers /\ Promise!Delivered(a) = {r}
    <3> HIDE DEF r
    <3> QED BY <2>1, <2>2, <2>3, OneAnswerGiven
  <2> HIDE DEF r, i, p
  <2>5. Memory' = Memory \ {r}
    BY <1>2, <1>4, <1>6, GoesMemory DEF PlaceInv
  <2>6. In' = [q \in Pe |-> In[q] \o a[q]]
    <3>1. \A q \in Pe : In[q] \o <<>> = In[q]
      BY OutIs
    <3> QED BY <2>2, <3>1
  <2> HIDE DEF a
  <2>7. Out' = [q \in Pe |-> IF q \in {} THEN Promise!Received(Out[q]) ELSE Out[q]]
    BY <2>2 DEF Out
  <2>8. Memory' = (Memory \ Promise!Delivered(a)) \cup {Head(Out[q]) : q \in {}}
    BY <2>4, <2>5
  <2>9. Promise!Serve({}, a)
    BY <2>6, <2>7, <2>8 DEF Promise!Serve, Out, In
  <2>10. Promise!ServiceNext
    BY <2>4, <2>9 DEF Promise!ServiceNext
  <2>11. PlaceInv'
    BY <1>2, GoesOneSpot DEF PlaceInv
  <2> QED BY <2>10, <2>11
<1> QED BY <1>5, <1>6

\* A step of the network that carries no message: the places of the requests
\* are the same, although the messages are.
LEMMA NetworkRests ==
  ASSUME MemoryTypes, NoTwins, UNCHANGED <<cacheOnly, unsent>>,
         \/ \E d \in Elapsed : Network!Call(d)
         \/ \E i \in Wire : Network!SkipPort(i)
         \/ Network!DeliverEnds
  PROVE  Goes({}, "gone", 0, "gone", 0) /\ NoTwins' /\ UNCHANGED <<out_port, in_port>>
<1>1. CASE \E d \in Elapsed : Network!Call(d)
  <2>1. PICK d \in Elapsed : Network!Call(d)
    BY <1>1
  <2>2. /\ UNCHANGED <<unsent, out_port, in_port, tag_to_reqs, ready_reqs>>
        /\ in_transit_messages' = Network!Aged(in_transit_messages, d)
    BY <2>1 DEF Network!Call, cacheOnly
  <2>3. \A o, p \in in_transit_messages : o.msg = p.msg => o = p
    BY DEF NoTwins
  <2>4. \A o \in in_transit_messages : o = [msg |-> o.msg, left |-> o.left]
    BY DEF MemoryTypes
  <2>5. /\ \A q \in in_transit_messages' : \E o \in in_transit_messages : q.msg = o.msg
        /\ \A o \in in_transit_messages : \E q \in in_transit_messages' : q.msg = o.msg
        /\ \A o, p \in in_transit_messages' : o.msg = p.msg => o = p
    BY <2>2, <2>3, <2>4, AgedIs
  <2>6. \A r : (\E o \in in_transit_messages' : Req(o.msg) = r) <=>
                 \E o \in in_transit_messages : Req(o.msg) = r
    BY <2>5
  <2>7. \A o, p \in in_transit_messages' : Req(o.msg) = Req(p.msg) => o = p
    <3> SUFFICES ASSUME NEW o \in in_transit_messages', NEW p \in in_transit_messages',
                        Req(o.msg) = Req(p.msg)
                 PROVE  o = p
      OBVIOUS
    <3>1. PICK u \in in_transit_messages, v \in in_transit_messages : u.msg = o.msg /\ v.msg = p.msg
      BY <2>5
    <3>2. u = v
      BY <3>1 DEF NoTwins
    <3> QED BY <2>5, <3>1, <3>2
  <2>8. NoTwins'
    BY <2>2, <2>7, NoTwinsNext DEF NoTwins
  <2>9. \A r, a, i : a \in Spot => (Lies(r, a, i)' <=> Lies(r, a, i))
    <3> SUFFICES ASSUME NEW r, NEW a \in Spot, NEW i PROVE Lies(r, a, i)' <=> Lies(r, a, i)
      OBVIOUS
    <3>1. CASE a = "transit"
      BY <2>6, <3>1, LiesIs, LiesIsNext
    <3>2. CASE a \in Spot \ {"transit"}
      BY <2>2, <3>2, LiesIs, LiesIsNext DEF Spot
    <3> QED BY <3>1, <3>2
  <2> QED BY <2>2, <2>8, <2>9 DEF Goes
<1>2. CASE \/ \E i \in Wire : Network!SkipPort(i)
           \/ Network!DeliverEnds
  <2>1. UNCHANGED <<out_port, in_port, in_transit_messages, tag_to_reqs, ready_reqs>>
    BY <1>2 DEF Network!SkipPort, Network!DeliverEnds, Network!PutBack, cacheOnly
  <2> QED BY <2>1, NobodyGoes
<1> QED BY <1>1, <1>2

LEMMA NetworkServes ==
  ASSUME MemoryTypes, MemoryTypes', PlaceInv, UpdateNetwork \/ NetworkStep
  PROVE  PlaceInv' /\ [Promise!ServiceNext]_Promise!serviceVars
<1>1. UNCHANGED <<cacheOnly, unsent>>
  BY DEF UpdateNetwork, NetworkStep
<1>2. CASE \/ \E d \in Elapsed : Network!Call(d)
           \/ \E i \in Wire : Network!SkipPort(i)
           \/ Network!DeliverEnds
  <2>1. Goes({}, "gone", 0, "gone", 0) /\ NoTwins' /\ UNCHANGED <<out_port, in_port>>
    BY <1>1, <1>2, NetworkRests DEF PlaceInv
  <2> QED BY <2>1, InnerStep
<1>3. ASSUME NEW i \in Wire, Network!Take(i)
      PROVE  PlaceInv' /\ [Promise!ServiceNext]_Promise!serviceVars
  BY <1>1, <1>3, TakeServes
<1>4. CASE Network!Deliver
  BY <1>1, <1>4, DeliverServes
<1> QED BY <1>2, <1>3, <1>4, WireIs DEF UpdateNetwork, NetworkStep, Network!Step

LEMMA CacheServes ==
  ASSUME MemoryTypes, MemoryTypes', PlaceInv, UpdateCache \/ CacheStep
  PROVE  PlaceInv' /\ UNCHANGED Promise!serviceVars
<1>1. UNCHANGED <<networkOnly, unsent>>
  BY CacheStepIs
<1>2. CASE \/ \E d \in Elapsed : Call(d)
           \/ \E i \in Port : SkipPort(i)
           \/ CompleteEnds
           \/ PushEnds
  <2>1. UNCHANGED <<out_port, in_port, tag_to_reqs, ready_reqs>>
    <3>1. ASSUME PushEnds PROVE ready_reqs' = ready_reqs
      BY <3>1, RetRestores DEF PushEnds, MemoryTypes, RecvThenRet,
         Returned, Received
    <3> QED BY <1>2, <3>1 DEF Call, SkipPort, CompleteEnds, PushEnds
  <2>2. Goes({}, "gone", 0, "gone", 0) /\ NoTwins'
    BY <1>1, <2>1, NobodyGoes DEF PlaceInv, networkOnly
  <2> QED BY <2>1, <2>2, InnerStep
<1>3. ASSUME NEW i \in Port, Access(i) PROVE PlaceInv' /\ UNCHANGED Promise!serviceVars
  <2>1. PICK X, t : Goes(X, "from", i, "wait", t) /\ NoTwins'
    BY <1>1, <1>3, AccessGoes
  <2>2. Inside("from", i) /\ "wait" \in Spot /\ Inside("wait", t)
    BY DEF Inside, Spot
  <2>3. \A k \in Wire \ Port : out_port'[k] = out_port[k] /\ in_port'[k] = in_port[k]
    BY <1>3 DEF Access, MemoryTypes
  <2> QED BY <2>1, <2>2, <2>3, InnerStep
<1>4. ASSUME Complete PROVE PlaceInv' /\ UNCHANGED Promise!serviceVars
  <2>1. PICK X, t : Goes(X, "wait", t, "ready", 0) /\ NoTwins'
    BY <1>1, <1>4, CompleteGoes
  <2>2. Inside("wait", t) /\ "ready" \in Spot /\ Inside("ready", 0)
    BY DEF Inside, Spot
  <2>3. UNCHANGED <<out_port, in_port>>
    BY <1>4 DEF Complete
  <2> QED BY <2>1, <2>2, <2>3, InnerStep
<1>5. ASSUME Push PROVE PlaceInv' /\ UNCHANGED Promise!serviceVars
  <2>1. PICK i \in Port : \E r : Goes({r}, "ready", 0, "to", i)
    BY <1>1, <1>5, PushGoes
  <2>2. PICK r : Goes({r}, "ready", 0, "to", i)
    BY <2>1
  <2>3. NoTwins'
    BY <1>1, <1>5, PushGoes
  <2>4. Inside("ready", 0) /\ "to" \in Spot /\ Inside("to", i)
    BY DEF Inside, Spot
  <2>5. \A k \in Wire \ Port : out_port'[k] = out_port[k] /\ in_port'[k] = in_port[k]
    <3>1. MemId[Head(ready_reqs)] \in Port
      BY <1>5, ReceivedType, MessageIs DEF Push, CanPush, MemoryTypes
    <3> QED BY <1>5, <3>1 DEF Push, MemoryTypes
  <2> QED BY <2>2, <2>3, <2>4, <2>5, InnerStep
<1> QED BY <1>2, <1>3, <1>4, <1>5, WireIs DEF UpdateCache, CacheStep, Step

LEMMA NextServes ==
  ASSUME MemoryTypes, MemoryTypes', PlaceInv, [MemoryNext]_memoryVars
  PROVE  PlaceInv' /\ [Promise!ServiceNext]_Promise!serviceVars
<1>1. CASE UNCHANGED memoryVars
  <2>1. UNCHANGED <<unsent, out_port, in_port, in_transit_messages, tag_to_reqs, ready_reqs>>
    BY <1>1 DEF memoryVars, networkOnly, cacheOnly
  <2>2. Goes({}, "gone", 0, "gone", 0) /\ NoTwins'
    BY <2>1, NobodyGoes DEF PlaceInv
  <2> QED BY <2>1, <2>2, InnerStep
<1>2. ASSUME NEW p \in Pe, Receive(p)
      PROVE  PlaceInv' /\ [Promise!ServiceNext]_Promise!serviceVars
  BY <1>2, ReceiveServes DEF Promise!ServiceNext
<1>3. ASSUME NEW p \in Pe, NEW r \in Request, Send(p, r)
      PROVE  PlaceInv' /\ [Promise!ServiceNext]_Promise!serviceVars
  BY <1>3, SendServes DEF Promise!ServiceNext
<1> QED BY <1>1, <1>2, <1>3, NetworkServes, CacheServes DEF MemoryNext, Update

LEMMA InitServes ==
  ASSUME MemoryInit
  PROVE  PlaceInv /\ Promise!ServiceInit
<1>1. /\ \A i \in Wire : out_port[i] = <<>> /\ in_port[i] = <<>>
      /\ in_transit_messages = {} /\ DOMAIN tag_to_reqs = {} /\ ready_reqs = <<>>
  BY WireIs, EmptySeq DEF MemoryInit, Network!Init
<1>2. Reqs(<<>>) = <<>> /\ Range(<<>>) = {} /\ IsInjective(<<>>)
  BY EmptySeq DEF Reqs, Range, IsInjective
<1>3. \A r, a, i : Lies(r, a, i) => a = "unsent" /\ i = 0
  BY <1>1, <1>2 DEF Lies
<1>4. PlaceInv
  BY <1>1, <1>2, <1>3 DEF PlaceInv, OneSpot, NoTwins
<1>5. Memory = {}
  <2>1. ~Inside("unsent", 0)
    BY DEF Inside
  <2> QED BY <1>3, <2>1, MemoryIs, InitMemoryTypes
<1>6. \A p \in Pe : out_port[PortOf(p)] = <<>> /\ in_port[PortOf(p)] = <<>>
  BY <1>1, WireIs
<1>7. Out = [p \in Pe |-> <<>>] /\ In = [p \in Pe |-> <<>>]
  BY <1>2, <1>6, InIs, InitMemoryTypes DEF Out
<1> QED BY <1>4, <1>5, <1>7 DEF Promise!ServiceInit, Out, In

\* Network and cache keep the promise that System relies on (MemoryService):
\* whatever the capacities, distances and latencies, a request that is taken is
\* held by one of them, in one place, until it is answered, once and at the
\* processing element that its watcher_pe_id names.
THEOREM MemoryImplementsService == MemorySpec => ImplementsMemoryService
<1>1. MemoryInit => MemoryTypes /\ PlaceInv /\ Promise!ServiceInit
  BY InitMemoryTypes, InitServes
<1>2. MemoryTypes /\ [MemoryNext]_memoryVars => MemoryTypes'
  BY NextMemoryTypes
<1>3. MemoryTypes /\ MemoryTypes' /\ PlaceInv /\ [MemoryNext]_memoryVars =>
        PlaceInv' /\ [Promise!ServiceNext]_Promise!serviceVars
  BY NextServes
<1> QED BY <1>1, <1>2, <1>3, PTL DEF MemorySpec, ImplementsMemoryService, Promise!ServiceSpec
=============================================================================
