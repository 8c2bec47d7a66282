------------------------------ MODULE FastCache ------------------------------
(***************************************************************************)
(* The tag store of the caches (satacc/cache/fast_cache.rs, cache/mod.rs):  *)
(* sets of at most `associativity` lines, replaced in a circle.            *)
(*                                                                         *)
(* A set is a record of its lines and of replace_ptr, which counts from 0.  *)
(***************************************************************************)
EXTENDS Naturals, Sequences

CONSTANTS
  Sets, Associativity, BlockSize,   \* CacheConfig
  AlwaysHit                         \* config.alway_hit

ASSUME CacheAssumption ==
  /\ Sets \in Nat \ {0} /\ Associativity \in Nat \ {0} /\ BlockSize \in Nat \ {0}
  /\ AlwaysHit \in BOOLEAN

\* 1 << get_bit_lens(size): the bit length is the logarithm, rounded down.
BitSize[size \in Nat] == IF size > 1 THEN 2 * BitSize[size \div 2] ELSE 1

\* The sizes the bit lengths stand for.  With a number of sets that is no
\* power of two the sets beyond this one are never used.
IndexedSets == BitSize[Sets]
IndexedBlock == BitSize[BlockSize]

\* get_set_number_from_addr: the tag is the address of the block, the set
\* number its lowest bits.
SetNumber(addr) == (addr \div IndexedBlock) % IndexedSets
Tag(addr) == addr - (addr % IndexedBlock)
-----------------------------------------------------------------------------
EmptySet == [lines |-> <<>>, replace_ptr |-> 0]

IsHit(set, tag) == AlwaysHit \/ \E i \in DOMAIN set.lines : set.lines[i] = tag

\* Mutant: the pointer is moved before the line is replaced.
ReplaceNext(set, tag) ==
  LET ptr == (set.replace_ptr + 1) % Associativity IN
  [lines |-> [set.lines EXCEPT ![ptr + 1] = tag], replace_ptr |-> ptr]

Replace(set, tag) ==
  [lines |-> [set.lines EXCEPT ![set.replace_ptr + 1] = tag],
   replace_ptr |-> (set.replace_ptr + 1) % Associativity]

\* FastCache::access: the set afterwards.  A missing line is there at once,
\* before its data has been read.
Accessed(set, tag) ==
  IF IsHit(set, tag) THEN set
  ELSE IF Len(set.lines) < Associativity
    THEN [set EXCEPT !.lines = Append(@, tag)]
    ELSE Replace(set, tag)

\* The lines of a set, oldest first.
OldestFirst(set) ==
  [i \in DOMAIN set.lines |->
     set.lines[IF Len(set.lines) < Associativity THEN i
               ELSE ((set.replace_ptr + i - 1) % Associativity) + 1]]
=============================================================================
