------------------------------ MODULE FifoCache ------------------------------
(***************************************************************************)
(* What the tag store promises: each set keeps the tags that missed last,  *)
(* as many as it has lines, and gives up the one that missed first.        *)
(***************************************************************************)
EXTENDS Naturals, Sequences

CONSTANTS SetNumbers, Tags, SetOfTag(_), Associativity

VARIABLE fifo   \* fifo[s]: the tags of set s, oldest first

FifoInit == fifo = [s \in SetNumbers |-> <<>>]

Miss(t) ==
  LET s == SetOfTag(t)
      kept == IF Len(fifo[s]) < Associativity THEN fifo[s] ELSE Tail(fifo[s])
  IN /\ \A i \in DOMAIN fifo[s] : fifo[s][i] # t
     /\ fifo' = [fifo EXCEPT ![s] = Append(kept, t)]

FifoSpec == FifoInit /\ [][\E t \in Tags : Miss(t)]_fifo
=============================================================================
