--------------------------- MODULE MCFixTimeCache ---------------------------
(***************************************************************************)
(* The instance of FixTimeCacheEnv for TLC.  Blocks are 2 bytes; the        *)
(* requests ask for one block three times, so that it can be read, hit,     *)
(* replaced during that read and asked for once more, and for more blocks   *)
(* of its set than the set has lines.                                      *)
(***************************************************************************)
EXTENDS FixTimeCacheEnv, TLC

CONSTANTS r1, r2, r3, r4, r5

\* Blocks 0 (r1, r2 and r3), 4 and 8 share set 0.
MCAddr == [r \in Request |-> CASE r = r2 -> 1 [] r = r4 -> 4 [] r = r5 -> 8
                               [] OTHER -> 0]
\* The environment looks at the request only.
MCAnswer(r) == r

\* Two answers leave by the same port.
MCMemId == [r \in Request |-> IF r \in {r1, r4} THEN 0 ELSE NPorts - 1]
=============================================================================
