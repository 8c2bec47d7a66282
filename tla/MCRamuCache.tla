----------------------------- MODULE MCRamuCache -----------------------------
(***************************************************************************)
(* Instances of RamuCacheEnv for TLC.  Blocks are 2 bytes and there is one  *)
(* set of one line, so that a block can be replaced while it is read or    *)
(* refused.  The DRAM has two channels with room for one read each.        *)
(***************************************************************************)
EXTENDS RamuCacheEnv, TLC

CONSTANTS r1, r2, r3, r4, r5

\* r2 and r4 ask for block 4, the others for one each.  Block 2 (r3) is in another
\* channel of the DRAM than blocks 0, 4 and 6.
MCAddr == (r1 :> 0) @@ (r2 :> 4) @@ (r3 :> 2) @@ (r4 :> 5) @@ (r5 :> 6)
MCMemId == [r \in Request |-> IF r \in {r1, r3} THEN 0 ELSE NPorts - 1]
MCDramChannel(tag) == IF tag = 2 THEN 1 ELSE 0
=============================================================================
