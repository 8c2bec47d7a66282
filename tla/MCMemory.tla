------------------------------ MODULE MCMemory ------------------------------
(***************************************************************************)
(* The instance of MemorySystem for TLC: two processing elements and two    *)
(* ports of the cache, which share a mesh for one message at a time.  Two   *)
(* processing elements ask for a block, and ask for another one that        *)
(* replaces it while it is read.  r3 is a blocker: it enters by port 1, but *)
(* like r1 and r2 it is answered at port 0, where one answer has room.     *)
(***************************************************************************)
EXTENDS MemorySystem, TLC

CONSTANTS r1, r2, r3, r4

MCAnswer(r) == [answer |-> r]
MCAddr == [r \in Request |-> IF r \in {r3, r4} THEN 1 ELSE 0]
MCEntryPort == [r \in Request |-> Addr[r]]
MCMemId == [r \in Request |-> IF r = r3 THEN 0 ELSE EntryPort[r]]
MCPeOf == [r \in Request |-> IF r \in {r1, r4} THEN 0 ELSE 1]
=============================================================================
