------------------------------- MODULE MCIcnt -------------------------------
(***************************************************************************)
(* The instance of IcntEnv for TLC: a mesh of 2 x 2 ports; m1 and m2 go all *)
(* the way from 0 to 3, m3 comes to port 3 by a shorter way and can fill   *)
(* it, m4 goes elsewhere, and m5 to the port it comes from.                *)
(***************************************************************************)
EXTENDS IcntEnv, TLC

CONSTANTS m1, m2, m3, m4, m5

MCSource == [m \in Message |-> CASE m = m3 -> 1 [] m = m4 -> 2
                                 [] m = m5 -> 3 [] OTHER -> 0]
MCTarget == [m \in Message |-> IF m = m4 THEN 0 ELSE 3]
=============================================================================
