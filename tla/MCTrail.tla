------------------------------- MODULE MCTrail -------------------------------
(***************************************************************************)
(* Instances of TrailEnv for TLC: three rounds over two processing         *)
(* elements, in which levels rise within a round, fall and repeat between  *)
(* rounds, with an empty round among them.                                 *)
(***************************************************************************)
EXTENDS TrailEnv, TLC

CONSTANTS p1, p2, t1, t2, t3, t4, t5

MCLevel == (t1 :> 0) @@ (t2 :> 1) @@ (t3 :> 1) @@ (t4 :> 1) @@ (t5 :> 0)
MCHomePe == (t1 :> p1) @@ (t2 :> p2) @@ (t3 :> p2) @@ (t4 :> p1) @@ (t5 :> p1)
MCWork == [t \in WatcherTask |-> {<<t, i>> : i \in 0 .. IF t \in {t2, t4} THEN 2 ELSE 1}]
MCRounds == <<<<t1, t2, t3>>, <<>>, <<t4, t5>>>>
=============================================================================
