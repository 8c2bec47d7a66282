------------------------------ MODULE MCSystem ------------------------------
(***************************************************************************)
(* The instance of System for TLC: two processing elements with two clause  *)
(* units each, all channels of size 1, all queues and networks of length 1. *)
(* t1 has a single watcher with a clause of two values and one without      *)
(* clause; t2, of the next level and the other processing element, has one  *)
(* with a clause.                                                          *)
(***************************************************************************)
EXTENDS System, TLC

CONSTANTS t1, t2, c1, c2, c3, v1, v2

MCSingles == (t1 :> <<c1, c2>>) @@ (t2 :> <<c3>>)
MCHomePe == [t \in WatcherTask |-> IF t = t2 THEN 1 ELSE 0]
MCLevel == [t \in WatcherTask |-> IF t = t1 THEN 0 ELSE 1]
MCClausePe == [c \in ClauseTask |-> IF c = c3 THEN 1 ELSE 0]
MCInnerClause == [c \in HasClauseData |-> IF c = c3 THEN 1 ELSE 0]
MCValues == [c \in HasClauseData |-> IF c = c1 THEN <<v1, v2>> ELSE <<v1>>]
MCClauseTime == [c \in HasClauseData |-> 3]
MCRoundChoices == {<<<<t1, t2>>>>, <<<<t1>>, <<t2>>>>}
=============================================================================
