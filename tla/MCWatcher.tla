------------------------------ MODULE MCWatcher ------------------------------
(***************************************************************************)
(* Instances of WatcherEnv for TLC: two processing elements, one of them    *)
(* with tasks that compete for every queue and port.                       *)
(***************************************************************************)
EXTENDS WatcherEnv, TLC

CONSTANTS p1, p2, t1, t2, c1, c2, c3, c4, o1

\* t1 has single watchers to drop and to pass on, and more of them than fit in a
\* queue of length 2.
MCSingles == (t1 :> <<c1, c2, c3>>) @@ (t2 :> <<c4>>)
MCHomePe == (t1 :> p1) @@ (t2 :> p2)

\* The clause units of the busier processing element compete for its port.
MCOtherPe == [r \in OtherReq |-> p1]

\* Single watchers name the watcher of their list.
OwnClausePe == [c \in ClauseTask |-> IF c = c4 THEN p2 ELSE p1]

\* The clause of c1 belongs to the other processing element.
CrossClausePe == [c \in ClauseTask |-> IF c \in {c1, c4} THEN p2 ELSE p1]
=============================================================================
