----------------------------- MODULE ClauseEnv -----------------------------
(***************************************************************************)
(* The clause units with what surrounds them, in TLC's instances all of one *)
(* processing element: the interface hands them the clause tasks and the    *)
(* memory replies, and the memory network takes the requests from the port *)
(* the units share with the watcher and answers them some time later, in    *)
(* any order, to the unit named in them.                                   *)
(***************************************************************************)
EXTENDS ClauseUnit, SequencesExt, FiniteSetsExt

CONSTANTS
  HomeUnit,   \* HomeUnit[c]: c.inner_clause_id % NUMBER_CLAUSE_UNITS
  OtherReq,   \* the requests of the watchers
  Elapsed     \* the cycles that can pass between two calls of update

ASSUME EnvAssumption ==
  /\ HomeUnit \in [ClauseTask -> Unit]
  /\ OtherReq \cap ClauseReq = {}
  /\ Elapsed \subseteq Nat
  /\ None \notin Processing

VARIABLES
  pending,   \* clause tasks the clause network still has
  memory,    \* requests the memory network has taken and not answered
  answered   \* requests it has answered

envVars == <<pending, memory, answered>>
vars == <<clauseVars, envVars>>

EnvInit ==
  /\ Init
  /\ pending = ClauseTask
  /\ memory = {} /\ answered = {}
-----------------------------------------------------------------------------
\* In an update the interface hands on one clause task and one memory reply,
\* or less where there is none or no room.
ClauseNetworkSends ==
  \E c \in pending :
    /\ HaveSpace(clause_task_in[HomeUnit[c]], ChannelSize)
    /\ clause_task_in' = [clause_task_in EXCEPT ![HomeUnit[c]] = Sent(@, c)]
    /\ pending' = pending \ {c}

MemoryReplies ==
  \E r \in memory :
    /\ HaveSpace(mem_in[r.unit], ChannelSize)
    /\ mem_in' = [mem_in EXCEPT ![r.unit] = Sent(@, r)]
    /\ memory' = memory \ {r}
    /\ answered' = answered \cup {r}

Dispatch ==
  /\ BetweenUpdates
  /\ ClauseNetworkSends \/ UNCHANGED <<clause_task_in, pending>>
  /\ MemoryReplies \/ UNCHANGED <<mem_in, memory, answered>>
  /\ UNCHANGED <<control, mem_out, tasks, values, ongoing>>

\* The memory network takes a request from each port.
MemoryTakes ==
  /\ BetweenUpdates
  /\ mem_out' = [p \in Pe |-> IF mem_out[p] = <<>> THEN <<>> ELSE Received(mem_out[p])]
  /\ memory' = memory \cup
       ({Head(mem_out[p]) : p \in {q \in Pe : mem_out[q] # <<>>}} \ OtherReq)
  /\ UNCHANGED <<control, clause_task_in, mem_in, tasks, values, ongoing,
                 pending, answered>>

\* The watcher sends a request.
OthersSend ==
  /\ BetweenUpdates
  /\ \E p \in Pe, r \in OtherReq :
       /\ HaveSpace(mem_out[p], ChannelSize)
       /\ mem_out' = [mem_out EXCEPT ![p] = Sent(@, r)]
  /\ UNCHANGED <<control, clause_task_in, mem_in, tasks, values, ongoing, envVars>>

EnvNext == Dispatch \/ MemoryTakes \/ OthersSend

UnitNext == \E u \in Unit : Step(u) \/ \E d \in Elapsed : Call(u, d)

Next == EnvNext \/ (UnitNext /\ UNCHANGED envVars)

Spec == EnvInit /\ [][Next]_vars

(* As in WatcherEnv: every cycle calls every unit, two cycles apart, hands  *)
(* on what has come, and takes a request of each port.  The watcher is      *)
(* updated before the units, but has only so many requests to send.         *)
Fairness ==
  /\ WF_vars(\E u \in Unit : Step(u) /\ UNCHANGED envVars)
  /\ \A u \in Unit : SF_vars(Call(u, 2) /\ UNCHANGED envVars)
  /\ SF_vars(Dispatch /\ ClauseNetworkSends) /\ SF_vars(Dispatch /\ MemoryReplies)
  /\ SF_vars(MemoryTakes) /\ <>[][~OthersSend]_vars

FairSpec == Spec /\ Fairness
-----------------------------------------------------------------------------
TypeOK ==
  /\ ClauseTypeOK
  /\ pending \subseteq ClauseTask
  /\ mem_out \in [Pe -> Seq(ClauseReq \cup OtherReq)]
  /\ memory \subseteq ClauseReq /\ answered \subseteq ClauseReq

AtPort(p) == ToSet(mem_out[p]) \ OtherReq
UnderWay(u, type) ==
  {r \in AtPort(PeOf[u]) \cup ToSet(mem_in[u]) \cup memory : r.unit = u /\ r.type = type}

\* The reads a unit counts are those between it and the memory network, none
\* of them there twice: a counter that drifts would stop the unit for ever
\* or let its queues grow (clause.rs:88, 208).
CountersMatch ==
  /\ \A p \in Pe :
       /\ memory \cap AtPort(p) = {}
       /\ \A i, j \in DOMAIN mem_out[p] :
            i # j /\ mem_out[p][i] = mem_out[p][j] => mem_out[p][i] \in OtherReq
  /\ \A u \in Unit :
       /\ total_clause_data_mem_ongoing[u] = Cardinality(UnderWay(u, "ClauseReadData"))
       /\ total_clause_value_mem_ongoing[u] = Cardinality(UnderWay(u, "ClauseReadValue"))

\* The unwraps of phase "reply" (clause.rs:308, 319, 323, 335) never panic: a
\* reply finds the task it was sent for.
RepliesAwaited == \A u \in Unit : ~UnwrapFails(u)

\* SimRunner::run ends when no component is busy (sim.rs:158).  A clause unit
\* whose update was not busy holds work only while it waits for a reply.
QuietOnlyIfWaiting ==
  \A u \in Unit :
    /\ At(u, "return") /\ ~busy[u]
    /\ total_clause_data_mem_ongoing[u] = 0 /\ total_clause_value_mem_ongoing[u] = 0
    => /\ clause_data_ready_queue[u] = <<>> /\ clause_value_ready_queue[u] = <<>>
       /\ current_processing_task[u] = None /\ reading_tasks[u] = {}

Indices(ch, c) == {i \in DOMAIN ch : ch[i] = c}
HeldBy(c, u) ==
  ({"in"} \X Indices(clause_task_in[u], c))
    \cup ({"data"} \X ({c} \cap mem_req_id_to_clause_task[u]))
    \cup ({"data_ready"} \X Indices(clause_data_ready_queue[u], c))
    \cup ({"reading"} \X ({c} \cap reading_tasks[u]))
    \cup ({"value_ready"} \X Indices(clause_value_ready_queue[u], c))
    \cup ({"process"} \X {x \in {current_processing_task[u]} \ {None} : x.task = c})

\* The places of a task with the network and the units.
PlacesOf(c) ==
  ({"pending"} \X ({c} \cap pending)) \cup (UNION {{u} \X HeldBy(c, u) : u \in Unit})
Finished == {c \in ClauseTask : PlacesOf(c) = {}}

\* The level barrier of the trail relies on it (trail.rs:54): a task is in one
\* place at a time until it is counted, once, as finished.
NothingLost ==
  /\ \A c \in ClauseTask : Cardinality(PlacesOf(c)) <= 1
  /\ current_level_finished_tasks = Cardinality(Finished)

Taken(c) ==
  \E u \in Unit : \/ Contains(clause_value_ready_queue[u], c)
                  \/ \E x \in {current_processing_task[u]} \ {None} : x.task = c

\* "never ignore any value, that's a bug!" (clause.rs:228): a task is
\* processed only after each of its values has come.
AllValuesRead ==
  \A c \in ClauseTask :
    Taken(c) \/ c \in Finished =>
      LET reqs == ToSet(ValueReqs(HomeUnit[c], c)) IN
      reqs \subseteq answered /\ reqs \cap ToSet(mem_in[HomeUnit[c]]) = {}

\* Every clause task the network brings is finished.
EveryClauseFinishes == \A c \in ClauseTask : c \in pending ~> c \in Finished
=============================================================================
