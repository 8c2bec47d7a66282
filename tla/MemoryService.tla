---------------------------- MODULE MemoryService ----------------------------
(***************************************************************************)
(* What the memory network and the shared cache promise the processing     *)
(* elements together: a request that is taken is held until it is answered, *)
(* once and in any order, at the port of the processing element it names.  *)
(* System is built on this promise; MemorySystem shows that SimpleIcnt and *)
(* CacheWithFixTime keep it.                                               *)
(***************************************************************************)
EXTENDS SimChannel, SequencesExt, FiniteSets

CONSTANTS Pe,            \* the ports, one per processing element
          AnswerPort(_), \* the port a request is answered at
          ChannelSize

VARIABLES mem_out,           \* channels from the processing elements
          mem_icnt_receiver, \* channels to them
          memory             \* the requests taken and not answered

serviceVars == <<mem_out, mem_icnt_receiver, memory>>

\* The ways to deliver some of what is held, heldFor[p] for port p: to each port
\* a sequence of what is for it, as long as there is room.
Deliveries(heldFor, ch) ==
  LET To(p) == {<<>>} \cup {s \in SeqOf(heldFor[p], ChannelSize - Len(ch[p])) : IsInjective(s)} IN
  {a \in [Pe -> UNION {To(p) : p \in Pe}] : \A p \in Pe : a[p] \in To(p)}

Delivered(a) == UNION {ToSet(a[p]) : p \in Pe}

Answers == Deliveries([p \in Pe |-> {r \in memory : AnswerPort(r) = p}], mem_icnt_receiver)

\* The requests at the ports T are taken, and answers are given one by one.
Serve(T, a) ==
  /\ \A p \in T : mem_out[p] # <<>>
  /\ memory' = (memory \ Delivered(a)) \cup {Head(mem_out[p]) : p \in T}
  /\ mem_out' = [p \in Pe |-> IF p \in T THEN Received(mem_out[p]) ELSE mem_out[p]]
  /\ mem_icnt_receiver' = [p \in Pe |-> mem_icnt_receiver[p] \o a[p]]

\* A processing element sends whatever it wants, and receives.
Send(p) ==
  /\ HaveSpace(mem_out[p], ChannelSize) /\ mem_out'[p] # <<>>
  /\ mem_out' = [mem_out EXCEPT ![p] = Sent(@, Last(mem_out'[p]))]
  /\ UNCHANGED <<mem_icnt_receiver, memory>>

Receive(p) ==
  /\ mem_icnt_receiver[p] # <<>>
  /\ mem_icnt_receiver' = [mem_icnt_receiver EXCEPT ![p] = Received(@)]
  /\ UNCHANGED <<mem_out, memory>>

ServiceInit ==
  mem_out = [p \in Pe |-> <<>>] /\ mem_icnt_receiver = [p \in Pe |-> <<>>] /\ memory = {}

ServiceNext ==
  \/ \E T \in SUBSET Pe, a \in Answers : Serve(T, a)
  \/ \E p \in Pe : Send(p) \/ Receive(p)

ServiceSpec == ServiceInit /\ [][ServiceNext]_serviceVars
=============================================================================
