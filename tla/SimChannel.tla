----------------------------- MODULE SimChannel -----------------------------
(***************************************************************************)
(* The channels of sim.rs.  SimSender and SimReciver share one VecDeque, so *)
(* a channel is a sequence; `max` is the max_size given by ChannelBuilder.  *)
(* The operators say what the buffer is after a successful call; a refused  *)
(* call (send on a full buffer, recv on an empty one) changes nothing and   *)
(* is a guard of the caller.                                                *)
(***************************************************************************)
EXTENDS Naturals, Sequences

\* SimSender::have_space, and the test that makes send return Err.
HaveSpace(ch, max) == Len(ch) < max

\* SimSender::send, when there is room.
Sent(ch, m) == Append(ch, m)

\* Mutant: front() for pop_front(): the message stays.
Peeked(ch) == ch

\* SimReciver::recv, when the buffer is not empty: Head(ch) is the result.
Received(ch) == Tail(ch)

\* Mutant: the message given back is lost.
LosesReturned(ch, m) == ch

\* Mutant: push_back for push_front.
ReturnedToBack(ch, m) == Append(ch, m)

\* SimReciver::ret, and VecDeque::push_front: the message goes back to the
\* front, with no test of the size.
Returned(ch, m) == <<m>> \o ch

\* recv followed by ret of what was received: the way every handler that
\* cannot use a message yet gives it back.
RecvThenRet(ch) == Returned(Received(ch), Head(ch))
=============================================================================
