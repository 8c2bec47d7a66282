---------------------------- MODULE ChannelLemmas ----------------------------
(***************************************************************************)
(* Facts about the channels of SimChannel, for the proofs of the modules   *)
(* that use them.                                                          *)
(***************************************************************************)
EXTENDS SimChannel, SequenceTheorems, TLAPS

(* Taking a message (SimReciver::recv) leaves a channel of the same         *)
(* messages, shorter by one.                                                *)
LEMMA ReceivedType ==
  ASSUME NEW S, NEW s \in Seq(S), s # <<>>
  PROVE  /\ Head(s) \in S
         /\ Received(s) \in Seq(S) /\ Tail(s) \in Seq(S)
         /\ Len(Received(s)) = Len(s) - 1 /\ Len(Tail(s)) = Len(s) - 1
         /\ Len(s) \in Nat \ {0}
BY HeadTailProperties, EmptySeq DEF Received

(* Sending a message (SimSender::send) makes it longer by one.              *)
LEMMA SentType ==
  ASSUME NEW S, NEW s \in Seq(S), NEW m \in S
  PROVE  /\ Sent(s, m) \in Seq(S) /\ Append(s, m) \in Seq(S)
         /\ Len(Sent(s, m)) = Len(s) + 1 /\ Len(Append(s, m)) = Len(s) + 1
BY AppendProperties DEF Sent

(* A message that cannot be used yet and is given back (SimReciver::ret)    *)
(* leaves the channel as it was: no handler loses or reorders what it      *)
(* returns.                                                                 *)
THEOREM RetRestores ==
  ASSUME NEW S, NEW s \in Seq(S), s # <<>>
  PROVE  RecvThenRet(s) = s
<1>1. Head(s) \in S /\ Tail(s) \in Seq(S) /\ Len(Tail(s)) = Len(s) - 1
  BY HeadTailProperties
<1>2. <<Head(s)>> \in Seq(S) /\ Len(<<Head(s)>>) = 1 /\ <<Head(s)>>[1] = Head(s)
  BY <1>1
<1>3. Len(s) \in Nat \ {0}
  BY EmptySeq
<1> DEFINE u == <<Head(s)>> \o Tail(s)
<1>4. u \in Seq(S) /\ Len(u) = Len(s)
  BY <1>1, <1>2, <1>3, ConcatProperties
<1>5. ASSUME NEW i \in 1 .. Len(u) PROVE u[i] = s[i]
  <2>1. u[i] = IF i <= 1 THEN <<Head(s)>>[i] ELSE Tail(s)[i - 1]
    BY <1>1, <1>2, <1>3, <1>4, ConcatProperties
  <2>2. CASE i = 1
    BY <2>1, <2>2, <1>2, <1>3
  <2>3. CASE i # 1
    <3>1. i - 1 \in 1 .. Len(Tail(s))
      BY <2>3, <1>1, <1>3, <1>4
    <3>2. Tail(s)[i - 1] = s[(i - 1) + 1]
      BY <3>1, HeadTailProperties
    <3> QED BY <2>1, <2>3, <3>1, <3>2, <1>1, <1>3
  <2> QED BY <2>2, <2>3
<1>6. u = s
  BY <1>4, <1>5, SeqEqual
<1> QED BY <1>6 DEF RecvThenRet, Returned, Received

(* A message moved from the front of one channel to the end of another      *)
(* leaves the two, read one after the other, as they were.                  *)
LEMMA MoveKeepsConcat ==
  ASSUME NEW S, NEW s \in Seq(S), NEW t \in Seq(S), t # <<>>
  PROVE  Append(s, Head(t)) \o Tail(t) = s \o t
<1>1. Head(t) \in S /\ Tail(t) \in Seq(S)
  BY HeadTailProperties
<1>2. <<Head(t)>> \in Seq(S)
  BY <1>1
<1>3. <<Head(t)>> \o Tail(t) = t
  BY RetRestores DEF RecvThenRet, Returned, Received
<1>4. Append(s, Head(t)) = s \o <<Head(t)>>
  BY <1>1, AppendIsConcat
<1>5. (s \o <<Head(t)>>) \o Tail(t) = s \o (<<Head(t)>> \o Tail(t))
  BY <1>1, <1>2, ConcatAssociative
<1> QED BY <1>3, <1>4, <1>5

(* Taking the first of two channels read one after the other takes from the *)
(* first of them.                                                           *)
LEMMA HeadTailOfConcat ==
  ASSUME NEW S, NEW s \in Seq(S), NEW t \in Seq(S), s # <<>>
  PROVE  Head(s \o t) = Head(s) /\ Tail(s \o t) = Tail(s) \o t
<1>1. /\ Tail(s) \in Seq(S) /\ Len(Tail(s)) = Len(s) - 1 /\ Len(s) \in Nat \ {0}
      /\ \A i \in 1 .. Len(Tail(s)) : Tail(s)[i] = s[i + 1]
  BY HeadTailProperties, EmptySeq
<1> DEFINE c == s \o t  u == Tail(s) \o t
<1>2. /\ c \in Seq(S) /\ Len(c) = Len(s) + Len(t) /\ Len(t) \in Nat
      /\ \A i \in 1 .. Len(s) + Len(t) : c[i] = IF i <= Len(s) THEN s[i] ELSE t[i - Len(s)]
  BY ConcatProperties, LenProperties
<1>3. /\ u \in Seq(S) /\ Len(u) = Len(Tail(s)) + Len(t)
      /\ \A i \in 1 .. Len(Tail(s)) + Len(t) :
           u[i] = IF i <= Len(Tail(s)) THEN Tail(s)[i] ELSE t[i - Len(Tail(s))]
  BY <1>1, ConcatProperties
<1> HIDE DEF c, u
<1>4. c # <<>>
  BY <1>1, <1>2, EmptySeq
<1>5. /\ Tail(c) \in Seq(S) /\ Len(Tail(c)) = Len(c) - 1
      /\ \A i \in 1 .. Len(Tail(c)) : Tail(c)[i] = c[i + 1]
  BY <1>2, <1>4, HeadTailProperties
<1>6. ASSUME NEW i \in 1 .. Len(Tail(c)) PROVE Tail(c)[i] = u[i]
  <2>1. c[i + 1] = IF i + 1 <= Len(s) THEN s[i + 1] ELSE t[(i + 1) - Len(s)]
    BY <1>1, <1>2, <1>5
  <2>2. u[i] = IF i <= Len(s) - 1 THEN Tail(s)[i] ELSE t[i - (Len(s) - 1)]
    BY <1>1, <1>2, <1>3, <1>5
  <2>3. CASE i <= Len(s) - 1
    BY <2>1, <2>2, <2>3, <1>1, <1>5
  <2>4. CASE ~(i <= Len(s) - 1)
    <3>1. ~(i + 1 <= Len(s)) /\ (i + 1) - Len(s) = i - (Len(s) - 1)
      BY <2>4, <1>1
    <3> QED BY <2>1, <2>2, <2>4, <3>1, <1>5
  <2> QED BY <2>3, <2>4
<1>7. Len(Tail(c)) = Len(u)
  BY <1>1, <1>2, <1>3, <1>5
<1>8. Tail(c) = u
  BY <1>3, <1>5, <1>6, <1>7, SeqEqual
<1>9. Head(c) = Head(s)
  <2>1. c[1] = s[1]
    BY <1>1, <1>2
  <2> QED BY <2>1, <1>1, <1>2, <1>4
<1> QED BY <1>8, <1>9 DEF c, u

(* What a channel holds, after a message was taken from it ...             *)
LEMMA TailRange ==
  ASSUME NEW S, NEW s \in Seq(S), s # <<>>
  PROVE  /\ Range(s) = {Head(s)} \cup Range(Tail(s))
         /\ IsInjective(s) => IsInjective(Tail(s)) /\ Range(Tail(s)) = Range(s) \ {Head(s)}
<1>1. /\ Tail(s) \in Seq(S) /\ Len(Tail(s)) = Len(s) - 1 /\ Len(s) \in Nat \ {0}
      /\ \A i \in 1 .. Len(Tail(s)) : Tail(s)[i] = s[i + 1]
  BY HeadTailProperties, EmptySeq
<1>2. DOMAIN s = 1 .. Len(s) /\ DOMAIN Tail(s) = 1 .. Len(s) - 1 /\ Head(s) = s[1]
  BY <1>1, LenProperties
<1>3. Range(s) = {Head(s)} \cup Range(Tail(s))
  <2>1. ASSUME NEW i \in DOMAIN s PROVE s[i] \in {Head(s)} \cup Range(Tail(s))
    <3>1. CASE i = 1
      BY <1>2, <3>1
    <3>2. CASE i # 1
      <4>1. i - 1 \in DOMAIN Tail(s) /\ (i - 1) + 1 = i
        BY <1>1, <1>2, <3>2
      <4>2. Tail(s)[i - 1] = s[i]
        BY <1>1, <1>2, <4>1
      <4> QED BY <4>1, <4>2 DEF Range
    <3> QED BY <3>1, <3>2
  <2>2. ASSUME NEW i \in DOMAIN Tail(s) PROVE Tail(s)[i] \in Range(s)
    <3>1. i + 1 \in DOMAIN s /\ Tail(s)[i] = s[i + 1]
      BY <1>1, <1>2
    <3> QED BY <3>1 DEF Range
  <2>3. 1 \in DOMAIN s
    BY <1>1, <1>2
  <2> QED BY <1>2, <2>1, <2>2, <2>3 DEF Range
<1>4. ASSUME IsInjective(s) PROVE IsInjective(Tail(s)) /\ Head(s) \notin Range(Tail(s))
  <2>1. ASSUME NEW i \in DOMAIN Tail(s), NEW j \in DOMAIN Tail(s), Tail(s)[i] = Tail(s)[j]
        PROVE  i = j
    <3>1. i + 1 \in DOMAIN s /\ j + 1 \in DOMAIN s /\ s[i + 1] = s[j + 1]
      BY <1>1, <1>2, <2>1
    <3>2. i + 1 = j + 1
      BY <1>4, <3>1 DEF IsInjective
    <3> QED BY <1>2, <3>2
  <2>2. ASSUME NEW i \in DOMAIN Tail(s), Tail(s)[i] = Head(s) PROVE FALSE
    <3>1. i + 1 \in DOMAIN s /\ 1 \in DOMAIN s /\ s[i + 1] = s[1] /\ i + 1 # 1
      BY <1>1, <1>2, <2>2
    <3> QED BY <1>4, <3>1 DEF IsInjective
  <2> QED BY <2>1, <2>2 DEF IsInjective, Range
<1> QED BY <1>3, <1>4

(* ... and after one was sent.                                             *)
LEMMA AppendRange ==
  ASSUME NEW S, NEW s \in Seq(S), NEW m \in S
  PROVE  /\ Range(Append(s, m)) = Range(s) \cup {m}
         /\ IsInjective(s) /\ m \notin Range(s) => IsInjective(Append(s, m))
<1>1. /\ Append(s, m) \in Seq(S) /\ Len(Append(s, m)) = Len(s) + 1 /\ Len(s) \in Nat
      /\ \A i \in 1 .. Len(s) : Append(s, m)[i] = s[i]
      /\ Append(s, m)[Len(s) + 1] = m
  BY AppendProperties, LenProperties
<1>2. DOMAIN s = 1 .. Len(s) /\ DOMAIN Append(s, m) = 1 .. Len(s) + 1
  BY <1>1, LenProperties
<1>3. Range(Append(s, m)) = Range(s) \cup {m}
  <2>1. ASSUME NEW i \in DOMAIN Append(s, m) PROVE Append(s, m)[i] \in Range(s) \cup {m}
    <3>1. i \in DOMAIN s \/ i = Len(s) + 1
      BY <1>1, <1>2
    <3> QED BY <1>1, <1>2, <3>1 DEF Range
  <2>2. ASSUME NEW i \in DOMAIN s PROVE s[i] \in Range(Append(s, m))
    <3>1. i \in DOMAIN Append(s, m) /\ Append(s, m)[i] = s[i]
      BY <1>1, <1>2
    <3> QED BY <3>1 DEF Range
  <2>3. Len(s) + 1 \in DOMAIN Append(s, m)
    BY <1>1, <1>2
  <2> QED BY <1>1, <2>1, <2>2, <2>3 DEF Range
<1>4. ASSUME IsInjective(s), m \notin Range(s) PROVE IsInjective(Append(s, m))
  <2>1. ASSUME NEW i \in DOMAIN Append(s, m), NEW j \in DOMAIN Append(s, m),
               Append(s, m)[i] = Append(s, m)[j]
        PROVE  i = j
    <3>1. (i \in DOMAIN s \/ i = Len(s) + 1) /\ (j \in DOMAIN s \/ j = Len(s) + 1)
      BY <1>1, <1>2
    <3>2. CASE i \in DOMAIN s /\ j \in DOMAIN s
      BY <1>1, <1>2, <1>4, <2>1, <3>2 DEF IsInjective
    <3>3. CASE i \in DOMAIN s /\ j = Len(s) + 1
      BY <1>1, <1>2, <1>4, <2>1, <3>3 DEF Range
    <3>4. CASE i = Len(s) + 1 /\ j \in DOMAIN s
      BY <1>1, <1>2, <1>4, <2>1, <3>4 DEF Range
    <3> QED BY <3>1, <3>2, <3>3, <3>4
  <2> QED BY <2>1 DEF IsInjective
<1> QED BY <1>3, <1>4

(* A list added to the end of a queue that holds none of it.                *)
LEMMA ConcatInjective ==
  ASSUME NEW S, NEW s \in Seq(S), NEW t \in Seq(S), IsInjective(s), IsInjective(t),
         Range(s) \cap Range(t) = {}
  PROVE  IsInjective(s \o t)
<1>1. /\ s \o t \in Seq(S) /\ Len(s \o t) = Len(s) + Len(t)
      /\ Len(s) \in Nat /\ Len(t) \in Nat
      /\ \A i \in 1 .. Len(s) + Len(t) :
           (s \o t)[i] = IF i <= Len(s) THEN s[i] ELSE t[i - Len(s)]
      /\ DOMAIN s = 1 .. Len(s) /\ DOMAIN t = 1 .. Len(t)
  BY ConcatProperties, LenProperties
<1>2. DOMAIN (s \o t) = 1 .. Len(s) + Len(t)
  BY <1>1, LenProperties
<1> DEFINE u == s \o t
<1>3. ASSUME NEW i \in DOMAIN u
      PROVE  \/ i \in DOMAIN s /\ u[i] = s[i]
             \/ i - Len(s) \in DOMAIN t /\ i \notin DOMAIN s /\ u[i] = t[i - Len(s)]
  BY <1>1, <1>2
<1> HIDE DEF u
<1>4. ASSUME NEW i \in DOMAIN u, NEW j \in DOMAIN u, u[i] = u[j] PROVE i = j
  <2>1. CASE i \in DOMAIN s /\ j \in DOMAIN s
    BY <1>1, <1>3, <1>4, <2>1 DEF IsInjective
  <2>2. CASE i \notin DOMAIN s /\ j \notin DOMAIN s
    <3>1. i - Len(s) \in DOMAIN t /\ j - Len(s) \in DOMAIN t
          /\ t[i - Len(s)] = t[j - Len(s)]
      BY <1>3, <1>4, <2>2
    <3>2. i - Len(s) = j - Len(s)
      BY <3>1 DEF IsInjective
    <3> QED BY <1>1, <1>2, <3>2 DEF u
  <2>3. CASE i \in DOMAIN s /\ j \notin DOMAIN s
    BY <1>3, <1>4, <2>3 DEF Range
  <2>4. CASE i \notin DOMAIN s /\ j \in DOMAIN s
    BY <1>3, <1>4, <2>4 DEF Range
  <2> QED BY <2>1, <2>2, <2>3, <2>4
<1> QED BY <1>4 DEF IsInjective, u

(* A channel of which nothing occurs twice holds each of its messages at    *)
(* one place.                                                               *)
LEMMA OneIndex ==
  ASSUME NEW S, NEW s \in Seq(S), IsInjective(s), NEW m \in Range(s)
  PROVE  \E i \in DOMAIN s : {j \in DOMAIN s : s[j] = m} = {i}
BY DEF IsInjective, Range
-----------------------------------------------------------------------------
(* A channel shared with others: nothing of S is in it twice.               *)
OnceIn(s, S) == \A i, j \in DOMAIN s : s[i] = s[j] /\ s[i] \in S => i = j

LEMMA TailOnce ==
  ASSUME NEW T, NEW s \in Seq(T), s # <<>>, NEW S, OnceIn(s, S)
  PROVE  /\ OnceIn(Tail(s), S)
         /\ Range(Tail(s)) \cap S = (Range(s) \cap S) \ {Head(s)}
<1>1. /\ Tail(s) \in Seq(T) /\ Len(Tail(s)) = Len(s) - 1 /\ Len(s) \in Nat \ {0}
      /\ \A i \in 1 .. Len(Tail(s)) : Tail(s)[i] = s[i + 1]
  BY HeadTailProperties, EmptySeq
<1>2. DOMAIN s = 1 .. Len(s) /\ DOMAIN Tail(s) = 1 .. Len(s) - 1 /\ Head(s) = s[1]
  BY <1>1, LenProperties
<1>3. \A i \in DOMAIN Tail(s) : i + 1 \in DOMAIN s /\ i + 1 # 1 /\ Tail(s)[i] = s[i + 1]
  BY <1>1, <1>2
<1>4. ASSUME NEW i \in DOMAIN Tail(s), NEW j \in DOMAIN Tail(s),
             Tail(s)[i] = Tail(s)[j], Tail(s)[i] \in S
      PROVE  i = j
  <2>1. i + 1 = j + 1
    BY <1>3, <1>4 DEF OnceIn
  <2> QED BY <1>2, <2>1
<1>5. ASSUME NEW i \in DOMAIN Tail(s), Tail(s)[i] \in S PROVE Tail(s)[i] # Head(s)
  <2>1. 1 \in DOMAIN s
    BY <1>1, <1>2
  <2> QED BY <1>2, <1>3, <1>5, <2>1 DEF OnceIn
<1>6. Range(s) = {Head(s)} \cup Range(Tail(s))
  BY TailRange
<1> QED BY <1>4, <1>5, <1>6 DEF OnceIn, Range

LEMMA AppendOnce ==
  ASSUME NEW T, NEW s \in Seq(T), NEW m \in T, NEW S, OnceIn(s, S), m \in S => m \notin Range(s)
  PROVE  OnceIn(Append(s, m), S)
<1>1. /\ Append(s, m) \in Seq(T) /\ Len(Append(s, m)) = Len(s) + 1 /\ Len(s) \in Nat
      /\ \A i \in 1 .. Len(s) : Append(s, m)[i] = s[i]
      /\ Append(s, m)[Len(s) + 1] = m
  BY AppendProperties, LenProperties
<1>2. DOMAIN s = 1 .. Len(s) /\ DOMAIN Append(s, m) = 1 .. Len(s) + 1
  BY <1>1, LenProperties
<1>3. ASSUME NEW i \in DOMAIN Append(s, m), NEW j \in DOMAIN Append(s, m),
             Append(s, m)[i] = Append(s, m)[j], Append(s, m)[i] \in S
      PROVE  i = j
  <2>1. (i \in DOMAIN s \/ i = Len(s) + 1) /\ (j \in DOMAIN s \/ j = Len(s) + 1)
    BY <1>1, <1>2
  <2>2. CASE i \in DOMAIN s /\ j \in DOMAIN s
    BY <1>1, <1>2, <1>3, <2>2 DEF OnceIn
  <2>3. CASE i \in DOMAIN s /\ j = Len(s) + 1
    BY <1>1, <1>2, <1>3, <2>3 DEF Range
  <2>4. CASE i = Len(s) + 1 /\ j \in DOMAIN s
    BY <1>1, <1>2, <1>3, <2>4 DEF Range
  <2> QED BY <2>1, <2>2, <2>3, <2>4
<1> QED BY <1>3 DEF OnceIn

LEMMA OnceIndex ==
  ASSUME NEW T, NEW s \in Seq(T), NEW S, OnceIn(s, S), NEW m \in Range(s) \cap S
  PROVE  \E i \in DOMAIN s : {j \in DOMAIN s : s[j] = m} = {i}
BY DEF OnceIn, Range

(* An injective channel keeps this of anything.                            *)
LEMMA InjectiveOnce ==
  ASSUME NEW s, IsInjective(s), NEW S
  PROVE  OnceIn(s, S)
BY DEF OnceIn, IsInjective
=============================================================================
