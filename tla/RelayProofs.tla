----------------------------- MODULE RelayProofs -----------------------------
(***************************************************************************)
(* The proof that ProxyPair implements Relay: for any sizes of the         *)
(* buffers and any streams, each step of the kernel, the ends and the      *)
(* worker is a step of the two byte streams or leaves them alone.          *)
(*                                                                         *)
(* What is in transit from an end is spread over three places: the inbox   *)
(* of its socket, the unsent part of the other side's outbound buffer, and *)
(* the wire. Reading and flushing move bytes from one to the next and      *)
(* change nothing of the whole; only an end that writes or reads does, and *)
(* a close, which leaves what is on a wire or nothing.                     *)
(***************************************************************************)
EXTENDS ProxyPairProofs

-----------------------------------------------------------------------------
(* Sequences of bytes in three parts.                                      *)

LEMMA ThreeParts ==
  ASSUME NEW p \in Seq(Nat), NEW q \in Seq(Nat), NEW r \in Seq(Nat)
  PROVE  /\ p \o q \in Seq(Nat) /\ q \o r \in Seq(Nat)
         /\ p \o q \o r \in Seq(Nat) /\ p \o q \o r = p \o (q \o r)
BY ConcatProperties, ConcatAssociative

\* A byte that joins the last part joins the whole.
LEMMA AppendToLast ==
  ASSUME NEW S, NEW p \in Seq(S), NEW r \in Seq(S), NEW e \in S
  PROVE  p \o Append(r, e) = Append(p \o r, e)
<1>1. r \o <<e>> = Append(r, e) /\ p \o r \in Seq(S) /\ <<e>> \in Seq(S)
  BY AppendIsConcat, ConcatProperties
<1>2. (p \o r) \o <<e>> = p \o (r \o <<e>>)
  BY <1>1, ConcatAssociative
<1>3. (p \o r) \o <<e>> = Append(p \o r, e)
  BY <1>1, AppendIsConcat
<1> QED
  BY <1>1, <1>2, <1>3

\* A byte that leaves the first part leaves the whole.
LEMMA TakeFromFirst ==
  ASSUME NEW S, NEW p \in Seq(S), NEW r \in Seq(S), p # <<>>
  PROVE  p \o r # <<>> /\ Head(p \o r) = Head(p) /\ Tail(p \o r) = Tail(p) \o r
<1>1. /\ p \o r \in Seq(S) /\ Len(p \o r) = Len(p) + Len(r)
      /\ Len(p) \in Nat \ {0} /\ Len(r) \in Nat
      /\ \A i \in 1 .. Len(p) + Len(r) : (p \o r)[i] = IF i <= Len(p) THEN p[i] ELSE r[i - Len(p)]
  BY ConcatProperties, LenProperties, EmptySeq
<1>2. p \o r # <<>>
  BY <1>1, EmptySeq
<1>3. Head(p \o r) = Head(p)
  <2>1. Head(p \o r) = (p \o r)[1] /\ Head(p) = p[1]
    OBVIOUS
  <2> QED
    BY <1>1, <2>1
<1>4. /\ Tail(p) \in Seq(S) /\ Len(Tail(p)) = Len(p) - 1
      /\ \A i \in 1 .. Len(Tail(p)) : Tail(p)[i] = p[i + 1]
      /\ Tail(p \o r) \in Seq(S) /\ Len(Tail(p \o r)) = Len(p) + Len(r) - 1
      /\ \A i \in 1 .. Len(Tail(p \o r)) : Tail(p \o r)[i] = (p \o r)[i + 1]
  BY <1>1, <1>2, HeadTailProperties
<1>5. /\ Tail(p) \o r \in Seq(S) /\ Len(Tail(p) \o r) = Len(p) - 1 + Len(r)
      /\ \A i \in 1 .. Len(p) - 1 + Len(r) :
           (Tail(p) \o r)[i] = IF i <= Len(p) - 1 THEN Tail(p)[i] ELSE r[i - (Len(p) - 1)]
  BY <1>4, ConcatProperties
<1>6. ASSUME NEW i \in 1 .. Len(p) + Len(r) - 1 PROVE Tail(p \o r)[i] = (Tail(p) \o r)[i]
  <2>1. Tail(p \o r)[i] = (p \o r)[i + 1] /\ i + 1 \in 1 .. Len(p) + Len(r)
    BY <1>1, <1>4
  <2>2. CASE i <= Len(p) - 1
    BY <1>1, <1>4, <1>5, <2>1, <2>2
  <2>3. CASE i > Len(p) - 1
    <3>1. (p \o r)[i + 1] = r[i + 1 - Len(p)]
      BY <1>1, <2>1, <2>3
    <3>2. (Tail(p) \o r)[i] = r[i - (Len(p) - 1)]
      BY <1>1, <1>5, <2>3
    <3>3. i + 1 - Len(p) = i - (Len(p) - 1)
      BY <1>1
    <3> QED
      BY <2>1, <3>1, <3>2, <3>3
  <2> QED
    BY <1>1, <2>2, <2>3
<1>7. Tail(p \o r) = Tail(p) \o r
  BY <1>1, <1>4, <1>5, <1>6, SeqEqual
<1> QED
  BY <1>2, <1>3, <1>7

\* A buffer is what has been taken of it and what is left.
LEMMA SplitAt ==
  ASSUME NEW S, NEW q \in Seq(S), NEW m \in Nat, NEW n \in Nat, m <= n, n <= Len(q)
  PROVE  /\ SubSeq(q, m + 1, n) \in Seq(S) /\ SubSeq(q, n + 1, Len(q)) \in Seq(S)
         /\ SubSeq(q, m + 1, n) \o SubSeq(q, n + 1, Len(q)) = SubSeq(q, m + 1, Len(q))
<1>1. Len(q) \in Nat
  BY LenProperties
<1>2. \A i \in 1 .. Len(q) : q[i] \in S
  BY ElementOfSeq
<1>3. \A i \in m + 1 .. n : q[i] \in S
  BY <1>1, <1>2
<1>4. \A i \in n + 1 .. Len(q) : q[i] \in S
  BY <1>1, <1>2
<1>5. SubSeq(q, m + 1, n) \in Seq(S) /\ SubSeq(q, n + 1, Len(q)) \in Seq(S)
  BY <1>1, <1>3, <1>4, SubSeqProperties
<1>6. m + 1 \in 1 .. Len(q) + 1 /\ n \in (m + 1) - 1 .. Len(q) /\ Len(q) \in n .. Len(q)
  BY <1>1
<1>7. SubSeq(q, m + 1, n) \o SubSeq(q, n + 1, Len(q)) = SubSeq(q, m + 1, Len(q))
  BY <1>6, ConcatAdjacentSubSeq
<1> QED
  BY <1>5, <1>7

LEMMA SplitFront ==
  ASSUME NEW S, NEW q \in Seq(S), NEW n \in Nat, n <= Len(q)
  PROVE  SubSeq(q, 1, n) \o SubSeq(q, n + 1, Len(q)) = q
<1>1. Len(q) \in Nat
  BY LenProperties
<1>2. 1 \in 1 .. Len(q) + 1 /\ n \in 1 - 1 .. Len(q) /\ Len(q) \in n .. Len(q)
  BY <1>1
<1>3. SubSeq(q, 1, n) \o SubSeq(q, n + 1, Len(q)) = SubSeq(q, 1, Len(q))
  BY <1>2, ConcatAdjacentSubSeq
<1> QED
  BY <1>3, SubSeqFull

\* What is left of a buffer.
LEMMA LeftOf ==
  ASSUME NEW S, NEW q \in Seq(S), NEW m \in Nat, m <= Len(q)
  PROVE  /\ SubSeq(q, m + 1, Len(q)) \in Seq(S)
         /\ Len(SubSeq(q, m + 1, Len(q))) = Len(q) - m
         /\ \A i \in 1 .. Len(q) - m : SubSeq(q, m + 1, Len(q))[i] = q[m + i]
<1> DEFINE left == SubSeq(q, m + 1, Len(q))
<1>1. Len(q) \in Nat /\ m + 1 \in Int /\ Len(q) \in Int
  BY LenProperties
<1>2. \A i \in m + 1 .. Len(q) : q[i] \in S
  <2>1. \A i \in 1 .. Len(q) : q[i] \in S
    BY ElementOfSeq
  <2> QED
    BY <1>1, <2>1
<1>3. /\ left \in Seq(S)
      /\ Len(left) = IF m + 1 <= Len(q) THEN Len(q) - (m + 1) + 1 ELSE 0
      /\ \A i \in 1 .. Len(q) - (m + 1) + 1 : left[i] = q[m + 1 + i - 1]
  BY <1>1, <1>2, SubSeqProperties
<1> HIDE DEF left
<1>4. ASSUME NEW i \in 1 .. Len(q) - m PROVE left[i] = q[m + i]
  <2>1. i \in 1 .. Len(q) - (m + 1) + 1 /\ m + 1 + i - 1 = m + i
    BY <1>1
  <2> QED
    BY <1>3, <2>1
<1>5. Len(left) = Len(q) - m
  BY <1>1, <1>3
<1> QED
  BY <1>3, <1>4, <1>5 DEF left

\* It grows with the buffer.
LEMMA LeftOfLonger ==
  ASSUME NEW S, NEW q \in Seq(S), NEW r \in Seq(S), NEW m \in Nat, m <= Len(q)
  PROVE  SubSeq(q \o r, m + 1, Len(q \o r)) = SubSeq(q, m + 1, Len(q)) \o r
<1> DEFINE c == q \o r
           whole == SubSeq(c, m + 1, Len(c))
           left == SubSeq(q, m + 1, Len(q))
           both == left \o r
<1>1. /\ c \in Seq(S) /\ Len(c) = Len(q) + Len(r) /\ Len(q) \in Nat /\ Len(r) \in Nat
      /\ \A i \in 1 .. Len(q) + Len(r) : c[i] = IF i <= Len(q) THEN q[i] ELSE r[i - Len(q)]
  BY ConcatProperties, LenProperties
<1> HIDE DEF c
<1>4. /\ whole \in Seq(S) /\ Len(whole) = Len(c) - m
      /\ \A i \in 1 .. Len(c) - m : whole[i] = c[m + i]
  BY <1>1, LeftOf
<1>5. /\ left \in Seq(S) /\ Len(left) = Len(q) - m
      /\ \A i \in 1 .. Len(q) - m : left[i] = q[m + i]
  BY LeftOf
<1> HIDE DEF whole, left
<1>6. /\ both \in Seq(S) /\ Len(both) = Len(left) + Len(r)
      /\ \A i \in 1 .. Len(left) + Len(r) :
           both[i] = IF i <= Len(left) THEN left[i] ELSE r[i - Len(left)]
  BY <1>5, ConcatProperties
<1> HIDE DEF both
<1>7. ASSUME NEW i \in 1 .. Len(whole) PROVE whole[i] = both[i]
  <2>1. /\ i \in 1 .. Len(c) - m /\ m + i \in 1 .. Len(q) + Len(r) /\ i \in 1 .. Len(left) + Len(r)
    BY <1>1, <1>4, <1>5
  <2>2. CASE i <= Len(left)
    <3>1. m + i <= Len(q) /\ i \in 1 .. Len(q) - m
      BY <1>1, <1>5, <2>1, <2>2
    <3>2. whole[i] = c[m + i] /\ c[m + i] = q[m + i]
      BY <1>1, <1>4, <2>1, <3>1
    <3>3. both[i] = left[i] /\ left[i] = q[m + i]
      BY <1>5, <1>6, <2>1, <2>2, <3>1
    <3> QED
      BY <3>2, <3>3
  <2>3. CASE ~ (i <= Len(left))
    <3>1. ~ (m + i <= Len(q)) /\ m + i - Len(q) = i - Len(left)
      BY <1>1, <1>5, <2>1, <2>3
    <3>2. whole[i] = c[m + i] /\ c[m + i] = r[m + i - Len(q)]
      BY <1>1, <1>4, <2>1, <3>1
    <3>3. both[i] = r[i - Len(left)]
      BY <1>6, <2>1, <2>3
    <3> QED
      BY <3>1, <3>2, <3>3
  <2> QED
    BY <2>2, <2>3
<1>8. Len(whole) = Len(both)
  BY <1>1, <1>4, <1>5, <1>6
<1>9. whole = both
  BY <1>4, <1>6, <1>7, <1>8, SeqEqual
<1> QED
  BY <1>9 DEF whole, left, both, c

-----------------------------------------------------------------------------
LEMMA SameSides == R!Sides = Sides /\ \A s \in Sides : R!Other(s) = Other(s)
BY DEF R!Sides, Sides, R!Other, Other

\* The state of the two streams.
Streams == [s \in Sides |-> InTransit(s)]

\* What keeps every byte in transit one of the numbers that the ends send.
StreamsTyped ==
  /\ \A s \in Sides : produced[s] <= StreamLength[s]
  /\ Streams \in [Sides -> Seq(ByteNumbers)]

RelayInv == PairInv /\ StreamsTyped

\* The three places, each a sequence of numbers.
LEMMA PartsTyped ==
  ASSUME TypeOK, NEW s \in Sides
  PROVE  /\ inbox[s] \in Seq(Nat) /\ wire[s] \in Seq(Nat) /\ outbound[s] \in Seq(Nat)
         /\ sent[s] \in Nat /\ sent[s] <= Len(outbound[s]) /\ Unsent(s) \in Seq(Nat)
         /\ Streams[s] = wire[Other(s)] \o Unsent(Other(s)) \o inbox[s]
<1>1. /\ inbox[s] \in Seq(Nat) /\ wire[s] \in Seq(Nat) /\ outbound[s] \in Seq(Nat)
      /\ sent[s] \in Nat /\ sent[s] <= Len(outbound[s])
  BY DEF TypeOK
<1>2. Unsent(s) \in Seq(Nat)
  BY <1>1, LeftOf DEF Unsent
<1> QED
  BY <1>1, <1>2 DEF Streams, InTransit

\* A step that moves no byte.
LEMMA StreamsUndisturbed ==
  ASSUME UNCHANGED <<wire, inbox, outbound, sent>>
  PROVE  Streams' = Streams
BY DEF Streams, InTransit, Unsent

-----------------------------------------------------------------------------
(* The ends.                                                               *)

LEMMA ArriveIsSend ==
  ASSUME RelayInv, NEW s \in Sides, Arrive(s)
  PROVE  /\ produced[s] + 1 \in ByteNumbers
         /\ Streams' = [Streams EXCEPT ![s] = Append(@, produced[s] + 1)]
         /\ produced' = [produced EXCEPT ![s] = produced[s] + 1]
         /\ UNCHANGED <<received, open>> /\ open
         /\ \A x \in Sides : produced'[x] <= StreamLength[x]
<1> DEFINE byte == produced[s] + 1
<1>0. TypeOK
  BY DEF RelayInv, PairInv
<1>1. /\ produced[s] \in Nat /\ StreamLength["client"] \in Nat /\ StreamLength["backend"] \in Nat
      /\ produced[s] < StreamLength[s] /\ s \in {"client", "backend"}
  BY <1>0, BoundsAssumption DEF TypeOK, Arrive, Sides
<1>2. byte \in ByteNumbers /\ byte \in Nat
  BY <1>1 DEF ByteNumbers
<1>3. /\ produced' = [produced EXCEPT ![s] = byte]
      /\ inbox' = [inbox EXCEPT ![s] = Append(inbox[s], byte)]
      /\ UNCHANGED <<wire, outbound, sent, open, received>>
  BY <1>0 DEF Arrive, TypeOK, peer
<1> HIDE DEF byte
<1>4. \A x \in Sides : produced'[x] <= StreamLength[x]
  <2>1. byte <= StreamLength[s]
    BY <1>1, BoundsAssumption DEF byte
  <2>2. \A x \in Sides : produced'[x] = IF x = s THEN byte ELSE produced[x]
    BY <1>0, <1>3 DEF TypeOK
  <2> QED
    BY <2>1, <2>2 DEF RelayInv, StreamsTyped
<1>5. Streams' = [Streams EXCEPT ![s] = Append(@, byte)]
  <2>1. ASSUME NEW x \in Sides, x # s PROVE Streams'[x] = Streams[x]
    BY <1>0, <1>3, <2>1 DEF Streams, InTransit, Unsent, TypeOK
  <2>2. Streams'[s] = Append(Streams[s], byte)
    <3>1. Streams'[s] = wire[Other(s)] \o Unsent(Other(s)) \o Append(inbox[s], byte)
      BY <1>0, <1>3 DEF Streams, InTransit, Unsent, TypeOK
    <3> DEFINE p == wire[Other(s)] \o Unsent(Other(s))
               r == inbox[s]
    <3>2. p \in Seq(Nat) /\ r \in Seq(Nat)
      BY <1>0, OtherSide, PartsTyped, LongerBy
    <3>3. Streams[s] = p \o r
      BY <1>0, PartsTyped
    <3> HIDE DEF p, r
    <3>4. p \o Append(r, byte) = Append(p \o r, byte)
      BY <1>2, <3>2, AppendToLast
    <3> QED
      BY <3>1, <3>3, <3>4 DEF p, r
  <2> QED
    BY <2>1, <2>2 DEF Streams
<1> QED
  BY <1>2, <1>3, <1>4, <1>5 DEF Arrive, byte

LEMMA ReceiveTakesOldest ==
  ASSUME TypeOK, NEW s \in Sides, Receive(s)
  PROVE  /\ Streams[Other(s)] # <<>>
         /\ received' = [received EXCEPT ![s] = Append(@, Head(Streams[Other(s)]))]
         /\ Streams' = [Streams EXCEPT ![Other(s)] = Tail(@)]
         /\ UNCHANGED open
<1> DEFINE from == Other(s)
           rest == Unsent(s) \o inbox[from]
<1>1. from \in Sides /\ Other(from) = s /\ from # s /\ \A x \in Sides : Other(x) = s => x = from
  BY OtherSide
<1>2. /\ wire[s] # <<>> /\ received' = [received EXCEPT ![s] = Append(@, Head(wire[s]))]
      /\ wire' = [wire EXCEPT ![s] = Tail(wire[s])] /\ UNCHANGED <<inbox, outbound, sent, open>>
  BY DEF Receive, peer
<1>3. wire[s] \in Seq(Nat) /\ Tail(wire[s]) \in Seq(Nat) /\ Unsent(s) \in Seq(Nat) /\ inbox[from] \in Seq(Nat)
      /\ rest \in Seq(Nat)
  BY <1>1, <1>2, PartsTyped, HeadTailProperties, LongerBy
<1>4. Streams[from] = wire[s] \o rest
  <2>1. Streams[from] = wire[s] \o Unsent(s) \o inbox[from]
    BY <1>1, PartsTyped
  <2> DEFINE p == wire[s]
             q == Unsent(s)
             r == inbox[from]
  <2>2. p \o q \o r = p \o (q \o r)
    <3>1. p \in Seq(Nat) /\ q \in Seq(Nat) /\ r \in Seq(Nat)
      BY <1>3
    <3> HIDE DEF p, q, r
    <3> QED
      BY <3>1, ThreeParts
  <2> QED
    BY <2>1, <2>2
<1>5. Streams'[from] = Tail(wire[s]) \o rest
  <2>1. Unsent(s)' = Unsent(s) /\ wire'[s] = Tail(wire[s])
    BY <1>2 DEF Unsent, TypeOK
  <2>2. Streams'[from] = wire'[s] \o Unsent(s)' \o inbox[from]
    BY <1>1, <1>2 DEF Streams, InTransit
  <2> DEFINE p == Tail(wire[s])
             q == Unsent(s)
             r == inbox[from]
  <2>3. p \o q \o r = p \o (q \o r)
    <3>1. p \in Seq(Nat) /\ q \in Seq(Nat) /\ r \in Seq(Nat)
      BY <1>3
    <3> HIDE DEF p, q, r
    <3> QED
      BY <3>1, ThreeParts
  <2> QED
    BY <2>1, <2>2, <2>3
<1>6. ASSUME NEW x \in Sides, x # from PROVE Streams'[x] = Streams[x]
  <2>1. Other(x) # s /\ Other(x) \in Sides
    BY <1>1, <1>6, OtherSide
  <2>2. wire'[Other(x)] = wire[Other(x)]
    BY <1>2, <2>1 DEF TypeOK
  <2>3. Unsent(Other(x))' = Unsent(Other(x))
    BY <1>2 DEF Unsent
  <2>4. Streams'[x] = wire'[Other(x)] \o Unsent(Other(x))' \o inbox'[x]
    BY <1>6 DEF Streams, InTransit
  <2>5. Streams[x] = wire[Other(x)] \o Unsent(Other(x)) \o inbox[x]
    BY <1>6 DEF Streams, InTransit
  <2> QED
    BY <1>2, <2>2, <2>3, <2>4, <2>5
<1> HIDE DEF rest
<1>7. Streams[from] # <<>> /\ Head(Streams[from]) = Head(wire[s]) /\ Streams'[from] = Tail(Streams[from])
  BY <1>2, <1>3, <1>4, <1>5, TakeFromFirst
<1>8. Streams' = [Streams EXCEPT ![from] = Tail(@)]
  BY <1>1, <1>6, <1>7 DEF Streams
<1> QED
  BY <1>2, <1>7, <1>8

-----------------------------------------------------------------------------
(* The worker moves bytes on.                                              *)

\* A step that touches one stream only.
LEMMA StreamsEqual ==
  ASSUME NEW s \in Sides, Streams'[s] = Streams[s],
         UNCHANGED <<wire[s], outbound[s], sent[s], inbox[Other(s)]>>
  PROVE  Streams' = Streams
<1>1. ASSUME NEW x \in Sides, x # s PROVE Streams'[x] = Streams[x]
  <2>1. x = Other(s) /\ Other(x) = s
    BY <1>1, OtherSide
  <2>2. Streams'[x] = wire'[Other(x)] \o Unsent(Other(x))' \o inbox'[x]
    BY DEF Streams, InTransit
  <2>3. Streams[x] = wire[Other(x)] \o Unsent(Other(x)) \o inbox[x]
    BY DEF Streams, InTransit
  <2>4. Unsent(s)' = Unsent(s)
    BY DEF Unsent
  <2> QED
    BY <2>1, <2>2, <2>3, <2>4
<1> QED
  BY <1>1 DEF Streams

LEMMA ReadSomeMoves ==
  ASSUME TypeOK, ReadSome, NEW s \in Sides, s = fd
  PROVE  Streams' = Streams
<1> DEFINE n == MinOf(Len(inbox[s]), BufferSize)
           chunk == SubSeq(inbox[s], 1, n)
           rest == SubSeq(inbox[s], n + 1, Len(inbox[s]))
<1>0. PICK to \in Sides : to = Other(s) /\ Other(to) = s /\ to # s
  BY OtherSide
<1>1. /\ inbox[s] \in Seq(Nat) /\ wire[to] \in Seq(Nat) /\ outbound[to] \in Seq(Nat)
      /\ sent[to] \in Nat /\ sent[to] <= Len(outbound[to]) /\ Unsent(to) \in Seq(Nat)
  BY <1>0, PartsTyped
<1>2. n \in Nat /\ n <= Len(inbox[s]) /\ chunk \in Seq(Nat) /\ rest \in Seq(Nat)
  BY ReadTakes DEF ReadSome
<1>3. chunk \o rest = inbox[s]
  <2> HIDE DEF n
  <2> QED
    BY <1>1, <1>2, SplitFront
<1>4. /\ outbound' = [outbound EXCEPT ![to] = outbound[to] \o chunk]
      /\ inbox' = [inbox EXCEPT ![s] = rest]
      /\ UNCHANGED <<wire, sent>>
  BY <1>0 DEF ReadSome
<1> HIDE DEF n, chunk, rest
<1>5. Unsent(to)' = Unsent(to) \o chunk
  <2>1. outbound'[to] = outbound[to] \o chunk /\ sent'[to] = sent[to]
    BY <1>4 DEF TypeOK
  <2>2. SubSeq(outbound[to] \o chunk, sent[to] + 1, Len(outbound[to] \o chunk))
          = SubSeq(outbound[to], sent[to] + 1, Len(outbound[to])) \o chunk
    BY <1>1, <1>2, LeftOfLonger
  <2> QED
    BY <2>1, <2>2 DEF Unsent
<1>6. Streams'[s] = wire[to] \o (Unsent(to) \o chunk) \o rest
  <2>1. inbox'[s] = rest
    BY <1>4 DEF TypeOK
  <2>2. Streams'[s] = wire'[to] \o Unsent(to)' \o inbox'[s]
    BY <1>0 DEF Streams, InTransit
  <2> QED
    BY <1>4, <1>5, <2>1, <2>2
<1>7. Streams[s] = wire[to] \o Unsent(to) \o (chunk \o rest)
  BY <1>0, <1>3, PartsTyped
<1>8. Streams'[s] = Streams[s]
  <2> DEFINE p == wire[to]
             q == Unsent(to)
  <2>1. p \in Seq(Nat) /\ q \in Seq(Nat)
    BY <1>1
  <2>2. Streams'[s] = p \o (q \o chunk) \o rest /\ Streams[s] = p \o q \o (chunk \o rest)
    BY <1>6, <1>7
  <2>3. chunk \in Seq(Nat) /\ rest \in Seq(Nat)
    BY <1>2
  <2> HIDE DEF p, q
  <2>4. (p \o (q \o chunk)) \o rest = (p \o q) \o (chunk \o rest)
    <3> DEFINE F(a, b) == a \o b
    <3>1. /\ \A w, x, y \in Seq(Nat) : F(F(w, x), y) = F(w, F(x, y))
          /\ \A w, x \in Seq(Nat) : F(w, x) \in Seq(Nat)
      BY ThreeParts
    <3> HIDE DEF F
    <3>2. F(F(p, F(q, chunk)), rest) = F(F(p, q), F(chunk, rest))
      BY <2>1, <2>3, <3>1
    <3> QED
      BY <3>2 DEF F
  <2> QED
    BY <2>2, <2>4
<1>9. UNCHANGED <<wire[s], outbound[s], sent[s], inbox[Other(s)]>>
  BY <1>0, <1>4 DEF TypeOK
<1> QED
  BY <1>8, <1>9, StreamsEqual

\* A buffer of which all is sent has nothing left, like one that is cleared.
LEMMA NothingLeft ==
  ASSUME TypeOK, NEW t \in Sides
  PROVE  /\ sent[t] >= Len(outbound[t]) => Unsent(t) = <<>>
         /\ outbound'[t] = <<>> => Unsent(t)' = SubSeq(<<>>, sent'[t] + 1, 0)
         /\ SubSeq(<<>>, 0 + 1, 0) = <<>>
<1>1. /\ outbound[t] \in Seq(Nat) /\ sent[t] \in Nat /\ Len(outbound[t]) \in Nat
  BY PartsTyped, LenProperties
<1>2. sent[t] >= Len(outbound[t]) => Unsent(t) = <<>>
  BY <1>1, SubSeqEmpty DEF Unsent
<1>3. outbound'[t] = <<>> => Unsent(t)' = SubSeq(<<>>, sent'[t] + 1, 0)
  BY EmptyBytes DEF Unsent
<1>4. SubSeq(<<>>, 0 + 1, 0) = <<>>
  BY SubSeqEmpty
<1> QED
  BY <1>2, <1>3, <1>4

LEMMA FlushNothingMoves ==
  ASSUME TypeOK, FlushNothing, NEW t \in Sides, t = target
  PROVE  Streams' = Streams
<1>1. PICK from \in Sides : from = Other(t) /\ Other(from) = t /\ from # t
  BY OtherSide
<1>2. UNCHANGED <<wire, inbox>> /\ \A x \in Sides \ {t} : UNCHANGED <<outbound[x], sent[x]>>
  BY DEF FlushNothing, kernel, TypeOK
<1>3. Unsent(t)' = Unsent(t)
  <2>1. CASE sent[t] >= Len(outbound[t])
    <3>1. outbound'[t] = <<>> /\ sent'[t] = 0
      BY <1>1, <2>1 DEF FlushNothing, TypeOK
    <3> QED
      BY <1>1, <2>1, <3>1, NothingLeft
  <2>2. CASE ~ (sent[t] >= Len(outbound[t]))
    <3>1. outbound'[t] = outbound[t] /\ sent'[t] = sent[t]
      BY <1>1, <2>2 DEF FlushNothing, TypeOK
    <3> QED
      BY <3>1 DEF Unsent
  <2> QED
    BY <2>1, <2>2
<1>4. Streams'[from] = Streams[from]
  BY <1>1, <1>2, <1>3 DEF Streams, InTransit
<1> QED
  BY <1>1, <1>2, <1>4, StreamsEqual

LEMMA FlushSomeMoves ==
  ASSUME TypeOK, FlushSome, NEW t \in Sides, t = target
  PROVE  Streams' = Streams
<1> DEFINE n == MinOf(SendBuffer - Len(wire[t]), Len(outbound[t]) - sent[t])
           drained == sent[t] + n = Len(outbound[t])
           part == SubSeq(outbound[t], sent[t] + 1, sent[t] + n)
           left == SubSeq(outbound[t], sent[t] + n + 1, Len(outbound[t]))
<1>1. PICK from \in Sides : from = Other(t) /\ Other(from) = t /\ from # t
  BY OtherSide
<1>2. /\ outbound[t] \in Seq(Nat) /\ wire[t] \in Seq(Nat) /\ sent[t] \in Nat /\ inbox[from] \in Seq(Nat)
      /\ Len(outbound[t]) \in Nat
  BY <1>1, PartsTyped, LenProperties
<1>3. n \in Nat /\ sent[t] + n <= Len(outbound[t])
  BY <1>1, FlushTakes DEF FlushSome
<1>4. /\ wire' = [wire EXCEPT ![t] = wire[t] \o part]
      /\ outbound' = [outbound EXCEPT ![t] = IF drained THEN <<>> ELSE outbound[t]]
      /\ sent' = [sent EXCEPT ![t] = IF drained THEN 0 ELSE sent[t] + n]
      /\ UNCHANGED inbox
  BY DEF FlushSome, SentNow
<1>5. part \in Seq(Nat) /\ left \in Seq(Nat) /\ part \o left = Unsent(t)
  <2> HIDE DEF n
  <2>1. sent[t] + n \in Nat /\ sent[t] <= sent[t] + n
    BY <1>2, <1>3
  <2> QED
    BY <1>2, <1>3, <2>1, SplitAt DEF Unsent
<1>6. Unsent(t)' = left
  <2>1. CASE drained
    <3>1. outbound'[t] = <<>> /\ sent'[t] = 0
      BY <1>1, <1>4, <2>1 DEF TypeOK
    <3>2. left = <<>>
      <4>1. Len(outbound[t]) < sent[t] + n + 1 /\ sent[t] + n + 1 \in Int /\ Len(outbound[t]) \in Int
        BY <1>2, <1>3, <2>1
      <4> HIDE DEF n, drained
      <4> QED
        BY <4>1, SubSeqEmpty
    <3> QED
      BY <1>1, <3>1, <3>2, NothingLeft
  <2>2. CASE ~ drained
    <3>1. outbound'[t] = outbound[t] /\ sent'[t] = sent[t] + n
      BY <1>1, <1>4, <2>2 DEF TypeOK
    <3> QED
      BY <3>1 DEF Unsent
  <2> QED
    BY <2>1, <2>2
<1> HIDE DEF n, drained, part, left
<1>7. Streams'[from] = (wire[t] \o part) \o left \o inbox[from]
  <2>1. wire'[t] = wire[t] \o part
    BY <1>1, <1>4 DEF TypeOK
  <2> QED
    BY <1>1, <1>4, <1>6, <2>1 DEF Streams, InTransit
<1>8. Streams[from] = wire[t] \o (part \o left) \o inbox[from]
  BY <1>1, <1>5, PartsTyped
<1>9. Streams'[from] = Streams[from]
  <2> DEFINE p == wire[t]
             r == inbox[from]
  <2>1. p \in Seq(Nat) /\ r \in Seq(Nat)
    BY <1>2
  <2>2. Streams'[from] = (p \o part) \o left \o r /\ Streams[from] = p \o (part \o left) \o r
    BY <1>7, <1>8
  <2>3. part \in Seq(Nat) /\ left \in Seq(Nat)
    BY <1>5
  <2> HIDE DEF p, r
  <2>4. ((p \o part) \o left) \o r = (p \o (part \o left)) \o r
    BY <2>1, <2>3
  <2> QED
    BY <2>2, <2>4
<1>10. UNCHANGED <<wire[from], outbound[from], sent[from], inbox[Other(from)]>>
  BY <1>1, <1>4 DEF TypeOK
<1> QED
  BY <1>1, <1>9, <1>10, StreamsEqual

\* A close leaves what is on a wire, or nothing, of what is in transit.
LEMMA ClosePairCuts ==
  ASSUME RelayInv, ClosePair
  PROVE  /\ ~ open' /\ UNCHANGED <<received, produced>>
         /\ Streams' \in [Sides -> Seq(ByteNumbers)]
         /\ \A s \in Sides : \E kept \in 0 .. Len(Streams[s]) :
              Streams'[s] = SubSeq(Streams[s], 1, kept)
<1>0. TypeOK
  BY DEF RelayInv, PairInv
<1>1. ~ open' /\ UNCHANGED <<received, produced>>
  BY DEF ClosePair
<1>2. ASSUME NEW s \in Sides
      PROVE  \E kept \in 0 .. Len(Streams[s]) : Streams'[s] = SubSeq(Streams[s], 1, kept)
  <2> DEFINE w == wire[Other(s)]
             u == Unsent(Other(s))
             i == inbox[s]
  <2>1. w \in Seq(Nat) /\ u \in Seq(Nat) /\ i \in Seq(Nat) /\ Streams[s] = w \o u \o i
        /\ Other(s) \in Sides
    BY <1>0, OtherSide, PartsTyped
  <2>2. PICK cut \in {w, <<>>} : wire'[Other(s)] = cut
    BY <2>1 DEF ClosePair
  <2>3. Streams'[s] = cut
    <3>1. Unsent(Other(s))' = <<>> /\ inbox'[s] = <<>>
      <4>1. outbound'[Other(s)] = <<>> /\ sent'[Other(s)] = 0 /\ inbox'[s] = <<>>
        BY <2>1 DEF ClosePair
      <4> QED
        BY <1>0, <2>1, <4>1, NothingLeft
    <3>2. cut \in Seq(Nat)
      BY <2>1, EmptyBytes
    <3>3. cut \o <<>> \o <<>> = cut
      BY <3>2, ConcatEmptySeq
    <3> QED
      BY <2>2, <3>1, <3>3 DEF Streams, InTransit
  <2> HIDE DEF w, u, i
  <2>4. Streams[s] = w \o (u \o i) /\ u \o i \in Seq(Nat) /\ Streams[s] \in Seq(Nat)
    BY <2>1, ThreeParts
  <2>5. CASE cut = w
    <3>1. Len(Streams[s]) = Len(w) + Len(u \o i) /\ Len(w) \in Nat /\ Len(u \o i) \in Nat
      BY <2>1, <2>4, ConcatProperties, LenProperties
    <3>2. SubSeq(Streams[s], 1, Len(w)) = w
      <4>1. CASE Len(w) = 0
        BY <2>1, <4>1, EmptySeq, SubSeqEmpty
      <4>2. CASE Len(w) # 0
        <5>1. 1 \in 1 .. Len(w) /\ Len(w) \in 1 .. Len(w)
          BY <3>1, <4>2
        <5>2. SubSeq(w \o (u \o i), 1, Len(w)) = SubSeq(w, 1, Len(w))
          BY <2>1, <2>4, <5>1, SubSeqOfConcat1
        <5> QED
          BY <2>1, <2>4, <5>2, SubSeqFull
      <4> QED
        BY <4>1, <4>2
    <3>3. Len(w) \in 0 .. Len(Streams[s])
      BY <3>1
    <3> QED
      BY <2>3, <2>5, <3>2, <3>3
  <2>6. CASE cut = <<>>
    <3>1. 0 \in 0 .. Len(Streams[s])
      BY <2>4, LenProperties
    <3>2. SubSeq(Streams[s], 1, 0) = <<>>
      BY SubSeqEmpty
    <3> QED
      BY <2>3, <2>6, <3>1, <3>2
  <2> QED
    BY <2>2, <2>5, <2>6
<1>3. Streams' \in [Sides -> Seq(ByteNumbers)]
  <2>1. ASSUME NEW s \in Sides PROVE Streams'[s] \in Seq(ByteNumbers)
    <3>1. PICK kept \in 0 .. Len(Streams[s]) : Streams'[s] = SubSeq(Streams[s], 1, kept)
      BY <1>2
    <3>2. Streams[s] \in Seq(ByteNumbers)
      BY DEF RelayInv, StreamsTyped
    <3>3. Len(Streams[s]) \in Nat /\ \A k \in 1 .. Len(Streams[s]) : Streams[s][k] \in ByteNumbers
      BY <3>2, LenProperties, ElementOfSeq
    <3>4. \A k \in 1 .. kept : Streams[s][k] \in ByteNumbers
      BY <3>3
    <3>5. SubSeq(Streams[s], 1, kept) \in Seq(ByteNumbers)
      BY <3>3, <3>4, SubSeqProperties
    <3> QED
      BY <3>1, <3>5
  <2> QED
    BY <2>1 DEF Streams
<1> QED
  BY <1>1, <1>2, <1>3

-----------------------------------------------------------------------------
(* The refinement.                                                         *)

\* What a step does to the streams: an end sends the next of its bytes, an end
\* reads the oldest in transit to it, a close cuts, or nothing of it moves.
Sends(s) ==
  /\ open /\ UNCHANGED <<received, open>>
  /\ produced[s] + 1 \in ByteNumbers /\ \A x \in Sides : produced'[x] <= StreamLength[x]
  /\ Streams' = [Streams EXCEPT ![s] = Append(@, produced[s] + 1)]
  /\ produced' = [produced EXCEPT ![s] = produced[s] + 1]
Reads(s) ==
  /\ UNCHANGED <<open, produced>>
  /\ Streams[Other(s)] # <<>>
  /\ received' = [received EXCEPT ![s] = Append(@, Head(Streams[Other(s)]))]
  /\ Streams' = [Streams EXCEPT ![Other(s)] = Tail(@)]
Cuts ==
  /\ open /\ ~ open' /\ UNCHANGED <<received, produced>>
  /\ Streams' \in [Sides -> Seq(ByteNumbers)]
  /\ \A s \in Sides : \E kept \in 0 .. Len(Streams[s]) : Streams'[s] = SubSeq(Streams[s], 1, kept)
Rests == Streams' = Streams /\ UNCHANGED <<received, open, produced>>

LEMMA StepMoves ==
  ASSUME RelayInv, [Next]_vars
  PROVE  Rests \/ Cuts \/ \E s \in Sides : Sends(s) \/ Reads(s)
<1>0. TypeOK /\ Handled
  BY DEF RelayInv, PairInv
<1>1. CASE UNCHANGED <<wire, inbox, outbound, sent, received, open, produced>>
  BY <1>1, StreamsUndisturbed DEF Rests
<1>2. ASSUME ClosePair, open PROVE Cuts
  BY <1>2, ClosePairCuts DEF Cuts
<1>3. ASSUME NEW s \in Sides, Arrive(s) PROVE Sends(s)
  BY <1>3, ArriveIsSend DEF Sends
<1>4. ASSUME NEW s \in Sides, Receive(s) PROVE Reads(s)
  <2>1. UNCHANGED produced
    BY <1>4 DEF Receive
  <2> QED
    BY <1>0, <1>4, <2>1, ReceiveTakesOldest DEF Reads
<1>5. CASE UNCHANGED vars
  BY <1>1, <1>5 DEF vars, peer, kernel
<1>6. CASE Ends
  <2>1. ASSUME NEW s \in Sides, Finish(s) \/ Reset(s)
        PROVE  UNCHANGED <<wire, inbox, outbound, sent, received, open, produced>>
    BY <2>1 DEF Finish, Reset, peer
  <2>2. ASSUME Answer \/ Elapse
        PROVE  UNCHANGED <<wire, inbox, outbound, sent, received, open, produced>>
    BY <2>2 DEF Answer, Elapse, peer, kernel
  <2> QED
    BY <1>1, <1>3, <1>4, <1>6, <2>1, <2>2 DEF Ends
<1>7. CASE Reap
  BY <1>2, <1>7 DEF Reap, ReapConnect, ReapIdle
<1>8. CASE Worker
  <2>1. CASE EpollWait \/ EndBatch \/ FinishConnect \/ ReadBlocks \/ FlushBlocks
    BY <1>1, <2>1 DEF EpollWait, EndBatch, FinishConnect, ReadBlocks, FlushBlocks, peer, kernel
  <2>2. ASSUME NEW s \in Sides, SkipEvent(s) \/ Dispatch(s)
        PROVE  UNCHANGED <<wire, inbox, outbound, sent, received, open, produced>>
    BY <2>2 DEF SkipEvent, Dispatch, peer, kernel
  <2>3. ASSUME NEW s \in Sides, HangUp(s) PROVE ClosePair /\ open
    BY <2>3 DEF HangUp
  <2>4. CASE FinishConnectFails \/ ReadEnds \/ FlushFails
    <3>1. ClosePair /\ open
      BY <1>0, <2>4 DEF FinishConnectFails, ReadEnds, FlushFails, CloseAndGoOn, Handled, TypeOK
    <3> QED
      BY <1>2, <3>1
  <2>5. CASE ReadSome
    <3>1. Streams' = Streams
      BY <1>0, <2>5, ReadSomeMoves DEF TypeOK
    <3> QED
      BY <2>5, <3>1 DEF Rests, ReadSome
  <2>6. CASE FlushNothing
    <3>1. Streams' = Streams
      BY <1>0, <2>6, FlushNothingMoves DEF TypeOK
    <3> QED
      BY <2>6, <3>1 DEF Rests, FlushNothing, kernel
  <2>7. CASE FlushSome
    <3>1. Streams' = Streams
      BY <1>0, <2>7, FlushSomeMoves DEF TypeOK
    <3> QED
      BY <2>7, <3>1 DEF Rests, FlushSome
  <2> QED
    BY <1>1, <1>2, <1>8, <2>1, <2>2, <2>3, <2>4, <2>5, <2>6, <2>7 DEF Worker
<1> QED
  BY <1>5, <1>6, <1>7, <1>8 DEF Next

\* Every step of the pair is a step of the two streams, or none of them.
LEMMA RelayStep ==
  ASSUME RelayInv, [Next]_vars
  PROVE  [R!Next]_(R!vars) /\ StreamsTyped'
<1>1. CASE Rests
  BY <1>1 DEF Rests, R!vars, Streams, StreamsTyped, RelayInv
<1>2. CASE Cuts
  <2>1. StreamsTyped'
    BY <1>2 DEF Cuts, StreamsTyped, RelayInv
  <2>2. R!Close
    BY <1>2, SameSides DEF Cuts, R!Close, Streams
  <2> QED
    BY <2>1, <2>2 DEF R!Next
<1>3. ASSUME NEW s \in Sides, Sends(s) PROVE R!Send(s) /\ StreamsTyped'
  <2>1. Streams' \in [Sides -> Seq(ByteNumbers)]
    BY <1>3, AppendProperties DEF Sends, RelayInv, StreamsTyped
  <2> QED
    BY <1>3, <2>1 DEF Sends, R!Send, StreamsTyped, Streams
<1>4. ASSUME NEW s \in Sides, Reads(s) PROVE R!Receive(s) /\ StreamsTyped'
  <2>1. Streams' \in [Sides -> Seq(ByteNumbers)]
    BY <1>4, OtherSide, HeadTailProperties DEF Reads, RelayInv, StreamsTyped
  <2>2. R!Receive(s)
    BY <1>4, SameSides DEF Reads, R!Receive, Streams
  <2> QED
    BY <1>4, <2>1, <2>2 DEF Reads, RelayInv, StreamsTyped
<1> QED
  BY <1>1, <1>2, <1>3, <1>4, StepMoves, SameSides DEF R!Next

LEMMA RelayInit == Init => R!Init /\ StreamsTyped
<1> SUFFICES ASSUME Init PROVE R!Init /\ StreamsTyped
  OBVIOUS
<1>1. ASSUME NEW s \in Sides PROVE InTransit(s) = <<>>
  <2>1. /\ wire[Other(s)] = <<>> /\ outbound[Other(s)] = <<>> /\ sent[Other(s)] = 0 /\ inbox[s] = <<>>
    BY OtherSide DEF Init
  <2>2. Unsent(Other(s)) = <<>>
    <3>1. SubSeq(<<>>, 0 + 1, 0) = <<>>
      BY SubSeqEmpty
    <3> QED
      BY <2>1, <3>1, EmptyBytes DEF Unsent
  <2> QED
    BY <2>1, <2>2, EmptyBytes, ConcatEmptySeq DEF InTransit
<1>2. Streams = [s \in Sides |-> <<>>]
  BY <1>1 DEF Streams
<1>3. StreamsTyped
  BY <1>2, BoundsAssumption, EmptySeq DEF StreamsTyped, Init
<1>4. R!Init
  BY <1>2, SameSides DEF R!Init, Streams, Init
<1> QED
  BY <1>3, <1>4

\* A proxied pair is two byte streams: whatever the order of events, partial
\* writes and closes, each end reads what the other has written, in order, with
\* nothing lost or repeated but the tail that a close cuts off.
THEOREM PairImplementsRelay == Spec => ImplementsRelay
<1>1. Init => R!Init /\ StreamsTyped
  BY RelayInit
<1>2. PairInv /\ StreamsTyped /\ [Next]_vars => [R!Next]_(R!vars) /\ StreamsTyped'
  BY RelayStep DEF RelayInv
<1> QED
  BY <1>1, <1>2, PairInvAlways, PTL DEF Spec, ImplementsRelay, R!Spec

-----------------------------------------------------------------------------
(* The bytes themselves, which an end numbers as it sends them.            *)

ReadFrom(s) == received[Other(s)]

\* What has been read of s's bytes and what is in transit are its first bytes,
\* each once and in order; while the pair is open they are all that it has sent.
InOrder(s) ==
  /\ \A i \in 1 .. Len(ReadFrom(s)) : ReadFrom(s)[i] = i
  /\ \A i \in 1 .. Len(Streams[s]) : Streams[s][i] = Len(ReadFrom(s)) + i
  /\ Len(ReadFrom(s)) + Len(Streams[s]) <= produced[s]
  /\ open => Len(ReadFrom(s)) + Len(Streams[s]) = produced[s]
BytesInOrder == \A s \in Sides : InOrder(s)

LEMMA BytesTyped ==
  ASSUME RelayInv, NEW s \in Sides
  PROVE  /\ ReadFrom(s) \in Seq(Nat) /\ Streams[s] \in Seq(Nat) /\ produced[s] \in Nat
         /\ Len(ReadFrom(s)) \in Nat /\ Len(Streams[s]) \in Nat
<1>1. TypeOK /\ Other(s) \in Sides
  BY OtherSide DEF RelayInv, PairInv
<1>2. ReadFrom(s) \in Seq(Nat) /\ produced[s] \in Nat
  BY <1>1 DEF ReadFrom, TypeOK
<1>3. Streams[s] \in Seq(Nat)
  <2> DEFINE w == wire[Other(s)]
             u == Unsent(Other(s))
             i == inbox[s]
  <2>1. w \in Seq(Nat) /\ u \in Seq(Nat) /\ i \in Seq(Nat) /\ Streams[s] = w \o u \o i
    BY <1>1, PartsTyped
  <2> HIDE DEF w, u, i
  <2> QED
    BY <2>1, ThreeParts
<1> QED
  BY <1>2, <1>3, LenProperties

LEMMA SendKeepsOrder ==
  ASSUME RelayInv, BytesInOrder, NEW from \in Sides, Sends(from), NEW s \in Sides
  PROVE  InOrder(s)'
<1>1. ReadFrom(s)' = ReadFrom(s) /\ open' = open /\ open /\ InOrder(s)
  BY DEF Sends, ReadFrom, BytesInOrder
<1>2. CASE s # from
  <2>1. Streams'[s] = Streams[s] /\ produced'[s] = produced[s]
    BY <1>2 DEF Sends, Streams, RelayInv, PairInv, TypeOK
  <2> QED
    BY <1>1, <2>1 DEF InOrder
<1>3. CASE s = from
  <2>1. Streams'[s] = Append(Streams[s], produced[s] + 1) /\ produced'[s] = produced[s] + 1
    BY <1>3 DEF Sends, Streams, RelayInv, PairInv, TypeOK
  <2>2. /\ Streams[s] \in Seq(Nat) /\ produced[s] + 1 \in Nat /\ produced[s] \in Nat
        /\ Len(ReadFrom(s)) \in Nat /\ Len(Streams[s]) \in Nat
    BY BytesTyped
  <2>3. /\ Len(Streams'[s]) = Len(Streams[s]) + 1
        /\ \A i \in 1 .. Len(Streams[s]) : Streams'[s][i] = Streams[s][i]
        /\ Streams'[s][Len(Streams[s]) + 1] = produced[s] + 1
    BY <2>1, <2>2, AppendProperties
  <2>4. produced[s] = Len(ReadFrom(s)) + Len(Streams[s])
    BY <1>1 DEF InOrder
  <2>5. ASSUME NEW i \in 1 .. Len(Streams[s]) + 1
        PROVE  Streams'[s][i] = Len(ReadFrom(s)) + i
    <3>1. CASE i = Len(Streams[s]) + 1
      BY <2>2, <2>3, <2>4, <3>1
    <3>2. CASE i \in 1 .. Len(Streams[s])
      BY <1>1, <2>3, <3>2 DEF InOrder
    <3>3. i = Len(Streams[s]) + 1 \/ i \in 1 .. Len(Streams[s])
      BY <2>2
    <3> QED
      BY <3>1, <3>2, <3>3
  <2>6. Len(ReadFrom(s)) + Len(Streams'[s]) = produced'[s]
    BY <2>1, <2>2, <2>3, <2>4
  <2> QED
    BY <1>1, <2>1, <2>2, <2>3, <2>5, <2>6 DEF InOrder
<1> QED
  BY <1>2, <1>3

LEMMA ReadKeepsOrder ==
  ASSUME RelayInv, BytesInOrder, NEW to \in Sides, Reads(to), NEW s \in Sides
  PROVE  InOrder(s)'
<1>1. InOrder(s) /\ UNCHANGED <<open, produced>> /\ Other(s) \in Sides
      /\ (s = Other(to) <=> Other(s) = to)
  BY OtherSide DEF Reads, BytesInOrder
<1>2. CASE s # Other(to)
  <2>1. Streams'[s] = Streams[s] /\ received'[Other(s)] = received[Other(s)]
    BY <1>1, <1>2 DEF Reads, Streams, RelayInv, PairInv, TypeOK
  <2> QED
    BY <1>1, <2>1 DEF InOrder, ReadFrom
<1>3. CASE s = Other(to)
  <2>1. /\ ReadFrom(s) \in Seq(Nat) /\ Streams[s] \in Seq(Nat) /\ produced[s] \in Nat
        /\ Len(ReadFrom(s)) \in Nat /\ Len(Streams[s]) \in Nat
    BY BytesTyped
  <2>2. /\ Streams[s] # <<>> /\ Streams'[s] = Tail(Streams[s])
        /\ ReadFrom(s)' = Append(ReadFrom(s), Head(Streams[s]))
    BY <1>1, <1>3 DEF Reads, Streams, ReadFrom, RelayInv, PairInv, TypeOK
  <2>3. /\ Len(Streams[s]) > 0 /\ Head(Streams[s]) = Streams[s][1] /\ Head(Streams[s]) \in Nat
        /\ Len(Streams'[s]) = Len(Streams[s]) - 1
        /\ \A i \in 1 .. Len(Streams[s]) - 1 : Streams'[s][i] = Streams[s][i + 1]
    BY <2>1, <2>2, EmptySeq, HeadTailProperties
  <2>4. /\ Len(ReadFrom(s)') = Len(ReadFrom(s)) + 1
        /\ \A i \in 1 .. Len(ReadFrom(s)) : ReadFrom(s)'[i] = ReadFrom(s)[i]
        /\ ReadFrom(s)'[Len(ReadFrom(s)) + 1] = Head(Streams[s])
    BY <2>1, <2>2, <2>3, AppendProperties
  <2>5. Head(Streams[s]) = Len(ReadFrom(s)) + 1
    BY <1>1, <2>1, <2>3 DEF InOrder
  <2>6. ASSUME NEW i \in 1 .. Len(ReadFrom(s)) + 1 PROVE ReadFrom(s)'[i] = i
    <3>1. i = Len(ReadFrom(s)) + 1 \/ i \in 1 .. Len(ReadFrom(s))
      BY <2>1
    <3> QED
      BY <1>1, <2>4, <2>5, <3>1 DEF InOrder
  <2>7. ASSUME NEW i \in 1 .. Len(Streams[s]) - 1
        PROVE  Streams'[s][i] = Len(ReadFrom(s)) + 1 + i
    <3>1. i + 1 \in 1 .. Len(Streams[s])
      BY <2>1
    <3>2. Streams[s][i + 1] = Len(ReadFrom(s)) + (i + 1)
      BY <1>1, <3>1 DEF InOrder
    <3>3. Len(ReadFrom(s)) + (i + 1) = Len(ReadFrom(s)) + 1 + i
      BY <2>1
    <3>4. Streams'[s][i] = Streams[s][i + 1]
      BY <2>3
    <3> QED
      BY <3>2, <3>3, <3>4
  <2>8. Len(ReadFrom(s)') + Len(Streams'[s]) = Len(ReadFrom(s)) + Len(Streams[s])
    <3>1. Len(ReadFrom(s)) \in Nat /\ Len(Streams[s]) \in Nat
      BY <2>1
    <3>2. Len(ReadFrom(s)') = Len(ReadFrom(s)) + 1 /\ Len(Streams'[s]) = Len(Streams[s]) - 1
      BY <2>3, <2>4
    <3>3. \A m, n \in Nat : (m + 1) + (n - 1) = m + n
      OBVIOUS
    <3> QED
      BY <3>1, <3>2, <3>3, Zenon
  <2> QED
    BY <1>1, <2>1, <2>3, <2>4, <2>6, <2>7, <2>8 DEF InOrder
<1> QED
  BY <1>2, <1>3

LEMMA CutKeepsOrder ==
  ASSUME RelayInv, BytesInOrder, Cuts, NEW s \in Sides
  PROVE  InOrder(s)'
<1>1. InOrder(s) /\ ~ open' /\ ReadFrom(s)' = ReadFrom(s) /\ produced' = produced
  BY DEF Cuts, BytesInOrder, ReadFrom
<1>2. PICK kept \in 0 .. Len(Streams[s]) : Streams'[s] = SubSeq(Streams[s], 1, kept)
  BY DEF Cuts
<1>3. Streams[s] \in Seq(Nat) /\ Len(Streams[s]) \in Nat /\ Len(ReadFrom(s)) \in Nat
      /\ produced[s] \in Nat
  BY BytesTyped
<1>4. /\ kept <= Len(Streams[s]) /\ kept \in Nat /\ Len(Streams'[s]) = kept
      /\ \A i \in 1 .. kept : Streams'[s][i] = Streams[s][i]
  <2>1. \A i \in 1 .. kept : Streams[s][i] \in Nat
    BY <1>3, ElementOfSeq
  <2> DEFINE cut == SubSeq(Streams[s], 1, kept)
  <2>2. /\ Len(cut) = IF 1 <= kept THEN kept - 1 + 1 ELSE 0
        /\ \A i \in 1 .. kept - 1 + 1 : cut[i] = Streams[s][1 + i - 1]
    BY <1>3, <2>1, SubSeqProperties
  <2> HIDE DEF cut
  <2>3. Len(cut) = kept /\ \A i \in 1 .. kept : cut[i] = Streams[s][i]
    BY <1>3, <2>2
  <2> QED
    BY <1>2, <1>3, <2>3 DEF cut
<1>5. Len(ReadFrom(s)) + kept <= produced[s]
  BY <1>1, <1>3, <1>4 DEF InOrder
<1> QED
  BY <1>1, <1>3, <1>4, <1>5 DEF InOrder

\* Whatever the order of events, partial writes and closes, and for any sizes:
\* an end reads the first bytes that the other has sent, each once and in order,
\* and while the pair is open none of the others is lost (read_available, flush,
\* close_pair).
THEOREM BytesInOrderAlways == Spec => []BytesInOrder
<1>1. Init => BytesInOrder
  <2> SUFFICES ASSUME Init, NEW s \in Sides PROVE InOrder(s)
    BY DEF BytesInOrder
  <2>1. received[Other(s)] = <<>> /\ produced[s] = 0
    BY OtherSide DEF Init
  <2>2. Streams[s] = <<>>
    BY RelayInit, SameSides DEF R!Init, Streams
  <2> QED
    BY <2>1, <2>2 DEF InOrder, ReadFrom
<1>2. RelayInv /\ BytesInOrder /\ [Next]_vars => BytesInOrder'
  <2> SUFFICES ASSUME RelayInv, BytesInOrder, [Next]_vars, NEW s \in Sides PROVE InOrder(s)'
    BY DEF BytesInOrder
  <2>1. CASE Rests
    BY <2>1 DEF Rests, BytesInOrder, InOrder, ReadFrom
  <2> QED
    BY <2>1, StepMoves, SendKeepsOrder, ReadKeepsOrder, CutKeepsOrder
<1>3. Spec => []RelayInv
  <2>1. Init => StreamsTyped
    BY RelayInit
  <2>2. PairInv /\ StreamsTyped /\ [Next]_vars => StreamsTyped'
    BY RelayStep DEF RelayInv
  <2>3. PairInv /\ StreamsTyped => RelayInv
    BY DEF RelayInv
  <2> QED
    BY <2>1, <2>2, <2>3, PairInvAlways, PTL DEF Spec
<1> QED
  BY <1>1, <1>2, <1>3, PTL DEF Spec
=============================================================================
