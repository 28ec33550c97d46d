-------------------------- MODULE ProxyPairProofs --------------------------
(***************************************************************************)
(* Proofs about module ProxyPair, for any sizes of the buffers, lengths of *)
(* the streams and idle timeout: its type invariant, the bound that back-  *)
(* pressure keeps, and the events that a waiting pair is armed for.        *)
(***************************************************************************)
EXTENDS ProxyPair, SequenceTheorems, TLAPS

PeerTyped ==
  /\ open \in BOOLEAN /\ connecting \in BOOLEAN
  /\ outbound \in [Sides -> Seq(Nat)] /\ sent \in [Sides -> Nat]
  /\ \A s \in Sides : sent[s] <= Len(outbound[s])
  /\ age \in [Sides -> 0 .. IdleTimeout]
  /\ interest \in [Sides -> SUBSET {"IN", "OUT"}]

WorkerTyped ==
  /\ pc \in {"wait", "events", "finish_connect", "read", "flush"}
  /\ batch \in [Sides -> SUBSET {"IN", "OUT", "RDHUP", "ERR"}]
  /\ fd \in Sides /\ flags \in SUBSET {"IN", "OUT"}
  /\ target \in Sides /\ caller \in {"event", "finish_connect", "read_available"}

KernelTyped ==
  /\ produced \in [Sides -> Nat]
  /\ inbox \in [Sides -> Seq(Nat)] /\ wire \in [Sides -> Seq(Nat)]
  /\ fin \in [Sides -> BOOLEAN] /\ reset \in [Sides -> BOOLEAN]
  /\ answered \in BOOLEAN
  /\ received \in [Sides -> Seq(Nat)]

LEMMA TypeParts == TypeOK <=> PeerTyped /\ WorkerTyped /\ KernelTyped
BY DEF TypeOK, PeerTyped, WorkerTyped, KernelTyped

LEMMA OtherSide ==
  /\ \A s \in Sides : Other(s) \in Sides /\ Other(s) # s /\ Other(Other(s)) = s
  /\ \A s, t \in Sides : s # t => t = Other(s)
  /\ "client" \in Sides /\ "backend" \in Sides
BY DEF Other, Sides

-----------------------------------------------------------------------------
(* Sequences of bytes.                                                     *)

LEMMA EmptyBytes == <<>> \in Seq(Nat) /\ Len(<<>>) = 0
OBVIOUS

LEMMA LongerBy ==
  ASSUME NEW q \in Seq(Nat), NEW r \in Seq(Nat)
  PROVE  q \o r \in Seq(Nat) /\ Len(q \o r) = Len(q) + Len(r)
BY ConcatProperties

\* A part of a buffer.
LEMMA PartOf ==
  ASSUME NEW q \in Seq(Nat), NEW m \in Nat, NEW n \in Nat, m <= n, n <= Len(q)
  PROVE  SubSeq(q, m + 1, n) \in Seq(Nat) /\ Len(SubSeq(q, m + 1, n)) = n - m
<1>1. \A i \in m + 1 .. n : q[i] \in Nat
  <2> SUFFICES ASSUME NEW i \in m + 1 .. n PROVE q[i] \in Nat
    OBVIOUS
  <2>1. i \in 1 .. Len(q)
    OBVIOUS
  <2> QED
    BY <2>1, ElementOfSeq
<1>2. m + 1 \in Int /\ n \in Int
  OBVIOUS
<1>3. /\ SubSeq(q, m + 1, n) \in Seq(Nat)
      /\ Len(SubSeq(q, m + 1, n)) = IF m + 1 <= n THEN n - (m + 1) + 1 ELSE 0
  BY <1>1, <1>2, SubSeqProperties
<1> QED
  BY <1>3

-----------------------------------------------------------------------------
(* Types.                                                                  *)

\* Wherever the worker goes on, it does so with a legal event in hand.
LEMMA GoOnTyped ==
  ASSUME TypeOK, ToNextEvent \/ ToRead \/ AfterRead \/ AfterFinish
  PROVE  WorkerTyped'
<1>1. CASE ToNextEvent
  BY <1>1 DEF ToNextEvent, Idle, TypeOK, WorkerTyped, Sides
<1>2. CASE ToRead
  BY <1>2 DEF ToRead, TypeOK, WorkerTyped, Sides
<1>3. CASE ToFlush
  BY <1>3 DEF ToFlush, TypeOK, WorkerTyped, Sides
<1> QED
  BY <1>1, <1>2, <1>3 DEF AfterRead, AfterFinish

LEMMA ArmedTyped ==
  ASSUME NEW s, NEW conn, NEW out, NEW snt
  PROVE  Armed(s, conn, out, snt) \in SUBSET {"IN", "OUT"}
BY DEF Armed

LEMMA FlushReturnsTyped ==
  ASSUME TypeOK, NEW conn, NEW out, NEW snt, NEW drained, FlushReturns(conn, out, snt, drained)
  PROVE  interest' \in [Sides -> SUBSET {"IN", "OUT"}] /\ WorkerTyped'
<1>1. interest' \in [Sides -> SUBSET {"IN", "OUT"}]
  BY ArmedTyped DEF FlushReturns, TypeOK
<1>2. ToNextEvent \/ ToRead \/ AfterRead \/ AfterFinish
  BY DEF FlushReturns
<1> QED
  BY <1>1, <1>2, GoOnTyped

LEMMA ClosePairTyped ==
  ASSUME TypeOK, ClosePair
  PROVE  PeerTyped' /\ KernelTyped'
<1>1. PeerTyped'
  <2>1. outbound' \in [Sides -> Seq(Nat)] /\ sent' \in [Sides -> Nat]
    BY EmptyBytes DEF ClosePair
  <2>2. \A s \in Sides : sent'[s] <= Len(outbound'[s])
    BY EmptyBytes DEF ClosePair
  <2>3. age' \in [Sides -> 0 .. IdleTimeout]
    BY BoundsAssumption DEF ClosePair
  <2> QED
    BY <2>1, <2>2, <2>3 DEF ClosePair, PeerTyped
<1>2. wire' \in [Sides -> Seq(Nat)]
  <2>1. PICK lost \in SUBSET {s \in Sides : inbox[s] # <<>>} :
          wire' = [s \in Sides |-> IF s \in lost THEN <<>> ELSE wire[s]]
    BY DEF ClosePair
  <2> QED
    BY <2>1, EmptyBytes DEF TypeOK
<1>3. KernelTyped'
  BY <1>2, EmptyBytes DEF ClosePair, TypeOK, KernelTyped
<1> QED
  BY <1>1, <1>3

LEMMA MinOfLeast ==
  ASSUME NEW a \in Int, NEW b \in Int
  PROVE  MinOf(a, b) \in {a, b} /\ MinOf(a, b) <= a /\ MinOf(a, b) <= b
BY DEF MinOf

\* What one round of flush writes: some bytes, no more than are left.
LEMMA FlushTakes ==
  ASSUME TypeOK, NEW t \in Sides, sent[t] < Len(outbound[t]),
         NEW n, n = MinOf(SendBuffer - Len(wire[t]), Len(outbound[t]) - sent[t]), n > 0
  PROVE  /\ n \in Nat /\ sent[t] + n <= Len(outbound[t])
         /\ SubSeq(outbound[t], sent[t] + 1, sent[t] + n) \in Seq(Nat)
<1>1. /\ outbound[t] \in Seq(Nat) /\ wire[t] \in Seq(Nat) /\ sent[t] \in Nat
  BY DEF TypeOK
<1>2. Len(outbound[t]) \in Nat /\ Len(wire[t]) \in Nat /\ SendBuffer \in Nat
  BY <1>1, SizesAssumption
<1>3. n \in Nat /\ sent[t] + n <= Len(outbound[t])
  BY <1>1, <1>2, MinOfLeast
<1>4. sent[t] + n \in Nat /\ sent[t] <= sent[t] + n
  BY <1>1, <1>3
<1> QED
  BY <1>1, <1>3, <1>4, PartOf

\* What one round of read_available reads: some bytes, at most a buffer.
LEMMA ReadTakes ==
  ASSUME TypeOK, NEW s \in Sides, inbox[s] # <<>>,
         NEW n, n = MinOf(Len(inbox[s]), BufferSize)
  PROVE  /\ n \in Nat /\ n <= Len(inbox[s]) /\ n <= BufferSize
         /\ SubSeq(inbox[s], 1, n) \in Seq(Nat) /\ Len(SubSeq(inbox[s], 1, n)) = n
         /\ SubSeq(inbox[s], n + 1, Len(inbox[s])) \in Seq(Nat)
<1>1. inbox[s] \in Seq(Nat) /\ Len(inbox[s]) \in Nat /\ BufferSize \in Nat
  BY SizesAssumption DEF TypeOK
<1>2. n \in Nat /\ n <= Len(inbox[s]) /\ n <= BufferSize
  BY <1>1, MinOfLeast
<1>3. SubSeq(inbox[s], 0 + 1, n) \in Seq(Nat) /\ Len(SubSeq(inbox[s], 0 + 1, n)) = n - 0
  BY <1>1, <1>2, PartOf
<1>4. SubSeq(inbox[s], n + 1, Len(inbox[s])) \in Seq(Nat)
  BY <1>1, <1>2, PartOf
<1> QED
  BY <1>2, <1>3, <1>4

LEMMA ReadSomeTyped == TypeOK /\ ReadSome => TypeOK'
<1> SUFFICES ASSUME TypeOK, ReadSome PROVE TypeOK'
  OBVIOUS
<1> DEFINE n == MinOf(Len(inbox[fd]), BufferSize)
           to == Other(fd)
           chunk == SubSeq(inbox[fd], 1, n)
           rest == SubSeq(inbox[fd], n + 1, Len(inbox[fd]))
<1>1. fd \in Sides /\ to \in Sides
  BY OtherSide DEF TypeOK
<1>2. chunk \in Seq(Nat) /\ rest \in Seq(Nat)
  BY <1>1, ReadTakes DEF ReadSome
<1>3. /\ outbound[to] \in Seq(Nat)
      /\ outbound[to] \o chunk \in Seq(Nat)
      /\ Len(outbound[to] \o chunk) >= Len(outbound[to])
  <2> HIDE DEF n, to, chunk, rest
  <2>1. outbound[to] \in Seq(Nat)
    BY <1>1 DEF TypeOK
  <2>2. /\ outbound[to] \o chunk \in Seq(Nat)
        /\ Len(outbound[to] \o chunk) = Len(outbound[to]) + Len(chunk)
    BY <1>2, <2>1, ConcatProperties
  <2>3. Len(chunk) \in Nat /\ Len(outbound[to]) \in Nat
    BY <1>2, <2>1
  <2> QED
    BY <2>1, <2>2, <2>3
<1>4. /\ outbound' = [outbound EXCEPT ![to] = outbound[to] \o chunk]
      /\ inbox' = [inbox EXCEPT ![fd] = rest]
  BY DEF ReadSome
<1>5. PeerTyped'
  <2>1. outbound' \in [Sides -> Seq(Nat)]
    BY <1>3, <1>4 DEF TypeOK
  <2>2. \A s \in Sides : sent[s] <= Len(outbound'[s])
    <3> SUFFICES ASSUME NEW s \in Sides PROVE sent[s] <= Len(outbound'[s])
      OBVIOUS
    <3>1. sent[s] \in Nat /\ sent[s] <= Len(outbound[s]) /\ outbound[s] \in Seq(Nat)
      BY DEF TypeOK
    <3>2. CASE s = to
      <4>1. outbound'[s] = outbound[to] \o chunk
        BY <1>1, <1>4, <3>2 DEF TypeOK
      <4>2. Len(outbound[to]) \in Nat /\ Len(outbound[to] \o chunk) \in Nat
        BY <1>3
      <4> HIDE DEF to, chunk
      <4> QED
        BY <1>3, <3>1, <3>2, <4>1, <4>2
    <3>3. CASE s # to
      BY <1>4, <3>1, <3>3 DEF TypeOK
    <3> QED
      BY <3>2, <3>3
  <2>3. age' \in [Sides -> 0 .. IdleTimeout]
    BY BoundsAssumption DEF ReadSome
  <2>4. open' = open /\ connecting' = connecting /\ sent' = sent /\ interest' = interest
    BY DEF ReadSome
  <2> HIDE DEF n, to, chunk, rest
  <2> QED
    BY <2>1, <2>2, <2>3, <2>4 DEF TypeOK, PeerTyped
<1>6. WorkerTyped'
  BY <1>1 DEF ReadSome, TypeOK, WorkerTyped
<1>7. KernelTyped'
  BY <1>2, <1>4 DEF ReadSome, TypeOK, KernelTyped
<1> QED
  BY <1>5, <1>6, <1>7 DEF TypeOK, PeerTyped, WorkerTyped, KernelTyped

LEMMA FlushSomeTyped == TypeOK /\ FlushSome => TypeOK'
<1> SUFFICES ASSUME TypeOK, FlushSome PROVE TypeOK'
  OBVIOUS
<1> DEFINE t == target
           n == MinOf(SendBuffer - Len(wire[t]), Len(outbound[t]) - sent[t])
           drained == sent[t] + n = Len(outbound[t])
           part == SubSeq(outbound[t], sent[t] + 1, sent[t] + n)
<1>1. /\ t \in Sides /\ sent[t] \in Nat /\ outbound[t] \in Seq(Nat) /\ wire[t] \in Seq(Nat)
  BY DEF TypeOK
<1>2. n \in Nat /\ sent[t] + n <= Len(outbound[t]) /\ part \in Seq(Nat)
  BY <1>1, FlushTakes DEF FlushSome
<1>3. /\ wire' = [wire EXCEPT ![t] = wire[t] \o part]
      /\ outbound' = [outbound EXCEPT ![t] = IF drained THEN <<>> ELSE outbound[t]]
      /\ sent' = [sent EXCEPT ![t] = IF drained THEN 0 ELSE sent[t] + n]
      /\ age' = [age EXCEPT ![t] = 0]
  BY DEF FlushSome, SentNow
<1>4. KernelTyped'
  <2>1. wire[t] \o part \in Seq(Nat)
    BY <1>1, <1>2, ConcatProperties
  <2>2. wire' \in [Sides -> Seq(Nat)]
    BY <1>1, <1>3, <2>1 DEF TypeOK
  <2> QED
    BY <2>2 DEF FlushSome, TypeOK, KernelTyped
<1>5. interest' \in [Sides -> SUBSET {"IN", "OUT"}] /\ WorkerTyped'
  <2>1. CASE drained
    <3>1. FlushReturns(connecting, outbound', sent', TRUE)
      BY <2>1 DEF FlushSome
    <3> QED
      BY <3>1, FlushReturnsTyped
  <2>2. CASE ~ drained
    BY <2>2 DEF FlushSome, TypeOK, WorkerTyped, worker
  <2> QED
    BY <2>1, <2>2
<1>6. PeerTyped'
  <2>1. outbound' \in [Sides -> Seq(Nat)]
    <3> HIDE DEF t, n, drained, part
    <3> QED
      BY <1>1, <1>3, EmptyBytes DEF TypeOK
  <2>2. sent' \in [Sides -> Nat]
    <3>1. (IF drained THEN 0 ELSE sent[t] + n) \in Nat
      <4> HIDE DEF n, drained
      <4> QED
        BY <1>1, <1>2
    <3> HIDE DEF t, n, drained, part
    <3> QED
      BY <1>1, <1>3, <3>1 DEF TypeOK
  <2>3. \A s \in Sides : sent'[s] <= Len(outbound'[s])
    <3> SUFFICES ASSUME NEW s \in Sides PROVE sent'[s] <= Len(outbound'[s])
      OBVIOUS
    <3>1. CASE s # t
      BY <1>3, <3>1 DEF TypeOK
    <3>2. CASE s = t /\ drained
      <4>1. sent'[s] = 0 /\ outbound'[s] = <<>>
        BY <1>1, <1>3, <3>2 DEF TypeOK
      <4> QED
        BY <4>1, EmptyBytes
    <3>3. CASE s = t /\ ~ drained
      <4>1. sent'[s] = sent[t] + n /\ outbound'[s] = outbound[t]
        BY <1>1, <1>3, <3>3 DEF TypeOK
      <4> QED
        BY <1>2, <4>1
    <3> QED
      BY <3>1, <3>2, <3>3
  <2>4. age' \in [Sides -> 0 .. IdleTimeout]
    BY <1>1, <1>3, BoundsAssumption DEF TypeOK
  <2>5. open' = open /\ connecting' = connecting
    BY DEF FlushSome
  <2> HIDE DEF t, n, drained, part
  <2> QED
    BY <1>5, <2>1, <2>2, <2>3, <2>4, <2>5 DEF TypeOK, PeerTyped
<1> QED
  BY <1>4, <1>5, <1>6 DEF TypeOK, PeerTyped, WorkerTyped, KernelTyped

LEMMA FlushNothingTyped == TypeOK /\ FlushNothing => TypeOK'
<1> SUFFICES ASSUME TypeOK, FlushNothing PROVE TypeOK'
  OBVIOUS
<1>1. target \in Sides
  BY DEF TypeOK
<1>2. outbound' \in [Sides -> Seq(Nat)]
  BY <1>1, EmptyBytes DEF FlushNothing, TypeOK
<1>3. sent' \in [Sides -> Nat]
  BY <1>1 DEF FlushNothing, TypeOK
<1>4. \A s \in Sides : sent'[s] <= Len(outbound'[s])
  <2> SUFFICES ASSUME NEW s \in Sides PROVE sent'[s] <= Len(outbound'[s])
    OBVIOUS
  <2>1. CASE s = target /\ sent[s] >= Len(outbound[s])
    <3>1. sent'[s] = 0 /\ outbound'[s] = <<>>
      BY <1>1, <2>1 DEF FlushNothing, TypeOK
    <3> QED
      BY <3>1, EmptyBytes
  <2>2. CASE ~ (s = target /\ sent[s] >= Len(outbound[s]))
    <3>1. sent'[s] = sent[s] /\ outbound'[s] = outbound[s]
      BY <1>1, <2>2 DEF FlushNothing, TypeOK
    <3> QED
      BY <3>1 DEF TypeOK
  <2> QED
    BY <2>1, <2>2
<1>5. interest' \in [Sides -> SUBSET {"IN", "OUT"}] /\ WorkerTyped'
  BY FlushReturnsTyped DEF FlushNothing
<1>6. PeerTyped' /\ KernelTyped'
  BY <1>2, <1>3, <1>4, <1>5 DEF FlushNothing, kernel, TypeOK, PeerTyped, KernelTyped
<1> QED
  BY <1>5, <1>6 DEF TypeOK, PeerTyped, WorkerTyped, KernelTyped

LEMMA EndsTyped == TypeOK /\ Ends => TypeOK'
<1> SUFFICES ASSUME TypeOK, Ends PROVE TypeOK'
  OBVIOUS
<1>1. ASSUME NEW s \in Sides, Arrive(s) PROVE TypeOK'
  <2>1. produced' \in [Sides -> Nat] /\ produced'[s] \in Nat
    <3>1. produced' = [produced EXCEPT ![s] = produced[s] + 1]
      BY <1>1 DEF Arrive
    <3>2. produced \in [Sides -> Nat]
      BY DEF TypeOK
    <3>3. produced[s] + 1 \in Nat
      BY <3>2
    <3> QED
      BY <3>1, <3>2, <3>3
  <2> DEFINE longer == Append(inbox[s], produced'[s])
  <2>2. inbox' = [inbox EXCEPT ![s] = longer]
    BY <1>1 DEF Arrive
  <2>3. longer \in Seq(Nat)
    BY <2>1, AppendProperties DEF TypeOK
  <2> HIDE DEF longer
  <2>4. inbox' \in [Sides -> Seq(Nat)]
    BY <2>2, <2>3 DEF TypeOK
  <2> QED
    BY <1>1, <2>1, <2>4 DEF Arrive, TypeOK, peer, worker
<1>2. ASSUME NEW s \in Sides, Finish(s) \/ Reset(s) PROVE TypeOK'
  BY <1>2 DEF Finish, Reset, TypeOK, peer, worker
<1>3. ASSUME NEW s \in Sides, Receive(s) PROVE TypeOK'
  <2>1. Head(wire[s]) \in Nat /\ Tail(wire[s]) \in Seq(Nat)
    BY <1>3, HeadTailProperties DEF Receive, TypeOK
  <2>2. Append(received[s], Head(wire[s])) \in Seq(Nat)
    BY <2>1, AppendProperties DEF TypeOK
  <2>3. wire' \in [Sides -> Seq(Nat)] /\ received' \in [Sides -> Seq(Nat)]
    BY <1>3, <2>1, <2>2 DEF Receive, TypeOK
  <2> QED
    BY <1>3, <2>3 DEF Receive, TypeOK, peer, worker
<1>4. CASE Answer
  BY <1>4 DEF Answer, TypeOK, peer, worker
<1>5. CASE Elapse
  <2>1. age' \in [Sides -> 0 .. IdleTimeout]
    <3>1. ASSUME NEW s \in Sides PROVE MinOf(age[s] + 1, IdleTimeout) \in 0 .. IdleTimeout
      <4>1. age[s] \in Nat /\ age[s] <= IdleTimeout /\ IdleTimeout \in Nat
        BY BoundsAssumption DEF TypeOK
      <4> QED
        BY <4>1 DEF MinOf
    <3> QED
      BY <1>5, <3>1 DEF Elapse
  <2> QED
    BY <1>5, <2>1 DEF Elapse, TypeOK, worker, kernel
<1> QED
  BY <1>1, <1>2, <1>3, <1>4, <1>5 DEF Ends

LEMMA DispatchTyped ==
  ASSUME TypeOK, NEW s \in Sides, Dispatch(s)
  PROVE  TypeOK'
<1>1. batch' \in [Sides -> SUBSET {"IN", "OUT", "RDHUP", "ERR"}]
  BY DEF Dispatch, Taken, TypeOK
<1>2. fd' \in Sides /\ flags' \in SUBSET {"IN", "OUT"}
  BY DEF Dispatch, TypeOK
<1>3. /\ pc' \in {"finish_connect", "read", "flush"}
      /\ target' \in Sides
      /\ caller' \in {"event", "finish_connect", "read_available"}
  BY DEF Dispatch, TypeOK
<1> QED
  BY <1>1, <1>2, <1>3 DEF Dispatch, TypeOK, peer, kernel

\* A close, at whatever point of the worker.
LEMMA CloseTyped ==
  ASSUME TypeOK, ClosePair, WorkerTyped'
  PROVE  TypeOK'
BY ClosePairTyped DEF TypeOK, PeerTyped, WorkerTyped, KernelTyped

LEMMA WorkerStepTyped == TypeOK /\ Worker => TypeOK'
<1> SUFFICES ASSUME TypeOK, Worker PROVE TypeOK'
  OBVIOUS
<1>1. CASE EpollWait
  <2>1. \A s \in Sides : Ready(s) \in SUBSET {"IN", "OUT", "RDHUP", "ERR"}
    BY DEF Ready
  <2> QED
    BY <1>1, <2>1 DEF EpollWait, TypeOK, peer, kernel
<1>2. CASE EndBatch
  BY <1>2 DEF EndBatch, TypeOK, peer, kernel
<1>3. ASSUME NEW s \in Sides, SkipEvent(s) PROVE TypeOK'
  BY <1>3 DEF SkipEvent, Taken, TypeOK, peer, kernel
<1>4. ASSUME NEW s \in Sides, HangUp(s) PROVE TypeOK'
  BY <1>4, CloseTyped DEF HangUp, Taken, TypeOK, WorkerTyped
<1>5. ASSUME NEW s \in Sides, Dispatch(s) PROVE TypeOK'
  BY <1>5, DispatchTyped
<1>6. CASE FinishConnect
  <2>1. age' \in [Sides -> 0 .. IdleTimeout]
    BY <1>6, BoundsAssumption DEF FinishConnect, TypeOK
  <2> QED
    BY <1>6, <2>1 DEF FinishConnect, TypeOK, kernel
<1>7. CASE FinishConnectFails \/ ReadEnds \/ FlushFails
  BY <1>7, GoOnTyped, CloseTyped DEF FinishConnectFails, ReadEnds, FlushFails, CloseAndGoOn
<1>8. CASE ReadSome
  BY <1>8, ReadSomeTyped
<1>9. CASE ReadBlocks
  BY <1>9, GoOnTyped DEF ReadBlocks, TypeOK, WorkerTyped, peer, kernel
<1>10. CASE FlushNothing
  BY <1>10, FlushNothingTyped
<1>11. CASE FlushSome
  BY <1>11, FlushSomeTyped
<1>12. CASE FlushBlocks
  BY <1>12, FlushReturnsTyped DEF FlushBlocks, TypeOK, WorkerTyped, kernel
<1> QED
  BY <1>1, <1>2, <1>3, <1>4, <1>5, <1>6, <1>7, <1>8, <1>9, <1>10, <1>11, <1>12 DEF Worker

LEMMA TypeStep == TypeOK /\ [Next]_vars => TypeOK'
<1> SUFFICES ASSUME TypeOK, [Next]_vars PROVE TypeOK'
  OBVIOUS
<1>1. CASE Worker
  BY <1>1, WorkerStepTyped
<1>2. CASE Reap
  BY <1>2, CloseTyped DEF Reap, ReapConnect, ReapIdle, TypeOK, WorkerTyped, worker
<1>3. CASE Ends
  BY <1>3, EndsTyped
<1>4. CASE UNCHANGED vars
  BY <1>4 DEF vars, peer, worker, kernel, TypeOK
<1> QED
  BY <1>1, <1>2, <1>3, <1>4 DEF Next

LEMMA InitTyped == Init => TypeOK
<1> SUFFICES ASSUME Init PROVE TypeOK
  OBVIOUS
<1>1. /\ outbound \in [Sides -> Seq(Nat)] /\ sent \in [Sides -> Nat]
      /\ inbox \in [Sides -> Seq(Nat)] /\ wire \in [Sides -> Seq(Nat)]
      /\ received \in [Sides -> Seq(Nat)]
  BY EmptyBytes DEF Init
<1>2. \A s \in Sides : sent[s] <= Len(outbound[s])
  BY EmptyBytes DEF Init
<1>3. age \in [Sides -> 0 .. IdleTimeout]
  BY BoundsAssumption DEF Init
<1>4. interest \in [Sides -> SUBSET {"IN", "OUT"}]
  BY DEF Init
<1>5. "client" \in Sides
  BY DEF Sides
<1> QED
  BY <1>1, <1>2, <1>3, <1>4, <1>5 DEF Init, TypeOK

\* Every buffer, event and position of a pair keeps its type, and no position
\* lies beyond its buffer.
THEOREM TypeCorrect == Spec => []TypeOK
<1>1. Init => TypeOK
  BY InitTyped
<1> QED
  BY <1>1, TypeStep, PTL DEF Spec

-----------------------------------------------------------------------------
(* Back-pressure and the events a pair is armed for.                       *)

Room(s) == Len(outbound[Other(s)]) < HighWatermark

WellArmed(s) ==
  /\ Connecting(s) \/ sent[s] < Len(outbound[s]) => "OUT" \in interest[s]
  /\ "IN" \in interest[s] <=> ~ Connecting(s) /\ Room(s)

\* What the worker holds while it handles an event.
Handled ==
  /\ ~ open => pc \in {"wait", "events"}
  /\ pc \in {"finish_connect", "read", "flush"} => batch[fd] = {}
  /\ pc = "finish_connect" => fd = "backend"
  /\ pc = "flush" /\ caller = "finish_connect" => fd = "backend"
  /\ pc = "flush" => target = IF caller = "read_available" THEN Other(fd) ELSE fd

\* A buffer is cleared as soon as all of it is sent.
Compact == \A s \in Sides : sent[s] < Len(outbound[s]) \/ Len(outbound[s]) = 0

\* Whoever will be read from has room on the other side.
Roomy ==
  /\ \A s \in Sides : "IN" \in batch[s] => Room(s)
  /\ pc = "read" => Room(fd)
  /\ pc = "finish_connect" /\ "IN" \in flags => Room(fd)
  /\ pc = "flush" /\ caller = "finish_connect" /\ "IN" \in flags => Room(fd)

\* The sides whose modify_fd is still to come.
Unarmed(s) == pc = "flush" /\ (caller = "read_available" \/ (caller = "finish_connect" /\ s = fd))

ArmedInv == open => \A s \in Sides : WellArmed(s) \/ Unarmed(s)

\* The inductive invariant.
PairInv == TypeOK /\ Handled /\ Compact /\ Roomy /\ ArmedInv /\ BufferBound

LEMMA ArmedIsWellArmed ==
  ASSUME NEW s \in Sides, interest'[s] = Armed(s, connecting', outbound', sent')
  PROVE  WellArmed(s)'
BY DEF WellArmed, Armed, Connecting, Room

\* The buffers of a state are finite.
LEMMA Lengths ==
  ASSUME TypeOK
  PROVE  \A s \in Sides : /\ outbound[s] \in Seq(Nat) /\ Len(outbound[s]) \in Nat
                          /\ sent[s] \in Nat /\ sent[s] <= Len(outbound[s])
BY DEF TypeOK

\* flush only shortens the buffer of its target.
Flushed ==
  /\ open' = open /\ connecting' = connecting
  /\ outbound'[Other(target)] = outbound[Other(target)]
  /\ sent'[Other(target)] = sent[Other(target)]
  /\ Len(outbound'[target]) <= Len(outbound[target])
  /\ sent'[target] < Len(outbound'[target]) => sent[target] < Len(outbound[target])
  /\ sent'[target] < Len(outbound'[target]) \/ Len(outbound'[target]) = 0

LEMMA FlushNothingShortens ==
  ASSUME TypeOK, Compact, FlushNothing
  PROVE  Flushed /\ Len(outbound'[target]) = Len(outbound[target])
<1>1. target \in Sides /\ Other(target) \in Sides /\ Other(target) # target
  BY OtherSide DEF TypeOK
<1>2. /\ outbound'[Other(target)] = outbound[Other(target)]
      /\ sent'[Other(target)] = sent[Other(target)]
  BY <1>1 DEF FlushNothing, TypeOK
<1>3. CASE sent[target] >= Len(outbound[target])
  <2>1. Len(outbound[target]) = 0
    BY <1>1, <1>3, Lengths DEF Compact
  <2>2. outbound'[target] = <<>> /\ sent'[target] = 0
    BY <1>1, <1>3 DEF FlushNothing, TypeOK
  <2>3. Len(outbound'[target]) = 0
    BY <2>2, EmptyBytes
  <2> QED
    BY <1>2, <2>1, <2>2, <2>3 DEF FlushNothing, Flushed
<1>4. CASE ~ sent[target] >= Len(outbound[target])
  <2>1. outbound'[target] = outbound[target] /\ sent'[target] = sent[target]
    BY <1>1, <1>4 DEF FlushNothing, TypeOK
  <2> QED
    BY <1>1, <1>2, <1>4, <2>1, Lengths DEF FlushNothing, Flushed
<1> QED
  BY <1>3, <1>4

LEMMA FlushSomeShortens ==
  ASSUME TypeOK, FlushSome
  PROVE  /\ Flushed
         /\ \/ FlushReturns(connecting, outbound', sent', TRUE)
            \/ /\ UNCHANGED <<interest, worker>>
               /\ Len(outbound'[target]) = Len(outbound[target])
<1> DEFINE t == target
           n == MinOf(SendBuffer - Len(wire[t]), Len(outbound[t]) - sent[t])
           drained == sent[t] + n = Len(outbound[t])
<1>1. t \in Sides /\ Other(t) \in Sides /\ Other(t) # t
  BY OtherSide DEF TypeOK
<1>2. n \in Nat /\ sent[t] + n <= Len(outbound[t])
  BY <1>1, FlushTakes DEF FlushSome
<1>3. sent[t] \in Nat /\ Len(outbound[t]) \in Nat /\ sent[t] < Len(outbound[t])
  BY <1>1, Lengths DEF FlushSome
<1>4. /\ outbound' = [outbound EXCEPT ![t] = IF drained THEN <<>> ELSE outbound[t]]
      /\ sent' = [sent EXCEPT ![t] = IF drained THEN 0 ELSE sent[t] + n]
      /\ open' = open /\ connecting' = connecting
  BY DEF FlushSome, SentNow
<1>5. /\ outbound'[Other(t)] = outbound[Other(t)]
      /\ sent'[Other(t)] = sent[Other(t)]
  BY <1>1, <1>4 DEF TypeOK
<1>6. CASE drained
  <2>1. outbound'[t] = <<>> /\ sent'[t] = 0
    BY <1>1, <1>4, <1>6 DEF TypeOK
  <2>2. Len(outbound'[t]) = 0
    BY <2>1, EmptyBytes
  <2>3. FlushReturns(connecting, outbound', sent', TRUE)
    BY <1>6 DEF FlushSome
  <2>4. Flushed
    <3> HIDE DEF n, drained
    <3> QED
      BY <1>3, <1>4, <1>5, <2>1, <2>2 DEF Flushed
  <2> QED
    BY <2>3, <2>4
<1>7. CASE ~ drained
  <2>1. outbound'[t] = outbound[t] /\ sent'[t] = sent[t] + n
    BY <1>1, <1>4, <1>7 DEF TypeOK
  <2>2. sent'[t] < Len(outbound'[t])
    <3>1. sent[t] + n # Len(outbound[t])
      BY <1>7
    <3> HIDE DEF n, drained
    <3> QED
      BY <1>2, <1>3, <2>1, <3>1
  <2>3. UNCHANGED <<interest, worker>>
    BY <1>7 DEF FlushSome
  <2>4. Flushed
    <3> HIDE DEF n, drained
    <3> QED
      BY <1>3, <1>4, <1>5, <2>1, <2>2 DEF Flushed
  <2> QED
    BY <2>1, <2>3, <2>4
<1> QED
  BY <1>6, <1>7

LEMMA FlushBlocksShortens ==
  ASSUME TypeOK, FlushBlocks
  PROVE  Flushed /\ outbound' = outbound /\ sent' = sent
<1>1. target \in Sides
  BY DEF TypeOK
<1> QED
  BY <1>1, Lengths DEF FlushBlocks, Flushed

LEMMA FlushedKeepsRoom ==
  ASSUME TypeOK, TypeOK', Flushed
  PROVE  /\ \A s \in Sides : Len(outbound'[s]) <= Len(outbound[s])
         /\ \A s \in Sides : Room(s) => Room(s)'
         /\ Compact => Compact'
         /\ BufferBound => BufferBound'
<1> USE OtherSide, SizesAssumption
<1>1. target \in Sides
  BY DEF TypeOK
<1>2. \A s \in Sides : Len(outbound[s]) \in Nat /\ Len(outbound'[s]) \in Nat
  <2>1. outbound \in [Sides -> Seq(Nat)] /\ outbound' \in [Sides -> Seq(Nat)]
    BY DEF TypeOK
  <2>2. \A s \in Sides : outbound[s] \in Seq(Nat) /\ outbound'[s] \in Seq(Nat)
    BY <2>1
  <2> QED
    BY <2>2
<1>3. \A s \in Sides : Len(outbound'[s]) <= Len(outbound[s])
  <2> SUFFICES ASSUME NEW s \in Sides PROVE Len(outbound'[s]) <= Len(outbound[s])
    OBVIOUS
  <2>1. s = target \/ s = Other(target)
    BY <1>1
  <2> QED
    BY <1>2, <2>1 DEF Flushed
<1>4. \A s \in Sides : Room(s) => Room(s)'
  BY <1>2, <1>3 DEF Room
<1>5. Compact => Compact'
  <2> SUFFICES ASSUME Compact, NEW s \in Sides
               PROVE  sent'[s] < Len(outbound'[s]) \/ Len(outbound'[s]) = 0
    BY DEF Compact
  <2>1. s = target \/ s = Other(target)
    BY <1>1
  <2> QED
    BY <2>1 DEF Flushed, Compact
<1>6. BufferBound => BufferBound'
  BY <1>2, <1>3 DEF BufferBound
<1> QED
  BY <1>3, <1>4, <1>5, <1>6

\* The worker goes on to its next event, or to a read or a flush of the event
\* in hand; it reads only where there is room.
LEMMA GoOnHandled ==
  ASSUME TypeOK, Handled, Roomy, open, open' = open, pc \in {"read", "flush"},
         \A s \in Sides : Room(s) => Room(s)',
         ToNextEvent \/ (ToRead /\ Room(fd)') \/ ToFlush
  PROVE  Handled' /\ Roomy'
<1>1. fd \in Sides /\ batch[fd] = {}
  BY DEF TypeOK, Handled
<1>2. CASE ToNextEvent
  BY <1>2 DEF ToNextEvent, Idle, Handled, Roomy
<1>3. CASE ToRead /\ Room(fd)'
  <2>1. pc' = "read" /\ batch' = batch /\ fd' = fd /\ flags' = flags
    BY <1>3 DEF ToRead
  <2>2. Room(fd)' /\ (Room(fd)' <=> Len(outbound'[Other(fd')]) < HighWatermark)
    BY <1>3, <2>1 DEF Room
  <2>3. Handled'
    BY <1>1, <2>1 DEF Handled
  <2>4. Roomy'
    BY <2>1, <2>2 DEF Roomy, Room
  <2> QED
    BY <2>3, <2>4
<1>4. CASE ToFlush
  <2>1. /\ pc' = "flush" /\ batch' = batch /\ fd' = fd /\ target' = fd
        /\ caller' = "event"
    BY <1>4 DEF ToFlush
  <2> QED
    BY <1>1, <2>1 DEF Handled, Roomy
<1> QED
  BY <1>2, <1>3, <1>4

\* When flush returns, the sides that it or its caller left to be armed are.
LEMMA FlushReturnsKeeps ==
  ASSUME TypeOK, TypeOK', Handled, Roomy, ArmedInv, pc = "flush", Flushed,
         NEW drained \in BOOLEAN,
         drained \/ Len(outbound'[target]) = Len(outbound[target]),
         FlushReturns(connecting, outbound', sent', drained)
  PROVE  Handled' /\ Roomy' /\ ArmedInv'
<1> USE OtherSide
<1>1. open /\ target \in Sides /\ fd \in Sides /\ open' = open /\ connecting' = connecting
  BY DEF Handled, TypeOK, Flushed
<1> DEFINE modified == (IF drained THEN {Other(target)} ELSE {})
                       \cup (CASE caller = "finish_connect" -> {fd}
                               [] caller = "read_available" -> Sides
                               [] OTHER -> {})
<1>2. /\ interest' = [s \in Sides |-> IF s \in modified THEN Armed(s, connecting, outbound', sent')
                                                         ELSE interest[s]]
      /\ CASE caller = "finish_connect" -> AfterFinish
           [] caller = "read_available" ->
                IF Len(outbound'[target]) >= HighWatermark THEN AfterRead ELSE ToRead
           [] OTHER -> ToNextEvent
  BY DEF FlushReturns
<1>3. Handled' /\ Roomy'
  <2>1. \A s \in Sides : Room(s) => Room(s)'
    BY FlushedKeepsRoom
  <2>2. CASE caller = "finish_connect"
    <3>1. target = fd /\ ("IN" \in flags => Room(fd))
      BY <2>2 DEF Handled, Roomy
    <3>2. AfterFinish
      BY <1>2, <2>2
    <3>3. ToNextEvent \/ (ToRead /\ "IN" \in flags) \/ ToFlush
      BY <3>2 DEF AfterFinish, AfterRead
    <3>4. ToRead => fd' = fd
      BY DEF ToRead
    <3>5. ToNextEvent \/ (ToRead /\ Room(fd)') \/ ToFlush
      BY <1>1, <2>1, <3>1, <3>3, <3>4 DEF Room
    <3> QED
      BY <1>1, <2>1, <3>5, GoOnHandled
  <2>3. CASE caller = "read_available"
    <3>1. target = Other(fd)
      BY <2>3 DEF Handled
    <3>2. IF Len(outbound'[target]) >= HighWatermark THEN AfterRead ELSE ToRead
      BY <1>2, <2>3
    <3>3. CASE AfterRead
      BY <1>1, <2>1, <3>3, GoOnHandled DEF AfterRead
    <3>4. CASE ToRead /\ ~ (Len(outbound'[target]) >= HighWatermark)
      <4>1. Len(outbound'[target]) \in Nat /\ HighWatermark \in Nat
        <5>1. outbound' \in [Sides -> Seq(Nat)]
          BY DEF TypeOK
        <5>2. outbound'[target] \in Seq(Nat)
          BY <1>1, <5>1
        <5> QED
          BY <5>2, SizesAssumption
      <4>2. Len(outbound'[Other(fd)]) < HighWatermark
        BY <3>1, <3>4, <4>1
      <4>3. fd' = fd
        BY <3>4 DEF ToRead
      <4>4. Room(fd)'
        BY <4>2, <4>3 DEF Room
      <4> QED
        BY <1>1, <2>1, <3>4, <4>4, GoOnHandled
    <3> QED
      BY <3>2, <3>3, <3>4
  <2>4. CASE caller # "finish_connect" /\ caller # "read_available"
    BY <1>1, <1>2, <2>1, <2>4, GoOnHandled
  <2> QED
    BY <2>2, <2>3, <2>4
<1>4. ASSUME NEW s \in Sides PROVE WellArmed(s)'
  <2>1. CASE s \in modified
    <3>1. interest'[s] = Armed(s, connecting', outbound', sent')
      BY <1>1, <1>2, <2>1
    <3> QED
      BY <3>1, ArmedIsWellArmed
  <2>2. CASE s \notin modified
    <3>1. interest'[s] = interest[s]
      BY <1>2, <2>2
    <3>2. caller # "read_available" /\ ~ (caller = "finish_connect" /\ s = fd)
      BY <1>1, <2>2
    <3>3. WellArmed(s)
      BY <1>1, <3>2 DEF ArmedInv, Unarmed
    <3>4. drained => s # Other(target)
      BY <2>2
    <3>5. Len(outbound'[Other(s)]) = Len(outbound[Other(s)])
      <4>1. CASE s = target
        BY <4>1 DEF Flushed
      <4>2. CASE s = Other(target)
        BY <1>1, <3>4, <4>2
      <4> QED
        BY <1>1, <4>1, <4>2
    <3>6. sent'[s] < Len(outbound'[s]) => sent[s] < Len(outbound[s])
      <4>1. CASE s = target
        BY <4>1 DEF Flushed
      <4>2. CASE s = Other(target)
        BY <4>2 DEF Flushed
      <4> QED
        BY <1>1, <4>1, <4>2
    <3> HIDE DEF modified
    <3> QED
      BY <1>1, <3>1, <3>3, <3>5, <3>6 DEF WellArmed, Connecting, Room
  <2> QED
    BY <2>1, <2>2
<1> QED
  BY <1>3, <1>4 DEF ArmedInv

LEMMA FlushKeeps ==
  ASSUME PairInv, TypeOK', FlushNothing \/ FlushSome \/ FlushBlocks
  PROVE  PairInv'
<1> USE DEF PairInv
<1>1. pc = "flush"
  BY DEF FlushNothing, FlushSome, FlushBlocks
<1>2. Flushed
  BY FlushNothingShortens, FlushSomeShortens, FlushBlocksShortens
<1>3. Compact' /\ BufferBound'
  BY <1>2, FlushedKeepsRoom
<1>4. CASE FlushNothing
  <2>1. FlushReturns(connecting, outbound', sent', FALSE)
    BY <1>4 DEF FlushNothing
  <2>2. Len(outbound'[target]) = Len(outbound[target])
    BY <1>4, FlushNothingShortens
  <2> QED
    BY <1>1, <1>2, <1>3, <2>1, <2>2, FlushReturnsKeeps
<1>5. CASE FlushSome
  <2>1. CASE FlushReturns(connecting, outbound', sent', TRUE)
    BY <1>1, <1>2, <1>3, <2>1, FlushReturnsKeeps
  <2>2. CASE UNCHANGED <<interest, worker>> /\ Len(outbound'[target]) = Len(outbound[target])
    <3>1. \A s \in Sides : Len(outbound'[s]) = Len(outbound[s])
      BY <1>2, <2>2, OtherSide DEF Flushed, TypeOK
    <3>2. \A s \in Sides : sent'[s] < Len(outbound'[s]) => sent[s] < Len(outbound[s])
      BY <1>2, <2>2, OtherSide DEF Flushed, TypeOK
    <3>3. \A s \in Sides : Room(s)' <=> Room(s)
      BY <3>1, OtherSide DEF Room
    <3>4. fd \in Sides
      BY DEF TypeOK
    <3>5. Handled' /\ Roomy'
      BY <1>2, <2>2, <3>3, <3>4 DEF Flushed, Handled, Roomy, worker, Room
    <3>6. ArmedInv'
      <4> SUFFICES ASSUME open', NEW s \in Sides PROVE (WellArmed(s) \/ Unarmed(s))'
        BY DEF ArmedInv
      <4>1. WellArmed(s) \/ Unarmed(s)
        BY <1>2 DEF ArmedInv, Flushed
      <4>2. Unarmed(s)' <=> Unarmed(s)
        BY <2>2 DEF Unarmed, worker
      <4>3. WellArmed(s) => WellArmed(s)'
        BY <1>2, <2>2, <3>2, <3>3 DEF WellArmed, Connecting, Flushed
      <4> QED
        BY <4>1, <4>2, <4>3
    <3> QED
      BY <1>3, <3>5, <3>6
  <2> QED
    BY <1>5, <2>1, <2>2, FlushSomeShortens
<1>6. CASE FlushBlocks
  <2>1. outbound' = outbound /\ sent' = sent
    BY <1>6, FlushBlocksShortens
  <2>2. FlushReturns(connecting, outbound', sent', FALSE)
    BY <1>6, <2>1 DEF FlushBlocks
  <2> QED
    BY <1>1, <1>2, <1>3, <2>1, <2>2, FlushReturnsKeeps
<1> QED
  BY <1>4, <1>5, <1>6

LEMMA ReadSomeKeeps ==
  ASSUME PairInv, TypeOK', ReadSome
  PROVE  PairInv'
<1> USE OtherSide DEF PairInv
<1> DEFINE n == MinOf(Len(inbox[fd]), BufferSize)
           to == Other(fd)
           chunk == SubSeq(inbox[fd], 1, n)
<1>1. /\ pc = "read" /\ pc' = "flush" /\ caller' = "read_available" /\ target' = to
      /\ open' = open /\ connecting' = connecting /\ sent' = sent /\ interest' = interest
      /\ batch' = batch /\ fd' = fd /\ flags' = flags
      /\ outbound' = [outbound EXCEPT ![to] = outbound[to] \o chunk]
  BY DEF ReadSome
<1>2. fd \in Sides /\ to \in Sides /\ to # fd
  BY DEF TypeOK
<1>3. n \in Nat /\ n <= BufferSize /\ chunk \in Seq(Nat) /\ Len(chunk) = n /\ n # 0
  <2>1. /\ n \in Nat /\ n <= BufferSize /\ chunk \in Seq(Nat) /\ Len(chunk) = n
    BY <1>2, ReadTakes DEF ReadSome
  <2>2. n # 0
    <3>1. inbox[fd] \in Seq(Nat) /\ inbox[fd] # <<>>
      BY <1>2 DEF ReadSome, TypeOK
    <3>2. Len(inbox[fd]) \in Nat \ {0}
      BY <3>1, EmptySeq
    <3> QED
      BY <3>2, SizesAssumption DEF MinOf
  <2> QED
    BY <2>1, <2>2
<1> HIDE DEF n, to, chunk
<1>4. /\ outbound[to] \in Seq(Nat) /\ Len(outbound[to]) \in Nat
      /\ outbound'[to] = outbound[to] \o chunk
      /\ outbound'[fd] = outbound[fd]
  <2>1. outbound \in [Sides -> Seq(Nat)]
    BY DEF TypeOK
  <2>2. outbound[to] \in Seq(Nat)
    BY <1>2, <2>1
  <2>3. Len(outbound[to]) \in Nat
    BY <2>2
  <2>4. outbound'[to] = outbound[to] \o chunk /\ outbound'[fd] = outbound[fd]
    BY <1>1, <1>2, <2>1
  <2> QED
    BY <2>2, <2>3, <2>4
<1>5. Len(outbound'[to]) = Len(outbound[to]) + n
  <2>1. Len(outbound[to] \o chunk) = Len(outbound[to]) + Len(chunk)
    BY <1>3, <1>4, LongerBy
  <2> QED
    BY <1>3, <1>4, <2>1
<1>6. Len(outbound[to]) < HighWatermark
  BY <1>1 DEF Roomy, Room, to
<1>7. open /\ batch[fd] = {}
  BY <1>1 DEF Handled
<1>8. Handled'
  BY <1>1, <1>7 DEF Handled, to
<1>9. Compact'
  <2> SUFFICES ASSUME NEW s \in Sides PROVE sent'[s] < Len(outbound'[s]) \/ Len(outbound'[s]) = 0
    BY DEF Compact
  <2>1. CASE s = fd
    BY <1>1, <1>4, <2>1 DEF Compact
  <2>2. CASE s = to
    <3>1. sent[to] \in Nat /\ sent[to] <= Len(outbound[to])
      BY <1>2, Lengths
    <3>2. sent[to] < Len(outbound[to]) + n
      BY <1>3, <1>4, <3>1
    <3> QED
      BY <1>1, <1>5, <2>2, <3>2
  <2> QED
    BY <1>2, <2>1, <2>2 DEF to
<1>10. Roomy'
  <2>1. ASSUME NEW s \in Sides, "IN" \in batch'[s] PROVE Room(s)'
    <3>1. s # fd
      BY <1>1, <1>7, <2>1
    <3>2. Other(s) = fd
      BY <1>2, <3>1
    <3> QED
      BY <1>1, <1>4, <2>1, <3>2 DEF Roomy, Room
  <2> QED
    BY <1>1, <2>1 DEF Roomy
<1>11. ArmedInv'
  BY <1>1 DEF ArmedInv, Unarmed
<1>12. BufferBound'
  <2> SUFFICES ASSUME NEW s \in Sides PROVE Len(outbound'[s]) < HighWatermark + BufferSize
    BY DEF BufferBound
  <2>1. CASE s = fd
    BY <1>4, <2>1 DEF BufferBound
  <2>2. CASE s = to
    BY <1>3, <1>4, <1>5, <1>6, <2>2, SizesAssumption
  <2> QED
    BY <1>2, <2>1, <2>2 DEF to
<1> QED
  BY <1>8, <1>9, <1>10, <1>11, <1>12

\* Every close, whoever decides it.
LEMMA CloseKeeps ==
  ASSUME PairInv, TypeOK', ClosePair, pc' \in {"wait", "events"},
         \A s \in Sides : batch'[s] \subseteq batch[s]
  PROVE  PairInv'
<1>1. \A s \in Sides : Len(outbound'[s]) = 0 /\ open' = FALSE
  BY EmptyBytes DEF ClosePair
<1>2. HighWatermark > 0 /\ HighWatermark + BufferSize > 0
  BY SizesAssumption
<1> QED
  BY <1>1, <1>2, OtherSide
     DEF PairInv, Handled, Compact, Roomy, ArmedInv, BufferBound, Room

LEMMA DispatchKeeps ==
  ASSUME PairInv, TypeOK', NEW s \in Sides, Dispatch(s)
  PROVE  PairInv'
<1> USE DEF PairInv
<1>1. /\ pc = "events" /\ open /\ fd' = s /\ flags' = batch[s]
      /\ batch' = [batch EXCEPT ![s] = {}]
      /\ UNCHANGED <<open, connecting, outbound, sent, interest>>
  BY DEF Dispatch, Taken, peer
<1>2. batch'[s] = {} /\ \A t \in Sides : batch'[t] \subseteq batch[t]
  BY <1>1 DEF TypeOK
<1>3. \/ pc' = "finish_connect" /\ s = "backend"
      \/ pc' = "read" /\ "IN" \in batch[s]
      \/ pc' = "flush" /\ target' = s /\ caller' = "event"
  BY DEF Dispatch, Connecting
<1>4. \A t \in Sides : Room(t)' <=> Room(t)
  BY <1>1 DEF Room
<1>5. Handled'
  BY <1>1, <1>2, <1>3 DEF Handled
<1>6. Roomy'
  <2>1. "IN" \in batch[s] => Room(s)'
    BY <1>4 DEF Roomy
  <2>2. Room(fd)' <=> Room(s)'
    BY <1>1 DEF Room
  <2>3. \A t \in Sides : "IN" \in batch'[t] => Room(t)'
    BY <1>2, <1>4 DEF Roomy
  <2> QED
    BY <1>1, <1>3, <2>1, <2>2, <2>3 DEF Roomy
<1>7. ArmedInv'
  <2>1. \A t \in Sides : WellArmed(t)
    BY <1>1 DEF ArmedInv, Unarmed
  <2>2. \A t \in Sides : WellArmed(t)'
    BY <1>1, <1>4, <2>1 DEF WellArmed, Connecting
  <2> QED
    BY <2>2 DEF ArmedInv
<1>8. Compact' /\ BufferBound'
  BY <1>1 DEF Compact, BufferBound
<1> QED
  BY <1>5, <1>6, <1>7, <1>8

LEMMA FinishConnectKeeps ==
  ASSUME PairInv, TypeOK', FinishConnect
  PROVE  PairInv'
<1> USE DEF PairInv
<1>1. /\ pc = "finish_connect" /\ pc' = "flush" /\ target' = fd /\ caller' = "finish_connect"
      /\ UNCHANGED <<open, outbound, sent, interest, batch, fd, flags>>
  BY DEF FinishConnect
<1>2. fd = "backend" /\ open /\ batch[fd] = {}
  BY <1>1 DEF Handled
<1>3. Handled'
  BY <1>1, <1>2 DEF Handled
<1>4. Roomy'
  BY <1>1 DEF Roomy, Room
<1>5. ArmedInv'
  <2>1. WellArmed("client")
    BY <1>1, <1>2 DEF ArmedInv, Unarmed, Sides
  <2>2. WellArmed("client")'
    BY <1>1, <2>1 DEF WellArmed, Connecting, Room
  <2>3. Unarmed("backend")'
    BY <1>1, <1>2 DEF Unarmed
  <2> QED
    BY <2>2, <2>3 DEF ArmedInv, Sides
<1>6. Compact' /\ BufferBound'
  BY <1>1 DEF Compact, BufferBound
<1> QED
  BY <1>3, <1>4, <1>5, <1>6

LEMMA ReadBlocksKeeps ==
  ASSUME PairInv, TypeOK', ReadBlocks
  PROVE  PairInv'
<1> USE DEF PairInv
<1>1. /\ pc = "read" /\ AfterRead
      /\ UNCHANGED <<open, connecting, outbound, sent, interest>>
  BY DEF ReadBlocks, peer
<1>2. open
  BY <1>1 DEF Handled
<1>3. \A s \in Sides : Room(s) => Room(s)'
  BY <1>1 DEF Room
<1>4. Handled' /\ Roomy'
  BY <1>1, <1>2, <1>3, GoOnHandled DEF AfterRead
<1>5. ArmedInv'
  <2>1. \A s \in Sides : WellArmed(s)
    BY <1>1, <1>2 DEF ArmedInv, Unarmed
  <2>2. \A s \in Sides : WellArmed(s)'
    BY <1>1, <2>1 DEF WellArmed, Connecting, Room
  <2> QED
    BY <2>2 DEF ArmedInv
<1>6. Compact' /\ BufferBound'
  BY <1>1 DEF Compact, BufferBound
<1> QED
  BY <1>4, <1>5, <1>6

\* The steps that leave the pair and the event in hand alone: the ends, and a
\* worker between two events that only harvests or drops some.
LEMMA QuietKeeps ==
  ASSUME PairInv, TypeOK',
         UNCHANGED <<open, connecting, outbound, sent, interest>>,
         UNCHANGED <<fd, flags, target, caller>>,
         \/ UNCHANGED <<pc, batch>>
         \/ /\ {pc, pc'} \subseteq {"wait", "events"}
            /\ \A s \in Sides : "IN" \in batch'[s] => Room(s)
  PROVE  PairInv'
<1> USE DEF PairInv
<1>1. \A s \in Sides : Room(s)' <=> Room(s)
  BY DEF Room
<1>2. \A s \in Sides : WellArmed(s)' <=> WellArmed(s)
  BY <1>1 DEF WellArmed, Connecting
<1>3. Compact' /\ BufferBound'
  BY DEF Compact, BufferBound
<1>4. CASE UNCHANGED <<pc, batch>>
  <2>1. Handled' /\ Roomy'
    BY <1>1, <1>4 DEF Handled, Roomy, Room
  <2>2. ArmedInv'
    BY <1>2, <1>4 DEF ArmedInv, Unarmed
  <2> QED
    BY <1>3, <2>1, <2>2
<1>5. CASE /\ {pc, pc'} \subseteq {"wait", "events"}
           /\ \A s \in Sides : "IN" \in batch'[s] => Room(s)
  <2>1. Handled' /\ Roomy'
    BY <1>1, <1>5 DEF Handled, Roomy
  <2>2. ArmedInv'
    BY <1>2, <1>5 DEF ArmedInv, Unarmed
  <2> QED
    BY <1>3, <2>1, <2>2
<1> QED
  BY <1>4, <1>5

LEMMA EpollWaitKeeps ==
  ASSUME PairInv, TypeOK', EpollWait
  PROVE  PairInv'
<1>1. \A s \in Sides : "IN" \in batch'[s] => Room(s)
  <2> SUFFICES ASSUME NEW s \in Sides, "IN" \in batch'[s] PROVE Room(s)
    OBVIOUS
  <2>1. "IN" \in Ready(s)
    BY DEF EpollWait
  <2>2. "IN" \in interest[s]
    BY <2>1 DEF Ready
  <2>3. WellArmed(s)
    BY DEF EpollWait, PairInv, ArmedInv, Unarmed
  <2> QED
    BY <2>2, <2>3 DEF WellArmed
<1> QED
  BY <1>1, QuietKeeps DEF EpollWait, peer

LEMMA PairStep == PairInv /\ TypeOK' /\ [Next]_vars => PairInv'
<1> SUFFICES ASSUME PairInv, TypeOK', [Next]_vars PROVE PairInv'
  OBVIOUS
<1>1. CASE UNCHANGED vars
  BY <1>1, QuietKeeps DEF vars, peer, worker
<1>2. CASE Ends
  <2>1. UNCHANGED <<open, connecting, outbound, sent, interest, pc, batch, fd, flags, target, caller>>
    BY <1>2 DEF Ends, Arrive, Finish, Reset, Receive, Answer, Elapse, peer, worker
  <2> QED
    BY <2>1, QuietKeeps
<1>3. CASE Reap
  BY <1>3, CloseKeeps DEF Reap, ReapConnect, ReapIdle, worker
<1>4. CASE EpollWait
  BY <1>4, EpollWaitKeeps
<1>5. CASE EndBatch
  BY <1>5, QuietKeeps DEF EndBatch, peer, PairInv, Roomy
<1>6. ASSUME NEW s \in Sides, SkipEvent(s) PROVE PairInv'
  <2>1. \A t \in Sides : "IN" \in batch'[t] => Room(t)
    BY <1>6 DEF SkipEvent, Taken, PairInv, TypeOK, Roomy
  <2> QED
    BY <1>6, <2>1, QuietKeeps DEF SkipEvent, peer
<1>7. ASSUME NEW s \in Sides, HangUp(s) PROVE PairInv'
  <2>1. \A t \in Sides : batch'[t] \subseteq batch[t]
    BY <1>7 DEF HangUp, Taken, PairInv, TypeOK
  <2> QED
    BY <1>7, <2>1, CloseKeeps DEF HangUp
<1>8. ASSUME NEW s \in Sides, Dispatch(s) PROVE PairInv'
  BY <1>8, DispatchKeeps
<1>9. CASE FinishConnect
  BY <1>9, FinishConnectKeeps
<1>10. CASE FinishConnectFails \/ ReadEnds \/ FlushFails
  <2>1. ClosePair /\ pc' = "events" /\ batch' = batch
    BY <1>10 DEF FinishConnectFails, ReadEnds, FlushFails, CloseAndGoOn, ToNextEvent
  <2> QED
    BY <2>1, CloseKeeps
<1>11. CASE ReadSome
  BY <1>11, ReadSomeKeeps
<1>12. CASE ReadBlocks
  BY <1>12, ReadBlocksKeeps
<1>13. CASE FlushNothing \/ FlushSome \/ FlushBlocks
  BY <1>13, FlushKeeps
<1> QED
  BY <1>1, <1>2, <1>3, <1>4, <1>5, <1>6, <1>7, <1>8, <1>9, <1>10, <1>11, <1>12, <1>13
     DEF Next, Worker

LEMMA PairInvAlways == Spec => []PairInv
<1>1. Init => PairInv
  <2> SUFFICES ASSUME Init PROVE PairInv
    OBVIOUS
  <2>1. TypeOK
    BY InitTyped
  <2>2. \A s \in Sides : sent[s] = 0 /\ Len(outbound[s]) = 0 /\ batch[s] = {}
    BY EmptyBytes DEF Init
  <2>3. HighWatermark > 0 /\ HighWatermark + BufferSize > 0 /\ \A s \in Sides : Room(s)
    BY <2>2, OtherSide, SizesAssumption DEF Room
  <2>4. Handled /\ Compact /\ Roomy /\ BufferBound
    BY <2>2, <2>3 DEF Init, Handled, Compact, Roomy, BufferBound
  <2>5. ArmedInv
    BY <2>2, <2>3 DEF Init, ArmedInv, WellArmed, Connecting, Sides
  <2> QED
    BY <2>1, <2>4, <2>5 DEF PairInv
<1>2. PairInv => TypeOK
  BY DEF PairInv
<1> QED
  BY <1>1, <1>2, PairStep, TypeStep, PTL DEF Spec

\* Back-pressure: whatever the order of reads, partial writes, drains and
\* stale events, no buffer reaches the high-water mark plus one read.
THEOREM BufferBoundAlways == Spec => []BufferBound
<1>1. PairInv => BufferBound
  BY DEF PairInv
<1> QED
  BY <1>1, PairInvAlways, PTL

\* A worker that waits has each socket of a pair armed for writing if a connect or
\* bytes wait for it, though perhaps also if none do, and armed for reading if and
\* only if it is connected and the other buffer has room (modify_fd).
THEOREM ArmedWhenWaitingAlways == Spec => []ArmedWhenWaiting
<1>1. PairInv => ArmedWhenWaiting
  BY DEF PairInv, ArmedInv, Unarmed, WellArmed, Room, ArmedWhenWaiting
<1> QED
  BY <1>1, PairInvAlways, PTL
=============================================================================
