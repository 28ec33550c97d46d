------------------------------ MODULE ProxyPair ------------------------------
(***************************************************************************)
(* One client connection and the backend connection it is paired with, as  *)
(* the worker that owns both drives them: epoll_wait harvests a batch of   *)
(* events, and the handlers read from one socket, append to the other's    *)
(* outbound buffer, flush it as far as the kernel takes it, and set which  *)
(* events each socket is armed for.                                        *)
(*                                                                         *)
(* The kernel and the two remote ends go on while the worker runs: a step  *)
(* of the worker is one read or write with what follows it up to the next, *)
(* so bytes, an end of stream, or a reset can arrive between any two. The  *)
(* events of a batch are those of the moment epoll_wait returned and may   *)
(* be out of date when they are handled.                                   *)
(*                                                                         *)
(* A byte is its number in its stream. A pair that has been closed stays   *)
(* closed: its descriptors are not reused here. What a close reports to    *)
(* the scheduler is the subject of BackendHealth and Accounting.           *)
(***************************************************************************)
EXTENDS Naturals, Sequences, FiniteSets

CONSTANTS
  HighWatermark,   \* kHighWatermark
  BufferSize,      \* kBufferSize
  SendBuffer,      \* what the kernel holds for an end that does not read
  StreamLength,    \* bound: how many bytes each end sends
  IdleTimeout      \* idle_timeout_ms, in ticks of the clock

Sides == {"client", "backend"}

ASSUME SizesAssumption ==
  HighWatermark \in Nat \ {0} /\ BufferSize \in Nat \ {0} /\ SendBuffer \in Nat \ {0}
ASSUME BoundsAssumption == StreamLength \in [Sides -> Nat] /\ IdleTimeout \in Nat

VARIABLES
  open,        \* both peers are in the worker's map
  connecting,  \* Peer::connecting of the backend side
  outbound,    \* Peer::outbound
  sent,        \* Peer::sent
  age,         \* ticks since Peer::last_activity, up to IdleTimeout
  interest,    \* which of EPOLLIN and EPOLLOUT each socket is armed for
  pc,          \* what the worker does next
  batch,       \* the events of each side not handled yet
  fd,          \* the side whose event is being handled
  flags,       \* that event
  target,      \* the side being flushed
  caller       \* who called flush: the "event", "finish_connect" or "read_available"

peer == <<open, connecting, outbound, sent, age, interest>>
worker == <<pc, batch, fd, flags, target, caller>>

VARIABLES
  produced,    \* how many bytes each end has sent
  inbox,       \* the kernel's receive buffer of each socket
  wire,        \* what the kernel has taken for each end and the end not yet read
  fin,         \* the end has finished sending
  reset,       \* the end has reset the connection
  answered,    \* the backend has accepted the connection
  received     \* what each end has read

kernel == <<produced, inbox, wire, fin, reset, answered, received>>
vars == <<peer, worker, kernel>>

Other(s) == IF s = "client" THEN "backend" ELSE "client"
Connecting(s) == s = "backend" /\ connecting
MinOf(a, b) == IF a < b THEN a ELSE b
Unsent(s) == SubSeq(outbound[s], sent[s] + 1, Len(outbound[s]))

-----------------------------------------------------------------------------
(* The kernel and the ends.                                                *)

Arrive(s) ==
  /\ open /\ ~ fin[s] /\ ~ reset[s] /\ produced[s] < StreamLength[s]
  /\ s = "backend" => answered
  /\ produced' = [produced EXCEPT ![s] = @ + 1]
  /\ inbox' = [inbox EXCEPT ![s] = Append(@, produced'[s])]
  /\ UNCHANGED <<peer, worker, wire, fin, reset, answered, received>>

Finish(s) ==
  /\ open /\ ~ fin[s] /\ ~ reset[s]
  /\ s = "backend" => answered
  /\ fin' = [fin EXCEPT ![s] = TRUE]
  /\ UNCHANGED <<peer, worker, produced, inbox, wire, reset, answered, received>>

\* Also: the backend refuses the connection.
Reset(s) ==
  /\ open /\ ~ reset[s]
  /\ reset' = [reset EXCEPT ![s] = TRUE]
  /\ UNCHANGED <<peer, worker, produced, inbox, wire, fin, answered, received>>

Answer ==
  /\ open /\ ~ answered /\ ~ reset["backend"]
  /\ answered' = TRUE
  /\ UNCHANGED <<peer, worker, produced, inbox, wire, fin, reset, received>>

Receive(s) ==
  /\ wire[s] # <<>> /\ ~ reset[s]
  /\ received' = [received EXCEPT ![s] = Append(@, Head(wire[s]))]
  /\ wire' = [wire EXCEPT ![s] = Tail(@)]
  /\ UNCHANGED <<peer, worker, produced, inbox, fin, reset, answered>>

Elapse ==
  /\ open /\ \E s \in Sides : age[s] < IdleTimeout
  /\ age' = [s \in Sides |-> MinOf(age[s] + 1, IdleTimeout)]
  /\ UNCHANGED <<open, connecting, outbound, sent, interest, worker, kernel>>

\* What epoll reports of a socket: what it is armed for, and always the end of
\* the stream and errors.
Ready(s) ==
  LET up == s = "client" \/ answered
  IN  (interest[s] \cap
        ((IF inbox[s] # <<>> \/ fin[s] \/ reset[s] THEN {"IN"} ELSE {})
         \cup (IF reset[s] \/ (up /\ Len(wire[s]) < SendBuffer) THEN {"OUT"} ELSE {})))
      \cup (IF fin[s] THEN {"RDHUP"} ELSE {})
      \cup (IF reset[s] THEN {"ERR"} ELSE {})

-----------------------------------------------------------------------------
(* Worker helpers.                                                         *)

\* modify_fd, for a side s whose pair has these buffers; the slip pauses
\* reading by the buffer of the side itself.
ArmedByOwn(s, conn, out, snt) ==
  (IF (s = "backend" /\ conn) \/ snt[s] < Len(out[s]) THEN {"OUT"} ELSE {})
  \cup (IF ~ (s = "backend" /\ conn) /\ Len(out[s]) < HighWatermark THEN {"IN"} ELSE {})
Armed(s, conn, out, snt) ==
  (IF (s = "backend" /\ conn) \/ snt[s] < Len(out[s]) THEN {"OUT"} ELSE {})
  \cup (IF ~ (s = "backend" /\ conn) /\ Len(out[Other(s)]) < HighWatermark THEN {"IN"} ELSE {})

\* close_pair. The kernel may drop what it still had for an end from which it
\* has unread bytes.
ClosePair ==
  /\ open' = FALSE
  /\ connecting' = FALSE
  /\ outbound' = [s \in Sides |-> <<>>] /\ sent' = [s \in Sides |-> 0]
  /\ interest' = [s \in Sides |-> {}]
  /\ age' = [s \in Sides |-> 0]
  /\ inbox' = [s \in Sides |-> <<>>]
  /\ \E lost \in SUBSET {s \in Sides : inbox[s] # <<>>} :
       wire' = [s \in Sides |-> IF s \in lost THEN <<>> ELSE wire[s]]
  /\ UNCHANGED <<produced, fin, reset, answered, received>>

\* The worker turns to the next event of the batch.
Idle == fd' = "client" /\ flags' = {} /\ target' = "client" /\ caller' = "event"
ToNextEvent == pc' = "events" /\ Idle /\ UNCHANGED batch
CloseAndGoOn == ClosePair /\ ToNextEvent

\* The rest of the dispatch of the event in hand, after finish_connect or after
\* read_available: read_available if it says IN, flush if it says OUT.
ToFlush == pc' = "flush" /\ target' = fd /\ caller' = "event" /\ UNCHANGED <<batch, fd, flags>>
ToRead == pc' = "read" /\ target' = "client" /\ caller' = "event" /\ UNCHANGED <<batch, fd, flags>>
AfterRead == IF "OUT" \in flags THEN ToFlush ELSE ToNextEvent
AfterFinish == IF "IN" \in flags THEN ToRead ELSE AfterRead

\* flush returns; the sides in modified have had modify_fd called on the way.
FlushReturns(conn, out, snt, drained) ==
  LET modified == (IF drained THEN {Other(target)} ELSE {})
                  \cup (CASE caller = "finish_connect" -> {fd}
                          [] caller = "read_available" -> Sides
                          [] OTHER -> {})
  IN  /\ interest' = [s \in Sides |-> IF s \in modified THEN Armed(s, conn, out, snt)
                                                        ELSE interest[s]]
      /\ CASE caller = "finish_connect" -> AfterFinish
           [] caller = "read_available" ->
                IF Len(out[target]) >= HighWatermark THEN AfterRead ELSE ToRead
           [] OTHER -> ToNextEvent

-----------------------------------------------------------------------------
(* The event loop.                                                         *)

EpollWait ==
  /\ pc = "wait" /\ open
  /\ \E s \in Sides : Ready(s) # {}
  /\ batch' = [s \in Sides |-> Ready(s)]
  /\ pc' = "events"
  /\ UNCHANGED <<peer, fd, flags, target, caller, kernel>>

Taken(s) == batch[s] # {} /\ batch' = [batch EXCEPT ![s] = {}]

\* An event of a pair that an earlier event of the batch closed.
SkipEvent(s) ==
  /\ pc = "events" /\ ~ open /\ Taken(s)
  /\ UNCHANGED <<peer, pc, fd, flags, target, caller, kernel>>

\* An error or the end of the stream closes the pair, before anything is read.
HangUp(s) ==
  /\ pc = "events" /\ open /\ Taken(s)
  /\ batch[s] \cap {"ERR", "RDHUP"} # {}
  /\ ClosePair
  /\ UNCHANGED <<pc, fd, flags, target, caller>>

Dispatch(s) ==
  /\ pc = "events" /\ open /\ Taken(s)
  /\ batch[s] \cap {"ERR", "RDHUP"} = {}
  /\ fd' = s /\ flags' = batch[s]
  /\ \/ Connecting(s) /\ pc' = "finish_connect" /\ UNCHANGED <<target, caller>>
     \/ ~ Connecting(s) /\ "IN" \in batch[s] /\ pc' = "read" /\ UNCHANGED <<target, caller>>
     \/ ~ Connecting(s) /\ "IN" \notin batch[s] /\ pc' = "flush" /\ target' = s /\ caller' = "event"
  /\ UNCHANGED <<peer, kernel>>

EndBatch ==
  /\ pc = "events" /\ \A s \in Sides : batch[s] = {}
  /\ pc' = "wait"
  /\ UNCHANGED <<peer, batch, fd, flags, target, caller, kernel>>

\* finish_connect, up to its flush.
FinishConnect ==
  /\ pc = "finish_connect" /\ ~ reset[fd]
  /\ connecting' = FALSE
  /\ age' = [age EXCEPT ![fd] = 0]
  /\ pc' = "flush" /\ target' = fd /\ caller' = "finish_connect"
  /\ UNCHANGED <<open, outbound, sent, interest, batch, fd, flags, kernel>>

FinishConnectFails ==
  /\ pc = "finish_connect" /\ reset[fd]
  /\ CloseAndGoOn

\* read_available, one round of its loop: a full or partial read, appended to
\* the other side's buffer, which is flushed next.
ReadSome ==
  LET n == MinOf(Len(inbox[fd]), BufferSize)
      to == Other(fd) IN
  /\ pc = "read" /\ inbox[fd] # <<>>
  /\ outbound' = [outbound EXCEPT ![to] = @ \o SubSeq(inbox[fd], 1, n)]
  /\ inbox' = [inbox EXCEPT ![fd] = SubSeq(@, n + 1, Len(@))]
  /\ age' = [s \in Sides |-> 0]
  /\ pc' = "flush" /\ target' = to /\ caller' = "read_available"
  /\ UNCHANGED <<open, connecting, sent, interest, batch, fd, flags>>
  /\ UNCHANGED <<produced, wire, fin, reset, answered, received>>

\* EAGAIN
ReadBlocks ==
  /\ pc = "read" /\ inbox[fd] = <<>> /\ ~ fin[fd] /\ ~ reset[fd]
  /\ AfterRead
  /\ UNCHANGED <<peer, kernel>>

\* The end of the stream, or an error, read before epoll reported it.
ReadEnds ==
  /\ pc = "read" /\ inbox[fd] = <<>> /\ (fin[fd] \/ reset[fd])
  /\ CloseAndGoOn

\* flush, one round of its loop.
FlushNothing ==
  /\ pc = "flush" /\ (Connecting(target) \/ sent[target] >= Len(outbound[target]))
  /\ outbound' = [outbound EXCEPT ![target] = IF sent[target] >= Len(@) THEN <<>> ELSE @]
  /\ sent' = [sent EXCEPT ![target] = IF @ >= Len(outbound[target]) THEN 0 ELSE @]
  /\ FlushReturns(connecting, outbound', sent', FALSE)
  /\ UNCHANGED <<open, connecting, age, kernel>>

\* write took n bytes: where the next one goes on. One slip starts over, the
\* other forgets to reset sent with the buffer.
SentAgain(t, n) == IF sent[t] + n = Len(outbound[t]) THEN 0 ELSE n
SentKept(t, n) == sent[t] + n
SentNow(t, n) == IF sent[t] + n = Len(outbound[t]) THEN 0 ELSE sent[t] + n

FlushSome ==
  LET t == target
      n == MinOf(SendBuffer - Len(wire[t]), Len(outbound[t]) - sent[t])
      drained == sent[t] + n = Len(outbound[t]) IN
  /\ pc = "flush" /\ ~ Connecting(t) /\ sent[t] < Len(outbound[t])
  /\ ~ reset[t] /\ n > 0
  /\ wire' = [wire EXCEPT ![t] = @ \o SubSeq(outbound[t], sent[t] + 1, sent[t] + n)]
  /\ age' = [age EXCEPT ![t] = 0]
  /\ outbound' = [outbound EXCEPT ![t] = IF drained THEN <<>> ELSE @]
  /\ sent' = [sent EXCEPT ![t] = SentNow(t, n)]
  /\ IF drained
       THEN FlushReturns(connecting, outbound', sent', TRUE)
       ELSE UNCHANGED <<interest, worker>>
  /\ UNCHANGED <<open, connecting, produced, inbox, fin, reset, answered, received>>

\* EAGAIN
FlushBlocks ==
  /\ pc = "flush" /\ ~ Connecting(target) /\ sent[target] < Len(outbound[target])
  /\ ~ reset[target] /\ Len(wire[target]) >= SendBuffer
  /\ FlushReturns(connecting, outbound, sent, FALSE)
  /\ UNCHANGED <<open, connecting, outbound, sent, age, kernel>>

\* An error of write. (After an end of stream and a reset write raises SIGPIPE,
\* which nothing handles: the process ends, and the pair with it.)
FlushFails ==
  /\ pc = "flush" /\ ~ Connecting(target) /\ sent[target] < Len(outbound[target])
  /\ reset[target]
  /\ CloseAndGoOn

\* reap_timeouts, between two events: a connect that took too long (the
\* deadline is any moment), or a client without activity.
ReapConnect ==
  /\ pc \in {"wait", "events"} /\ open /\ connecting
  /\ ClosePair
  /\ UNCHANGED worker

ReapIdle ==
  /\ pc \in {"wait", "events"} /\ open /\ ~ connecting
  /\ age["client"] >= IdleTimeout
  /\ ClosePair
  /\ UNCHANGED worker

-----------------------------------------------------------------------------
\* attach_backend has just paired the two.
Init ==
  /\ open = TRUE /\ connecting = TRUE
  /\ outbound = [s \in Sides |-> <<>>] /\ sent = [s \in Sides |-> 0]
  /\ age = [s \in Sides |-> 0]
  /\ interest = [s \in Sides |-> IF s = "client" THEN {"IN"} ELSE {"OUT"}]
  /\ pc = "wait" /\ batch = [s \in Sides |-> {}]
  /\ fd = "client" /\ flags = {} /\ target = "client" /\ caller = "event"
  /\ produced = [s \in Sides |-> 0]
  /\ inbox = [s \in Sides |-> <<>>] /\ wire = [s \in Sides |-> <<>>]
  /\ fin = [s \in Sides |-> FALSE] /\ reset = [s \in Sides |-> FALSE]
  /\ answered = FALSE
  /\ received = [s \in Sides |-> <<>>]

Worker ==
  \/ EpollWait \/ EndBatch
  \/ \E s \in Sides : SkipEvent(s) \/ HangUp(s) \/ Dispatch(s)
  \/ FinishConnect \/ FinishConnectFails
  \/ ReadSome \/ ReadBlocks \/ ReadEnds
  \/ FlushNothing \/ FlushSome \/ FlushBlocks \/ FlushFails

Reap == ReapConnect \/ ReapIdle

Ends ==
  \/ \E s \in Sides : Arrive(s) \/ Finish(s) \/ Reset(s) \/ Receive(s)
  \/ Answer \/ Elapse

Next == Worker \/ Reap \/ Ends

Spec == Init /\ [][Next]_vars

\* The worker runs; the backend accepts; an end that has data to read reads.
FairSpec ==
  Spec /\ WF_vars(Worker) /\ WF_vars(Answer) /\ \A s \in Sides : WF_vars(Receive(s))

-----------------------------------------------------------------------------
TypeOK ==
  /\ open \in BOOLEAN /\ connecting \in BOOLEAN
  /\ outbound \in [Sides -> Seq(Nat)] /\ sent \in [Sides -> Nat]
  /\ \A s \in Sides : sent[s] <= Len(outbound[s])
  /\ age \in [Sides -> 0 .. IdleTimeout]
  /\ interest \in [Sides -> SUBSET {"IN", "OUT"}]
  /\ pc \in {"wait", "events", "finish_connect", "read", "flush"}
  /\ batch \in [Sides -> SUBSET {"IN", "OUT", "RDHUP", "ERR"}]
  /\ fd \in Sides /\ flags \in SUBSET {"IN", "OUT"}
  /\ target \in Sides /\ caller \in {"event", "finish_connect", "read_available"}
  /\ produced \in [Sides -> Nat]
  /\ inbox \in [Sides -> Seq(Nat)] /\ wire \in [Sides -> Seq(Nat)]
  /\ fin \in [Sides -> BOOLEAN] /\ reset \in [Sides -> BOOLEAN]
  /\ answered \in BOOLEAN
  /\ received \in [Sides -> Seq(Nat)]

\* Back-pressure keeps each buffer below the high-water mark plus what one
\* read adds, whatever events are stale in a batch: reading goes on only while
\* the other side's buffer is below the mark.
BufferBound ==
  \A s \in Sides : Len(outbound[s]) < HighWatermark + BufferSize

\* Whenever the worker waits, a socket with a connect or bytes to finish is armed
\* for writing, and reading is paused exactly while the other side's buffer is at
\* the mark: no order of partial writes, drains and connects loses a wake-up
\* (modify_fd). It does not forbid OUT with nothing left to write: a flush that
\* drains the buffer on an event leaves it armed until the next read.
ArmedWhenWaiting ==
  pc = "wait" /\ open => \A s \in Sides :
    /\ Connecting(s) \/ sent[s] < Len(outbound[s]) => "OUT" \in interest[s]
    /\ "IN" \in interest[s] <=> ~ Connecting(s) /\ Len(outbound[Other(s)]) < HighWatermark

\* The streams: in order, nothing lost or repeated while the pair is open.
InTransit(s) == wire[Other(s)] \o Unsent(Other(s)) \o inbox[s]
ByteNumbers == 1 .. (StreamLength["client"] + StreamLength["backend"])
R == INSTANCE Relay WITH Bytes <- ByteNumbers, transit <- [s \in Sides |-> InTransit(s)]
ImplementsRelay == R!Spec

\* Each end catches up with all that the other has sent, again and again, unless
\* the pair is closed: no buffered byte waits for ever for an event that does
\* not come. (An end sends a bounded number of bytes.)
Delivered ==
  \A s \in Sides : []<>(Len(received[Other(s)]) = produced[s] \/ ~ open \/ reset[Other(s)])

\* A pair whose buffer is being drained is not idle: reap_timeouts closes a pair
\* only if the last write to a side with a partly written buffer is
\* idle_timeout_ms ago.
IdleMeansIdle ==
  [][ReapIdle => \A s \in Sides : sent[s] > 0 => age[s] >= IdleTimeout]_vars

\* A raw stream ends after its last byte: a pair that is closed because an end
\* has finished sending, and not by a reset or the reaper, has handed over all
\* that the end sent.
EndAfterLastByte ==
  [][open /\ ~ open' /\ ~ Reap /\ ~ reset["client"] /\ ~ reset["backend"]
       => \A s \in Sides : fin[s] => inbox[s] = <<>> /\ Unsent(Other(s)) = <<>>]_vars
=============================================================================
