------------------------------ MODULE EventLoop ------------------------------
(***************************************************************************)
(* One worker's event loop with its listener, its timer and all its pairs: *)
(* Worker::run, accept_clients, attach_backend, reap_timeouts, close_pair  *)
(* and shutdown.                                                           *)
(*                                                                         *)
(* The map peers is keyed by descriptor numbers. A number that close()     *)
(* gave back is handed out again at once, to this worker or to another     *)
(* thread, while events harvested under its old meaning still wait in the  *)
(* batch. The limit on open files is the number of members of Fds.         *)
(*                                                                         *)
(* What the bytes of a pair do is module ProxyPair's subject: here a pair's *)
(* read or write may end the pair if an end has hung up, and leaves it as  *)
(* it is otherwise. Nothing bounds the loop of read_available as long as   *)
(* its source sends and its sink takes what it reads: the worker may stay  *)
(* in it for ever.                                                         *)
(***************************************************************************)
EXTENDS Naturals, Functions

CONSTANTS
  Fds,         \* the descriptor numbers below the limit, but for the worker's own three
  NoFd,        \* no client in hand, and no descriptor that is read
  MaxWaiting   \* bound on the clients waiting in the listener's queue

ASSUME FdsAssumption == NoFd \notin Fds
ASSUME WaitingAssumption == MaxWaiting \in Nat \ {0}

VARIABLES
  pc,              \* where the worker is
  peers,           \* Worker::peers, a function on the numbers it contains
  connecting,      \* those of them whose field connecting is set
  batch,           \* what each number's event not handled yet reports, or "none"
  signals,         \* the events of the listener and of the timer not handled yet
  client,          \* attach_backend's client_fd
  reading,         \* read_available's fd
  stop_requested,  \* main's stop flag
  socket,          \* the worker's socket under each number, as the kernel sees it
  others,          \* the numbers that other threads have open
  waiting,         \* the clients in the listener's queue
  past             \* the backend sides whose connect_deadline has passed

map == <<peers, connecting, past>>
mine == <<pc, map, batch, signals, client, reading>>
kernel == <<socket, others, waiting>>
vars == <<mine, kernel, stop_requested>>

\* The end of a socket has hung up in state "hung", and not yet answered the
\* connect in state "handshake". An event is a hang-up (RDHUP, HUP or ERR, which
\* the code handles before it looks at other flags), or has EPOLLOUT, perhaps with
\* EPOLLIN, or EPOLLIN alone.
Reports == {"none", "hup", "out", "in"}
Sockets == {"none", "handshake", "open", "hung"}
Ended == pc \in {"exited", "failed"}
Open == {n \in Fds : socket[n] # "none"}
Free == Fds \ (Open \cup others)
NoEvents == [n \in Fds |-> "none"]

Peer == [paired_fd : Fds, backend_side : BOOLEAN]
Pending == {n \in Fds : batch[n] # "none"}

\* close_pair(n) closes n and its paired_fd. The slip forgets the second.
Alone(n) == {n}
PairOf(n) == {n, peers[n].paired_fd}

\* A deadline goes with the entry it is a field of. The slip keeps it under the
\* number.
StillPast(gone) == past
PastWithout(gone) == past \ gone

Close(gone) ==
  /\ peers' = Restrict(peers, DOMAIN peers \ gone)
  /\ socket' = [n \in Fds |-> IF n \in gone THEN "none" ELSE socket[n]]
  /\ connecting' = connecting \ gone
  /\ past' = PastWithout(gone)

Handled(n) == batch' = [batch EXCEPT ![n] = "none"]

-----------------------------------------------------------------------------
(* Worker::run, before its loop and at epoll_wait.                         *)

\* The listener, the epoll instance and the timer are there.
SetUp ==
  /\ pc = "start"
  /\ pc' = "wait"
  /\ UNCHANGED <<map, batch, signals, client, reading, kernel, stop_requested>>

\* One of them cannot be had: the exception ends the worker, which closes nothing.
SetUpFails ==
  /\ pc = "start"
  /\ pc' = "failed"
  /\ UNCHANGED <<map, batch, signals, client, reading, kernel, stop_requested>>

\* What epoll_wait reports for n. A hang-up is reported unasked, and the answer of
\* a backend to the connect that waits for it. A pair whose backend has answered
\* may be armed for, and ready for, either direction; one whose backend has not has
\* nothing to write to its client.
Answered(n) == PairOf(n) \cap connecting = {}
Reported(n) ==
  CASE n \notin DOMAIN peers -> {"none"}
    [] socket[n] = "hung" -> {"hup"}
    [] socket[n] = "open" /\ n \in connecting -> {"out"}
    [] socket[n] = "open" /\ Answered(n) -> {"none", "out", "in"}
    [] socket[n] = "open" /\ ~ peers[n].backend_side /\ ~ Answered(n) -> {"none", "in"}
    [] OTHER -> {"none"}

\* The listener is level-triggered. The slip looks at it only if no pair has events.
AfterPairs(events) == waiting > 0 /\ events = NoEvents
Listening(events) == waiting > 0

EpollWait ==
  /\ pc = "wait" /\ ~ stop_requested
  /\ batch' \in [Fds -> Reports]
  /\ \A n \in Fds : batch'[n] \in Reported(n)
  /\ \E ticked \in SUBSET {"timer"} :
       signals' = ticked \cup (IF Listening(batch') THEN {"listener"} ELSE {})
  /\ pc' = "batch"
  /\ UNCHANGED <<map, client, reading, kernel, stop_requested>>

EndBatch ==
  /\ pc = "batch" /\ Pending = {} /\ signals = {}
  /\ pc' = "wait"
  /\ UNCHANGED <<map, batch, signals, client, reading, kernel, stop_requested>>

-----------------------------------------------------------------------------
(* The listener: accept_clients and attach_backend.                        *)

ListenerEvent ==
  /\ pc = "batch" /\ "listener" \in signals
  /\ signals' = signals \ {"listener"}
  /\ pc' = "accept"
  /\ UNCHANGED <<map, batch, client, reading, kernel, stop_requested>>

Accept(n) ==
  /\ pc = "accept" /\ waiting > 0 /\ n \in Free
  /\ waiting' = waiting - 1
  /\ socket' = [socket EXCEPT ![n] = "open"]
  /\ client' = n
  /\ pc' = "attach"
  /\ UNCHANGED <<map, batch, signals, reading, others, stop_requested>>

\* accept_clients gives up on an error. The slip goes round again.
TriesAgain == "accept"
GivesUp == "batch"

\* accept4 fails: the queue is empty, or no number is free, which leaves the
\* client in the queue. (A client that has gone is accepted all the same.)
AcceptFails ==
  /\ pc = "accept"
  /\ \/ waiting = 0 /\ pc' = "batch"
     \/ waiting > 0 /\ Free = {} /\ pc' = GivesUp
  /\ UNCHANGED <<map, batch, signals, client, reading, kernel, stop_requested>>

\* The descriptors after close(client_fd). The slip returns without it.
LeftOpen(n) == socket
Closed(n) == [socket EXCEPT ![n] = "none"]

\* select finds no backend; or connect_backend returns -1, for want of a number
\* among other reasons.
TurnAway ==
  /\ pc = "attach"
  /\ socket' = Closed(client)
  /\ client' = NoFd
  /\ pc' = "accept"
  /\ UNCHANGED <<map, batch, signals, reading, others, waiting, stop_requested>>

\* connect_backend throws: the client's descriptor stays with the dead worker.
ConnectThrows ==
  /\ pc = "attach"
  /\ pc' = "failed"
  /\ UNCHANGED <<map, batch, signals, client, reading, kernel, stop_requested>>

\* connect_backend returns number n. Both peers are emplaced and added to epoll,
\* unless add_fd throws.
Attach(n) ==
  /\ pc = "attach" /\ n \in Free
  /\ \E state \in {"handshake", "open"} : socket' = [socket EXCEPT ![n] = state]
  /\ peers' = [m \in DOMAIN peers \cup {client, n} |->
                 CASE m = client -> [paired_fd |-> n, backend_side |-> FALSE]
                   [] m = n -> [paired_fd |-> client, backend_side |-> TRUE]
                   [] OTHER -> peers[m]]
  /\ connecting' = connecting \cup {n}
  /\ client' = NoFd
  /\ pc' \in {"accept", "failed"}
  /\ UNCHANGED <<batch, signals, reading, past, others, waiting, stop_requested>>

-----------------------------------------------------------------------------
(* The events of the pairs.                                                *)

\* An event whose number is in peers no more.
Skip(n) ==
  /\ pc = "batch" /\ n \in Pending \ DOMAIN peers
  /\ Handled(n)
  /\ UNCHANGED <<pc, map, signals, client, reading, kernel, stop_requested>>

HangUp(n) ==
  /\ pc = "batch" /\ n \in DOMAIN peers /\ batch[n] = "hup"
  /\ Handled(n) /\ Close(PairOf(n))
  /\ UNCHANGED <<pc, signals, client, reading, others, waiting, stop_requested>>

\* finish_connect, if SO_ERROR is 0. It is 0 as well while the handshake goes on.
Unconnected(n) == IF batch[n] = "out" THEN connecting \ {n} ELSE connecting

\* finish_connect, if its event has EPOLLOUT, and on to read_available and flush.
ReadWrite(n) ==
  /\ pc = "batch" /\ n \in DOMAIN peers \cap Pending /\ batch[n] # "hup"
  /\ Handled(n)
  /\ connecting' = Unconnected(n)
  /\ reading' = n
  /\ pc' = "read"
  /\ UNCHANGED <<peers, past, signals, client, kernel, stop_requested>>

\* The event is done with (at once, if its flags call for no read): the source has
\* paused, or the sink is full.
ReadReturns ==
  /\ pc = "read"
  /\ reading' = NoFd
  /\ pc' = "batch"
  /\ UNCHANGED <<map, batch, signals, client, kernel, stop_requested>>

\* One of the three closes the pair: SO_ERROR, a read of 0 bytes, an error, a write.
ReadWriteEnds ==
  /\ pc = "read" /\ \E m \in PairOf(reading) : socket[m] = "hung"
  /\ Close(PairOf(reading))
  /\ reading' = NoFd
  /\ pc' = "batch"
  /\ UNCHANGED <<batch, signals, client, others, waiting, stop_requested>>

-----------------------------------------------------------------------------
(* The timer, and the end.                                                 *)

\* reap_timeouts goes by the client sides: to a backend that is connecting
\* applies the deadline, to others the idle time (which is left open).
Expired ==
  {n \in DOMAIN peers :
     peers[n].backend_side /\ n \in connecting /\ n \in past}
MayIdle ==
  {n \in DOMAIN peers : peers[n].backend_side /\ n \notin connecting}

TimerEvent ==
  /\ pc = "batch" /\ "timer" \in signals
  /\ signals' = signals \ {"timer"}
  /\ \E idle \in SUBSET MayIdle : Close(UNION {PairOf(n) : n \in Expired \cup idle})
  /\ UNCHANGED <<pc, batch, client, reading, others, waiting, stop_requested>>

Leave ==
  /\ pc = "wait" /\ stop_requested
  /\ pc' = "shutdown"
  /\ UNCHANGED <<map, batch, signals, client, reading, kernel, stop_requested>>

Shutdown(n) ==
  /\ pc = "shutdown" /\ n \in DOMAIN peers
  /\ Close(PairOf(n))
  /\ UNCHANGED <<pc, batch, signals, client, reading, others, waiting, stop_requested>>

Exit ==
  /\ pc = "shutdown" /\ DOMAIN peers = {}
  /\ pc' = "exited"
  /\ UNCHANGED <<map, batch, signals, client, reading, kernel, stop_requested>>

-----------------------------------------------------------------------------
(* The kernel, the ends, the clock, the other threads and the signal.      *)

Arrive ==
  /\ waiting < MaxWaiting
  /\ waiting' = waiting + 1
  /\ UNCHANGED <<mine, socket, others, stop_requested>>

Answer(n) ==
  /\ socket[n] = "handshake"
  /\ socket' = [socket EXCEPT ![n] = "open"]
  /\ UNCHANGED <<mine, others, waiting, stop_requested>>

\* An end closes or resets the connection, or refuses it.
GoAway(n) ==
  /\ socket[n] \in {"handshake", "open"}
  /\ socket' = [socket EXCEPT ![n] = "hung"]
  /\ UNCHANGED <<mine, others, waiting, stop_requested>>

DeadlinePasses(n) ==
  /\ n \in DOMAIN peers \ past
  /\ peers[n].backend_side /\ (n \in connecting \/ socket[n] = "handshake")
  /\ past' = past \cup {n}
  /\ UNCHANGED <<pc, peers, connecting, batch, signals, client, reading, kernel, stop_requested>>

OthersOpen(n) ==
  /\ n \in Free
  /\ others' = others \cup {n}
  /\ UNCHANGED <<mine, socket, waiting, stop_requested>>

OthersClose(n) ==
  /\ n \in others
  /\ others' = others \ {n}
  /\ UNCHANGED <<mine, socket, waiting, stop_requested>>

RequestStop ==
  /\ ~ stop_requested
  /\ stop_requested' = TRUE
  /\ UNCHANGED <<mine, kernel>>

-----------------------------------------------------------------------------
Init ==
  /\ pc = "start"
  /\ peers = <<>> /\ connecting = {}
  /\ batch = NoEvents /\ signals = {}
  /\ client = NoFd /\ reading = NoFd
  /\ stop_requested = FALSE
  /\ socket = [n \in Fds |-> "none"]
  /\ others = {} /\ waiting = 0
  /\ past = {}

\* What the worker does unless an exception ends it.
Worker ==
  \/ SetUp \/ EpollWait \/ EndBatch \/ ListenerEvent \/ TimerEvent
  \/ AcceptFails \/ TurnAway
  \/ ReadReturns \/ ReadWriteEnds
  \/ Leave \/ Exit
  \/ \E n \in Fds : \/ Accept(n) \/ Attach(n)
                    \/ Skip(n) \/ HangUp(n) \/ ReadWrite(n)
                    \/ Shutdown(n)

Next ==
  \/ Worker \/ SetUpFails \/ ConnectThrows
  \/ Arrive \/ RequestStop
  \/ \E n \in Fds : \/ Answer(n) \/ GoAway(n) \/ DeadlinePasses(n)
                    \/ OthersOpen(n) \/ OthersClose(n)

Spec == Init /\ [][Next]_vars

\* The worker's thread is scheduled, and epoll_wait has a timeout. A read ends when
\* the stream of its source does; while the source is open nothing makes it end.
Endless == pc = "read" /\ socket[reading] = "open"
Scheduled == Worker /\ ~ Endless
FairSpec == Spec /\ WF_vars(Scheduled)

-----------------------------------------------------------------------------
TypeOK ==
  /\ pc \in {"start", "wait", "batch", "accept", "attach", "read",
            "shutdown", "exited", "failed"}
  /\ DOMAIN peers \subseteq Fds /\ peers \in [DOMAIN peers -> Peer]
  /\ connecting \subseteq DOMAIN peers
  /\ batch \in [Fds -> Reports]
  /\ signals \subseteq {"listener", "timer"}
  /\ client \in Fds \cup {NoFd} /\ reading \in Fds \cup {NoFd}
  /\ stop_requested \in BOOLEAN
  /\ socket \in [Fds -> Sockets]
  /\ others \subseteq Fds
  /\ waiting \in 0 .. MaxWaiting
  /\ past \subseteq DOMAIN peers

\* Every descriptor that the worker has open is an entry of peers or the client
\* in its hand, and every entry is a descriptor that it has open: none is
\* leaked, and no number that has gone to another thread, or to a later
\* connection, is read, written or closed under its old entry (attach_backend,
\* close_one).
NumbersAccounted == Open = DOMAIN peers \cup ({client} \ {NoFd}) /\ Open \cap others = {}

\* However numbers are given back and handed out again inside a batch, the map
\* holds whole pairs: two entries, a client's and a backend's, that name each
\* other (attach_backend, close_pair).
WholePairs ==
  \A n \in DOMAIN peers : LET m == peers[n].paired_fd IN
    /\ m \in DOMAIN peers /\ peers[m].paired_fd = n
    /\ peers[m].backend_side = ~ peers[n].backend_side
    /\ n \in connecting => peers[n].backend_side

\* As long as clients wait and a number is free the worker goes on accepting, also
\* after it had to leave clients in the queue for want of numbers; unless it stays
\* in the read of one pair for ever (accept_clients, EMFILE; read_available).
ClientsAccepted ==
  []<>(waiting = 0 \/ Free = {} \/ Ended \/ pc = "attach") \/ <>[](pc = "read")

\* A pair of which one end has hung up is closed, whatever the want of numbers,
\* other threads and events of other pairs, unless one of the two loops without a
\* bound keeps the worker: in the end that of accept_clients, whose clients come
\* so fast, or that of read_available for one fast pair (Worker::run).
HungClosed ==
  \A n \in Fds :
    <>[](n \in DOMAIN peers /\ socket[n] = "hung" /\ ~ Ended)
      => []<>(pc = "attach") \/ <>[](pc = "read")

\* A tick of the timer leaves no pair whose backend has not answered by its
\* connect deadline (reap_timeouts).
ConnectTimesOut ==
  [][\A n \in DOMAIN peers :
       "timer" \in signals \ signals' /\ n \in past /\ socket[n] = "handshake"
         => n \notin DOMAIN peers']_vars
=============================================================================
