--------------------------- MODULE EventLoopProofs ---------------------------
(***************************************************************************)
(* Proofs about module EventLoop, for any set of descriptor numbers: the   *)
(* worker's map holds whole pairs, and exactly the descriptors that the    *)
(* worker has open.                                                        *)
(***************************************************************************)
EXTENDS EventLoop, TLAPS

LoopTyped ==
  /\ pc \in {"start", "wait", "batch", "accept", "attach", "read",
            "shutdown", "exited", "failed"}
  /\ batch \in [Fds -> Reports]
  /\ signals \subseteq {"listener", "timer"}
  /\ stop_requested \in BOOLEAN
  /\ waiting \in 0 .. MaxWaiting
  /\ reading \in Fds \cup {NoFd}

MapTyped ==
  /\ DOMAIN peers \subseteq Fds /\ peers \in [DOMAIN peers -> Peer]
  /\ client \in Fds \cup {NoFd}
  /\ socket \in [Fds -> Sockets]
  /\ others \subseteq Fds
  /\ connecting \subseteq DOMAIN peers /\ past \subseteq DOMAIN peers

LEMMA TypeParts == TypeOK <=> LoopTyped /\ MapTyped
BY DEF TypeOK, LoopTyped, MapTyped

\* A client is in hand while it is attached, or when that has thrown; it has no
\* entry yet.
InHand ==
  /\ client \notin DOMAIN peers
  /\ pc = "attach" => client # NoFd
  /\ pc \notin {"attach", "failed"} => client = NoFd

\* Nothing closes the pair that is read but the read itself.
InRead == pc = "read" => reading \in DOMAIN peers

MapInv == MapTyped /\ InHand /\ InRead /\ NumbersAccounted /\ WholePairs

\* What MapInv is about, but for pc and the descriptor that is read.
mapVars == <<map, client, socket, others>>

-----------------------------------------------------------------------------
(* Closing pairs, for whatever reason.                                     *)

\* A set of descriptors that is closed holds the pair of each of its members.
ByPairs(gone) == gone \subseteq DOMAIN peers /\ \A n \in gone : peers[n].paired_fd \in gone

LEMMA PairByPairs ==
  ASSUME WholePairs, NEW n \in DOMAIN peers
  PROVE  ByPairs(PairOf(n))
BY DEF WholePairs, PairOf, ByPairs

LEMMA PairsByPairs ==
  ASSUME WholePairs, NEW S, S \subseteq DOMAIN peers
  PROVE  ByPairs(UNION {PairOf(n) : n \in S})
<1>1. \A n \in S : ByPairs(PairOf(n))
  BY PairByPairs
<1> QED
  BY <1>1 DEF ByPairs

LEMMA CloseKeeps ==
  ASSUME MapInv, NEW gone, ByPairs(gone), Close(gone), UNCHANGED <<client, others>>,
         pc # "attach", pc' = pc \/ pc' = "batch", pc # "failed", pc' # "read"
  PROVE  MapInv'
<1> USE DEF MapInv, MapTyped
<1>1. /\ DOMAIN peers' = DOMAIN peers \ gone
      /\ \A n \in DOMAIN peers' : peers'[n] = peers[n]
      /\ peers' = [n \in DOMAIN peers \ gone |-> peers[n]]
  BY DEF Close, Restrict
<1>2. socket' = [n \in Fds |-> IF n \in gone THEN "none" ELSE socket[n]]
  BY DEF Close
<1>3. MapTyped'
  <2>1. socket' \in [Fds -> Sockets]
    BY <1>2 DEF Sockets
  <2>2. connecting' \subseteq DOMAIN peers' /\ past' \subseteq DOMAIN peers'
    BY <1>1 DEF Close, PastWithout
  <2>3. peers' \in [DOMAIN peers' -> Peer]
    BY <1>1
  <2> QED
    BY <1>1, <2>1, <2>2, <2>3
<1>4. InHand' /\ InRead'
  BY <1>1 DEF InHand, InRead
<1>5. Open' = Open \ gone
  BY <1>2 DEF Open
<1>6. client' \notin gone
  BY DEF InHand, ByPairs
<1>7. NumbersAccounted'
  BY <1>1, <1>5, <1>6 DEF NumbersAccounted
<1>8. WholePairs'
  <2> SUFFICES ASSUME NEW n \in DOMAIN peers'
               PROVE  LET m == peers'[n].paired_fd IN
                        /\ m \in DOMAIN peers' /\ peers'[m].paired_fd = n
                        /\ peers'[m].backend_side = ~ peers'[n].backend_side
                        /\ n \in connecting' => peers'[n].backend_side
    BY DEF WholePairs
  <2>1. n \in DOMAIN peers /\ n \notin gone /\ peers'[n] = peers[n]
    BY <1>1
  <2> DEFINE m == peers[n].paired_fd
  <2>2. /\ m \in DOMAIN peers /\ peers[m].paired_fd = n
        /\ peers[m].backend_side = ~ peers[n].backend_side
        /\ n \in connecting => peers[n].backend_side
    BY <2>1 DEF WholePairs
  <2>3. m \notin gone
    BY <2>1, <2>2 DEF ByPairs
  <2>4. m \in DOMAIN peers' /\ peers'[m] = peers[m]
    BY <1>1, <2>2, <2>3
  <2> QED
    BY <2>1, <2>2, <2>4 DEF Close
<1> QED
  BY <1>3, <1>4, <1>7, <1>8

-----------------------------------------------------------------------------
(* The steps of the listener.                                              *)

LEMMA AcceptKeeps ==
  ASSUME MapInv, NEW n \in Fds, Accept(n)
  PROVE  MapInv'
<1> USE DEF MapInv, MapTyped, Accept, map
<1>1. n \notin Open /\ n \notin others /\ n # NoFd /\ client = NoFd
  BY FdsAssumption DEF Free, InHand
<1>2. Open' = Open \cup {n}
  BY DEF Open
<1>3. n \notin DOMAIN peers
  BY <1>1 DEF NumbersAccounted
<1>4. MapTyped'
  BY DEF Sockets
<1>5. InHand' /\ InRead'
  BY <1>1, <1>3 DEF InHand, InRead
<1>6. NumbersAccounted'
  BY <1>1, <1>2 DEF NumbersAccounted
<1>7. WholePairs'
  BY DEF WholePairs
<1> QED
  BY <1>4, <1>5, <1>6, <1>7

LEMMA TurnAwayKeeps ==
  ASSUME MapInv, TurnAway
  PROVE  MapInv'
<1> USE DEF MapInv, MapTyped, TurnAway, Closed, map
<1>1. client \in Fds /\ client \notin DOMAIN peers
  BY DEF InHand
<1>2. Open' = Open \ {client}
  BY <1>1 DEF Open
<1>3. MapTyped'
  BY DEF Sockets
<1>4. InHand' /\ InRead'
  BY FdsAssumption DEF InHand, InRead
<1>5. NumbersAccounted'
  BY <1>1, <1>2 DEF NumbersAccounted
<1>6. WholePairs'
  BY DEF WholePairs
<1> QED
  BY <1>3, <1>4, <1>5, <1>6

LEMMA AttachKeeps ==
  ASSUME MapInv, NEW n \in Fds, Attach(n)
  PROVE  MapInv'
<1> USE DEF MapInv, MapTyped
<1> DEFINE ofClient == [paired_fd |-> n, backend_side |-> FALSE]
           ofBackend == [paired_fd |-> client, backend_side |-> TRUE]
<1>1. client \in Fds /\ client \notin DOMAIN peers /\ client # NoFd
  BY DEF InHand, Attach
<1>2. n \notin Open /\ n \notin others
  BY DEF Free, Attach
<1>3. n # client /\ n \notin DOMAIN peers
  BY <1>1, <1>2 DEF NumbersAccounted
<1>4. /\ DOMAIN peers' = DOMAIN peers \cup {client, n}
      /\ peers'[client] = ofClient /\ peers'[n] = ofBackend
      /\ \A m \in DOMAIN peers : peers'[m] = peers[m]
      /\ peers' = [m \in DOMAIN peers' |-> peers'[m]]
  BY <1>1, <1>3 DEF Attach
<1>5. Open' = Open \cup {n}
  BY DEF Open, Attach
<1>6. MapTyped'
  <2>1. ofClient \in Peer /\ ofBackend \in Peer
    BY <1>1 DEF Peer
  <2>2. peers' \in [DOMAIN peers' -> Peer]
    BY <1>4, <2>1
  <2>3. socket' \in [Fds -> Sockets]
    BY DEF Attach, Sockets
  <2> QED
    BY <1>1, <1>4, <2>2, <2>3 DEF Attach
<1>7. InHand' /\ InRead'
  BY <1>1, <1>4, FdsAssumption DEF InHand, InRead, Attach
<1>8. NumbersAccounted'
  BY <1>1, <1>2, <1>4, <1>5 DEF NumbersAccounted, Attach
<1>9. WholePairs'
  <2> SUFFICES ASSUME NEW k \in DOMAIN peers'
               PROVE  LET m == peers'[k].paired_fd IN
                        /\ m \in DOMAIN peers' /\ peers'[m].paired_fd = k
                        /\ peers'[m].backend_side = ~ peers'[k].backend_side
                        /\ k \in connecting' => peers'[k].backend_side
    BY DEF WholePairs
  <2>4. /\ peers'[client].paired_fd = n /\ peers'[n].paired_fd = client
        /\ client \in DOMAIN peers' /\ n \in DOMAIN peers'
    BY <1>4
  <2>5. /\ peers'[client].backend_side = FALSE /\ peers'[n].backend_side = TRUE
        /\ connecting' = connecting \cup {n} /\ client \notin connecting
    BY <1>1, <1>4 DEF Attach
  <2>6. /\ peers'[n].backend_side = ~ peers'[client].backend_side
        /\ peers'[client].backend_side = ~ peers'[n].backend_side
        /\ client \notin connecting' /\ peers'[n].backend_side
    BY <1>3, <2>5, Zenon
  <2>1. CASE k = client
    BY <2>1, <2>4, <2>6, Zenon
  <2>3. CASE k = n
    BY <2>3, <2>4, <2>6, Zenon
  <2>2. CASE k \in DOMAIN peers
    <3> DEFINE m == peers[k].paired_fd
    <3>1. /\ m \in DOMAIN peers /\ peers[m].paired_fd = k
          /\ peers[m].backend_side = ~ peers[k].backend_side
          /\ k \in connecting => peers[k].backend_side
      BY <2>2 DEF WholePairs
    <3>2. peers'[k] = peers[k] /\ peers'[m] = peers[m] /\ m \in DOMAIN peers'
      BY <1>4, <2>2, <3>1
    <3>3. k \in connecting' => k \in connecting
      BY <1>3, <2>2 DEF Attach
    <3> QED
      BY <3>1, <3>2, <3>3
  <2> QED
    BY <1>4, <2>1, <2>2, <2>3
<1> QED
  BY <1>6, <1>7, <1>8, <1>9

\* finish_connect takes a backend side out of connecting.
LEMMA ReadWriteKeeps ==
  ASSUME MapInv, NEW n \in Fds, ReadWrite(n)
  PROVE  MapInv'
<1>1. UNCHANGED <<peers, client, socket, others, past>> /\ connecting' \subseteq connecting
  BY DEF ReadWrite, Unconnected, kernel
<1>2. pc = "batch" /\ pc' = "read" /\ reading' = n /\ n \in DOMAIN peers
  BY DEF ReadWrite
<1> QED
  BY <1>1, <1>2 DEF MapInv, InRead, MapTyped, InHand, NumbersAccounted, Open, WholePairs

-----------------------------------------------------------------------------
(* Every step.                                                             *)

LEMMA Closes ==
  ASSUME MapInv,
         \/ \E n \in Fds : HangUp(n) \/ Shutdown(n)
         \/ TimerEvent \/ ReadWriteEnds
  PROVE  MapInv'
<1>1. ASSUME NEW n \in Fds, HangUp(n) \/ Shutdown(n)
      PROVE  MapInv'
  <2>1. /\ n \in DOMAIN peers /\ Close(PairOf(n)) /\ UNCHANGED <<pc, client, others>>
        /\ pc \in {"batch", "shutdown"}
    BY <1>1 DEF HangUp, Shutdown
  <2>2. ByPairs(PairOf(n))
    BY <2>1, PairByPairs DEF MapInv
  <2> QED
    BY <2>1, <2>2, CloseKeeps
<1>2. ASSUME ReadWriteEnds
      PROVE  MapInv'
  <2>1. /\ Close(PairOf(reading)) /\ UNCHANGED <<client, others>>
        /\ pc = "read" /\ pc' = "batch"
    BY <1>2 DEF ReadWriteEnds
  <2>2. ByPairs(PairOf(reading))
    BY <2>1, PairByPairs DEF MapInv, InRead
  <2> QED
    BY <2>1, <2>2, CloseKeeps
<1>3. ASSUME TimerEvent
      PROVE  MapInv'
  <2>1. PICK idle \in SUBSET MayIdle : Close(UNION {PairOf(n) : n \in Expired \cup idle})
    BY <1>3 DEF TimerEvent
  <2>2. Expired \cup idle \subseteq DOMAIN peers
    BY DEF Expired, MayIdle
  <2>3. ByPairs(UNION {PairOf(n) : n \in Expired \cup idle})
    BY <2>2, PairsByPairs DEF MapInv
  <2>4. UNCHANGED <<pc, client, others>> /\ pc = "batch"
    BY <1>3 DEF TimerEvent
  <2> QED
    BY <2>1, <2>3, <2>4, CloseKeeps
<1> QED
  BY <1>1, <1>2, <1>3

\* The steps that leave the map, the sockets and the other threads' numbers as
\* they are.
Bookkeeping ==
  \/ SetUp \/ SetUpFails \/ EpollWait \/ EndBatch \/ ListenerEvent \/ AcceptFails
  \/ ReadReturns \/ Leave \/ Exit \/ ConnectThrows \/ Arrive \/ RequestStop
  \/ \E n \in Fds : Skip(n)

LEMMA BookkeepingKeeps ==
  ASSUME MapInv, Bookkeeping
  PROVE  MapInv'
<1>1. UNCHANGED mapVars
  BY DEF Bookkeeping, SetUp, SetUpFails, EpollWait, EndBatch, ListenerEvent, AcceptFails,
         ReadReturns, Leave, Exit, ConnectThrows, Arrive, RequestStop, Skip, mapVars, map, mine, kernel
<1>2. /\ pc' = "attach" => pc = "attach"
      /\ pc' \notin {"attach", "failed"} => pc \notin {"attach", "failed"}
  BY DEF Bookkeeping, SetUp, SetUpFails, EpollWait, EndBatch, ListenerEvent, AcceptFails, GivesUp,
         ReadReturns, Leave, Exit, ConnectThrows, Arrive, RequestStop, Skip, mine
<1>3. pc' = "read" => pc = "read" /\ reading' = reading
  BY DEF Bookkeeping, SetUp, SetUpFails, EpollWait, EndBatch, ListenerEvent, AcceptFails, GivesUp,
         ReadReturns, Leave, Exit, ConnectThrows, Arrive, RequestStop, Skip, mine
<1>4. InHand' /\ InRead'
  BY <1>1, <1>2, <1>3 DEF MapInv, InHand, InRead, mapVars, map
<1> QED
  BY <1>1, <1>4 DEF MapInv, MapTyped, NumbersAccounted, Open, WholePairs, mapVars, map

\* The kernel, the clock and the other threads.
LEMMA OutsideKeeps ==
  ASSUME MapInv, NEW n \in Fds,
         Answer(n) \/ GoAway(n) \/ DeadlinePasses(n) \/ OthersOpen(n) \/ OthersClose(n)
  PROVE  MapInv'
<1> USE DEF MapInv, MapTyped
<1>1. UNCHANGED <<pc, peers, client, reading>>
  BY DEF Answer, GoAway, DeadlinePasses, OthersOpen, OthersClose, mine, map
<1>2. Open' = Open /\ socket' \in [Fds -> Sockets]
  BY DEF Answer, GoAway, DeadlinePasses, OthersOpen, OthersClose, kernel, Open, Sockets
<1>3. past' \subseteq DOMAIN peers /\ connecting' = connecting
  BY DEF Answer, GoAway, DeadlinePasses, OthersOpen, OthersClose, mine, map
<1>4. others' \subseteq Fds /\ Open \cap others' = {}
  BY DEF Answer, GoAway, DeadlinePasses, OthersOpen, OthersClose, kernel, NumbersAccounted, Free
<1>5. MapTyped' /\ InHand' /\ InRead' /\ WholePairs'
  BY <1>1, <1>2, <1>3, <1>4 DEF InHand, InRead, WholePairs
<1>6. NumbersAccounted'
  BY <1>1, <1>2, <1>4 DEF NumbersAccounted
<1> QED
  BY <1>5, <1>6

LEMMA MapInit == Init => MapInv
<1> SUFFICES ASSUME Init PROVE MapInv
  OBVIOUS
<1>1. DOMAIN peers = {} /\ peers \in [DOMAIN peers -> Peer]
  BY DEF Init
<1>2. Open = {}
  BY DEF Init, Open
<1> QED
  BY <1>1, <1>2 DEF Init, MapInv, MapTyped, InHand, InRead, NumbersAccounted, WholePairs, Sockets

LEMMA MapStep == MapInv /\ [Next]_vars => MapInv'
<1> SUFFICES ASSUME MapInv, [Next]_vars PROVE MapInv'
  OBVIOUS
<1>1. CASE Bookkeeping
  BY <1>1, BookkeepingKeeps
<1>2. CASE TimerEvent \/ ReadWriteEnds \/ \E n \in Fds : HangUp(n) \/ Shutdown(n)
  BY <1>2, Closes
<1>3. CASE TurnAway
  BY <1>3, TurnAwayKeeps
<1>4. CASE \E n \in Fds : Accept(n) \/ Attach(n) \/ ReadWrite(n)
  BY <1>4, AcceptKeeps, AttachKeeps, ReadWriteKeeps
<1>5. CASE \E n \in Fds : \/ Answer(n) \/ GoAway(n) \/ DeadlinePasses(n)
                          \/ OthersOpen(n) \/ OthersClose(n)
  BY <1>5, OutsideKeeps
<1>6. CASE UNCHANGED vars
  BY <1>6 DEF vars, map, mine, kernel, MapInv, MapTyped, InHand, InRead, NumbersAccounted, Open,
              WholePairs
<1> QED
  BY <1>1, <1>2, <1>3, <1>4, <1>5, <1>6 DEF Next, Worker, Bookkeeping

\* The worker's part of the types.
LEMMA LoopTypedStep ==
  ASSUME MapInv, LoopTyped, [Next]_vars
  PROVE  LoopTyped'
<1> USE WaitingAssumption DEF LoopTyped
<1>1. CASE Worker
  <2>1. CASE SetUp \/ EndBatch \/ Leave \/ Exit
    BY <2>1 DEF SetUp, EndBatch, Leave, Exit, kernel
  <2>2. CASE EpollWait
    BY <2>2 DEF EpollWait, kernel
  <2>3. CASE ListenerEvent \/ TimerEvent
    BY <2>3 DEF ListenerEvent, TimerEvent, kernel
  <2>4. CASE AcceptFails \/ TurnAway
    BY <2>4 DEF AcceptFails, GivesUp, TurnAway, kernel
  <2>5. CASE \E n \in Fds : Accept(n) \/ Attach(n)
    BY <2>5 DEF Accept, Attach
  <2>6. CASE \E n \in Fds : Skip(n) \/ HangUp(n) \/ ReadWrite(n) \/ Shutdown(n)
    BY <2>6 DEF Skip, HangUp, ReadWrite, Shutdown, Handled, Reports, kernel
  <2>7. CASE ReadReturns \/ ReadWriteEnds
    BY <2>7 DEF ReadReturns, ReadWriteEnds, kernel
  <2> QED
    BY <1>1, <2>1, <2>2, <2>3, <2>4, <2>5, <2>6, <2>7 DEF Worker
<1>2. CASE SetUpFails \/ ConnectThrows
  BY <1>2 DEF SetUpFails, ConnectThrows, kernel
<1>3. CASE Arrive
  BY <1>3 DEF Arrive, mine
<1>6. CASE RequestStop
  <2>1. stop_requested' \in BOOLEAN
    BY <1>6 DEF RequestStop
  <2> QED
    BY <1>6, <2>1 DEF RequestStop, mine, kernel
<1>4. CASE \E n \in Fds : \/ Answer(n) \/ GoAway(n) \/ DeadlinePasses(n)
                          \/ OthersOpen(n) \/ OthersClose(n)
  BY <1>4 DEF Answer, GoAway, DeadlinePasses, OthersOpen, OthersClose, mine, kernel
<1>5. CASE UNCHANGED vars
  BY <1>5 DEF vars, mine, kernel
<1> QED
  BY <1>1, <1>2, <1>3, <1>4, <1>5, <1>6 DEF Next

LEMMA LoopTypedInit == Init => LoopTyped
<1> SUFFICES ASSUME Init PROVE LoopTyped
  OBVIOUS
<1>1. stop_requested \in BOOLEAN
  BY DEF Init
<1>2. waiting \in 0 .. MaxWaiting
  BY WaitingAssumption DEF Init
<1>3. batch \in [Fds -> Reports]
  BY DEF Init, NoEvents, Reports
<1> QED
  BY <1>1, <1>2, <1>3 DEF Init, LoopTyped

LEMMA LoopInvariant == Spec => [](MapInv /\ LoopTyped)
<1>1. Init => MapInv /\ LoopTyped
  BY MapInit, LoopTypedInit
<1>2. MapInv /\ LoopTyped /\ [Next]_vars => MapInv' /\ LoopTyped'
  BY MapStep, LoopTypedStep
<1> QED
  BY <1>1, <1>2, PTL DEF Spec

\* Types of the map, of what the kernel holds under each number and of the batch;
\* no deadline outlives its entry.
THEOREM TypeCorrect == Spec => []TypeOK
<1>1. MapInv /\ LoopTyped => TypeOK
  BY TypeParts DEF MapInv
<1> QED
  BY <1>1, LoopInvariant, PTL

\* The worker has open exactly what its map holds and the client in its hand, for
\* any number of descriptors: accept_clients, attach_backend and close_pair leak
\* none and touch no other thread's.
THEOREM NumbersAccountedAlways == Spec => []NumbersAccounted
<1>1. MapInv => NumbersAccounted
  BY DEF MapInv
<1> QED
  BY <1>1, LoopInvariant, PTL

\* The map holds whole pairs, however many there are and in whatever order their
\* numbers are handed out again inside a batch (close_pair, attach_backend).
THEOREM WholePairsAlways == Spec => []WholePairs
<1>1. MapInv => WholePairs
  BY DEF MapInv
<1> QED
  BY <1>1, LoopInvariant, PTL
=============================================================================
