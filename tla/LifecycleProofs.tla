--------------------------- MODULE LifecycleProofs ---------------------------
(***************************************************************************)
(* Proofs about module Lifecycle, for any configuration and any number of  *)
(* workers: no thread is left when the server is deleted, and the admin    *)
(* listener is closed only while it is open.                               *)
(***************************************************************************)
EXTENDS Lifecycle, TLAPS

Labels == {"load", "start_admin", "start_health", "start_workers", "join", "join_health",
           "stop", "close", "clear", "join_admin", "shutdown_health", "shutdown_workers"}
InStop == {"stop", "close", "clear", "join_admin"}

\* Where main can be, and for whom it stops the admin server.
MainInv ==
  /\ main \in Labels
  /\ main \in InStop => caller \in {"start", "shutdown", "delete"}
  /\ main \notin InStop => caller \in {"none", "shutdown"}
  /\ main \in {"load", "start_admin", "start_health", "start_workers", "join", "join_health"}
       => caller = "none"

\* The listener as the admin thread and main see it.
ListenerInv ==
  /\ admin \in {"none", "bind", "store"} => ~ listener_fd
  /\ admin = "store" => listening
  /\ main \in {"close", "clear"} => listener_fd
  /\ listener_fd /\ main # "clear" => listening

\* What has been joined by the time that main has come so far.
JoinInv ==
  /\ worker \in Seq({"running", "ended", "joined"}) /\ next \in Nat
  /\ main \in {"load", "start_admin"} => admin = "none"
  /\ main = "shutdown_workers" =>
       /\ health \in {"none", "joined"}
       /\ next > 0 /\ \A w \in Started : w < next => worker[w] = "joined"
  /\ NoThreadLeft

Inv == MainInv /\ ListenerInv /\ JoinInv

LEMMA StartedIs ==
  ASSUME worker \in Seq({"running", "ended", "joined"})
  PROVE  /\ Started = 1 .. Len(worker) /\ Len(worker) \in Nat
         /\ \A w \in Started : worker[w] \in {"running", "ended", "joined"}
BY DEF Started

\* What one entry of the vector of workers becomes.
LEMMA WorkerSet ==
  ASSUME worker \in Seq({"running", "ended", "joined"}), NEW w \in Started,
         NEW state \in {"running", "ended", "joined"},
         worker' = [worker EXCEPT ![w] = state]
  PROVE  /\ worker' \in Seq({"running", "ended", "joined"})
         /\ Started' = Started /\ worker'[w] = state
         /\ \A v \in Started : v # w => worker'[v] = worker[v]
BY DEF Started

-----------------------------------------------------------------------------
(* main before the server is deleted.                                      *)

LEMMA LoadKeeps ==
  ASSUME Inv, Load \/ LoadFatal \/ Construct
  PROVE  Inv'
<1>1. UNCHANGED <<caller, next, threads>>
  BY DEF Load, LoadFatal, Construct, mainVars
<1>2. main = "load" /\ main' \in {"load", "start_admin"}
  BY DEF Load, LoadFatal, Construct, mainVars, Inv, MainInv
<1>3. outcome' \in {"0", "1"} => admin = "none"
  BY <1>2 DEF Inv, JoinInv
<1>4. MainInv'
  BY <1>1, <1>2 DEF Inv, MainInv, Labels, InStop
<1>5. ListenerInv'
  BY <1>1, <1>2 DEF Inv, ListenerInv, threads, adminVars
<1>6. JoinInv'
  BY <1>1, <1>2, <1>3, <1>4 DEF Inv, JoinInv, NoThreadLeft, MainInv, InStop, threads, adminVars, Started
<1> QED
  BY <1>4, <1>5, <1>6 DEF Inv

LEMMA StartKeeps ==
  ASSUME Inv, StartAdmin \/ StartHealth \/ StartWorker \/ JoinWorkers \/ RaiseStop \/ JoinHealth
  PROVE  Inv'
<1>1. /\ main \in {"start_admin", "start_health", "start_workers", "join", "join_health"}
      /\ caller = "none" /\ Running
  BY DEF StartAdmin, StartHealth, StartWorker, JoinWorkers, RaiseStop, JoinHealth, Inv, MainInv
<1>2. /\ \/ main' = "stop" /\ caller' \in {"start", "shutdown"}
         \/ main' \in {"start_health", "start_workers", "join", "join_health"} /\ caller' = "none"
      /\ next' \in Nat
      /\ outcome' = outcome
  BY <1>1 DEF StartAdmin, StartHealth, StartWorker, JoinWorkers, RaiseStop, JoinHealth, Unwind,
              mainVars, Inv, JoinInv
<1>3. /\ UNCHANGED <<listener_fd, listening>>
      /\ \/ admin' = admin
         \/ admin' = "bind" /\ main = "start_admin" /\ main' = "start_health"
  <2>1. CASE StartAdmin
    BY <2>1 DEF StartAdmin, Unwind, threads, adminVars
  <2>2. CASE StartHealth \/ StartWorker
    BY <2>2 DEF StartHealth, StartWorker, Unwind, threads, adminVars
  <2>3. CASE JoinWorkers \/ RaiseStop \/ JoinHealth
    BY <2>3 DEF JoinWorkers, RaiseStop, JoinHealth, threads, adminVars
  <2> QED
    BY <2>1, <2>2, <2>3
<1>4. worker' = worker \/ worker' = Append(worker, "running")
  BY DEF StartAdmin, StartHealth, StartWorker, JoinWorkers, RaiseStop, JoinHealth, Unwind, threads
<1>5. worker' \in Seq({"running", "ended", "joined"})
  BY <1>4 DEF Inv, JoinInv
<1>6. MainInv'
  BY <1>2 DEF MainInv, Labels, InStop
<1>7. ListenerInv'
  <2>1. main # "clear" /\ main' \notin {"close", "clear"}
    BY <1>1, <1>2
  <2>2. CASE admin' = admin
    BY <1>3, <2>1, <2>2 DEF Inv, ListenerInv
  <2>3. CASE admin' = "bind" /\ main = "start_admin"
    <3>1. admin = "none"
      BY <2>3 DEF Inv, JoinInv
    <3> QED
      BY <1>3, <2>1, <2>3, <3>1 DEF Inv, ListenerInv
  <2> QED
    BY <1>3, <2>2, <2>3
<1>8. JoinInv'
  BY <1>1, <1>2, <1>5 DEF JoinInv, NoThreadLeft, Running
<1> QED
  BY <1>6, <1>7, <1>8 DEF Inv

LEMMA JoinKeeps ==
  ASSUME Inv, Join
  PROVE  Inv'
<1>1. /\ next \in Started /\ worker' = [worker EXCEPT ![next] = "joined"] /\ next' = next + 1
      /\ main \in {"join", "shutdown_workers"}
      /\ UNCHANGED <<main, caller, health, admin, listener_fd, listening, outcome>> /\ Running
      /\ admin_joined' = admin_joined
  BY DEF Join, adminVars
<1>2. /\ worker' \in Seq({"running", "ended", "joined"}) /\ Started' = Started
      /\ worker'[next] = "joined" /\ \A v \in Started : v # next => worker'[v] = worker[v]
  BY <1>1, WorkerSet DEF Inv, JoinInv
<1>3. caller # "delete"
  BY <1>1 DEF Inv, MainInv, InStop
<1>4. main = "shutdown_workers" => \A w \in Started : w < next + 1 => worker'[w] = "joined"
  BY <1>1, <1>2, StartedIs DEF Inv, JoinInv
<1>5. MainInv' /\ ListenerInv'
  BY <1>1 DEF Inv, MainInv, ListenerInv
<1>6. JoinInv'
  BY <1>1, <1>2, <1>3, <1>4 DEF Inv, JoinInv, NoThreadLeft, Running
<1> QED
  BY <1>5, <1>6 DEF Inv

-----------------------------------------------------------------------------
(* AdminServer::stop and Impl::shutdown.                                   *)

LEMMA StopKeeps ==
  ASSUME Inv, Stop \/ CloseListener \/ ClearListener
  PROVE  Inv'
<1>1. /\ UNCHANGED <<caller, next, worker, health, admin, admin_joined, outcome>>
      /\ main \in InStop /\ main' \in InStop
  BY DEF Stop, CloseListener, ClearListener, InStop
<1>2. MainInv'
  BY <1>1 DEF Inv, MainInv, InStop, Labels
<1>3. JoinInv'
  BY <1>1 DEF Inv, JoinInv, NoThreadLeft, InStop, Started
<1>4. ListenerInv'
  <2>1. CASE Stop
    BY <2>1 DEF Stop, Inv, ListenerInv
  <2>2. CASE CloseListener
    BY <2>2 DEF CloseListener, Inv, ListenerInv
  <2>3. CASE ClearListener
    BY <2>3 DEF ClearListener, Cleared, Inv, ListenerInv
  <2> QED
    BY <2>1, <2>2, <2>3
<1> QED
  BY <1>2, <1>3, <1>4 DEF Inv

LEMMA JoinAdminKeeps ==
  ASSUME Inv, JoinAdmin
  PROVE  Inv'
<1>1. /\ main = "join_admin" /\ Over(admin) /\ admin_joined' = (admin = "ended") /\ Running
      /\ UNCHANGED <<next, worker, health, admin, listener_fd, listening>>
  BY DEF JoinAdmin
<1>2. caller \in {"start", "shutdown", "delete"}
  BY <1>1 DEF Inv, MainInv, InStop
<1>3. \/ caller = "start" /\ main' = "stop" /\ caller' = "shutdown"
      \/ caller = "shutdown" /\ main' = "shutdown_health" /\ caller' = caller
      \/ caller = "delete" /\ main' = main /\ caller' = caller
  BY <1>2 DEF JoinAdmin
<1>4. admin = "none" \/ admin_joined'
  BY <1>1 DEF Over
<1>5. MainInv'
  BY <1>1, <1>3 DEF MainInv, InStop, Labels
<1>6. ListenerInv'
  BY <1>1, <1>3 DEF Inv, ListenerInv
<1>7. JoinInv'
  BY <1>1, <1>3, <1>4 DEF Inv, JoinInv, NoThreadLeft, Started
<1> QED
  BY <1>5, <1>6, <1>7 DEF Inv

LEMMA ShutdownKeeps ==
  ASSUME Inv, ShutdownHealth \/ Delete
  PROVE  Inv'
<1>1. /\ UNCHANGED <<worker, admin, admin_joined, listener_fd, listening, outcome>> /\ Running
      /\ main \in {"shutdown_health", "shutdown_workers"}
      /\ main' \in {"shutdown_workers", "stop"}
  BY DEF ShutdownHealth, Delete, threads, adminVars
<1>2. ListenerInv'
  BY <1>1 DEF Inv, ListenerInv
<1>3. CASE ShutdownHealth
  <2>1. /\ main' = "shutdown_workers" /\ next' = 1 /\ caller' = caller
        /\ health' \in {"none", "joined"} /\ main = "shutdown_health"
    BY <1>3 DEF ShutdownHealth
  <2>2. caller # "delete"
    BY <2>1 DEF Inv, MainInv, InStop
  <2>3. MainInv'
    BY <2>1 DEF Inv, MainInv, InStop, Labels
  <2>4. \A w \in Started : ~ w < 1
    BY StartedIs DEF Inv, JoinInv
  <2>5. JoinInv'
    BY <1>1, <2>1, <2>2, <2>4 DEF Inv, JoinInv, NoThreadLeft, Running, Started
  <2> QED
    BY <1>2, <2>3, <2>5 DEF Inv
<1>4. CASE Delete
  <2>1. /\ main = "shutdown_workers" /\ next \notin Started
        /\ main' = "stop" /\ caller' = "delete" /\ next' = next /\ health' = health
    BY <1>4 DEF Delete, AllPassed, threads
  <2>2. \A w \in Started : w < next
    BY <2>1, StartedIs DEF Inv, JoinInv
  <2>3. health \in {"none", "joined"} /\ \A w \in Started : worker[w] = "joined"
    BY <2>1, <2>2 DEF Inv, JoinInv
  <2>4. MainInv'
    BY <2>1 DEF MainInv, InStop, Labels
  <2>5. JoinInv'
    BY <1>1, <2>1, <2>3 DEF Inv, JoinInv, NoThreadLeft, Running, Started
  <2> QED
    BY <1>2, <2>4, <2>5 DEF Inv
<1> QED
  BY <1>3, <1>4

-----------------------------------------------------------------------------
(* The other threads.                                                      *)

LEMMA WorkerKeeps ==
  ASSUME Inv, NEW w \in Started, WorkerEnds(w) \/ WorkerFails(w)
  PROVE  Inv'
<1>1. /\ worker[w] = "running" /\ worker' = [worker EXCEPT ![w] = "ended"]
      /\ UNCHANGED <<main, caller, next, health, admin, admin_joined, listener_fd, listening, outcome>>
  BY DEF WorkerEnds, WorkerFails, mainVars, adminVars
<1>2. /\ worker' \in Seq({"running", "ended", "joined"}) /\ Started' = Started
      /\ \A v \in Started : v # w => worker'[v] = worker[v]
  BY <1>1, WorkerSet DEF Inv, JoinInv
<1>3. MainInv' /\ ListenerInv'
  BY <1>1 DEF Inv, MainInv, ListenerInv
<1>4. \A v \in Started : worker[v] = "joined" => worker'[v] = "joined"
  BY <1>1, <1>2
<1>5. JoinInv'
  BY <1>1, <1>2, <1>4 DEF Inv, JoinInv, NoThreadLeft
<1> QED
  BY <1>3, <1>5 DEF Inv

LEMMA AdminKeeps ==
  ASSUME Inv, Admin
  PROVE  Inv'
<1>1. UNCHANGED <<main, caller, next, worker, health, admin_joined, outcome>> /\ Running
  BY DEF Admin, AdminBind, AdminStore, AdminTest, AdminAccept, AdminGoes, mainVars
<1>2. admin # "none"
  BY DEF Admin, AdminBind, AdminStore, AdminTest, AdminAccept
<1>3. MainInv'
  BY <1>1 DEF Inv, MainInv
<1>4. JoinInv'
  BY <1>1, <1>2 DEF Inv, JoinInv, NoThreadLeft, Running, Started
<1>5. ListenerInv'
  <2>1. CASE AdminBind
    BY <1>1, <2>1 DEF AdminBind, AdminGoes, Inv, ListenerInv
  <2>2. CASE AdminStore
    BY <1>1, <2>2 DEF AdminStore, AdminGoes, Inv, ListenerInv
  <2>3. CASE AdminTest \/ AdminAccept
    BY <1>1, <2>3 DEF AdminTest, AdminAccept, AdminGoes, Inv, ListenerInv
  <2> QED
    BY <2>1, <2>2, <2>3 DEF Admin
<1> QED
  BY <1>3, <1>4, <1>5 DEF Inv

LEMMA OthersKeep ==
  ASSUME Inv, HealthEnds \/ HandlerEnds \/ HandleSignal \/ Abort \/ UNCHANGED vars
  PROVE  Inv'
<1>1. /\ UNCHANGED <<main, caller, next, worker, admin, admin_joined, listener_fd, listening>>
      /\ outcome' = outcome \/ outcome' = "aborted"
      /\ health' = health \/ health = "running"
  BY DEF HealthEnds, HandlerEnds, HandleSignal, Abort, vars, mainVars, threads, adminVars
<1>2. MainInv' /\ ListenerInv'
  BY <1>1 DEF Inv, MainInv, ListenerInv
<1>3. JoinInv'
  BY <1>1 DEF Inv, JoinInv, NoThreadLeft, Started
<1> QED
  BY <1>2, <1>3 DEF Inv

-----------------------------------------------------------------------------
LEMMA InvInit == Init => Inv
<1> SUFFICES ASSUME Init PROVE Inv
  OBVIOUS
<1>1. MainInv /\ ListenerInv
  BY DEF Init, MainInv, ListenerInv, Labels, InStop
<1>2. worker \in Seq({"running", "ended", "joined"}) /\ Started = {}
  BY DEF Init, Started
<1>3. JoinInv
  BY <1>2 DEF Init, JoinInv, NoThreadLeft
<1> QED
  BY <1>1, <1>3 DEF Inv

LEMMA InvStep == Inv /\ [Next]_vars => Inv'
<1> SUFFICES ASSUME Inv, [Next]_vars PROVE Inv'
  OBVIOUS
<1>1. CASE Main
  BY <1>1, LoadKeeps, StartKeeps, JoinKeeps, StopKeeps, JoinAdminKeeps, ShutdownKeeps DEF Main
<1>2. CASE Admin
  BY <1>2, AdminKeeps
<1>3. CASE \E w \in Started : WorkerEnds(w) \/ WorkerFails(w)
  BY <1>3, WorkerKeeps
<1>4. CASE HealthEnds \/ HandlerEnds \/ HandleSignal \/ Abort \/ UNCHANGED vars
  BY <1>4, OthersKeep
<1> QED
  BY <1>1, <1>2, <1>3, <1>4 DEF Next

LEMMA Invariant == Spec => []Inv
BY InvInit, InvStep, PTL DEF Spec

\* For any number of workers: when Impl is deleted every thread that was started
\* has been joined, also on the way of an exception (Impl::start, Impl::shutdown).
THEOREM NoThreadLeftAlways == Spec => []NoThreadLeft
<1>1. Inv => NoThreadLeft
  BY DEF Inv, JoinInv
<1> QED
  BY <1>1, Invariant, PTL

\* Each of the three calls of AdminServer::stop closes a number only while it is
\* the open listener, in whatever order main and the admin thread come.
THEOREM ClosedWhileOpenAlways == Spec => []ClosedWhileOpen
<1>1. Inv => ClosedWhileOpen
  BY DEF Inv, ListenerInv, ClosedWhileOpen
<1> QED
  BY <1>1, Invariant, PTL
=============================================================================
