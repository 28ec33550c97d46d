------------------------------ MODULE Lifecycle ------------------------------
(***************************************************************************)
(* The process from load_config_file to the end of main: which threads     *)
(* are started, what ends each of them, who waits for whom, and what an    *)
(* exception does in each place. What workers and the health thread do in  *)
(* between is the subject of the other modules; here they run until they   *)
(* see the stop flag, or an exception ends them.                           *)
(*                                                                         *)
(* main shares listener_fd_ with the admin thread without synchronisation: *)
(* either of them may come first at each access.                           *)
(***************************************************************************)
EXTENDS Config

CONSTANTS
  Files,         \* the configuration files, as sequences of lines
  Detected,      \* hardware_concurrency(), 0 if it is not known
  MaxHandlers    \* bound on the admin handlers at a time

ASSUME FilesAssumption ==
  \A file \in Files : file \in Seq([key : STRING, value : Nat, parses : BOOLEAN])
ASSUME WorkersAssumption == "workers" \in NumberKeys /\ Detected \in Nat
ASSUME HandlersAssumption == MaxHandlers \in Nat

VARIABLES
  file,            \* the file that is loaded, until it is
  main,            \* where main is
  caller,          \* who has called AdminServer::stop
  next,            \* the index of the loop over worker_threads
  unwinding,       \* an exception is on its way from start() to main
  worker,          \* the worker threads, "none" before and "joined" after
  health,          \* the health thread
  admin,           \* where the admin thread is
  admin_joined,    \* thread_ of AdminServer has been joined
  admin_stop,      \* AdminServer::stop_requested_
  listener_fd,     \* AdminServer::listener_fd_ is not -1
  listening,       \* that descriptor is open
  handlers,        \* the detached handlers that run
  stop_requested,  \* main's stop flag
  outcome          \* "running", main's return value "0" or "1", or "aborted"

mainVars == <<main, caller, next, unwinding>>
adminVars == <<admin, admin_joined, admin_stop, listener_fd, listening, handlers>>
threads == <<worker, health, adminVars>>
vars == <<configVars, file, mainVars, threads, stop_requested, outcome>>

Running == outcome = "running"
WorkerCount == IF settings["workers"] > 0 THEN settings["workers"] ELSE Max({1, Detected})
Over(thread) == thread \in {"none", "ended"}

\* The worker threads that exist, as their vector lists them.
Started == DOMAIN worker

-----------------------------------------------------------------------------
(* main: load, start, and what follows an exception.                       *)

Load ==
  /\ Running /\ main = "load"
  /\ ReadLine \/ LoadEnds \/ LoadThrows
  /\ UNCHANGED <<file, mainVars, threads, stop_requested, outcome>>

\* The exception of load_config_file, also of one that cannot open its file,
\* reaches main before there is a server.
LoadFatal ==
  /\ Running /\ main = "load"
  /\ loading = "rejected" \/ (loading = "lines" /\ lines = file)
  /\ outcome' = "1"
  /\ UNCHANGED <<configVars, file, mainVars, threads, stop_requested>>

Construct ==
  /\ Running /\ main = "load" /\ loading = "loaded"
  /\ main' = "start_admin"
  /\ file' = <<>>
  /\ UNCHANGED <<configVars, caller, next, unwinding, threads, stop_requested, outcome>>

\* A thread cannot be created: start() is left for ~TcpLoadBalancer, which
\* calls Impl::shutdown.
Unwind ==
  /\ main' = "stop" /\ caller' = "shutdown" /\ unwinding' = TRUE /\ next' = 0
  /\ UNCHANGED threads

StartAdmin ==
  /\ Running /\ main = "start_admin"
  /\ \/ /\ admin' = "bind" /\ main' = "start_health"
        /\ UNCHANGED <<caller, next, unwinding, worker, health,
                       admin_joined, admin_stop, listener_fd, listening, handlers>>
     \/ Unwind
  /\ UNCHANGED <<configVars, file, stop_requested, outcome>>

StartHealth ==
  /\ Running /\ main = "start_health"
  /\ \/ /\ health' = "running" /\ main' = "start_workers"
        /\ UNCHANGED <<caller, next, unwinding, worker, adminVars>>
     \/ Unwind
  /\ UNCHANGED <<configVars, file, stop_requested, outcome>>

StartWorker ==
  /\ Running /\ main = "start_workers" /\ Len(worker) < WorkerCount
  /\ \/ /\ worker' = Append(worker, "running")
        /\ UNCHANGED <<mainVars, health, adminVars>>
     \/ Unwind
  /\ UNCHANGED <<configVars, file, stop_requested, outcome>>

JoinWorkers ==
  /\ Running /\ main = "start_workers" /\ Len(worker) = WorkerCount
  /\ main' = "join" /\ next' = 1
  /\ UNCHANGED <<configVars, file, caller, unwinding, threads, stop_requested, outcome>>

\* start() and shutdown() join the workers in the order of their vector; the
\* second loop passes those that the first has joined.
Join ==
  /\ Running /\ main \in {"join", "shutdown_workers"}
  /\ next \in Started /\ worker[next] \in {"ended", "joined"}
  /\ worker' = [worker EXCEPT ![next] = "joined"]
  /\ next' = next + 1
  /\ UNCHANGED <<configVars, file, main, caller, unwinding, health, adminVars,
                 stop_requested, outcome>>

\* No worker is left: start() sets the flag for the health thread. The slip
\* leaves that to the signal.
LeftToSignal == stop_requested
Raised == TRUE

RaiseStop ==
  /\ Running /\ main = "join" /\ next \notin Started
  /\ stop_requested' = Raised
  /\ main' = "join_health" /\ next' = 0
  /\ UNCHANGED <<configVars, file, caller, unwinding, threads, outcome>>

JoinHealth ==
  /\ Running /\ main = "join_health" /\ health = "ended"
  /\ health' = "joined"
  /\ main' = "stop" /\ caller' = "start"
  /\ UNCHANGED <<configVars, file, next, unwinding, worker, adminVars, stop_requested, outcome>>

-----------------------------------------------------------------------------
(* AdminServer::stop, called by start(), by shutdown() and by              *)
(* ~AdminServer, one access at a time.                                     *)

Stop ==
  /\ Running /\ main = "stop"
  /\ admin_stop' = TRUE
  /\ main' = IF listener_fd THEN "close" ELSE "join_admin"
  /\ UNCHANGED <<configVars, file, caller, next, unwinding, worker, health, admin,
                 admin_joined, listener_fd, listening, handlers, stop_requested, outcome>>

CloseListener ==
  /\ Running /\ main = "close"
  /\ listening' = FALSE
  /\ main' = "clear"
  /\ UNCHANGED <<configVars, file, caller, next, unwinding, worker, health, admin,
                 admin_joined, admin_stop, listener_fd, handlers, stop_requested, outcome>>

\* listener_fd_ = -1. The slip leaves the number there.
StillSet == listener_fd
Cleared == FALSE

ClearListener ==
  /\ Running /\ main = "clear"
  /\ listener_fd' = Cleared
  /\ main' = "join_admin"
  /\ UNCHANGED <<configVars, file, caller, next, unwinding, worker, health, admin,
                 admin_joined, admin_stop, listening, handlers, stop_requested, outcome>>

JoinAdmin ==
  /\ Running /\ main = "join_admin" /\ Over(admin)
  /\ admin_joined' = (admin = "ended")
  /\ CASE caller = "start" -> main' = "stop" /\ caller' = "shutdown" /\ UNCHANGED outcome
       [] caller = "shutdown" -> main' = "shutdown_health" /\ UNCHANGED <<caller, outcome>>
       [] caller = "delete" -> /\ outcome' = IF unwinding THEN "1" ELSE "0"
                               /\ UNCHANGED <<main, caller>>
  /\ UNCHANGED <<configVars, file, next, unwinding, worker, health, admin, admin_stop,
                 listener_fd, listening, handlers, stop_requested>>

\* shutdown() goes on to the health thread and to the workers.
ShutdownHealth ==
  /\ Running /\ main = "shutdown_health" /\ health \in {"none", "ended", "joined"}
  /\ health' = IF health = "ended" THEN "joined" ELSE health
  /\ main' = "shutdown_workers" /\ next' = 1
  /\ UNCHANGED <<configVars, file, caller, unwinding, worker, adminVars, stop_requested, outcome>>

\* The loop over worker_threads has come to its end. The slip has none.
NoLoop == TRUE
AllPassed == next \notin Started

Delete ==
  /\ Running /\ main = "shutdown_workers" /\ AllPassed
  /\ main' = "stop" /\ caller' = "delete"
  /\ UNCHANGED <<configVars, file, next, unwinding, threads, stop_requested, outcome>>

-----------------------------------------------------------------------------
(* The other threads.                                                      *)

\* A worker ends when it sees the flag, or by an exception, which is logged.
WorkerEnds(w) ==
  /\ Running /\ worker[w] = "running" /\ stop_requested
  /\ worker' = [worker EXCEPT ![w] = "ended"]
  /\ UNCHANGED <<configVars, file, mainVars, health, adminVars, stop_requested, outcome>>

WorkerFails(w) ==
  /\ Running /\ worker[w] = "running"
  /\ worker' = [worker EXCEPT ![w] = "ended"]
  /\ UNCHANGED <<configVars, file, mainVars, health, adminVars, stop_requested, outcome>>

HealthEnds ==
  /\ Running /\ health = "running" /\ stop_requested
  /\ health' = "ended"
  /\ UNCHANGED <<configVars, file, mainVars, worker, adminVars, stop_requested, outcome>>

\* An exception that a thread does not catch ends the process: of a probe whose
\* name does not resolve, or of a handler whose request has no valid number.
Abort ==
  /\ Running /\ (health = "running" \/ handlers > 0)
  /\ outcome' = "aborted"
  /\ UNCHANGED <<configVars, file, mainVars, threads, stop_requested>>

AdminGoes(label) ==
  /\ admin' = label
  /\ UNCHANGED <<configVars, file, mainVars, worker, health, admin_joined, admin_stop,
                 stop_requested, outcome>>

\* make_listener succeeds, and its result is stored; or it throws.
AdminBind ==
  /\ Running /\ admin = "bind"
  /\ \/ AdminGoes("store") /\ listening' = TRUE
     \/ AdminGoes("ended") /\ UNCHANGED listening
  /\ UNCHANGED <<listener_fd, handlers>>

AdminStore ==
  /\ Running /\ admin = "store"
  /\ AdminGoes("test")
  /\ listener_fd' = TRUE
  /\ UNCHANGED <<listening, handlers>>

\* The condition of the loop. The slip relies on accept to fail.
NeverTested == FALSE
SeesStop == admin_stop

AdminTest ==
  /\ Running /\ admin = "test"
  /\ AdminGoes(IF SeesStop THEN "ended" ELSE "accept")
  /\ UNCHANGED <<listener_fd, listening, handlers>>

\* The listener does not block: without a client the thread sleeps and tests
\* again. On a descriptor that is closed, or was -1 when read, accept fails and
\* the loop is left; so it is if the handler's thread cannot be created.
AdminAccept ==
  /\ Running /\ admin = "accept"
  /\ \/ listener_fd /\ listening /\ AdminGoes("test") /\ UNCHANGED handlers
     \/ /\ listener_fd /\ listening /\ handlers < MaxHandlers
        /\ AdminGoes("test") /\ handlers' = handlers + 1
     \/ AdminGoes("ended") /\ UNCHANGED handlers
  /\ UNCHANGED <<listener_fd, listening>>

HandlerEnds ==
  /\ Running /\ handlers > 0
  /\ handlers' = handlers - 1
  /\ UNCHANGED <<configVars, file, mainVars, worker, health, admin, admin_joined, admin_stop,
                 listener_fd, listening, stop_requested, outcome>>

\* SIGINT or SIGTERM, whose handlers are there before the file is loaded.
HandleSignal ==
  /\ Running /\ ~ stop_requested
  /\ stop_requested' = TRUE
  /\ UNCHANGED <<configVars, file, mainVars, threads, outcome>>

-----------------------------------------------------------------------------
Init ==
  /\ LoadInit
  /\ file \in Files /\ lines = file
  /\ main = "load" /\ caller = "none" /\ next = 0 /\ unwinding = FALSE
  /\ worker = <<>> /\ health = "none"
  /\ admin = "none" /\ admin_joined = FALSE /\ admin_stop = FALSE
  /\ listener_fd = FALSE /\ listening = FALSE /\ handlers = 0
  /\ stop_requested = FALSE /\ outcome = "running"

Main ==
  \/ Load \/ LoadFatal \/ Construct
  \/ StartAdmin \/ StartHealth \/ StartWorker \/ JoinWorkers
  \/ Join \/ RaiseStop \/ JoinHealth
  \/ Stop \/ CloseListener \/ ClearListener \/ JoinAdmin
  \/ ShutdownHealth \/ Delete

Admin == AdminBind \/ AdminStore \/ AdminTest \/ AdminAccept

Next ==
  \/ Main \/ Admin \/ HealthEnds \/ HandlerEnds \/ HandleSignal \/ Abort
  \/ \E w \in Started : WorkerEnds(w) \/ WorkerFails(w)

\* Threads are scheduled, and each of main's, the admin thread's and, once the
\* flag is set, the workers' and the health thread's steps is theirs to take.
Spec == Init /\ [][Next]_vars
FairSpec ==
  /\ Spec
  /\ WF_vars(Main) /\ WF_vars(Admin) /\ WF_vars(HealthEnds)
  /\ WF_vars(\E w \in Started : WorkerEnds(w))

-----------------------------------------------------------------------------
TypeOK ==
  /\ loading \in {"lines", "loaded", "rejected"}
  /\ settings \in [SettingKeys -> Nat]
  /\ \A key \in NumberKeys : settings[key] < Narrow
  /\ backends \in Seq(1 .. MaxPort)
  /\ main \in {"load", "start_admin", "start_health", "start_workers", "join", "join_health",
               "stop", "close", "clear", "join_admin", "shutdown_health", "shutdown_workers"}
  /\ caller \in {"none", "start", "shutdown", "delete"}
  /\ next \in Nat
  /\ worker \in Seq({"running", "ended", "joined"})
  /\ health \in {"none", "running", "ended", "joined"}
  /\ admin \in {"none", "bind", "store", "test", "accept", "ended"}
  /\ outcome \in {"running", "0", "1", "aborted"}
  /\ {unwinding, admin_joined, admin_stop, listener_fd, listening, stop_requested} \subseteq BOOLEAN
  /\ handlers \in 0 .. MaxHandlers

\* The configuration is what the file says, but for numbers of 2^32 and more, of
\* which only the lower 32 bits are kept: each setting is its last line, or the
\* default; each backend is there once for each of its lines, in their order
\* (load_config_file).
FileTaken ==
  main = "load" /\ loading = "loaded" =>
    /\ \A key \in SettingKeys :
         (key \in NumberKeys => Asked(file, key) < Narrow) => settings[key] = Asked(file, key)
    /\ Len(backends) = BackendsIn(file, Len(file))
    /\ \A i \in DOMAIN file :
         IsBackend(file[i]) => backends[BackendsIn(file, i)] = file[i].value

\* A file is loaded if and only if no line of it is to be rejected, wherever it
\* stands, and it names a backend (load_config_file).
FileJudged ==
  main = "load" /\ loading # "lines" => (loading = "loaded" <=> Accepts(file))

\* When Impl is deleted no thread that uses it runs, and none that is joinable is
\* destroyed, on whatever path main has come there (Impl::start, Impl::shutdown,
\* ~TcpLoadBalancer); detached handlers hold the state they use.
NoThreadLeft ==
  /\ caller = "delete" => health \in {"none", "joined"} /\ \A w \in Started : worker[w] = "joined"
  /\ outcome \in {"0", "1"} => admin = "none" \/ admin_joined

\* stop() closes a number only while it is the open admin listener: however its
\* three calls race with run()'s store, none closes a number that was given back
\* and may be another thread's by then (AdminServer::stop).
ClosedWhileOpen == main = "close" => listening

\* After a signal the process ends: no order of joins, no thread that had not
\* begun, and no race on the admin listener keeps main waiting (Impl::start,
\* Impl::shutdown, AdminServer::stop, AdminServer::run).
StopEndsProcess == stop_requested ~> ~ Running

\* When the last worker has failed the process ends, without a signal
\* (Impl::start).
NoWorkersNoProcess ==
  (main = "join" /\ \A w \in Started : worker[w] # "running") ~> ~ Running

\* An exception in start() ends the process, as main.cpp's handler means it to.
StartFailureEnds == unwinding ~> ~ Running
=============================================================================
