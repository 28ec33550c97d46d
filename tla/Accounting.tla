----------------------------- MODULE Accounting -----------------------------
(***************************************************************************)
(* The connection gauges that all workers share: the per-backend counters  *)
(* of the scheduler (active_, total_) and the process-wide ones of         *)
(* RuntimeMetrics (active, total and peak).  Nothing locks them: a worker  *)
(* opens or closes a connection by a series of separate atomic accesses,   *)
(* two of them compare-and-swap loops, and other workers' accesses fall    *)
(* between any two.  One action here is one atomic access.                 *)
(*                                                                         *)
(* Least-connections and power-of-two-choices route by active_, so an      *)
(* increment or a decrement lost here would skew routing for ever: no code *)
(* recomputes a gauge from the connections that exist.                     *)
(*                                                                         *)
(* A connection is a member of Conns: a client that the kernel hands to    *)
(* one worker, once.  Which backend it is paired with is left open (module *)
(* BackendHealth has the states routing depends on); a client that         *)
(* attach_backend turns away touches no gauge and is no step here.         *)
(***************************************************************************)
EXTENDS Naturals, FiniteSets

CONSTANTS
  Workers,     \* the worker threads
  Conns,       \* the client connections that may be accepted
  Backends,    \* the configured backends
  NoConn,      \* no connection in hand
  NoBackend    \* not yet paired with a backend

ASSUME ConnsAssumption == IsFiniteSet(Conns) /\ NoConn \notin Conns
ASSUME BackendsAssumption == NoBackend \notin Backends

VARIABLES
  active,              \* Scheduler::active_
  total,               \* Scheduler::total_
  active_connections,  \* RuntimeMetrics::active_connections
  total_connections,   \* RuntimeMetrics::total_connections
  peak_connections,    \* RuntimeMetrics::peak_connections
  peers,               \* the connections in each worker's peers map
  route,               \* the backend_index of each connection's pair
  pc,                  \* the next access of each worker
  conn,                \* the connection that access is for
  value,               \* update_peak's value: the gauge after this worker's increment
  current,             \* the expected value of a compare-and-swap loop
  leaving,             \* the workers that have left the event loop for shutdown()
  stop_requested,      \* main's stop flag
  highest              \* history: the highest value active_connections ever had

gauges == <<active, total, active_connections, total_connections, peak_connections, highest>>
locals == <<pc, conn, value, current>>
vars == <<gauges, peers, route, locals, leaving, stop_requested>>

\* Where an opening worker has counted its connection in active_ (resp. in
\* active_connections), and where a closing one still has.
OpenCounted == {"mark_total", "gauge_add", "count_total", "peak_load", "peak_cas", "emplace"}
OpenGauged == {"count_total", "peak_load", "peak_cas", "emplace"}
CloseCounted == {"closed_load", "closed_cas"}
CloseGauged == CloseCounted \cup {"gauge_load", "gauge_cas"}
Idle == {"loop", "exited", "failed"}
Labels == Idle \cup {"mark_open"} \cup OpenCounted \cup CloseGauged

InHand(c) == \E w \in Workers : conn[w] = c
IsFresh(c) == route[c] = NoBackend

Goto(w, label) == pc' = [pc EXCEPT ![w] = label]

\* The end of a handler: back to epoll_wait, or to the loop of shutdown(),
\* with nothing in hand.
Return(w) ==
  /\ Goto(w, "loop")
  /\ conn' = [conn EXCEPT ![w] = NoConn]
  /\ value' = [value EXCEPT ![w] = 0]
  /\ current' = [current EXCEPT ![w] = 0]

\* compare_exchange_weak on a cell: it stores only if the cell still holds
\* the expected value, and otherwise loads the cell into it.  Each has the
\* slip beside it that a hand-written loop would make.
BlindStore(w, cell) == TRUE
StillExpected(w, cell) == cell = current[w]
KeepExpected(w, cell) == current
Reload(w, cell) == [current EXCEPT ![w] = cell]

\* compare_exchange_weak may fail although nothing interfered; either way the
\* loop goes round with the reloaded value.
CasFails(w, cell) ==
  /\ current' = Reload(w, cell)
  /\ UNCHANGED <<gauges, peers, route, pc, conn, value, leaving, stop_requested>>

-----------------------------------------------------------------------------
(* Opening: attach_backend and RuntimeState::record_connection_open.       *)

\* accept_clients has accepted c and attach_backend has a connecting socket
\* to backend b for it: record_connection_open is next.
Attach(w, c, b) ==
  /\ pc[w] = "loop" /\ w \notin leaving
  /\ IsFresh(c) /\ ~ InHand(c)
  /\ route' = [route EXCEPT ![c] = b]
  /\ conn' = [conn EXCEPT ![w] = c]
  /\ Goto(w, "mark_open")
  /\ UNCHANGED <<gauges, peers, value, current, leaving, stop_requested>>

\* mark_open: active_[index].fetch_add(1).
MarkOpen(w) ==
  /\ pc[w] = "mark_open"
  /\ active' = [active EXCEPT ![route[conn[w]]] = @ + 1]
  /\ Goto(w, "mark_total")
  /\ UNCHANGED <<total, active_connections, total_connections, peak_connections, highest,
                 peers, route, conn, value, current, leaving, stop_requested>>

\* mark_open: total_[index].fetch_add(1).
MarkTotal(w) ==
  /\ pc[w] = "mark_total"
  /\ total' = [total EXCEPT ![route[conn[w]]] = @ + 1]
  /\ Goto(w, "gauge_add")
  /\ UNCHANGED <<active, active_connections, total_connections, peak_connections, highest,
                 peers, route, conn, value, current, leaving, stop_requested>>

\* record_connection_open: active = active_connections.fetch_add(1) + 1.
GaugeAdd(w) ==
  /\ pc[w] = "gauge_add"
  /\ active_connections' = active_connections + 1
  /\ highest' = IF active_connections' > highest THEN active_connections' ELSE highest
  /\ value' = [value EXCEPT ![w] = active_connections']
  /\ Goto(w, "count_total")
  /\ UNCHANGED <<active, total, total_connections, peak_connections,
                 peers, route, conn, current, leaving, stop_requested>>

\* record_connection_open: total_connections.fetch_add(1).
CountTotal(w) ==
  /\ pc[w] = "count_total"
  /\ total_connections' = total_connections + 1
  /\ Goto(w, "peak_load")
  /\ UNCHANGED <<active, total, active_connections, peak_connections, highest,
                 peers, route, conn, value, current, leaving, stop_requested>>

\* update_peak: current = peak.load().
PeakLoad(w) ==
  /\ pc[w] = "peak_load"
  /\ current' = [current EXCEPT ![w] = peak_connections]
  /\ Goto(w, "peak_cas")
  /\ UNCHANGED <<gauges, peers, route, conn, value, leaving, stop_requested>>

\* update_peak: while (value > current && !compare_exchange_weak(current, value)).
PeakDone(w) ==
  /\ pc[w] = "peak_cas"
  /\ value[w] <= current[w]
  /\ Goto(w, "emplace")
  /\ UNCHANGED <<gauges, peers, route, conn, value, current, leaving, stop_requested>>

PeakCas(w) ==
  /\ pc[w] = "peak_cas"
  /\ value[w] > current[w] /\ StillExpected(w, peak_connections)
  /\ peak_connections' = value[w]
  /\ Goto(w, "emplace")
  /\ UNCHANGED <<active, total, active_connections, total_connections, highest,
                 peers, route, conn, value, current, leaving, stop_requested>>

PeakCasFails(w) ==
  /\ pc[w] = "peak_cas"
  /\ value[w] > current[w]
  /\ CasFails(w, peak_connections)

\* Before any gauge is touched, an exception (from getaddrinfo in
\* connect_backend, or from make_listener or epoll_create1 before the loop)
\* ends the worker the same way.
Fail(w) ==
  /\ pc[w] = "loop" /\ w \notin leaving
  /\ Goto(w, "failed")
  /\ UNCHANGED <<gauges, peers, route, conn, value, current, leaving, stop_requested>>

\* The map peers with the connection in hand added; the slip uses the fields
\* after they were moved from.
EmplacedMoved(w) == [peers EXCEPT ![w] = @ \cup {conn'[w]}]
Emplaced(w) == [peers EXCEPT ![w] = @ \cup {conn[w]}]

\* attach_backend: both peers are emplaced and both sockets added to epoll.
Emplace(w) ==
  /\ pc[w] = "emplace"
  /\ Return(w)
  /\ peers' = Emplaced(w)
  /\ UNCHANGED <<gauges, route, leaving, stop_requested>>

\* add_fd throws after the emplace: the exception leaves Worker::run without
\* shutdown(), and the thread's handler only logs it.
EmplaceThrows(w) ==
  /\ pc[w] = "emplace"
  /\ peers' = Emplaced(w)
  /\ conn' = [conn EXCEPT ![w] = NoConn]
  /\ value' = [value EXCEPT ![w] = 0]
  /\ current' = [current EXCEPT ![w] = 0]
  /\ Goto(w, "failed")
  /\ UNCHANGED <<gauges, route, leaving, stop_requested>>

-----------------------------------------------------------------------------
(* Closing: close_pair and RuntimeState::record_connection_close.          *)

\* The map peers without c; the slip counts the close and leaves the entry to
\* be closed again.
Kept(w, c) == peers
Erased(w, c) == [peers EXCEPT ![w] = @ \ {c}]

\* close_pair: both peers are erased, record_connection_close is next.
ClosePair(w, c) ==
  /\ pc[w] = "loop" /\ c \in peers[w]
  /\ peers' = Erased(w, c)
  /\ conn' = [conn EXCEPT ![w] = c]
  /\ Goto(w, "closed_load")
  /\ UNCHANGED <<gauges, route, value, current, leaving, stop_requested>>

\* mark_closed: current = active_[index].load().
ClosedLoad(w) ==
  /\ pc[w] = "closed_load"
  /\ current' = [current EXCEPT ![w] = active[route[conn[w]]]]
  /\ Goto(w, "closed_cas")
  /\ UNCHANGED <<gauges, peers, route, conn, value, leaving, stop_requested>>

\* while (current > 0 && !compare_exchange_weak(current, current - 1)): the
\* loop ends without a decrement on 0, where the counter is clamped.
LoopEnds(w, cell) == current[w] = 0 \/ StillExpected(w, cell)
Decremented(w, cell) == IF current[w] = 0 THEN cell ELSE current[w] - 1

\* mark_closed: the loop on active_[index].
ClosedCas(w) ==
  LET b == route[conn[w]] IN
  /\ pc[w] = "closed_cas" /\ LoopEnds(w, active[b])
  /\ active' = [active EXCEPT ![b] = Decremented(w, @)]
  /\ Goto(w, "gauge_load")
  /\ UNCHANGED <<total, active_connections, total_connections, peak_connections, highest,
                 peers, route, conn, value, current, leaving, stop_requested>>

ClosedCasFails(w) ==
  /\ pc[w] = "closed_cas" /\ current[w] > 0
  /\ CasFails(w, active[route[conn[w]]])

\* record_connection_close: current = active_connections.load().
GaugeLoad(w) ==
  /\ pc[w] = "gauge_load"
  /\ current' = [current EXCEPT ![w] = active_connections]
  /\ Goto(w, "gauge_cas")
  /\ UNCHANGED <<gauges, peers, route, conn, value, leaving, stop_requested>>

\* record_connection_close: the loop on active_connections.
GaugeCas(w) ==
  /\ pc[w] = "gauge_cas" /\ LoopEnds(w, active_connections)
  /\ active_connections' = Decremented(w, active_connections)
  /\ Return(w)
  /\ UNCHANGED <<active, total, total_connections, peak_connections, highest,
                 peers, route, leaving, stop_requested>>

GaugeCasFails(w) ==
  /\ pc[w] = "gauge_cas" /\ current[w] > 0
  /\ CasFails(w, active_connections)

-----------------------------------------------------------------------------
(* Stopping: main's handle_signal, the loop condition and Worker::shutdown. *)

RequestStop ==
  /\ ~ stop_requested
  /\ stop_requested' = TRUE
  /\ UNCHANGED <<gauges, peers, route, locals, leaving>>

\* The worker sees the flag between two rounds of its loop and calls
\* shutdown(), which closes every pair it has (ClosePair, one at a time).
Leave(w) ==
  /\ pc[w] = "loop" /\ stop_requested /\ w \notin leaving
  /\ leaving' = leaving \cup {w}
  /\ UNCHANGED <<gauges, peers, route, locals, stop_requested>>

\* shutdown() has closed what it has to; the slip forgets the open pairs.
NothingLeftUnchecked(w) == TRUE
NothingLeft(w) == peers[w] = {}

Exit(w) ==
  /\ pc[w] = "loop" /\ w \in leaving /\ NothingLeft(w)
  /\ Goto(w, "exited")
  /\ UNCHANGED <<gauges, peers, route, conn, value, current, leaving, stop_requested>>

-----------------------------------------------------------------------------
Init ==
  /\ active = [b \in Backends |-> 0]
  /\ total = [b \in Backends |-> 0]
  /\ active_connections = 0 /\ total_connections = 0 /\ peak_connections = 0
  /\ highest = 0
  /\ peers = [w \in Workers |-> {}]
  /\ route = [c \in Conns |-> NoBackend]
  /\ pc = [w \in Workers |-> "loop"]
  /\ conn = [w \in Workers |-> NoConn]
  /\ value = [w \in Workers |-> 0]
  /\ current = [w \in Workers |-> 0]
  /\ leaving = {}
  /\ stop_requested = FALSE

Opening(w) ==
  \/ MarkOpen(w) \/ MarkTotal(w) \/ GaugeAdd(w) \/ CountTotal(w)
  \/ PeakLoad(w) \/ PeakDone(w) \/ PeakCas(w) \/ PeakCasFails(w)
  \/ Emplace(w) \/ EmplaceThrows(w)

Closing(w) ==
  \/ ClosedLoad(w) \/ ClosedCas(w) \/ ClosedCasFails(w)
  \/ GaugeLoad(w) \/ GaugeCas(w) \/ GaugeCasFails(w)

Next ==
  \/ RequestStop
  \/ \E w \in Workers :
       \/ Opening(w) \/ Closing(w) \/ Leave(w) \/ Exit(w) \/ Fail(w)
       \/ \E c \in Conns : ClosePair(w, c) \/ \E b \in Backends : Attach(w, c, b)

\* What a running worker thread does without waiting for a client: it ends the
\* handler it is in and, once it has seen the flag, shuts down.  A failed
\* compare-and-swap counts only if the cell had changed; a spurious failure
\* leaves every variable as it is.
Thread(w) ==
  \/ Opening(w) \/ Closing(w) \/ Leave(w) \/ Exit(w)
  \/ w \in leaving /\ \E c \in Conns : ClosePair(w, c)

Spec == Init /\ [][Next]_vars
FairSpec == Spec /\ \A w \in Workers : WF_vars(Thread(w))

-----------------------------------------------------------------------------
TypeOK ==
  /\ active \in [Backends -> Nat] /\ total \in [Backends -> Nat]
  /\ active_connections \in Nat /\ total_connections \in Nat
  /\ peak_connections \in Nat /\ highest \in Nat
  /\ peers \in [Workers -> SUBSET Conns]
  /\ route \in [Conns -> Backends \cup {NoBackend}]
  /\ pc \in [Workers -> Labels]
  /\ conn \in [Workers -> Conns \cup {NoConn}]
  /\ value \in [Workers -> Nat] /\ current \in [Workers -> Nat]
  /\ leaving \in SUBSET Workers
  /\ stop_requested \in BOOLEAN

At(w, c, labels) == conn[w] = c /\ pc[w] \in labels

\* The connections proxied to b, as seen from what the workers hold.
Opened(b) ==
  {c \in Conns : route[c] = b /\ \E w \in Workers :
                   c \in peers[w] \/ At(w, c, OpenCounted \cup CloseCounted)}
Gauged ==
  {c \in Conns : \E w \in Workers : c \in peers[w] \/ At(w, c, OpenGauged \cup CloseGauged)}

\* A connection is at any moment in one place: in one worker's map or in one
\* worker's hand, never in two, and it keeps its backend from attach_backend
\* until it is closed. So no connection is closed (uncounted) twice.
HeldOnce ==
  /\ \A w, v \in Workers : w # v =>
       /\ peers[w] \cap peers[v] = {}
       /\ conn[w] # NoConn => conn[v] # conn[w]
  /\ \A w \in Workers :
       /\ conn[w] = NoConn <=> pc[w] \in Idle
       /\ \A v \in Workers : conn[w] \notin peers[v]
       /\ \A c \in Conns : conn[w] = c \/ c \in peers[w] => ~ IsFresh(c)
       /\ pc[w] = "exited" => NothingLeft(w)

\* The count least-connections routes by is, at every instant, the number of
\* pairs open to that backend: no interleaving of the workers' fetch_adds and
\* compare-and-swap loops loses or invents a connection, and a connection
\* leaked by a failed worker stays counted (Scheduler::mark_open, mark_closed).
ActiveExact == \A b \in Backends : active[b] = Cardinality(Opened(b))

\* The process-wide gauge is the number of open pairs over all backends
\* (RuntimeState::record_connection_open, record_connection_close).
GaugeExact == active_connections = Cardinality(Gauged)

\* The "current > 0" test of both closing loops never ends one of them: what
\* is closed was counted, so the clamp that the unit test
\* closed_connection_never_underflows asks for hides no drift in this program.
NeverClamped ==
  \A w \in Workers :
    /\ pc[w] = "closed_load" => active[route[conn[w]]] > 0
    /\ pc[w] = "gauge_load" => active_connections > 0
    /\ pc[w] \in {"closed_cas", "gauge_cas"} => current[w] > 0

\* peak_connections never exceeds what the gauge reached, and equals its
\* maximum as soon as no worker is between its increment and its update_peak,
\* however many workers race on the maximum.
PeakExact ==
  /\ peak_connections <= highest
  /\ (\A w \in Workers : pc[w] \notin {"count_total", "peak_load", "peak_cas"})
       => peak_connections = highest

\* When every worker has come out of shutdown(), no connection is counted any
\* more, for any backend or in total.
ZeroAtExit ==
  (\A w \in Workers : pc[w] = "exited")
    => active_connections = 0 /\ \A b \in Backends : active[b] = 0

\* After a stop request every worker ends: no compare-and-swap loop spins for
\* ever and no open pair keeps shutdown() from returning.
StopEnds == stop_requested ~> \A w \in Workers : pc[w] \in {"exited", "failed"}
=============================================================================
