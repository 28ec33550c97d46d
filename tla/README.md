# A TLA+ model of the TCP load balancer

The program (`src/src`, `src/include/lb`) proxies raw TCP connections. Worker
threads, each with its own `SO_REUSEPORT` listener and `epoll` instance, accept
clients and pair each with a connection to a backend; they share nothing but
atomics. A health thread probes the backends; an admin HTTP server shows
statistics and lets an operator drain and enable backends. This directory
models the parts where threads, sockets and timers interleave, checks them with
TLC on small instances, and proves with TLAPS, for every value of the constants,
all of the safety invariants and the one refinement.

File and line numbers are those of the repository (`server.cpp:546` is
`src/src/server.cpp`, line 546).

## 1. Inventory

| Component | State | Operations | Interacts with |
|---|---|---|---|
| Connection gauges (`scheduler.cpp:107-123`, `runtime.cpp:15-19, 145-158`) | `active_`, `total_` per backend; `active_connections`, `total_connections`, `peak_connections` | `record_connection_open`, `record_connection_close`, `update_peak` | every worker writes; selection and the statistics read |
| Backend health (`scheduler.cpp:125-148`, `server.cpp:575-579, 639-663`) | `states_`, `consecutive_failures_` | `mark_failure`, `mark_healthy`, `set_state`, `maybe_eject`, the probe loop | workers, health thread and admin handlers write; selection reads |
| Selection (`scheduler.cpp:51-105`) | `next_`, a random generator per thread | `select` under three policies | reads states and counts; called by every worker |
| Proxy pair (`server.cpp:196-207, 314-338, 392-573`) | two `Peer`s: `outbound`, `sent`, `connecting`, `last_activity`; the epoll interest of both sockets | `finish_connect`, `read_available`, `flush`, `modify_fd`, `close_pair`, `reap_timeouts` | the kernel, the client, the backend; gauges and health at its end |
| Worker event loop (`server.cpp:217-296, 340-390`) | `peers`, the listener, the timer | `run`, `accept_clients`, `attach_backend`, `shutdown` | all of the above; the stop flag |
| Start and stop (`server.cpp:594-637`, `main.cpp`) | the threads, `stop_requested` | `Impl::start`, `Impl::shutdown`, `handle_signal` | joins workers, health and admin threads |
| Admin server (`admin.cpp`) | `listener_fd_`, `stop_requested_`, detached handlers | `start`, `stop`, `run`, `handle_client`, `stream_events` | reads all counters; `set_backend_state` |
| Configuration (`config.cpp`) | the `AppConfig` being filled | `load_config_file` | gives every component its constants |
| Statistics (`runtime.cpp`, `runtime.hpp`) | byte, error and latency counters | `stats_json`, `prometheus_metrics` | admin handlers read; nothing else does |
| Logger, dashboard, benchmarks, build | | | no state that another part reads |

What is hard in each, and what makes it correct:

- *Gauges.* No lock: an open is six separate atomic accesses and a close four,
  with two compare-and-swap loops. Nothing ever recomputes a gauge from the
  connections that exist, so an update lost once skews least-connections for
  the life of the process. Correct if each gauge equals, after every single
  access, the number of pairs that have been counted in it and not out of it;
  if the maximum that was seen is recorded; and if all is zero after a stop.
- *Health.* Count, compare and store are separate accesses by three kinds of
  threads. Correct if a backend that is not Up soon gets no more connections, if
  a live one is not left ejected nor a dead one left in routing, and if drain
  lasts until enable.
- *Selection.* States and loads are read one at a time while they change.
  Correct if it never turns a client away although some backend was Up
  throughout, returns none that was never Up, and keeps rotation and load even.
- *Proxy pair.* Interest in events is recomputed by hand after partial reads,
  partial writes and drains; the events of a batch may be stale; the connect,
  resets and both timeouts race with all of it. Correct if it relays two byte
  streams in order, within its memory bound, and never waits for a wake-up it
  has not asked for.
- *Event loop.* `peers` is keyed by descriptor numbers, which the kernel hands out
  again the moment they are closed, while events harvested under their old
  meaning wait in the batch; and numbers run out. Correct if none leaks or is used
  under an old entry, if the map holds whole pairs only, and if neither clients in
  the queue nor pairs that have ended are forgotten.
- *Start and stop, admin.* Five kinds of threads, exceptions in each, joins in an
  order, and a listener that main closes under the admin thread without
  synchronisation. Correct if every thread is joined before what it uses is
  deleted, if a number is closed only while it is the open listener, and if the
  process ends when it is told to and when no worker is left.
- *Configuration.* Correct if a file is accepted when no line of it is bad and it
  names a backend, and the settings are then the last ones given, as far as 32 bits
  hold them.

`PROJECT.json` lists every hazard with its line and the properties that cover it
or the reason why none does yet.

## 2. Modules

| Module | Models | Grain of one action |
|---|---|---|
| `Accounting` | the gauges, with the open, close, stop and failure paths of the workers | one atomic access |
| `BackendHealth` | states and failure counts; workers, health thread, operator | one atomic access (a probe or a connect is one step) |
| `Selection` | `select` under all policies | one atomic load |
| `Relay` | abstract: what a pair promises, two byte streams | one byte sent or read, or the close |
| `ProxyPair` | one client/backend pair, its worker, the kernel and both ends | one `read`, `write` or dispatch, up to the next system call |
| `EventLoop` | one worker's loop with its listener, timer and all pairs; the kernel's descriptor numbers | one event, one `accept4` or one `attach_backend` |
| `Config` | `load_config_file` | one line of the file |
| `Lifecycle` (extends `Config`) | `main`, `Impl::start`, `Impl::shutdown`, `AdminServer`; every thread's start and end | one access of shared state, one thread started or joined |
| `MC...` | definitions of constants that a `.cfg` cannot write: stream lengths, files, symmetry | |
| `AccountingProofs`, `BackendHealthProofs`, `SelectionProofs`, `ProxyPairProofs`, `EventLoopProofs`, `LifecycleProofs` | the theorems about the module of that name | |
| `RelayProofs` (extends `ProxyPairProofs`) | the proof that `ProxyPair` implements `Relay` | |
| `ConfigProofs` (extends `LifecycleProofs`) | the theorems about the file that is loaded, and the types of `Lifecycle` | |

`EventLoop`, `Accounting`, `ProxyPair` and `BackendHealth` look at the same worker
from four sides: its descriptors, its counters, the bytes of one pair, and the
states of the backends. Each takes what the others model as a free choice: which
backend is selected (`Accounting`), whether a read or a write ends the pair
(`EventLoop`), when the worker ends (`Lifecycle`).

Operators with a comment that begins "the slip" (`BlindStore`, `NotDown`,
`ArmedByOwn`, `TicketOf`, ...) are no part of any specification. Each is a
plausible mistake in the code beside it, and is put in the place of the
definition after it to see that the property meant to catch it does.

### Accounting

`pc[w]` is the next access of worker `w` and `conn[w]` the connection it is for;
`value` and `current` are the local variables of `update_peak` and of the
compare-and-swap loops. An open runs `Attach`, `MarkOpen`, `MarkTotal`,
`GaugeAdd`, `CountTotal`, `PeakLoad`, `PeakCas` or `PeakDone`, `Emplace`; a
close runs `ClosePair`, `ClosedLoad`, `ClosedCas`, `GaugeLoad`, `GaugeCas`.
`compare_exchange_weak` may fail spuriously (`CasFails`). `RequestStop`, `Leave`,
`ClosePair` and `Exit` are the signal, the loop's test and `shutdown()`. `Fail`
and `EmplaceThrows` are exceptions that end a worker, which the code logs and
does not clean up after. The one history variable is `highest`.

A connection is a value that is accepted once; which backend it gets is left
open, so every policy is covered.

### BackendHealth

A worker's `Select` reads Up and its `Connect` (or `ConnectFails`) comes later;
`FinishConnect`, `CloseOnFailure` and `CloseQuietly` are the ways on. A connect may
be taken for established before the backend has answered, on a stale event (see
`loop_stale` below), at any moment here. A failure is `RecordFailure`, `Compare`, `Eject`, and a success `ResetFailures`,
`ReadDown`, `Recover`, for workers and health thread alike, since both run the
same code. `Drain` and `Enable` are the admin handlers; `Flip` is a backend that
stops or starts answering. The module covers policies that read a state once
(round-robin, least-connections). History: `drained`, and `late`, the pairs
opened to a backend since it left Up.

### Selection

A call goes from label to label, each a load. `Tests` is the table of the six
`routable()` tests of power-of-two-choices with their short circuits. Random
draws are free choices; the order of the two loads of a comparison is left open
as C++ leaves it. `TicketSpan` is the number of values of `size_t`, so the
overflow of `next_` happens in the model; `Init` lets a scheduler start at any
ticket. History: what each worker could have seen during its call (`seenUp`,
`seenOff`), `picks`, `wraps`, and `steady` (all backends Up, no connection
closed so far).

### ProxyPair and Relay

`outbound`, `sent`, `connecting` and `interest` are the code's; `age` is the time
since `last_activity`. `batch` holds what `epoll_wait` reported and is out of
date as soon as the kernel moves on. The handlers call one another (`read_available`
calls `flush`, which may close the pair), so `pc`, `fd`, `target` and `caller`
say where the worker is; `FlushReturns` is the return of `flush` to its caller,
with the `modify_fd` calls made on the way. The kernel's side is `inbox` (received,
unread), `wire` (taken by `write`, not yet read by the end), `fin`, `reset` and
`answered`; epoll is level-triggered and reports RDHUP, HUP and ERR unasked
(`Ready`). `ERR` and `HUP` are one flag, since the code treats them alike.

`Relay` has streams in transit and a close that may cut off their tails, and
nothing else. Under the mapping `transit[s]` = kernel buffer to the other end,
then unsent part of the outbound buffer, then receive buffer, `ProxyPair`
implements it: the property `ImplementsRelay`.

### EventLoop

`peers` is the code's map, of which the fields `paired_fd` and `backend_side` are
kept; `connecting` and `past` (deadlines that have passed) are sets of its keys.
`batch[n]` is the event of number `n` that was harvested and not handled yet and
`signals` those of the listener and the timer, in any order. `client` is the
argument of `attach_backend`. `socket[n]` is the worker's socket under number `n`
as the kernel sees it, `others` the numbers other threads have taken. All numbers
below the limit are in `Fds`: when `Free` is empty `accept4` fails with `EMFILE`,
and so does the `socket()` of `connect_backend`, which closes the client (`TurnAway`).
`ListenerEvent`, `Accept`, `AcceptFails`, `TurnAway` and `Attach` are
`accept_clients`; `Skip`, `HangUp` and `ReadWrite` the dispatch of a pair's event,
and `ReadReturns` and `ReadWriteEnds` how its handlers end, of which `reading` keeps
the descriptor: between the two the other threads, the clients and the kernel have
their turn, but nothing else of the worker does; `TimerEvent` is `reap_timeouts`; `SetUpFails`, `ConnectThrows` and
the second outcome of `Attach` are the exceptions that end the worker, which then
holds its descriptors for ever.

### Config and Lifecycle

`lines`, `settings` and `backends` are the rest of the file and the `AppConfig`; a
line is its key, the number in its value and whether the value parses. `Stored` is
the `static_cast` from what `stoul` returns. `Asked` and `Accepts` say what a file
asks for, as it is written and without an order of steps, and are what the invariants
compare with (`FileTaken` excepts the numbers of 2^32 and more that `Stored` changes);
`BackendsIn` counts the backends among the first lines, so that the n-th backend
loaded is that of the n-th such line.

`main` is where main is: loading, in `start()` up to its joins, in
`AdminServer::stop` on behalf of `caller` (`start()`, `shutdown()` or
`~AdminServer`), or in the joins of `shutdown()`. `next` is the index of both
loops over `worker_threads`. `Unwind` is the exception of a `std::thread` that
cannot be created: main goes on in `~TcpLoadBalancer`. `Stop`, `CloseListener` and
`ClearListener` are the accesses of `stop()`, and `AdminBind`, `AdminStore`,
`AdminTest`, `AdminAccept` those of `run()`. The two are not synchronised;
they race as interleaved accesses here, each of which sees the last value
written. `Abort` is an exception that a thread does not catch.

## 3. Runs

| Run | Instance | Question | Result |
|---|---|---|---|
| `gauges` | 2 workers, 3 connections, 2 backends | are all gauges exact at every instant, and does every worker end after a stop? | holds |
| `health` | 1 worker, 2 backends, 1 pair, threshold 1 | how many connections reach a backend that has left Up? is a live one recovered, a dead one ejected? | at most one per worker; holds, for the dead one if stale events allow |
| `drain` | 1 worker, 1 backend | does drain last until enable? | **violated** |
| `pair` | upload of 5 bytes, answer of 1 | order, loss, memory, interest; is every byte delivered? | holds |
| `pair_idle` | upload | is a pair that is being drained safe from the idle reaper? | **violated** |
| `pair_end` | upload | is all sent data relayed before its end of stream closes the pair? | **violated** |
| `selection` | 2 workers, 2 backends, 3 calls, all policies | is `select` right while all it reads changes? | holds |
| `p2c_down` | 1 worker, 2 backends | does power-of-two-choices skip a Down backend? | **violated** |
| `loop` | 3 numbers, 2 clients in the queue | are numbers leaked or misused, pairs torn, clients or ended pairs forgotten? | holds, but for a worker kept by one pair or by clients |
| `loop_stale` | 2 numbers | does the connect deadline hold for every connect? | **violated** |
| `lifecycle` | every file of up to 3 lines of 11 kinds, up to 2 workers, 1 handler | is the file taken as it is written (to 32 bits), every thread joined in time, and does the process end? | holds |
| `start_fails` | the same | does an exception in `start()` end the process? | **violated** |

The six violations:

- `drain`. `maybe_eject` compares the failure count with the threshold and stores
  Down (`server.cpp:576-577`; the health thread: 655-656) whatever the state is. In
  the trace a connect or a probe is under way when the operator drains; it fails, is
  counted and compared after that, and Down replaces Draining. No race is needed: any
  later failure of a draining backend does the same, and one that finishes a
  connection and closes it counts as a failure (267). The next success finds Down
  and not Draining and makes the backend Up (`scheduler.cpp:138`), so it is routed
  to although nobody enabled it. `mark_healthy` has a window of its own between its
  test and its store.
- `pair_end`. `EPOLLRDHUP` closes the pair before anything is read
  (`server.cpp:266`). A client that sends its request and shuts down its sending
  side loses the bytes that arrived with the end of the stream. The same line
  drops what is still in the outbound buffer.
- `pair_idle`. `reap_timeouts` looks at the client's `last_activity` only
  (`server.cpp:531`). Reads set both sides' (436), a write only that of the side
  written (489). While a slow backend drains a full buffer the client is not
  read, and the pair is closed as idle between two successful writes.
- `p2c_down`. The conditions at `scheduler.cpp:73, 76, 79` load both states
  again. With one sample Up and the other Down, the Up one may turn Down after
  line 76 has gone on and before line 79 tests it; the call then compares loads
  and may return the one that was Down throughout.
- `loop_stale`. One batch holds the hang-up of a client, the listener, and the
  answer of the client's backend, in this order. The hang-up closes the pair,
  `accept4` and `connect` are given its two numbers, and the answer is then taken
  for the new backend's (`server.cpp:262, 270`). While its handshake goes on
  `SO_ERROR` is 0, so `finish_connect` clears `connecting` and marks the backend
  healthy; from there on the idle timeout (60 s by default) applies and not the
  connect timeout (3 s). The write that `flush` may then try only blocks.
- `start_fails`. `shutdown()` joins the health thread (`server.cpp:629`), which ends
  only when it sees the stop flag; the flag is set on the normal way out of
  `start()` alone (620). An exception after `start_health_checks` leaves
  `~TcpLoadBalancer` waiting, and the workers too if there are any, so the message
  and the exit code of `main.cpp:54-57` come only after a signal.

`EjectsDead` has a premise: from some moment on no worker takes a connect to the
backend for established that the backend has not answered. Without it TLC finds
a run in which a stale event does so between each recorded failure and its
comparison; `mark_healthy` sets the count to 0 each time and the dead backend stays
in routing. Each such event needs a pair that is closed, its number reused and its
old EPOLLOUT in one batch (`loop_stale`), so a run with no end of them is far-fetched,
but nothing in the code excludes it.

`HungClosed` and `ClientsAccepted` except a worker that stays in `read_available`: its
loop (`server.cpp:422-471`) ends only when the source has nothing more to read, or
the sink's buffer is at the mark, and a fast pair may bring about neither for
ever. `HungClosed` also excepts one that is kept in `accept_clients` by clients that
come without a pause. Nothing else of the worker has its turn until then: no
other pair, no timeout, no stop.

`ArmedWhenWaiting` speaks of EPOLLOUT in one direction. When a flush on an event
empties the buffer, the code re-arms only the paired descriptor
(`server.cpp:494-496`), and EPOLLOUT stays armed on the drained one: TLC finds a
waiting worker with empty buffers and OUT in `interest`. The socket is writable, so
`epoll_wait` returns at once, over and over, until the pair's next read.

`NoneMeansDown` excludes calls near an overflow of `next_`, which TLC found to be
necessary: where 2^64 is no multiple of the number of backends, `start + offset`
wraps and the call visits one backend twice and another never. `RotationEven`
likewise allows one more call of difference for each overflow.

`LoadsClose` bounds the gaps between the loads and not their range. The README of
the program has least-connections select the backend with the "lowest current
count" (`README.md:173`), which no scan of changing counts can promise. One stale
comparison of each worker carries a load at most as far above the next lower one
as there are workers; but a scan of more than two backends makes several
comparisons, and the chain may bring three workers and five backends to the loads
1, 1, 2, 0 and 4. A gap of more than the workers never opens.

### Bounds

- *`health`.* One worker and the health thread race on each cell, and two backends
  show that the loop reaches both; `LateBounded` for several workers is a theorem.
- *`Fds`* = 3: a pair and one number more, so that a client is accepted for which no
  backend descriptor is left, and numbers are handed out again within a batch. Two
  pairs at a time need four (over 14 million states); the two theorems about
  numbers and pairs hold for any set. The kernel gives the lowest free number and
  the model any.
- *`Files`*: three lines show an override, a bad line before and after good ones,
  and a value of `Narrow` (2^32, here 3) or more. `MaxHandlers` = 1: handlers
  count only in that there is one that may throw.
- *Workers, connections, backends.* An access touches one cell and one worker's
  locals, so two workers show every race on a cell; three connections let one
  worker hold a pair while both race. The theorems lift the bounds for the
  safety properties of every module.
- *`MaxFailures`* = threshold + 1: counting on changes no comparison. *`Pairs`*
  bounds the pairs that exist at a time, not how many ever exist.
- *`TicketSpan`* = 5 is odd, so the overflow is uneven over two backends, as 2^64
  is over three; three calls from any start take the counter over it.
- *`HighWatermark`* = 3, `BufferSize` = 2 and `SendBuffer` = 1: five bytes pause
  reading, are appended to a buffer that is already partly written, and could pass
  its bound. One stream is long enough to overrun the buffers while the other goes its way.
- *`IdleTimeout`* in ticks; `age` stops there, since only the comparison with it
  matters.

Deadlock is not checked where the model has an end: after a stop all threads
have ended, calls are bounded, a closed pair rests. In `BackendHealth` it is
checked.

### Fairness

- `Accounting`: weak fairness of each worker thread for what it does without
  waiting for a client (end its handler, leave the loop once the flag is set -
  `epoll_wait` has a timeout of 250 ms - and shut down). Clients owe nothing. A
  failed compare-and-swap changes `current` only if the cell has changed; a
  spurious failure is a stutter, so weak fairness excludes failing for ever.
- `BackendHealth`: weak fairness of the health thread and of the handlers that
  have begun. `Recovers` and `EjectsDead` need no operator, client or backend to
  act: each probe has a timeout and the loop goes round. (`EjectsDead` also needs an
  end of the stale events of section 3, which is its premise and no fairness.)
- `EventLoop`: weak fairness of the worker, as a thread that is scheduled and whose
  `epoll_wait` has a timeout, except while it reads from a source that is open
  (`Endless`): such a read may go on for ever. Clients, backends, the timer and other
  threads owe nothing.
- `Lifecycle`: weak fairness of main, of the admin thread (its listener does not
  block), of the workers and the health thread once the flag is set (both test it
  at each turn: 250 ms in `epoll_wait`, one interval and one round of probes).
  Handlers and signals owe nothing. That a worker comes to its test
  assumes that its reads and `accept_clients` end, which `EventLoop` does not; the same
  goes for `StopEnds` of `Accounting`.
- `ProxyPair`: weak fairness of the worker, of the backend's accept and of each
  end's reading. That an end reads is an assumption on the peers: `Delivered`
  says that the proxy adds no wait of its own, and an end that does not read is
  what back-pressure is for. The reaper owes nothing and may close the pair at
  any moment; `Delivered` is about pairs that stay open.

## 4. Proofs

Each theorem holds for all constants under the assumptions named in the modules:
finite sets of connections and workers, positive sizes, fresh "none" values, a
`size_t` with more than one value. Together they state every invariant of every
run that passes, and the refinement.

| Theorem | Says |
|---|---|
| `AccountingProofs`: `TypeCorrect`, `HeldOnceAlways`, `ActiveExactAlways`, `GaugeExactAlways`, `NeverClampedAlways`, `ZeroAtExitAlways`, `PeakExactAlways` | the invariants of run `gauges` |
| `BackendHealthProofs`: `TypeCorrect`, `LateBoundedAlways` | the invariants of run `health` |
| `SelectionProofs`: `TypeCorrect`, `NoneMeansDownAlways`, `RoutesToUpAlways`, `RotationEvenAlways`, `LoadsCloseAlways` | the invariants of run `selection` |
| `SelectionProofs`: `NoneFromNoneAlways` | no policy returns a backend if none was Up during the call |
| `ProxyPairProofs`: `TypeCorrect`, `BufferBoundAlways`, `ArmedWhenWaitingAlways` | the invariants of run `pair` |
| `RelayProofs`: `PairImplementsRelay` | the refinement `ImplementsRelay` of run `pair` |
| `RelayProofs`: `BytesInOrderAlways` | an end receives the first bytes of the other, each once and in order, and while the pair is open all others are on their way |
| `EventLoopProofs`: `TypeCorrect`, `NumbersAccountedAlways`, `WholePairsAlways` | the invariants of run `loop` |
| `LifecycleProofs`: `NoThreadLeftAlways`, `ClosedWhileOpenAlways`; `ConfigProofs`: `TypeCorrect`, `FileTakenAlways`, `FileJudgedAlways` | the invariants of run `lifecycle` |

*Accounting.* That `active_[b]` is the number of pairs open to `b` is a statement
about cardinalities of sets given by all workers' program counters and maps.
The inductive invariant `CountsInv` joins to it `HeldOnce` (else one connection
could leave the set twice) and `LoadedPositive` (an expected value loaded by
a closing loop is not 0, else the loop would end without its decrement). Each
action moves at most one connection into or out of the set (`GaugeMoves`), and a
lemma on cardinalities does the rest. That a compare-and-swap succeeds only on an
unchanged cell is used here. `PeakInv` is separate: either the highest value is
recorded, or some worker that has seen it is still on its way to record it, and
an expected value is never above the peak because the peak only grows.

*BackendHealth.* `LateInv`: for a backend that is not Up, the pairs opened since
plus the workers whose `select` has returned it and that have not connected yet
number at most the workers. A worker joins only while the backend is Up, and one
that connects moves from the second term to the first.

*Selection.* Three invariants on top of the types.

- `WalkInv` is about one call: where it stands, and what it has witnessed. What is
  Up or not now is in `seenUp` or `seenOff` (`WitnessedBy`), a scan has selected
  only what it saw Up and passed over only what it saw not Up while nothing is
  selected (`ScanOf`), and so has the rotation up to its offset, unless a ticket may
  overflow (`RotationOf`). `NoneMeansDown` needs arithmetic at its end: as many
  successive tickets as there are backends have every remainder once.
- `RotationInv` counts a backend's turns as its picks and the tickets drawn for it.
  "Up to one" is not inductive: the next ticket might go to a backend that is one
  ahead. `Balance` adds that of two backends the one that waits less long for its next
  ticket is not ahead, each overflow aside.
- `LoadsInv` looks at a level `x` that some loads exceed and others do not. A worker
  is astray if its scan may end at a backend above `x`: it has passed the low ones,
  or holds a load from when a backend was low that no longer is. Some load above
  `x`, plus the number of those astray, is at most `x` plus the number of workers
  (`GapBounded`). A call that heads for a low load stays so, because loads only grow
  (`HeadsLowOn`); one that opens a connection above `x` is astray no more; and a load
  that rises above `x` is `x + 1`, with all workers but the one that raised it left to go
  astray.

`RoutesToUp` is false of power-of-two-choices (run `p2c_down`). `NoneFromNone` is what
holds: an attempt comes to its second condition only after a sample that was Up.

*ProxyPair.* `ArmedWhenWaiting` is not inductive, because handlers change a
buffer some steps before the `modify_fd` that answers it. `PairInv` adds where
the worker is (`Handled`), that a buffer is empty when all of it is sent
(`Compact`), that a stale EPOLLIN still finds room below the mark because only
the reader of a side fills the buffer opposite (`Roomy`), and `ArmedInv`: each side is
armed right or has its `modify_fd` still to come in the handler under way.

*Relay.* With `PairInv`, each step of `ProxyPair` is shown to be one of four as seen
through the mapping: an end sends a byte, an end reads one, the pair closes and
cuts a tail, or both streams stay (`Sends`, `Reads`, `Cuts`, `Rests`; `StepMoves`).
A partial write and a read move bytes from one of the three places to the next, so the
concatenation stays; this rests on `sent` pointing at the first unsent byte and on
the lemmas about sequences at the head of the module. `BytesInOrder` follows by an
invariant of the streams alone: the bytes read and those in transit are
consecutive numbers.

*EventLoop.* `MapInv` joins to `NumbersAccounted` and `WholePairs` that a client is
in the worker's hand exactly in `attach_backend` (or after it threw) and that it is
no entry of the map. Both are needed for each other: a close frees two numbers that
no other entry names because pairs are whole, and a new pair is whole because its
numbers were free, hence in no entry. `InRead` adds that the descriptor that is read is
an entry: nothing but the read itself closes its pair meanwhile.

*Lifecycle.* `Inv` has three parts: for whom main stops the admin server
(`MainInv`), what the listener is as both threads see it (`ListenerInv`: once
stored it is open, and before it is stored nobody has closed it), and what has
been joined by the time main has come so far (`JoinInv`: in the loop of `shutdown()`
all workers below `next`). `NoThreadLeft` alone says nothing before the end.

*Config.* `FileTaken` and `FileJudged` are about the end of a loop over the lines.
`LoadInv` says them of the lines so far: those left are the rest of the file and
none before them was bad (`RestInv`), a setting has what is stored of its last line so
far or its default (`SettingsInv`), and the n-th backend is that of the n-th line
that gives one (`BackendsInv`, by counting lines with `BackendsIn`). `TypeOK` of
`Lifecycle` follows from `LoadInv` and the `Inv` above.

## 5. Only model-checked

The liveness properties: `StopEnds`, `Recovers`, `EjectsDead`, `Delivered`,
`ClientsAccepted`, `HungClosed`, `StopEndsProcess`, `NoWorkersNoProcess`. They rest on
fairness, hence on ENABLED, which the prover does not handle. The violations of
section 3 are behaviours that TLC found, and need no proof.

## 6. Not modelled, and what is abstracted

- *Memory order.* Modules interleave atomic accesses. The code uses relaxed
  accesses for counters, and acquire/release for states. Each cell alone is
  coherent in any case and no property of the gauges relates two cells' orders,
  except that `PeakExact` reads one through a worker's own local value; a property
  that reads one cell after another thread's write to a second one would need more.
- *Fatal signals.* A write after an end of stream and a reset raises SIGPIPE,
  which ends the process; for the pair that is a close (`FlushFails`).
- *Close of a connection.* What the kernel still held for an end may or may not
  arrive after a close with unread data (`ClosePair` in `ProxyPair`).
- *Bytes* are numbers in their stream; `EINTR` repeats a call and is no step;
  text of HTTP, JSON and logs is left out.
- *Descriptor numbers* of a closed pair are not reused in `ProxyPair`; `EventLoop` is
  about that.
- *Backend names* resolve in `BackendHealth`; that a probe throws is `Lifecycle`'s
  `Abort`. `getaddrinfo`, the list of addresses of a name and `raise_file_limit` are
  not modelled.
- *Statistics.* The byte, error and latency counters are read by nobody but the
  snapshot, whose relaxed loads of different cells have no order. Even a bound on
  the skew would be a claim about hardware, and no document makes one.
- *A failed worker's listener* stays in the `SO_REUSEPORT` group. Which listener
  the kernel picks, and what becomes of the clients, is not modelled.
- *Race on `listener_fd_`.* It is a data race; the accesses are taken to be
  whole and each to see the last value stored, as on the supported machines. That
  `accept` runs on a number that another thread has been given is one of the
  outcomes of `AdminAccept` (it fails), except on another *listener*, which needs
  a worker that starts while `shutdown()` runs and does not occur in a stop.
- *Command line*, HTTP text, files and the dashboard: no state of the balancer.
- Logger, dashboard, benchmarks and build have no state other parts depend on.

## 7. Plan

In order of importance:

1. An abstract specification of the gauges (one step per open and close) that
   `Accounting` implements, with its proof from `CountsInv`.
2. One of a backend's state (Up, Draining, Down with their edges) that
   `BackendHealth` implements as far as the races of run `drain` let it.
3. Two workers in `EventLoop`, if what `others` does freely turns out to be too weak
   a stand-in for them.
4. Shorter proofs where two leaves repeat the same facts (`ProxyPairProofs`).
