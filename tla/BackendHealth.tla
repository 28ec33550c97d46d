--------------------------- MODULE BackendHealth ---------------------------
(***************************************************************************)
(* Which backends are routed to. The state of a backend (Up, Down or       *)
(* Draining) and its count of consecutive failures are two atomics that    *)
(* three kinds of threads write without a lock:                            *)
(*                                                                         *)
(*   - the workers: passive ejection when a connection fails, recovery     *)
(*     when one is established;                                            *)
(*   - the health thread: the same two sequences after a probe;            *)
(*   - the admin handlers: drain and enable, at any time.                  *)
(*                                                                         *)
(* Each sequence is several accesses (count, compare, store), and another  *)
(* thread's accesses fall between them. One action is one access.          *)
(*                                                                         *)
(* Selection is by round-robin or least-connections, whose only use of the *)
(* state is a read of the backend they return; power-of-two-choices reads  *)
(* it up to three times and is not covered here.                           *)
(***************************************************************************)
EXTENDS Naturals, FiniteSets

CONSTANTS
  Workers,       \* the worker threads
  Prober,        \* the health thread
  NumBackends,   \* how many backends are configured
  Pairs,         \* bound: the client/backend pairs that may exist at a time
  NoPair,        \* a pair that does not exist
  Threshold,     \* passive_failure_threshold
  MaxFailures    \* bound: where the count of consecutive failures stays

ASSUME ThreadsAssumption == IsFiniteSet(Workers) /\ Prober \notin Workers
ASSUME BackendsAssumption == NumBackends \in Nat \ {0}
ASSUME PairsAssumption == IsFiniteSet(Pairs)
\* Counting further makes no difference to a comparison with Threshold.
ASSUME BoundAssumption ==
  Threshold \in Nat /\ MaxFailures \in Nat /\ MaxFailures > Threshold

Threads == Workers \cup {Prober}
Backends == 0 .. NumBackends - 1

VARIABLES
  states,                \* Scheduler::states_
  consecutive_failures,  \* Scheduler::consecutive_failures_
  pc,                    \* the next access of each thread
  index,                 \* the backend that access is for
  pairs,                 \* the proxied pairs: whose, to which backend, how far
  reachable,             \* the backends that answer a connect (environment)
  drained,               \* history: the backends drained and not enabled since
  late                   \* history: the pairs opened since the backend left Up

vars == <<states, consecutive_failures, pc, index, pairs, reachable, drained, late>>

Phases == {"connecting", "answered", "established"}
Labels == {"loop", "connect", "read_state", "probe", "record", "compare", "eject",
           "reset", "read_down", "recover"}

Pair(w, b, phase) == [worker |-> w, backend |-> b, phase |-> phase]
FreePairs == {p \in Pairs : pairs[p] = NoPair}
Connecting == {w \in Workers : pc[w] = "connect"}

Goto(t, label) == pc' = [pc EXCEPT ![t] = label]

\* The health thread's loop over the backends; after the last it sleeps and
\* starts again. The slips beside it run past the end, and stop at the first.
NextIndexNoWrap(i) == i + 1
NextIndexFirst(i) == 0
NextIndex(i) == (i + 1) % NumBackends

\* A thread has ended the sequence it was in.
Return(t) ==
  IF t = Prober
    THEN Goto(t, "read_state") /\ index' = [index EXCEPT ![t] = NextIndex(@)]
    ELSE Goto(t, "loop") /\ index' = [index EXCEPT ![t] = 0]

\* Scheduler::set_state. The history variable starts again when the backend
\* enters or leaves Up.
SetState(b, state) ==
  /\ states' = [states EXCEPT ![b] = state]
  /\ late' = IF "Up" \in {states[b], state} THEN [late EXCEPT ![b] = 0] ELSE late

-----------------------------------------------------------------------------
(* Workers: accept, connect, and how a pair ends.                          *)

\* Scheduler::routable; the slip routes to draining backends.
NotDown(b) == states[b] # "Down"
Routable(b) == states[b] = "Up"

\* Scheduler::select has read that b is Up and will return it.
Select(w, b) ==
  /\ pc[w] = "loop" /\ Routable(b)
  /\ Cardinality(FreePairs) > Cardinality(Connecting)   \* bound
  /\ Goto(w, "connect")
  /\ index' = [index EXCEPT ![w] = b]
  /\ UNCHANGED <<states, consecutive_failures, pairs, reachable, drained, late>>

\* attach_backend: the connect is under way and the pair exists.
Connect(w) ==
  LET b == index[w] IN
  /\ pc[w] = "connect"
  /\ \E p \in FreePairs : pairs' = [pairs EXCEPT ![p] = Pair(w, b, "connecting")]
  /\ late' = IF states[b] = "Up" THEN late ELSE [late EXCEPT ![b] = @ + 1]
  /\ Return(w)
  /\ UNCHANGED <<states, consecutive_failures, reachable, drained>>

\* attach_backend: connect_backend returned -1, which counts as a failure.
ConnectFails(w) ==
  /\ pc[w] = "connect"
  /\ Goto(w, "record")
  /\ UNCHANGED <<states, consecutive_failures, index, pairs, reachable, drained, late>>

\* The backend's kernel accepts; the worker will learn of it by EPOLLOUT.
Answer(p) ==
  /\ pairs[p] # NoPair /\ pairs[p].phase = "connecting" /\ reachable[pairs[p].backend]
  /\ pairs' = [pairs EXCEPT ![p].phase = "answered"]
  /\ UNCHANGED <<states, consecutive_failures, pc, index, reachable, drained, late>>

\* finish_connect without an error: mark_healthy is next. A pair that has not
\* been answered gets there too: on an EPOLLOUT that the batch holds for a pair
\* that had its number before (module EventLoop), since SO_ERROR is 0 as long as
\* the handshake goes on.
FinishConnect(w, p) ==
  /\ pc[w] = "loop" /\ pairs[p] # NoPair
  /\ pairs[p].worker = w /\ pairs[p].phase # "established"
  /\ pairs' = [pairs EXCEPT ![p].phase = "established"]
  /\ index' = [index EXCEPT ![w] = pairs[p].backend]
  /\ Goto(w, "reset")
  /\ UNCHANGED <<states, consecutive_failures, reachable, drained, late>>

\* close_pair(fd, true): an error or a hang-up on the backend's side (a backend
\* that has finished and closes is one), or the connect deadline.
CloseOnFailure(w, p) ==
  /\ pc[w] = "loop" /\ pairs[p] # NoPair /\ pairs[p].worker = w
  /\ pairs' = [pairs EXCEPT ![p] = NoPair]
  /\ index' = [index EXCEPT ![w] = pairs[p].backend]
  /\ Goto(w, "record")
  /\ UNCHANGED <<states, consecutive_failures, reachable, drained, late>>

\* close_pair(fd, false): the client ended it, or it was idle too long.
CloseQuietly(w, p) ==
  /\ pc[w] = "loop" /\ pairs[p] # NoPair /\ pairs[p].worker = w
  /\ pairs' = [pairs EXCEPT ![p] = NoPair]
  /\ UNCHANGED <<states, consecutive_failures, pc, index, reachable, drained, late>>

-----------------------------------------------------------------------------
(* The health thread.                                                      *)

\* The state that keeps a backend from being probed; the slip leaves out what
\* is down.
SkippedUnlessUp(b) == states[b] # "Up"
Skipped(b) == states[b] = "Draining"

ReadState ==
  /\ pc[Prober] = "read_state"
  /\ IF Skipped(index[Prober]) THEN Return(Prober) ELSE Goto(Prober, "probe") /\ UNCHANGED index
  /\ UNCHANGED <<states, consecutive_failures, pairs, reachable, drained, late>>

\* tcp_probe, within health_timeout_ms.
Probe ==
  /\ pc[Prober] = "probe"
  /\ Goto(Prober, IF reachable[index[Prober]] THEN "reset" ELSE "record")
  /\ UNCHANGED <<states, consecutive_failures, index, pairs, reachable, drained, late>>

-----------------------------------------------------------------------------
(* After a failure: mark_failure and maybe_eject, by worker or prober.      *)

RecordFailure(t) ==
  LET b == index[t] IN
  /\ pc[t] = "record"
  /\ consecutive_failures' =
       [consecutive_failures EXCEPT ![b] = IF @ < MaxFailures THEN @ + 1 ELSE @]   \* bound
  /\ Goto(t, "compare")
  /\ UNCHANGED <<states, index, pairs, reachable, drained, late>>

\* consecutive_failures(i) >= passive_failure_threshold; the slip notices only
\* the failure that reaches it.
AtThreshold(count) == count = Threshold
Exhausted(count) == count >= Threshold

Compare(t) ==
  /\ pc[t] = "compare"
  /\ IF Exhausted(consecutive_failures[index[t]])
       THEN Goto(t, "eject") /\ UNCHANGED index
       ELSE Return(t)
  /\ UNCHANGED <<states, consecutive_failures, pairs, reachable, drained, late>>

\* set_backend_state(i, Down), whatever the state is by now.
Eject(t) ==
  /\ pc[t] = "eject"
  /\ SetState(index[t], "Down")
  /\ Return(t)
  /\ UNCHANGED <<consecutive_failures, pairs, reachable, drained>>

-----------------------------------------------------------------------------
(* After a success: mark_healthy, by worker or prober.                     *)

ResetFailures(t) ==
  /\ pc[t] = "reset"
  /\ consecutive_failures' = [consecutive_failures EXCEPT ![index[t]] = 0]
  /\ Goto(t, "read_down")
  /\ UNCHANGED <<states, index, pairs, reachable, drained, late>>

ReadDown(t) ==
  /\ pc[t] = "read_down"
  /\ IF states[index[t]] = "Down" THEN Goto(t, "recover") /\ UNCHANGED index ELSE Return(t)
  /\ UNCHANGED <<states, consecutive_failures, pairs, reachable, drained, late>>

\* set_state(index, Up), whatever the state is by now.
Recover(t) ==
  /\ pc[t] = "recover"
  /\ SetState(index[t], "Up")
  /\ Return(t)
  /\ UNCHANGED <<consecutive_failures, pairs, reachable, drained>>

-----------------------------------------------------------------------------
(* The operator and the environment.                                       *)

\* POST /backends/{id}/drain
Drain(b) ==
  /\ SetState(b, "Draining")
  /\ drained' = drained \cup {b}
  /\ UNCHANGED <<consecutive_failures, pc, index, pairs, reachable>>

\* POST /backends/{id}/enable; the count of failures stays.
Enable(b) ==
  /\ SetState(b, "Up")
  /\ drained' = drained \ {b}
  /\ UNCHANGED <<consecutive_failures, pc, index, pairs, reachable>>

\* A backend stops or starts answering.
Flip(b) ==
  /\ reachable' = [reachable EXCEPT ![b] = ~ @]
  /\ UNCHANGED <<states, consecutive_failures, pc, index, pairs, drained, late>>

-----------------------------------------------------------------------------
Init ==
  /\ states = [b \in Backends |-> "Up"]
  /\ consecutive_failures = [b \in Backends |-> 0]
  /\ pc = [t \in Threads |-> IF t = Prober THEN "read_state" ELSE "loop"]
  /\ index = [t \in Threads |-> 0]
  /\ pairs = [p \in Pairs |-> NoPair]
  /\ reachable \in [Backends -> BOOLEAN]
  /\ drained = {}
  /\ late = [b \in Backends |-> 0]

Sequence(t) ==
  \/ RecordFailure(t) \/ Compare(t) \/ Eject(t)
  \/ ResetFailures(t) \/ ReadDown(t) \/ Recover(t)

Handler(w) == Connect(w) \/ ConnectFails(w) \/ Sequence(w)
Health == ReadState \/ Probe \/ Sequence(Prober)

Event(w) ==
  \/ \E b \in Backends : Select(w, b)
  \/ \E p \in Pairs : FinishConnect(w, p) \/ CloseOnFailure(w, p) \/ CloseQuietly(w, p)

Environment ==
  \/ \E b \in Backends : Drain(b) \/ Enable(b) \/ Flip(b)
  \/ \E p \in Pairs : Answer(p)

Next == Environment \/ Health \/ \E w \in Workers : Handler(w) \/ Event(w)

Spec == Init /\ [][Next]_vars

\* Threads run: a handler that has begun ends, and the health thread goes round
\* for ever. Clients, backends and the operator owe nothing.
FairSpec == Spec /\ WF_vars(Health) /\ \A w \in Workers : WF_vars(Handler(w))

-----------------------------------------------------------------------------
TypeOK ==
  /\ states \in [Backends -> {"Up", "Down", "Draining"}]
  /\ consecutive_failures \in [Backends -> 0 .. MaxFailures]
  /\ pc \in [Threads -> Labels]
  /\ index \in [Threads -> Backends]
  /\ pairs \in [Pairs -> [worker : Workers, backend : Backends, phase : Phases] \cup {NoPair}]
  /\ reachable \in [Backends -> BOOLEAN]
  /\ drained \in SUBSET Backends
  /\ late \in [Backends -> Nat]

\* However drain, ejection and recovery interleave with the workers, a backend
\* that is not Up gets at most one more pair from each worker: the one whose
\* select had already read Up. After that its load only falls.
LateBounded ==
  \A b \in Backends : states[b] # "Up" => late[b] <= Cardinality(Workers)

\* A backend that answers from some point on is never left ejected, whatever
\* stale failures the workers still have in hand when it comes back.
Recovers ==
  \A b \in Backends : <>[] reachable[b] => []<> (states[b] # "Down")

\* A worker takes a connect to b for established that b has not answered.
FinishesEarly(b) ==
  \E w \in Workers, p \in Pairs :
    pairs[p] = Pair(w, b, "connecting") /\ FinishConnect(w, p)

\* A backend that has stopped answering is not left in routing, whatever successes
\* from before are still in hand (probes, connects it did answer), and however
\* often the operator enables it. That holds if workers take connects to it for
\* established only so often: each such mark_healthy starts the count of failures
\* again, so one after another may keep it from the threshold for ever.
EjectsDead ==
  \A b \in Backends :
    <>[] ~ reachable[b] /\ <>[][~ FinishesEarly(b)]_vars => []<> (states[b] # "Up")

\* What the README calls manual drain control: a backend the operator drained
\* is not routed to until the operator enables it. (maybe_eject does not look at
\* the state, so a failure of a draining backend makes it Down, and a success Up.)
DrainHonoured ==
  \A b \in drained : states[b] # "Up"
=============================================================================
