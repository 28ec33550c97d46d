------------------------ MODULE BackendHealthProofs ------------------------
(***************************************************************************)
(* Proofs about module BackendHealth, for any number of workers, backends  *)
(* and pairs: its type invariant, and the bound on the pairs that a        *)
(* backend still gets after it has left Up.                                *)
(***************************************************************************)
EXTENDS BackendHealth, FiniteSetTheorems, TLAPS

\* Every action of thread t.
ThreadStep(t) ==
  \/ t \in Workers /\ (Handler(t) \/ Event(t))
  \/ t = Prober /\ Health

LEMMA NextIsThreadStep == Next <=> Environment \/ \E t \in Threads : ThreadStep(t)
BY ThreadsAssumption DEF Next, ThreadStep, Threads

LEMMA NextIndexInRange ==
  ASSUME NEW i \in Backends
  PROVE  NextIndex(i) \in Backends
BY BackendsAssumption DEF NextIndex, Backends

LEMMA IndexZero == 0 \in Backends
BY BackendsAssumption DEF Backends

\* Whoever returns, its thread is back at its loop with a legal index.
LEMMA ReturnTyped ==
  ASSUME TypeOK, NEW t \in Threads, Return(t)
  PROVE  pc' \in [Threads -> Labels] /\ index' \in [Threads -> Backends]
BY NextIndexInRange, IndexZero DEF TypeOK, Return, Goto, Labels

LEMMA SetStateTyped ==
  ASSUME TypeOK, NEW b \in Backends, NEW s \in {"Up", "Down", "Draining"}, SetState(b, s)
  PROVE  states' \in [Backends -> {"Up", "Down", "Draining"}] /\ late' \in [Backends -> Nat]
BY DEF TypeOK, SetState

-----------------------------------------------------------------------------
LEMMA TypeStep == TypeOK /\ [Next]_vars => TypeOK'
<1> SUFFICES ASSUME TypeOK, [Next]_vars PROVE TypeOK'
  OBVIOUS
<1> USE ThreadsAssumption, BoundAssumption DEF Threads
<1>1. CASE UNCHANGED vars
  BY <1>1 DEF vars, TypeOK
<1>2. ASSUME NEW b \in Backends, Drain(b) \/ Enable(b) \/ Flip(b) PROVE TypeOK'
  <2>1. CASE Drain(b)
    BY <2>1, SetStateTyped DEF Drain, TypeOK
  <2>2. CASE Enable(b)
    BY <2>2, SetStateTyped DEF Enable, TypeOK
  <2>3. CASE Flip(b)
    BY <2>3 DEF Flip, TypeOK
  <2> QED
    BY <1>2, <2>1, <2>2, <2>3
<1>3. ASSUME NEW p \in Pairs, Answer(p) PROVE TypeOK'
  BY <1>3 DEF Answer, TypeOK, Phases
<1>4. ASSUME NEW w \in Workers, NEW b \in Backends, Select(w, b) PROVE TypeOK'
  BY <1>4 DEF Select, Goto, TypeOK, Labels
<1>5. ASSUME NEW w \in Workers, NEW p \in Pairs, FinishConnect(w, p) PROVE TypeOK'
  BY <1>5 DEF FinishConnect, Goto, TypeOK, Labels, Phases
<1>6. ASSUME NEW w \in Workers, NEW p \in Pairs, CloseOnFailure(w, p) \/ CloseQuietly(w, p)
      PROVE TypeOK'
  BY <1>6 DEF CloseOnFailure, CloseQuietly, Goto, TypeOK, Labels
<1>7. ASSUME NEW w \in Workers, Connect(w) PROVE TypeOK'
  <2>1. pc' \in [Threads -> Labels] /\ index' \in [Threads -> Backends]
    BY <1>7, ReturnTyped DEF Connect
  <2>2. late' \in [Backends -> Nat]
    BY <1>7 DEF Connect, TypeOK
  <2>3. pairs' \in [Pairs -> [worker : Workers, backend : Backends, phase : Phases] \cup {NoPair}]
    BY <1>7 DEF Connect, TypeOK, Pair, Phases, FreePairs
  <2> QED
    BY <1>7, <2>1, <2>2, <2>3 DEF Connect, TypeOK
<1>8. ASSUME NEW w \in Workers, ConnectFails(w) PROVE TypeOK'
  BY <1>8 DEF ConnectFails, Goto, TypeOK, Labels
<1>9. ASSUME NEW t \in Threads, Sequence(t) PROVE TypeOK'
  <2>1. CASE RecordFailure(t)
    BY <2>1 DEF RecordFailure, Goto, TypeOK, Labels
  <2>2. CASE Compare(t)
    BY <2>2, ReturnTyped DEF Compare, Goto, TypeOK, Labels
  <2>3. CASE Eject(t)
    <3>1. index[t] \in Backends
      BY DEF TypeOK
    <3> QED
      BY <2>3, <3>1, ReturnTyped, SetStateTyped DEF Eject, TypeOK
  <2>4. CASE ResetFailures(t)
    BY <2>4 DEF ResetFailures, Goto, TypeOK, Labels
  <2>5. CASE ReadDown(t)
    BY <2>5, ReturnTyped DEF ReadDown, Goto, TypeOK, Labels
  <2>6. CASE Recover(t)
    <3>1. index[t] \in Backends
      BY DEF TypeOK
    <3> QED
      BY <2>6, <3>1, ReturnTyped, SetStateTyped DEF Recover, TypeOK
  <2> QED
    BY <1>9, <2>1, <2>2, <2>3, <2>4, <2>5, <2>6 DEF Sequence
<1>10. CASE ReadState \/ Probe
  <2>1. CASE ReadState
    BY <2>1, ReturnTyped DEF ReadState, Goto, TypeOK, Labels
  <2>2. CASE Probe
    BY <2>2 DEF Probe, Goto, TypeOK, Labels
  <2> QED
    BY <1>10, <2>1, <2>2
<1> QED
  BY <1>1, <1>2, <1>3, <1>4, <1>5, <1>6, <1>7, <1>8, <1>9, <1>10
     DEF Next, Environment, Health, Handler, Event

\* Every state, count, pair and thread keeps its type.
THEOREM TypeCorrect == Spec => []TypeOK
<1>1. Init => TypeOK
  BY IndexZero, ThreadsAssumption, BoundAssumption DEF Init, TypeOK, Threads, Labels
<1> QED
  BY <1>1, TypeStep, PTL DEF Spec

-----------------------------------------------------------------------------
(* The pairs a backend gets after it left Up.                              *)

\* The workers whose select has returned b and that have not connected yet.
Incoming(b) == {w \in Workers : pc[w] = "connect" /\ index[w] = b}

\* A late pair was incoming when the backend left Up: each worker is one or
\* the other, once.
LateInv ==
  \A b \in Backends :
    states[b] # "Up" => late[b] + Cardinality(Incoming(b)) <= Cardinality(Workers)

LEMMA WorkersFinite ==
  /\ IsFiniteSet(Workers) /\ Cardinality(Workers) \in Nat
  /\ \A S \in SUBSET Workers : /\ IsFiniteSet(S) /\ Cardinality(S) \in Nat
                               /\ Cardinality(S) <= Cardinality(Workers)
BY ThreadsAssumption, FS_Subset, FS_CardinalityType

\* What a step does to the sum, for a backend that is not Up afterwards: it
\* restarts it, leaves it, makes it smaller, or turns an incoming pair late.
Sums(b) ==
  \/ late'[b] = 0
  \/ states[b] # "Up" /\ late'[b] = late[b] /\ Incoming(b)' \in SUBSET Incoming(b)
  \/ /\ states[b] # "Up" /\ late'[b] = late[b] + 1
     /\ \E w \in Incoming(b) : Incoming(b)' = Incoming(b) \ {w}

LEMMA SumsKeep ==
  ASSUME TypeOK, LateInv, NEW b \in Backends, Sums(b)
  PROVE  late'[b] + Cardinality(Incoming(b)') <= Cardinality(Workers)
<1>1. Incoming(b) \in SUBSET Workers /\ Incoming(b)' \in SUBSET Workers /\ late[b] \in Nat
  BY DEF Incoming, TypeOK
<1>2. CASE late'[b] = 0
  BY <1>1, <1>2, WorkersFinite
<1>3. CASE states[b] # "Up" /\ late'[b] = late[b] /\ Incoming(b)' \in SUBSET Incoming(b)
  <2>1. Cardinality(Incoming(b)') <= Cardinality(Incoming(b))
    BY <1>1, <1>3, WorkersFinite, FS_Subset
  <2> QED
    BY <1>1, <1>3, <2>1, WorkersFinite DEF LateInv
<1>4. ASSUME NEW w \in Incoming(b), states[b] # "Up", late'[b] = late[b] + 1,
             Incoming(b)' = Incoming(b) \ {w}
      PROVE  late'[b] + Cardinality(Incoming(b)') <= Cardinality(Workers)
  <2>1. Cardinality(Incoming(b)') = Cardinality(Incoming(b)) - 1
    BY <1>1, <1>4, WorkersFinite, FS_RemoveElement
  <2> QED
    BY <1>1, <1>4, <2>1, WorkersFinite DEF LateInv
<1> QED
  BY <1>2, <1>3, <1>4 DEF Sums

\* A thread that returns is incoming nowhere, and no other thread is touched.
LEMMA ReturnIncoming ==
  ASSUME TypeOK, NEW t \in Threads, Return(t), NEW b \in Backends
  PROVE  Incoming(b)' = Incoming(b) \ {t}
BY ThreadsAssumption DEF TypeOK, Return, Goto, Incoming, Threads

\* Nor is one that goes on to anything but a connect.
LEMMA GotoIncoming ==
  ASSUME TypeOK, NEW t \in Threads, NEW label \in Labels \ {"connect"}, Goto(t, label),
         \A v \in Threads \ {t} : index'[v] = index[v], NEW b \in Backends
  PROVE  Incoming(b)' = Incoming(b) \ {t}
BY ThreadsAssumption DEF TypeOK, Goto, Incoming, Threads

\* set_state restarts the count or keeps it.
LEMMA SetStateLate ==
  ASSUME TypeOK, NEW c \in Backends, NEW s \in {"Up", "Down", "Draining"}, SetState(c, s),
         NEW b \in Backends, states'[b] # "Up"
  PROVE  late'[b] = 0 \/ (states[b] # "Up" /\ late'[b] = late[b])
BY DEF TypeOK, SetState

LEMMA StepSums ==
  ASSUME TypeOK, [Next]_vars, NEW b \in Backends, states'[b] # "Up"
  PROVE  Sums(b)
<1> USE ThreadsAssumption DEF Threads
<1>1. CASE UNCHANGED vars
  BY <1>1 DEF vars, Sums, Incoming
<1>2. ASSUME NEW c \in Backends, Drain(c) \/ Enable(c) \/ Flip(c) PROVE Sums(b)
  <2>1. Incoming(b)' = Incoming(b)
    BY <1>2 DEF Drain, Enable, Flip, Incoming
  <2>2. late'[b] = 0 \/ (states[b] # "Up" /\ late'[b] = late[b])
    BY <1>2, SetStateLate DEF Drain, Enable, Flip
  <2> QED
    BY <2>1, <2>2 DEF Sums
<1>3. ASSUME NEW p \in Pairs, Answer(p) PROVE Sums(b)
  BY <1>3 DEF Answer, Sums, Incoming
<1>4. ASSUME NEW w \in Workers, NEW c \in Backends, Select(w, c) PROVE Sums(b)
  <2>1. b # c /\ states[b] # "Up" /\ late'[b] = late[b]
    BY <1>4 DEF Select, Routable
  <2>2. Incoming(b)' = Incoming(b)
    BY <1>4, <2>1 DEF Select, Goto, Incoming, TypeOK
  <2> QED
    BY <2>1, <2>2 DEF Sums
<1>5. ASSUME NEW w \in Workers, NEW p \in Pairs,
             FinishConnect(w, p) \/ CloseOnFailure(w, p) \/ CloseQuietly(w, p)
      PROVE  Sums(b)
  <2>1. states[b] # "Up" /\ late'[b] = late[b]
    BY <1>5 DEF FinishConnect, CloseOnFailure, CloseQuietly
  <2>2. Incoming(b)' \in SUBSET Incoming(b)
    BY <1>5 DEF FinishConnect, CloseOnFailure, CloseQuietly, Goto, Incoming, TypeOK
  <2> QED
    BY <2>1, <2>2 DEF Sums
<1>6. ASSUME NEW w \in Workers, Connect(w) PROVE Sums(b)
  <2>1. states[b] # "Up" /\ Incoming(b)' = Incoming(b) \ {w}
    BY <1>6, ReturnIncoming DEF Connect
  <2>2. CASE index[w] = b
    BY <1>6, <2>1, <2>2 DEF Connect, Sums, Incoming, TypeOK
  <2>3. CASE index[w] # b
    BY <1>6, <2>1, <2>3 DEF Connect, Sums, Incoming, TypeOK
  <2> QED
    BY <2>2, <2>3
<1>7. ASSUME NEW w \in Workers, ConnectFails(w) PROVE Sums(b)
  <2>1. Incoming(b)' = Incoming(b) \ {w}
    BY <1>7, GotoIncoming DEF ConnectFails, Labels
  <2> QED
    BY <1>7, <2>1 DEF ConnectFails, Sums
<1>8. ASSUME NEW t \in Threads, Sequence(t) PROVE Sums(b)
  <2>1. Incoming(b)' = Incoming(b) \ {t}
    BY <1>8, ReturnIncoming, GotoIncoming
       DEF Sequence, RecordFailure, Compare, Eject, ResetFailures, ReadDown, Recover, Labels
  <2>2. late'[b] = 0 \/ (states[b] # "Up" /\ late'[b] = late[b])
    <3>1. index[t] \in Backends
      BY DEF TypeOK
    <3> QED
      BY <1>8, <3>1, SetStateLate
         DEF Sequence, RecordFailure, Compare, Eject, ResetFailures, ReadDown, Recover
  <2> QED
    BY <2>1, <2>2 DEF Sums
<1>9. CASE ReadState \/ Probe
  <2>1. Incoming(b)' = Incoming(b)
    BY <1>9 DEF ReadState, Probe, Return, Goto, Incoming, TypeOK
  <2> QED
    BY <1>9, <2>1 DEF ReadState, Probe, Sums
<1> QED
  BY <1>1, <1>2, <1>3, <1>4, <1>5, <1>6, <1>7, <1>8, <1>9
     DEF Next, Environment, Health, Handler, Event

\* Each worker brings at most one pair to a backend that has left Up.
THEOREM LateBoundedAlways == Spec => []LateBounded
<1>1. Init => LateInv
  BY DEF Init, LateInv
<1>2. ASSUME TypeOK, LateInv, [Next]_vars PROVE LateInv'
  BY <1>2, StepSums, SumsKeep DEF LateInv
<1>3. ASSUME TypeOK, LateInv PROVE LateBounded
  <2>1. \A b \in Backends : Cardinality(Incoming(b)) \in Nat
    BY WorkersFinite DEF Incoming
  <2> QED
    BY <1>3, <2>1, WorkersFinite DEF LateInv, LateBounded, TypeOK
<1> QED
  BY <1>1, <1>2, <1>3, TypeCorrect, PTL DEF Spec
=============================================================================
