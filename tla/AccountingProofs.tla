-------------------------- MODULE AccountingProofs --------------------------
(***************************************************************************)
(* Proofs, for any number of workers, connections and backends, that the   *)
(* gauges of module Accounting are exact.                                  *)
(*                                                                         *)
(* TypeOK and HeldOnce are inductive together. With them, a step either leaves the   *)
(* set of opened connections of a backend alone, or adds or removes the    *)
(* one in the worker's hand, and then active_ moves by one as well.        *)
(***************************************************************************)
EXTENDS Accounting, FiniteSetTheorems, TLAPS

\* Every action, as one worker takes it.
Step(w) ==
  \/ Opening(w) \/ Closing(w) \/ Leave(w) \/ Exit(w) \/ Fail(w)
  \/ \E c \in Conns : ClosePair(w, c) \/ \E b \in Backends : Attach(w, c, b)

LEMMA NextIsStep == Next <=> RequestStop \/ \E w \in Workers : Step(w)
BY DEF Next, Step

-----------------------------------------------------------------------------
\* A worker inside a handler has a connection in hand, paired with a backend.
LEMMA HandRouted ==
  ASSUME TypeOK, HeldOnce, NEW w \in Workers, pc[w] \notin Idle
  PROVE  conn[w] \in Conns /\ route[conn[w]] \in Backends
BY DEF TypeOK, HeldOnce, IsFresh

\* The type invariant is preserved; that of an access to a backend's gauge
\* needs to know that the connection in hand has one.
LEMMA TypeStep == TypeOK /\ HeldOnce /\ [Next]_vars => TypeOK'
<1> SUFFICES ASSUME TypeOK, HeldOnce, [Next]_vars PROVE TypeOK'
  OBVIOUS
<1> USE DEF Labels, Idle, OpenCounted, CloseGauged, CloseCounted
<1>0. ASSUME NEW w \in Workers, pc[w] \notin Idle
      PROVE  conn[w] \in Conns /\ route[conn[w]] \in Backends
  BY <1>0, HandRouted
<1>1. CASE UNCHANGED vars
  BY <1>1 DEF vars, gauges, locals, TypeOK
<1>2. CASE RequestStop
  BY <1>2 DEF RequestStop, gauges, locals, TypeOK
<1>3. ASSUME NEW w \in Workers, Opening(w) PROVE TypeOK'
  <2>1. CASE MarkOpen(w)
    BY <1>0, <2>1 DEF MarkOpen, Goto, TypeOK
  <2>2. CASE MarkTotal(w)
    BY <1>0, <2>2 DEF MarkTotal, Goto, TypeOK
  <2>3. CASE GaugeAdd(w)
    BY <2>3 DEF GaugeAdd, Goto, TypeOK
  <2>4. CASE CountTotal(w)
    BY <2>4 DEF CountTotal, Goto, TypeOK
  <2>5. CASE PeakLoad(w)
    BY <2>5 DEF PeakLoad, Goto, gauges, TypeOK
  <2>6. CASE PeakDone(w)
    BY <2>6 DEF PeakDone, Goto, gauges, TypeOK
  <2>7. CASE PeakCas(w)
    BY <2>7 DEF PeakCas, Goto, TypeOK
  <2>8. CASE PeakCasFails(w)
    BY <2>8 DEF PeakCasFails, CasFails, Reload, gauges, TypeOK
  <2>9. CASE Emplace(w)
    BY <1>0, <2>9 DEF Emplace, Emplaced, Return, Goto, gauges, TypeOK
  <2>10. CASE EmplaceThrows(w)
    BY <1>0, <2>10 DEF EmplaceThrows, Emplaced, Goto, gauges, TypeOK
  <2> QED
    BY <1>3, <2>1, <2>2, <2>3, <2>4, <2>5, <2>6, <2>7, <2>8, <2>9, <2>10 DEF Opening
<1>4. ASSUME NEW w \in Workers, Closing(w) PROVE TypeOK'
  <2>1. CASE ClosedLoad(w)
    BY <1>0, <2>1 DEF ClosedLoad, Goto, gauges, TypeOK
  <2>2. CASE ClosedCas(w)
    BY <1>0, <2>2 DEF ClosedCas, LoopEnds, StillExpected, Decremented, Goto, TypeOK
  <2>3. CASE ClosedCasFails(w)
    BY <1>0, <2>3 DEF ClosedCasFails, CasFails, Reload, gauges, TypeOK
  <2>4. CASE GaugeLoad(w)
    BY <2>4 DEF GaugeLoad, Goto, gauges, TypeOK
  <2>5. CASE GaugeCas(w)
    BY <2>5 DEF GaugeCas, LoopEnds, StillExpected, Decremented, Return, Goto, TypeOK
  <2>6. CASE GaugeCasFails(w)
    BY <2>6 DEF GaugeCasFails, CasFails, Reload, gauges, TypeOK
  <2> QED
    BY <1>4, <2>1, <2>2, <2>3, <2>4, <2>5, <2>6 DEF Closing
<1>5. ASSUME NEW w \in Workers, Leave(w) \/ Exit(w) \/ Fail(w) PROVE TypeOK'
  BY <1>5 DEF Leave, Exit, Fail, Goto, gauges, locals, TypeOK
<1>6. ASSUME NEW w \in Workers, NEW c \in Conns, ClosePair(w, c) PROVE TypeOK'
  BY <1>6 DEF ClosePair, Erased, Goto, gauges, TypeOK
<1>7. ASSUME NEW w \in Workers, NEW c \in Conns, NEW b \in Backends, Attach(w, c, b)
      PROVE TypeOK'
  BY <1>7 DEF Attach, Goto, gauges, TypeOK
<1> QED
  BY <1>1, <1>2, <1>3, <1>4, <1>5, <1>6, <1>7, NextIsStep DEF Step

-----------------------------------------------------------------------------
(* A connection is in one place.                                           *)

\* An access to a gauge moves no connection.
LEMMA AccessHolds ==
  ASSUME HeldOnce, UNCHANGED <<peers, route, conn>>,
         \A v \in Workers : /\ pc'[v] \in Idle <=> pc[v] \in Idle
                            /\ pc'[v] = "exited" => pc[v] = "exited"
  PROVE  HeldOnce'
BY DEF HeldOnce, IsFresh, NothingLeft

LEMMA HeldStep == TypeOK /\ HeldOnce /\ [Next]_vars => HeldOnce'
<1> SUFFICES ASSUME TypeOK, HeldOnce, [Next]_vars PROVE HeldOnce'
  OBVIOUS
<1> USE ConnsAssumption, BackendsAssumption
<1>1. CASE UNCHANGED vars
  BY <1>1, AccessHolds DEF vars, gauges, locals
<1>2. CASE RequestStop
  BY <1>2, AccessHolds DEF RequestStop, gauges, locals
<1>3. ASSUME NEW w \in Workers,
             \/ MarkOpen(w) \/ MarkTotal(w) \/ GaugeAdd(w) \/ CountTotal(w)
             \/ PeakLoad(w) \/ PeakDone(w) \/ PeakCas(w)
             \/ ClosedLoad(w) \/ ClosedCas(w) \/ GaugeLoad(w)
      PROVE  HeldOnce'
  <2>1. /\ UNCHANGED <<peers, route, conn>>
        /\ pc[w] \notin Idle
        /\ \E label \in Labels \ Idle : Goto(w, label)
    BY <1>3 DEF MarkOpen, MarkTotal, GaugeAdd, CountTotal, PeakLoad, PeakDone, PeakCas,
                ClosedLoad, ClosedCas, GaugeLoad, gauges,
                Labels, Idle, OpenCounted, CloseGauged, CloseCounted
  <2> QED
    BY <2>1, AccessHolds DEF Goto, TypeOK, Idle
<1>4. ASSUME NEW w \in Workers, PeakCasFails(w) \/ ClosedCasFails(w) \/ GaugeCasFails(w)
      PROVE  HeldOnce'
  BY <1>4, AccessHolds DEF PeakCasFails, ClosedCasFails, GaugeCasFails, CasFails
<1>5. ASSUME NEW w \in Workers, Emplace(w) \/ EmplaceThrows(w) PROVE HeldOnce'
  <2>1. /\ conn[w] \in Conns /\ ~ IsFresh(conn[w])
        /\ conn' = [conn EXCEPT ![w] = NoConn]
        /\ peers' = [peers EXCEPT ![w] = @ \cup {conn[w]}]
        /\ \E label \in Idle \ {"exited"} : pc' = [pc EXCEPT ![w] = label]
        /\ UNCHANGED route
    BY <1>5, HandRouted DEF Emplace, EmplaceThrows, Emplaced, Return, Goto, Idle, IsFresh
  <2> QED
    BY <2>1 DEF HeldOnce, TypeOK, IsFresh, NothingLeft, Idle
<1>6. ASSUME NEW w \in Workers, GaugeCas(w) PROVE HeldOnce'
  BY <1>6 DEF GaugeCas, Return, Goto, HeldOnce, TypeOK, IsFresh, NothingLeft, Idle
<1>7. ASSUME NEW w \in Workers, Leave(w) PROVE HeldOnce'
  BY <1>7, AccessHolds DEF Leave, locals
<1>8. ASSUME NEW w \in Workers, Exit(w) \/ Fail(w) PROVE HeldOnce'
  BY <1>8 DEF Exit, Fail, Goto, HeldOnce, TypeOK, IsFresh, NothingLeft, Idle
<1>9. ASSUME NEW w \in Workers, NEW c \in Conns, ClosePair(w, c) PROVE HeldOnce'
  BY <1>9 DEF ClosePair, Erased, Goto, HeldOnce, TypeOK, IsFresh, NothingLeft, Idle
<1>10. ASSUME NEW w \in Workers, NEW c \in Conns, NEW b \in Backends, Attach(w, c, b)
       PROVE  HeldOnce'
  BY <1>10 DEF Attach, InHand, Goto, HeldOnce, TypeOK, IsFresh, NothingLeft, Idle
<1> QED
  BY <1>1, <1>2, <1>3, <1>4, <1>5, <1>6, <1>7, <1>8, <1>9, <1>10, NextIsStep
     DEF Step, Opening, Closing

LEMMA InitHolds == Init => TypeOK /\ HeldOnce
<1>1. ASSUME Init PROVE TypeOK
  <2>1. pc \in [Workers -> Labels]
    BY <1>1 DEF Init, Labels, Idle
  <2>2. peers \in [Workers -> SUBSET Conns] /\ conn \in [Workers -> Conns \cup {NoConn}]
    BY <1>1 DEF Init
  <2>3. /\ route \in [Conns -> Backends \cup {NoBackend}]
        /\ active \in [Backends -> Nat] /\ total \in [Backends -> Nat]
        /\ value \in [Workers -> Nat] /\ current \in [Workers -> Nat]
    BY <1>1 DEF Init
  <2> QED
    BY <1>1, <2>1, <2>2, <2>3 DEF Init, TypeOK
<1>2. ASSUME Init PROVE HeldOnce
  <2>1. \A w \in Workers : conn[w] = NoConn /\ pc[w] = "loop" /\ peers[w] = {}
    BY <1>2 DEF Init
  <2> QED
    BY <2>1, ConnsAssumption DEF HeldOnce, NothingLeft, Idle
<1> QED
  BY <1>1, <1>2

\* Every variable of the gauges and of the workers keeps its type.
THEOREM TypeCorrect == Spec => []TypeOK
<1>1. TypeOK /\ HeldOnce /\ [Next]_vars => (TypeOK /\ HeldOnce)'
  BY TypeStep, HeldStep
<1> QED
  BY InitHolds, <1>1, PTL DEF Spec

\* No connection is ever in two places, so close_pair counts each one once.
THEOREM HeldOnceAlways == Spec => []HeldOnce
<1>1. TypeOK /\ HeldOnce /\ [Next]_vars => (TypeOK /\ HeldOnce)'
  BY TypeStep, HeldStep
<1> QED
  BY InitHolds, <1>1, PTL DEF Spec

-----------------------------------------------------------------------------
(* The gauges count what is in the workers' hands.                         *)

Counted == OpenCounted \cup CloseCounted
InGauge == OpenGauged \cup CloseGauged

\* A step that moves no connection and no worker into or out of the labels
\* where its connection counts leaves both sets of connections as they are.
LEMMA AccessKeeps ==
  ASSUME UNCHANGED <<peers, route, conn>>
  PROVE  /\ (\A v \in Workers : pc'[v] \in Counted <=> pc[v] \in Counted)
              => \A b \in Backends : Opened(b)' = Opened(b)
         /\ (\A v \in Workers : pc'[v] \in InGauge <=> pc[v] \in InGauge)
              => Gauged' = Gauged
BY DEF Opened, Gauged, At, Counted, InGauge

\* A gauge that moves with its set of connections stays its cardinality.
LEMMA Counting ==
  ASSUME NEW S \in SUBSET Conns, NEW T, NEW n, NEW m, n = Cardinality(S),
         \/ T = S /\ m = n
         \/ \E c \in Conns \ S : T = S \cup {c} /\ m = n + 1
         \/ \E c \in S : T = S \ {c} /\ m = n - 1
  PROVE  m = Cardinality(T)
BY ConnsAssumption, FS_Subset, FS_CardinalityType, FS_AddElement, FS_RemoveElement

\* A non-empty set of connections is counted as more than none.
LEMMA CountedPositive ==
  ASSUME NEW S \in SUBSET Conns, NEW c \in S
  PROVE  Cardinality(S) > 0
BY ConnsAssumption, FS_Subset, FS_CardinalityType, FS_EmptySet

\* A closing loop never meets a 0, neither before its load nor after it.
LoadedPositive ==
  \A w \in Workers : pc[w] \in {"closed_cas", "gauge_cas"} => current[w] > 0

LEMMA GaugePositive ==
  ASSUME TypeOK, HeldOnce, ActiveExact, GaugeExact, NEW w \in Workers
  PROVE  /\ pc[w] \in CloseCounted => active[route[conn[w]]] > 0
         /\ pc[w] \in CloseGauged => active_connections > 0
<1>1. ASSUME pc[w] \in CloseCounted PROVE active[route[conn[w]]] > 0
  <2>1. conn[w] \in Conns /\ route[conn[w]] \in Backends
    BY <1>1, HandRouted DEF CloseCounted, Idle
  <2>2. conn[w] \in Opened(route[conn[w]]) /\ Opened(route[conn[w]]) \in SUBSET Conns
    BY <1>1, <2>1 DEF Opened, At
  <2> QED
    BY <1>1, <2>1, <2>2, CountedPositive DEF ActiveExact
<1>2. ASSUME pc[w] \in CloseGauged PROVE active_connections > 0
  <2>1. conn[w] \in Conns
    BY <1>2, HandRouted DEF CloseGauged, CloseCounted, Idle
  <2>2. conn[w] \in Gauged /\ Gauged \in SUBSET Conns
    BY <1>2, <2>1 DEF Gauged, At
  <2> QED
    BY <1>2, <2>1, <2>2, CountedPositive DEF GaugeExact
<1> QED
  BY <1>1, <1>2

LEMMA LoadedStep ==
  ASSUME TypeOK, HeldOnce, ActiveExact, GaugeExact, LoadedPositive, [Next]_vars
  PROVE  LoadedPositive'
<1>1. CASE UNCHANGED vars \/ RequestStop
  BY <1>1 DEF LoadedPositive, RequestStop, vars, locals
<1> USE DEF Goto, LoadedPositive, TypeOK
<1>2. ASSUME NEW w \in Workers, Opening(w) PROVE LoadedPositive'
  <2>1. CASE PeakCasFails(w)
    BY <2>1 DEF PeakCasFails, CasFails, Reload
  <2>2. ASSUME ~ PeakCasFails(w)
        PROVE  \A v \in Workers :
                 \/ pc'[v] = pc[v] /\ current'[v] = current[v]
                 \/ pc'[v] \notin {"closed_cas", "gauge_cas"}
    BY <1>2, <2>2
       DEF Opening, MarkOpen, MarkTotal, GaugeAdd, CountTotal, PeakLoad, PeakDone, PeakCas,
           PeakCasFails, Emplace, EmplaceThrows, Return
  <2> QED
    BY <2>1, <2>2
<1>3. ASSUME NEW w \in Workers, Closing(w) PROVE LoadedPositive'
  <2> USE GaugePositive DEF CloseGauged, CloseCounted
  <2>1. CASE ClosedLoad(w)
    BY <2>1 DEF ClosedLoad
  <2>2. CASE ClosedCas(w)
    BY <2>2 DEF ClosedCas
  <2>3. CASE ClosedCasFails(w)
    BY <2>3 DEF ClosedCasFails, CasFails, Reload
  <2>4. CASE GaugeLoad(w)
    BY <2>4 DEF GaugeLoad
  <2>5. CASE GaugeCas(w)
    BY <2>5 DEF GaugeCas, Return
  <2>6. CASE GaugeCasFails(w)
    BY <2>6 DEF GaugeCasFails, CasFails, Reload
  <2> QED
    BY <1>3, <2>1, <2>2, <2>3, <2>4, <2>5, <2>6 DEF Closing
<1>4. ASSUME NEW w \in Workers, Leave(w) \/ Exit(w) \/ Fail(w) PROVE LoadedPositive'
  BY <1>4 DEF Leave, Exit, Fail, locals
<1>5. ASSUME NEW w \in Workers, NEW c \in Conns, ClosePair(w, c) PROVE LoadedPositive'
  BY <1>5 DEF ClosePair
<1>6. ASSUME NEW w \in Workers, NEW c \in Conns, NEW b \in Backends, Attach(w, c, b)
      PROVE LoadedPositive'
  BY <1>6 DEF Attach
<1> QED
  BY <1>1, <1>2, <1>3, <1>4, <1>5, <1>6, NextIsStep DEF Step

-----------------------------------------------------------------------------
(* Every step keeps the count of each backend exact.                       *)

\* What a step does to the opened connections of b and to their count.
ActiveMoves(b) ==
  \/ Opened(b)' = Opened(b) /\ active'[b] = active[b]
  \/ \E c \in Conns \ Opened(b) : Opened(b)' = Opened(b) \cup {c} /\ active'[b] = active[b] + 1
  \/ \E c \in Opened(b) : Opened(b)' = Opened(b) \ {c} /\ active'[b] = active[b] - 1

LEMMA ActiveMovesWithSet ==
  ASSUME TypeOK, HeldOnce, LoadedPositive, [Next]_vars, NEW b \in Backends
  PROVE  ActiveMoves(b)
<1> USE DEF Counted, OpenCounted, CloseCounted
<1>1. CASE UNCHANGED vars \/ RequestStop
  BY <1>1, AccessKeeps DEF RequestStop, vars, gauges, locals, ActiveMoves
<1>2. ASSUME NEW w \in Workers,
             \/ MarkTotal(w) \/ GaugeAdd(w) \/ CountTotal(w)
             \/ PeakLoad(w) \/ PeakDone(w) \/ PeakCas(w) \/ ClosedLoad(w) \/ GaugeLoad(w)
             \/ Leave(w) \/ Exit(w) \/ Fail(w)
             \/ PeakCasFails(w) \/ ClosedCasFails(w) \/ GaugeCasFails(w)
      PROVE  ActiveMoves(b)
  <2>1. UNCHANGED <<active, peers, route, conn>>
    BY <1>2 DEF MarkTotal, GaugeAdd, CountTotal, PeakLoad, PeakDone, PeakCas, ClosedLoad,
                GaugeLoad, Leave, Exit, Fail, PeakCasFails, ClosedCasFails, GaugeCasFails,
                CasFails, gauges, locals
  <2>2. \A v \in Workers : pc'[v] \in Counted <=> pc[v] \in Counted
    BY <1>2 DEF MarkTotal, GaugeAdd, CountTotal, PeakLoad, PeakDone, PeakCas, ClosedLoad,
                GaugeLoad, Leave, Exit, Fail, PeakCasFails, ClosedCasFails, GaugeCasFails,
                CasFails, locals, Goto, TypeOK
  <2> QED
    BY <2>1, <2>2, AccessKeeps DEF ActiveMoves
<1>3. ASSUME NEW w \in Workers, MarkOpen(w) PROVE ActiveMoves(b)
  <2>1. conn[w] \in Conns /\ route[conn[w]] \in Backends
    BY <1>3, HandRouted DEF MarkOpen, Idle
  <2>2. conn[w] \notin Opened(route[conn[w]])
    BY <1>3, <2>1, ConnsAssumption DEF MarkOpen, Opened, At, HeldOnce, TypeOK
  <2>3. CASE b = route[conn[w]]
    <3>1. Opened(b)' = Opened(b) \cup {conn[w]}
      BY <1>3, <2>1, <2>3 DEF MarkOpen, Goto, Opened, At, TypeOK
    <3> QED
      BY <1>3, <2>1, <2>2, <2>3, <3>1 DEF MarkOpen, ActiveMoves, TypeOK
  <2>4. CASE b # route[conn[w]]
    <3>1. Opened(b)' = Opened(b)
      BY <1>3, <2>1, <2>4 DEF MarkOpen, Goto, Opened, At, TypeOK
    <3> QED
      BY <1>3, <2>4, <3>1 DEF MarkOpen, ActiveMoves, TypeOK
  <2> QED
    BY <2>3, <2>4
<1>4. ASSUME NEW w \in Workers, ClosedCas(w) PROVE ActiveMoves(b)
  <2>1. conn[w] \in Conns /\ route[conn[w]] \in Backends
    BY <1>4, HandRouted DEF ClosedCas, Idle
  <2>2. conn[w] \in Opened(route[conn[w]])
    BY <1>4, <2>1 DEF ClosedCas, Opened, At
  <2>3. current[w] = active[route[conn[w]]] /\ current[w] > 0
    BY <1>4 DEF ClosedCas, LoadedPositive, LoopEnds, StillExpected, TypeOK
  <2>4. CASE b = route[conn[w]]
    <3>1. Opened(b)' = Opened(b) \ {conn[w]}
      BY <1>4, <2>1, <2>4, ConnsAssumption DEF ClosedCas, Goto, Opened, At, HeldOnce, TypeOK
    <3> QED
      BY <1>4, <2>1, <2>2, <2>3, <2>4, <3>1 DEF ClosedCas, Decremented, ActiveMoves, TypeOK
  <2>5. CASE b # route[conn[w]]
    <3>1. Opened(b)' = Opened(b)
      BY <1>4, <2>1, <2>5 DEF ClosedCas, Goto, Opened, At, TypeOK
    <3> QED
      BY <1>4, <2>5, <3>1 DEF ClosedCas, ActiveMoves, TypeOK
  <2> QED
    BY <2>4, <2>5
<1>5. ASSUME NEW w \in Workers, Emplace(w) \/ EmplaceThrows(w) PROVE ActiveMoves(b)
  <2>1. /\ conn[w] \in Conns /\ pc[w] = "emplace"
        /\ conn' = [conn EXCEPT ![w] = NoConn]
        /\ peers' = [peers EXCEPT ![w] = @ \cup {conn[w]}]
        /\ pc' = [pc EXCEPT ![w] = pc'[w]] /\ pc'[w] \in Idle
        /\ UNCHANGED <<route, active>>
    BY <1>5, HandRouted
       DEF Emplace, EmplaceThrows, Emplaced, Return, Goto, Idle, gauges, TypeOK
  <2>2. Opened(b)' = Opened(b)
    BY <2>1, ConnsAssumption DEF Opened, At, HeldOnce, TypeOK, Idle
  <2> QED
    BY <2>1, <2>2 DEF ActiveMoves
<1>6. ASSUME NEW w \in Workers, GaugeCas(w) PROVE ActiveMoves(b)
  <2>1. Opened(b)' = Opened(b)
    BY <1>6, ConnsAssumption DEF GaugeCas, Return, Goto, Opened, At, HeldOnce, TypeOK
  <2> QED
    BY <1>6, <2>1 DEF GaugeCas, ActiveMoves
<1>7. ASSUME NEW w \in Workers, NEW c \in Conns, ClosePair(w, c) PROVE ActiveMoves(b)
  <2>1. Opened(b)' = Opened(b)
    BY <1>7, ConnsAssumption DEF ClosePair, Erased, Goto, Opened, At, HeldOnce, TypeOK, Idle
  <2> QED
    BY <1>7, <2>1 DEF ClosePair, gauges, ActiveMoves
<1>8. ASSUME NEW w \in Workers, NEW c \in Conns, NEW d \in Backends, Attach(w, c, d)
      PROVE  ActiveMoves(b)
  <2>1. Opened(b)' = Opened(b)
    BY <1>8, ConnsAssumption, BackendsAssumption
       DEF Attach, InHand, IsFresh, Goto, Opened, At, HeldOnce, TypeOK, Idle
  <2> QED
    BY <1>8, <2>1 DEF Attach, gauges, ActiveMoves
<1> QED
  BY <1>1, <1>2, <1>3, <1>4, <1>5, <1>6, <1>7, <1>8, NextIsStep DEF Step, Opening, Closing

LEMMA ActiveStep ==
  ASSUME TypeOK, HeldOnce, ActiveExact, LoadedPositive, [Next]_vars
  PROVE  ActiveExact'
<1>1. ASSUME NEW b \in Backends PROVE active'[b] = Cardinality(Opened(b)')
  <2>1. active[b] = Cardinality(Opened(b)) /\ Opened(b) \in SUBSET Conns
    BY DEF ActiveExact, Opened
  <2> QED
    BY <2>1, Counting, ActiveMovesWithSet DEF ActiveMoves
<1> QED
  BY <1>1 DEF ActiveExact

-----------------------------------------------------------------------------
(* The same for the process-wide gauge.                                    *)

GaugeMoves ==
  \/ Gauged' = Gauged /\ active_connections' = active_connections
  \/ \E c \in Conns \ Gauged :
       Gauged' = Gauged \cup {c} /\ active_connections' = active_connections + 1
  \/ \E c \in Gauged : Gauged' = Gauged \ {c} /\ active_connections' = active_connections - 1

LEMMA GaugeMovesWithSet ==
  ASSUME TypeOK, HeldOnce, LoadedPositive, [Next]_vars
  PROVE  GaugeMoves
<1> USE DEF InGauge, OpenGauged, CloseGauged, CloseCounted
<1>1. CASE UNCHANGED vars \/ RequestStop
  BY <1>1, AccessKeeps DEF RequestStop, vars, gauges, locals, GaugeMoves
<1>2. ASSUME NEW w \in Workers,
             \/ MarkOpen(w) \/ MarkTotal(w) \/ CountTotal(w)
             \/ PeakLoad(w) \/ PeakDone(w) \/ PeakCas(w)
             \/ ClosedLoad(w) \/ ClosedCas(w) \/ GaugeLoad(w)
             \/ Leave(w) \/ Exit(w) \/ Fail(w)
             \/ PeakCasFails(w) \/ ClosedCasFails(w) \/ GaugeCasFails(w)
      PROVE  GaugeMoves
  <2>1. UNCHANGED <<active_connections, peers, route, conn>>
    BY <1>2 DEF MarkOpen, MarkTotal, CountTotal, PeakLoad, PeakDone, PeakCas, ClosedLoad,
                ClosedCas, GaugeLoad, Leave, Exit, Fail, PeakCasFails, ClosedCasFails,
                GaugeCasFails, CasFails, gauges, locals
  <2>2. \A v \in Workers : pc'[v] \in InGauge <=> pc[v] \in InGauge
    BY <1>2 DEF MarkOpen, MarkTotal, CountTotal, PeakLoad, PeakDone, PeakCas, ClosedLoad,
                ClosedCas, GaugeLoad, Leave, Exit, Fail, PeakCasFails, ClosedCasFails,
                GaugeCasFails, CasFails, locals, Goto, TypeOK
  <2> QED
    BY <2>1, <2>2, AccessKeeps DEF GaugeMoves
<1>3. ASSUME NEW w \in Workers, GaugeAdd(w) PROVE GaugeMoves
  <2>1. conn[w] \in Conns
    BY <1>3, HandRouted DEF GaugeAdd, Idle
  <2>2. conn[w] \notin Gauged
    BY <1>3, <2>1, ConnsAssumption DEF GaugeAdd, Gauged, At, HeldOnce, TypeOK
  <2>3. Gauged' = Gauged \cup {conn[w]}
    BY <1>3, <2>1 DEF GaugeAdd, Goto, Gauged, At, TypeOK
  <2> QED
    BY <1>3, <2>1, <2>2, <2>3 DEF GaugeAdd, GaugeMoves
<1>4. ASSUME NEW w \in Workers, GaugeCas(w) PROVE GaugeMoves
  <2>1. conn[w] \in Conns
    BY <1>4, HandRouted DEF GaugeCas, Idle
  <2>2. conn[w] \in Gauged
    BY <1>4, <2>1 DEF GaugeCas, Gauged, At
  <2>3. active_connections' = active_connections - 1
    BY <1>4 DEF GaugeCas, LoadedPositive, LoopEnds, StillExpected, Decremented, TypeOK
  <2>4. Gauged' = Gauged \ {conn[w]}
    BY <1>4, <2>1, ConnsAssumption DEF GaugeCas, Return, Goto, Gauged, At, HeldOnce, TypeOK
  <2> QED
    BY <2>2, <2>3, <2>4 DEF GaugeMoves
<1>5. ASSUME NEW w \in Workers, Emplace(w) \/ EmplaceThrows(w) PROVE GaugeMoves
  <2>1. /\ conn[w] \in Conns /\ pc[w] = "emplace"
        /\ conn' = [conn EXCEPT ![w] = NoConn]
        /\ peers' = [peers EXCEPT ![w] = @ \cup {conn[w]}]
        /\ pc' = [pc EXCEPT ![w] = pc'[w]] /\ pc'[w] \in Idle
        /\ UNCHANGED active_connections
    BY <1>5, HandRouted
       DEF Emplace, EmplaceThrows, Emplaced, Return, Goto, Idle, gauges, TypeOK
  <2>2. Gauged' = Gauged
    BY <2>1, ConnsAssumption DEF Gauged, At, HeldOnce, TypeOK, Idle
  <2> QED
    BY <2>1, <2>2 DEF GaugeMoves
<1>6. ASSUME NEW w \in Workers, NEW c \in Conns, ClosePair(w, c) PROVE GaugeMoves
  <2>1. Gauged' = Gauged
    BY <1>6, ConnsAssumption DEF ClosePair, Erased, Goto, Gauged, At, HeldOnce, TypeOK, Idle
  <2> QED
    BY <1>6, <2>1 DEF ClosePair, gauges, GaugeMoves
<1>7. ASSUME NEW w \in Workers, NEW c \in Conns, NEW b \in Backends, Attach(w, c, b)
      PROVE  GaugeMoves
  <2>1. Gauged' = Gauged
    BY <1>7, ConnsAssumption
       DEF Attach, InHand, Goto, Gauged, At, HeldOnce, TypeOK, Idle
  <2> QED
    BY <1>7, <2>1 DEF Attach, gauges, GaugeMoves
<1> QED
  BY <1>1, <1>2, <1>3, <1>4, <1>5, <1>6, <1>7, NextIsStep DEF Step, Opening, Closing

LEMMA GaugeStep ==
  ASSUME TypeOK, HeldOnce, GaugeExact, LoadedPositive, [Next]_vars
  PROVE  GaugeExact'
<1>1. active_connections = Cardinality(Gauged) /\ Gauged \in SUBSET Conns
  BY DEF GaugeExact, Gauged
<1>2. active_connections' = Cardinality(Gauged')
  BY <1>1, Counting, GaugeMovesWithSet DEF GaugeMoves
<1> QED
  BY <1>2 DEF GaugeExact

-----------------------------------------------------------------------------
\* The inductive invariant of the gauges.
CountsInv == TypeOK /\ HeldOnce /\ ActiveExact /\ GaugeExact /\ LoadedPositive

LEMMA CountsInvariant == Spec => []CountsInv
<1>1. ASSUME Init PROVE CountsInv
  <2>1. TypeOK /\ HeldOnce /\ LoadedPositive
    BY <1>1, InitHolds DEF Init, LoadedPositive
  <2>2. ASSUME NEW b \in Backends PROVE Opened(b) = {}
    BY <1>1 DEF Init, Opened, At, OpenCounted, CloseCounted
  <2>3. Gauged = {}
    BY <1>1 DEF Init, Gauged, At, OpenGauged, CloseGauged, CloseCounted
  <2>4. ActiveExact
    BY <1>1, <2>2, FS_EmptySet DEF ActiveExact, Init
  <2>5. GaugeExact
    BY <1>1, <2>3, FS_EmptySet DEF GaugeExact, Init
  <2> QED
    BY <2>1, <2>4, <2>5 DEF CountsInv
<1>2. CountsInv /\ [Next]_vars => CountsInv'
  BY TypeStep, HeldStep, ActiveStep, GaugeStep, LoadedStep DEF CountsInv
<1> QED
  BY <1>1, <1>2, PTL DEF Spec

\* The count a backend is routed by is the number of pairs open to it, for
\* any number of workers that race on it.
THEOREM ActiveExactAlways == Spec => []ActiveExact
BY CountsInvariant, PTL DEF CountsInv

\* So is the process-wide gauge, over all backends.
THEOREM GaugeExactAlways == Spec => []GaugeExact
BY CountsInvariant, PTL DEF CountsInv

\* The clamp at zero of the two closing loops is never what ends them.
THEOREM NeverClampedAlways == Spec => []NeverClamped
<1>1. CountsInv => NeverClamped
  BY GaugePositive DEF CountsInv, NeverClamped, LoadedPositive, CloseGauged, CloseCounted
<1> QED
  BY <1>1, CountsInvariant, PTL

\* Once every worker has shut down nothing is counted any more.
THEOREM ZeroAtExitAlways == Spec => []ZeroAtExit
<1>1. ASSUME CountsInv, \A w \in Workers : pc[w] = "exited"
      PROVE  active_connections = 0 /\ \A b \in Backends : active[b] = 0
  <2>1. Gauged = {} /\ \A b \in Backends : Opened(b) = {}
    BY <1>1 DEF CountsInv, HeldOnce, NothingLeft, Gauged, Opened, At,
                OpenGauged, OpenCounted, CloseGauged, CloseCounted
  <2> QED
    BY <1>1, <2>1, FS_EmptySet DEF CountsInv, ActiveExact, GaugeExact
<1>2. CountsInv => ZeroAtExit
  BY <1>1 DEF ZeroAtExit
<1> QED
  BY <1>2, CountsInvariant, PTL

-----------------------------------------------------------------------------
(* The recorded peak.                                                      *)

Updating == {"count_total", "peak_load", "peak_cas"}

\* The highest value of the gauge is recorded, or a worker that has seen it is
\* on its way to record it; and an expected value is never above the peak,
\* because the peak only grows.
PeakInv ==
  /\ peak_connections <= highest
  /\ \A w \in Workers : value[w] <= highest
  /\ \A w \in Workers : pc[w] = "peak_cas" => current[w] <= peak_connections
  /\ highest <= peak_connections \/ \E w \in Workers : pc[w] \in Updating /\ highest <= value[w]

LEMMA PeakStep ==
  ASSUME TypeOK, PeakInv, [Next]_vars
  PROVE  PeakInv'
<1> USE DEF PeakInv, TypeOK, Updating
<1>1. CASE UNCHANGED vars \/ RequestStop
  BY <1>1 DEF RequestStop, vars, gauges, locals
<1>2. ASSUME NEW w \in Workers, GaugeAdd(w) PROVE PeakInv'
  <2>1. highest' \in Nat /\ highest <= highest' /\ value'[w] <= highest'
    BY <1>2 DEF GaugeAdd
  <2>2. highest' = highest \/ highest' = value'[w]
    BY <1>2 DEF GaugeAdd
  <2>3. /\ pc' = [pc EXCEPT ![w] = "count_total"] /\ pc[w] = "gauge_add"
        /\ \A v \in Workers \ {w} : value'[v] = value[v]
        /\ UNCHANGED <<peak_connections, current>>
    BY <1>2 DEF GaugeAdd, Goto
  <2> QED
    BY <2>1, <2>2, <2>3
<1>3. ASSUME NEW w \in Workers, CountTotal(w) PROVE PeakInv'
  BY <1>3 DEF CountTotal, Goto
<1>4. ASSUME NEW w \in Workers, PeakLoad(w) PROVE PeakInv'
  BY <1>4 DEF PeakLoad, Goto, gauges
<1>5. ASSUME NEW w \in Workers, PeakDone(w) PROVE PeakInv'
  BY <1>5 DEF PeakDone, Goto, gauges
<1>6. ASSUME NEW w \in Workers, PeakCas(w) PROVE PeakInv'
  <2>1. peak_connections <= peak_connections' /\ peak_connections' = value[w]
    BY <1>6 DEF PeakCas, StillExpected
  <2> QED
    BY <1>6, <2>1 DEF PeakCas, Goto
<1>7. ASSUME NEW w \in Workers, PeakCasFails(w) PROVE PeakInv'
  BY <1>7 DEF PeakCasFails, CasFails, Reload, gauges
<1>8. ASSUME NEW w \in Workers,
             \/ MarkOpen(w) \/ MarkTotal(w) \/ Closing(w) \/ Leave(w) \/ Exit(w) \/ Fail(w)
             \/ Emplace(w) \/ EmplaceThrows(w)
             \/ \E c \in Conns : ClosePair(w, c) \/ \E b \in Backends : Attach(w, c, b)
      PROVE  PeakInv'
  <2>1. /\ UNCHANGED <<peak_connections, highest>>
        /\ \A v \in Workers : value'[v] = value[v] \/ value'[v] = 0
    BY <1>8 DEF MarkOpen, MarkTotal, Closing, Leave, Exit, Fail, Emplace, EmplaceThrows,
                ClosePair, Attach, ClosedLoad, ClosedCas, ClosedCasFails, GaugeLoad,
                GaugeCas, GaugeCasFails, CasFails, Return, gauges, locals
  <2>2. ASSUME NEW v \in Workers \ {w}
        PROVE  pc'[v] = pc[v] /\ current'[v] = current[v] /\ value'[v] = value[v]
    BY <1>8 DEF MarkOpen, MarkTotal, Closing, Leave, Exit, Fail, Emplace, EmplaceThrows,
                ClosePair, Attach, ClosedLoad, ClosedCas, ClosedCasFails, GaugeLoad,
                GaugeCas, GaugeCasFails, CasFails, Reload, Return, Goto, gauges, locals
  <2>3. pc[w] \notin Updating /\ pc'[w] \notin Updating
    BY <1>8 DEF MarkOpen, MarkTotal, Closing, Leave, Exit, Fail, Emplace, EmplaceThrows,
                ClosePair, Attach, ClosedLoad, ClosedCas, ClosedCasFails, GaugeLoad,
                GaugeCas, GaugeCasFails, CasFails, Return, Goto, gauges, locals
  <2> QED
    BY <2>1, <2>2, <2>3
<1> QED
  BY <1>1, <1>2, <1>3, <1>4, <1>5, <1>6, <1>7, <1>8, NextIsStep DEF Step, Opening

\* The recorded peak is the highest number of connections there ever was, as
\* soon as no worker is still recording.
THEOREM PeakExactAlways == Spec => []PeakExact
<1>1. Init => PeakInv
  BY DEF Init, PeakInv
<1>2. TypeOK /\ PeakInv /\ [Next]_vars => PeakInv'
  BY PeakStep
<1>3. TypeOK /\ PeakInv => PeakExact
  BY DEF TypeOK, PeakInv, PeakExact, Updating
<1> QED
  BY <1>1, <1>2, <1>3, TypeCorrect, PTL DEF Spec

=============================================================================
