--------------------------- MODULE SelectionProofs ---------------------------
(***************************************************************************)
(* Proofs about Selection: type correctness, and the safety invariants of  *)
(* the scheduler under concurrent calls, for every number of workers,      *)
(* backends, tickets and calls.                                            *)
(*                                                                         *)
(* WalkInv says what each worker's unfinished call has established about   *)
(* the backends it has passed; RotationInv how far apart the backends may  *)
(* be in the rotation; LoadsInv how far the loads may still be driven      *)
(* apart by the comparisons that are under way.                            *)
(***************************************************************************)
EXTENDS Selection, Integers, FiniteSetTheorems, TLAPS

Draws == DOMAIN Tests \cup {"draw", "take_first", "take_second", "load_first", "load_second"}
Comparing == {"scan_load", "scan_compare"}
Scanning == Comparing \cup {"scan"}

\* Each policy has its own part of select: only the scan serves two.
PolicyOf(w) ==
  /\ pc[w] \in Draws => policy = "power-of-two-choices"
  /\ pc[w] \in {"ticket", "rotate"} => policy = "round-robin"
  /\ pc[w] \in Scanning => policy # "round-robin"

\* Where a call stands.
PlaceOf(w) ==
  /\ pc[w] \in Draws \cup {"idle", "ticket", "selected"} => at[w] = 0
  /\ pc[w] \notin Scanning \cup {"selected"} => chosen[w] = NoBackend
  /\ pc[w] \in Comparing => at[w] < NumBackends /\ chosen[w] # NoBackend
  /\ pc[w] \in DOMAIN Tests => attempts[w] < 2 * NumBackends

\* What a call has witnessed covers what is the case now.
WitnessedBy(w) == pc[w] # "idle" => up \subseteq seenUp[w] /\ Backends \ up \subseteq seenOff[w]

\* The scan selects, and compares, only what it saw Up, and passes over only what it saw not Up.
ScanOf(w) ==
  /\ pc[w] \in Scanning /\ chosen[w] # NoBackend => chosen[w] \in seenUp[w]
  /\ pc[w] \in Comparing => at[w] \in seenUp[w]
  /\ pc[w] \in Scanning /\ chosen[w] = NoBackend
       => \A b \in Backends : b < at[w] => b \in seenOff[w]

\* The rotation passes over only what it saw not Up, as long as no ticket overflows.
RotationOf(w) ==
  pc[w] = "rotate" /\ ~ Overflows
    => /\ ticket[w] <= next
       /\ \A o \in Nat : o < at[w] => (ticket[w] + o) % NumBackends \in seenOff[w]

\* What a finished call returned.
ResultOf(w) ==
  pc[w] = "selected"
    => /\ chosen[w] = NoBackend /\ ~ Overflows => seenOff[w] = Backends
       /\ chosen[w] # NoBackend /\ policy # "power-of-two-choices" => chosen[w] \in seenUp[w]

WalkOf(w) ==
  PolicyOf(w) /\ PlaceOf(w) /\ WitnessedBy(w) /\ ScanOf(w) /\ RotationOf(w) /\ ResultOf(w)
WalkInv == \A w \in Workers : WalkOf(w)

-----------------------------------------------------------------------------
\* The calls that hold a ticket for b, and how often b was or will be picked.
Pending(b) == {w \in Workers : pc[w] = "rotate" /\ ticket[w] % NumBackends = b}
Turns(b) == picks[b] + Cardinality(Pending(b))

\* How many tickets are drawn before b is next.
Wait(b) ==
  LET r == next % NumBackends IN IF r <= b THEN b - r ELSE b + NumBackends - r

\* While all are Up, no call goes beyond its ticket, a backend that waits longer
\* has had its turn at most once more often, and one that waits shorter never.
SteadyUp == steady => up = Backends
NoDetour == policy = "round-robin" /\ steady => \A w \in Workers : at[w] = 0
Balance ==
  policy = "round-robin" /\ steady
    => \A a, b \in Backends :
         /\ Turns(a) <= Turns(b) + 1 + wraps
         /\ Wait(a) <= Wait(b) => Turns(a) <= Turns(b) + wraps

RotationInv == SteadyUp /\ NoDetour /\ Balance

-----------------------------------------------------------------------------
Low(x) == {b \in Backends : active[b] <= x}
High(x) == {b \in Backends : x < active[b]}

\* The scan of w will end at a backend with a load of x or less: it has selected
\* one, has one still before it, or has loaded nothing that hides it from a
\* comparison with one.
HeadsLow(w, x) ==
  \/ pc[w] = "idle"
  \/ pc[w] = "selected" /\ chosen[w] \in Low(x)
  \/ pc[w] \in {"scan", "scan_load"} /\ (chosen[w] \in Low(x) \/ \E b \in Low(x) : at[w] <= b)
  \/ pc[w] = "scan_compare" /\ \E b \in Low(x) : at[w] < b
  \/ /\ pc[w] = "scan_compare" /\ (at[w] \in Low(x) \/ chosen[w] \in Low(x))
     /\ held[w].load <= x => held[w].of \in Low(x)
Stray(x) == {w \in Workers : ~ HeadsLow(w, x)}

\* Loads only grow, so an operand that is held is out of date in one direction.
HeldOld == \A w \in Workers : pc[w] = "scan_compare" => held[w].load <= active[held[w].of]

\* As long as some loads are at most x and others above it, one of these is so
\* near that it stays so even if all the workers that stray open connections to it.
GapBounded(x) ==
  Low(x) # {} /\ High(x) # {}
    => \E c \in High(x) : active[c] + Cardinality(Stray(x)) <= x + Cardinality(Workers)

LoadsInv ==
  policy = "least-connections" /\ steady => HeldOld /\ \A x \in Nat : GapBounded(x)

-----------------------------------------------------------------------------
(* Remainders.                                                             *)

LEMMA RemainderInRange == \A n \in Nat, k \in Nat \ {0} : n % k \in 0 .. k - 1
OBVIOUS

LEMMA RemainderOfSmall == \A n \in Nat, k \in Nat \ {0} : n < k => n % k = n
OBVIOUS

LEMMA RemainderUnique ==
  \A k \in Nat \ {0} : \A q \in Nat, r \in 0 .. k - 1 : (k * q + r) % k = r
OBVIOUS

LEMMA Division ==
  ASSUME NEW n \in Nat, NEW k \in Nat \ {0}
  PROVE  n \div k \in Nat /\ n = k * (n \div k) + (n % k)
OBVIOUS

\* One more: the remainder moves on, or starts over.
LEMMA RemainderOfNext ==
  ASSUME NEW n \in Nat, NEW k \in Nat \ {0}
  PROVE  (n + 1) % k = IF (n % k) + 1 = k THEN 0 ELSE (n % k) + 1
<1> DEFINE q == n \div k
           r == n % k
<1>1. q \in Nat /\ r \in 0 .. k - 1 /\ n = k * q + r
  BY Division, RemainderInRange
<1> HIDE DEF q, r
<1>2. CASE r + 1 = k
  <2>1. n + 1 = k * (q + 1) + 0
    BY <1>1, <1>2
  <2>2. (k * (q + 1) + 0) % k = 0
    BY <1>1, RemainderUnique
  <2> QED
    BY <1>2, <2>1, <2>2 DEF r
<1>3. CASE r + 1 # k
  <2>1. n + 1 = k * q + (r + 1) /\ r + 1 \in 0 .. k - 1
    BY <1>1, <1>3
  <2>2. (k * q + (r + 1)) % k = r + 1
    BY <1>1, <2>1, RemainderUnique
  <2> QED
    BY <1>3, <2>1, <2>2 DEF r
<1> QED
  BY <1>2, <1>3

\* As many numbers in a row as there are remainders yield each of them.
LEMMA EachRemainderInARow ==
  ASSUME NEW n \in Nat, NEW k \in Nat \ {0}, NEW b \in 0 .. k - 1
  PROVE  \E o \in 0 .. k - 1 : (n + o) % k = b
<1> DEFINE q == n \div k
           r == n % k
<1>1. q \in Nat /\ r \in 0 .. k - 1 /\ n = k * q + r
  BY Division, RemainderInRange
<1> HIDE DEF q, r
<1>2. CASE r <= b
  <2>1. b - r \in 0 .. k - 1 /\ n + (b - r) = k * q + b
    BY <1>1, <1>2
  <2> QED
    BY <1>1, <2>1, RemainderUnique
<1>3. CASE b < r
  <2>1. b + k - r \in 0 .. k - 1 /\ n + (b + k - r) = k * (q + 1) + b
    BY <1>1, <1>3
  <2>2. (k * (q + 1) + b) % k = b
    BY <1>1, RemainderUnique
  <2> QED
    BY <2>1, <2>2
<1> QED
  BY <1>1, <1>2, <1>3

-----------------------------------------------------------------------------
LEMMA NextTicketInRange ==
  ASSUME NEW t \in 0 .. TicketSpan - 1
  PROVE  NextTicket(t) \in 0 .. TicketSpan - 1
BY SizesAssumption, RemainderInRange DEF NextTicket

\* fetch_add counts on, or starts over behind the last value of a size_t.
LEMMA NextTicketIs ==
  ASSUME NEW t \in 0 .. TicketSpan - 1
  PROVE  NextTicket(t) = IF t + 1 = TicketSpan THEN 0 ELSE t + 1
<1>1. t \in Nat /\ TicketSpan \in Nat \ {0} /\ t % TicketSpan = t
  BY SizesAssumption, RemainderOfSmall
<1>2. (t + 1) % TicketSpan = IF (t % TicketSpan) + 1 = TicketSpan THEN 0 ELSE (t % TicketSpan) + 1
  BY <1>1, RemainderOfNext
<1> QED
  BY <1>1, <1>2 DEF NextTicket

LEMMA IndexInRange ==
  ASSUME TypeOK, NEW w \in Workers
  PROVE  IndexOf(w) \in Backends
<1>1. ticket[w] \in Nat /\ at[w] \in Nat
  BY DEF TypeOK
<1>2. ticket[w] + at[w] \in Nat /\ TicketSpan \in Nat \ {0} /\ NumBackends \in Nat \ {0}
  BY <1>1, SizesAssumption
<1>3. (ticket[w] + at[w]) % TicketSpan \in Nat
  BY <1>2, RemainderInRange
<1> QED
  BY <1>2, <1>3, RemainderInRange DEF Backends, IndexOf

LEMMA ZeroIsBackend == 0 \in Backends /\ Backends \subseteq Nat /\ NoBackend \notin Backends
BY SizesAssumption DEF Backends

\* The tests of an attempt end in one of them, a new attempt, or a choice.
LEMMA TestsLead ==
  ASSUME NEW l \in DOMAIN Tests
  PROVE  /\ l \in Labels /\ l # "idle" /\ l \in Draws
         /\ Tests[l].up \in Draws \ {"draw"} /\ Tests[l].off \in Draws
         /\ Tests[l].up \in Labels /\ Tests[l].off \in Labels
BY DEF Tests, Labels, Draws

LEMMA PositionAdvances ==
  ASSUME NEW n \in 0 .. NumBackends, n < NumBackends
  PROVE  n \in Backends /\ n + 1 \in 0 .. NumBackends
BY SizesAssumption DEF Backends

\* What Return leaves behind.
LEMMA ReturnTyped ==
  ASSUME TypeOK, NEW w \in Workers, NEW b \in Backends \cup {NoBackend}, Return(w, b)
  PROVE  TypeOK'
<1> USE DEF TypeOK, Return, Goto, shared, seen
<1>1. /\ pc' \in [Workers -> Labels]
      /\ chosen' \in [Workers -> Backends \cup {NoBackend}]
  BY DEF Labels
<1>2. /\ ticket' \in [Workers -> 0 .. TicketSpan - 1]
      /\ at' \in [Workers -> 0 .. NumBackends]
      /\ attempts' \in [Workers -> 0 .. 2 * NumBackends]
  BY SizesAssumption
<1>3. /\ first' \in [Workers -> Backends] /\ second' \in [Workers -> Backends]
      /\ held' \in [Workers -> [of : Backends, load : Nat]]
  BY ZeroIsBackend DEF Nothing
<1>4. picks' \in [Backends -> Nat]
  OBVIOUS
<1> QED
  BY <1>1, <1>2, <1>3, <1>4

-----------------------------------------------------------------------------
\* The parts of the walk that keep each operation's indices legal.
Walking == \A w \in Workers : PlaceOf(w)

LEMMA CallTyped ==
  ASSUME TypeOK, NEW w \in Workers, Call(w)
  PROVE  TypeOK'
<1> USE DEF TypeOK, Call, Goto, shared, tally
<1>1. calls' \in 0 .. MaxCalls
  BY BoundAssumption
<1>2. pc' \in [Workers -> Labels]
  BY DEF Labels
<1>3. seenUp' \in [Workers -> SUBSET Backends] /\ seenOff' \in [Workers -> SUBSET Backends]
  OBVIOUS
<1> QED
  BY <1>1, <1>2, <1>3

LEMMA RotateTyped ==
  ASSUME TypeOK, NEW w \in Workers, TakeTicket(w) \/ RotateTakes(w) \/ RotateSkips(w) \/ RotateEnds(w)
  PROVE  TypeOK'
<1>1. CASE TakeTicket(w)
  <2> USE DEF TypeOK, TakeTicket, Goto, seen
  <2>1. next' \in 0 .. TicketSpan - 1 /\ wraps' \in Nat
    BY <1>1, NextTicketInRange
  <2>2. pc' \in [Workers -> Labels]
    BY <1>1 DEF Labels
  <2> QED
    BY <1>1, <2>1, <2>2
<1>2. CASE RotateTakes(w)
  <2>1. IndexOf(w) \in Backends
    BY IndexInRange
  <2> QED
    BY <1>2, <2>1, ReturnTyped DEF RotateTakes
<1>3. CASE RotateSkips(w)
  BY <1>3, SizesAssumption DEF TypeOK, RotateSkips, shared, seen, tally
<1>4. CASE RotateEnds(w)
  BY <1>4, ReturnTyped DEF RotateEnds
<1> QED
  BY <1>1, <1>2, <1>3, <1>4

LEMMA DrawsTyped ==
  ASSUME TypeOK, Walking, NEW w \in Workers,
         Draw(w) \/ GiveUpDrawing(w) \/ Test(w) \/ TakeOne(w) \/ LoadFirst(w) \/ LoadSecond(w)
  PROVE  TypeOK'
<1> USE DEF shared, seen, tally, Goto
<1>1. CASE Draw(w)
  <2>1. first' \in [Workers -> Backends] /\ second' \in [Workers -> Backends]
    BY <1>1 DEF TypeOK, Draw
  <2>2. pc' \in [Workers -> Labels]
    BY <1>1 DEF TypeOK, Draw, Labels, Tests
  <2> QED
    BY <1>1, <2>1, <2>2 DEF TypeOK, Draw
<1>2. CASE GiveUpDrawing(w)
  BY <1>2 DEF TypeOK, GiveUpDrawing, Labels
<1>3. CASE Test(w)
  <2>1. pc[w] \in DOMAIN Tests /\ attempts[w] < 2 * NumBackends
    BY <1>3 DEF Test, Walking, PlaceOf
  <2>2. pc' \in [Workers -> Labels]
    BY <1>3, <2>1, TestsLead DEF TypeOK, Test
  <2>3. attempts' \in [Workers -> 0 .. 2 * NumBackends]
    BY <1>3, <2>1, SizesAssumption DEF TypeOK, Test
  <2> QED
    BY <1>3, <2>2, <2>3 DEF TypeOK, Test
<1>4. CASE TakeOne(w)
  BY <1>4, ReturnTyped DEF TypeOK, TakeOne
<1>5. CASE LoadFirst(w)
  <2>1. held' \in [Workers -> [of : Backends, load : Nat]]
    BY <1>5 DEF TypeOK, LoadFirst
  <2> QED
    BY <1>5, <2>1 DEF TypeOK, LoadFirst, Labels
<1>6. CASE LoadSecond(w)
  BY <1>6, ReturnTyped DEF TypeOK, LoadSecond
<1> QED
  BY <1>1, <1>2, <1>3, <1>4, <1>5, <1>6

LEMMA ScanTyped ==
  ASSUME TypeOK, Walking, NEW w \in Workers,
         \/ ScanSkips(w) \/ ScanFirst(w) \/ ScanUp(w) \/ ScanLoad(w) \/ ScanCompare(w) \/ ScanEnds(w)
  PROVE  TypeOK'
<1> USE DEF shared, seen, tally, Goto
<1>1. CASE ScanSkips(w)
  BY <1>1, SizesAssumption DEF TypeOK, ScanSkips
<1>2. CASE ScanFirst(w)
  <2>1. at[w] \in Backends /\ at[w] + 1 \in 0 .. NumBackends
    BY <1>2, PositionAdvances DEF TypeOK, ScanFirst
  <2> QED
    BY <1>2, <2>1 DEF TypeOK, ScanFirst
<1>3. CASE ScanUp(w)
  BY <1>3 DEF TypeOK, ScanUp, Labels
<1>4. CASE ScanLoad(w)
  <2>1. at[w] \in Backends /\ chosen[w] \in Backends
    BY <1>4, PositionAdvances DEF TypeOK, ScanLoad, Walking, PlaceOf, Comparing
  <2>2. held' \in [Workers -> [of : Backends, load : Nat]]
    BY <1>4, <2>1 DEF TypeOK, ScanLoad
  <2> QED
    BY <1>4, <2>2 DEF TypeOK, ScanLoad, Labels
<1>5. CASE ScanCompare(w)
  <2>1. at[w] \in Backends /\ at[w] + 1 \in 0 .. NumBackends
    BY <1>5, PositionAdvances DEF TypeOK, ScanCompare, Walking, PlaceOf, Comparing
  <2>2. held' \in [Workers -> [of : Backends, load : Nat]]
    BY <1>5, ZeroIsBackend DEF TypeOK, ScanCompare, Nothing
  <2>3. chosen' \in [Workers -> Backends \cup {NoBackend}] /\ at' \in [Workers -> 0 .. NumBackends]
    BY <1>5, <2>1 DEF TypeOK, ScanCompare
  <2> QED
    BY <1>5, <2>2, <2>3 DEF TypeOK, ScanCompare, Labels
<1>6. CASE ScanEnds(w)
  BY <1>6, ReturnTyped DEF TypeOK, ScanEnds
<1> QED
  BY <1>1, <1>2, <1>3, <1>4, <1>5, <1>6

LEMMA LeaveTyped ==
  ASSUME TypeOK, NEW w \in Workers, Open(w) \/ TurnAway(w)
  PROVE  TypeOK'
<1> USE DEF TypeOK, Leave, Goto, tally
<1>1. active' \in [Backends -> Nat]
  BY DEF Open, TurnAway
<1>2. Leave(w)
  BY DEF Open, TurnAway
<1>3. pc' \in [Workers -> Labels] /\ chosen' \in [Workers -> Backends \cup {NoBackend}]
  BY <1>2 DEF Labels
<1>4. seenUp' \in [Workers -> SUBSET Backends] /\ seenOff' \in [Workers -> SUBSET Backends]
  BY <1>2
<1> QED
  BY <1>1, <1>2, <1>3, <1>4

LEMMA SurroundingsTyped ==
  ASSUME TypeOK, NEW b \in Backends, Close(b) \/ TakeOut(b) \/ BringBack(b)
  PROVE  TypeOK'
<1> USE DEF TypeOK, locals, seen, tally
<1>1. CASE Close(b)
  <2>1. active' \in [Backends -> Nat]
    BY <1>1 DEF Close
  <2> QED
    BY <1>1, <2>1 DEF Close
<1>2. CASE TakeOut(b)
  BY <1>2 DEF TakeOut
<1>3. CASE BringBack(b)
  BY <1>3 DEF BringBack
<1> QED
  BY <1>1, <1>2, <1>3

LEMMA TypeStep == TypeOK /\ Walking /\ [Next]_vars => TypeOK'
<1> SUFFICES ASSUME TypeOK, Walking, [Next]_vars PROVE TypeOK'
  OBVIOUS
<1>1. CASE UNCHANGED vars
  BY <1>1 DEF vars, shared, locals, seen, tally, TypeOK
<1>2. ASSUME NEW w \in Workers, Select(w) PROVE TypeOK'
  BY <1>2, CallTyped, RotateTyped, DrawsTyped, ScanTyped DEF Select
<1>3. ASSUME NEW w \in Workers, Open(w) \/ TurnAway(w) PROVE TypeOK'
  BY <1>3, LeaveTyped
<1>4. ASSUME NEW b \in Backends, Close(b) \/ TakeOut(b) \/ BringBack(b) PROVE TypeOK'
  BY <1>4, SurroundingsTyped
<1> QED
  BY <1>1, <1>2, <1>3, <1>4 DEF Next

LEMMA TypeInit == Init => TypeOK
<1> SUFFICES ASSUME Init PROVE TypeOK
  OBVIOUS
<1> USE DEF Init, TypeOK
<1>1. pc \in [Workers -> Labels]
  BY DEF Labels
<1>2. /\ ticket \in [Workers -> 0 .. TicketSpan - 1] /\ at \in [Workers -> 0 .. NumBackends]
      /\ attempts \in [Workers -> 0 .. 2 * NumBackends] /\ calls \in 0 .. MaxCalls
  BY SizesAssumption, BoundAssumption
<1>3. /\ first \in [Workers -> Backends] /\ second \in [Workers -> Backends]
      /\ held \in [Workers -> [of : Backends, load : Nat]]
  BY ZeroIsBackend DEF Nothing
<1> QED
  BY <1>1, <1>2, <1>3

-----------------------------------------------------------------------------
(* WalkInv.                                                                *)

\* What a worker's call stands on.
CallSame(v) ==
  /\ pc'[v] = pc[v] /\ ticket'[v] = ticket[v] /\ at'[v] = at[v] /\ attempts'[v] = attempts[v]
  /\ held'[v] = held[v] /\ chosen'[v] = chosen[v] /\ seenUp'[v] = seenUp[v] /\ seenOff'[v] = seenOff[v]

\* next_ only grows until it overflows.
Onward == ~ Overflows' => ~ Overflows /\ next <= next'

LEMMA WalkUndisturbed ==
  ASSUME TypeOK, NEW v \in Workers, WalkOf(v), CallSame(v), UNCHANGED <<policy, up>>, Onward,
         TypeOK'
  PROVE  WalkOf(v)'
<1> USE DEF WalkOf, CallSame, Onward
<1>1. PolicyOf(v)' /\ PlaceOf(v)' /\ WitnessedBy(v)' /\ ScanOf(v)'
  BY DEF PolicyOf, PlaceOf, WitnessedBy, ScanOf
<1>2. RotationOf(v)'
  BY SizesAssumption DEF RotationOf, TypeOK
<1>3. ResultOf(v)'
  BY DEF ResultOf
<1> QED
  BY <1>1, <1>2, <1>3

\* The operations of a worker leave the others' calls alone.
LEMMA SelectFrame ==
  ASSUME TypeOK, NEW w \in Workers, Select(w) \/ Open(w) \/ TurnAway(w)
  PROVE  /\ UNCHANGED <<policy, up>>
         /\ UNCHANGED <<next, wraps>> \/ TakeTicket(w)
         /\ \A v \in Workers \ {w} : CallSame(v)
<1> USE DEF TypeOK, CallSame, shared, seen, tally, Goto
<1>1. CASE Call(w)
  BY <1>1 DEF Call
<1>2. CASE TakeTicket(w)
  BY <1>2 DEF TakeTicket
<1>3. CASE RotateTakes(w)
  BY <1>3 DEF RotateTakes, Return
<1>4. CASE RotateSkips(w)
  BY <1>4 DEF RotateSkips
<1>5. CASE RotateEnds(w)
  BY <1>5 DEF RotateEnds, Return
<1>6. CASE Draw(w)
  BY <1>6 DEF Draw
<1>7. CASE GiveUpDrawing(w)
  BY <1>7 DEF GiveUpDrawing
<1>8. CASE Test(w)
  BY <1>8 DEF Test
<1>9. CASE TakeOne(w)
  BY <1>9 DEF TakeOne, Return
<1>10. CASE LoadFirst(w)
  BY <1>10 DEF LoadFirst
<1>11. CASE LoadSecond(w)
  BY <1>11 DEF LoadSecond, Return
<1>12. CASE ScanSkips(w)
  BY <1>12 DEF ScanSkips
<1>13. CASE ScanFirst(w)
  BY <1>13 DEF ScanFirst
<1>14. CASE ScanUp(w)
  BY <1>14 DEF ScanUp
<1>15. CASE ScanLoad(w)
  BY <1>15 DEF ScanLoad
<1>16. CASE ScanCompare(w)
  BY <1>16 DEF ScanCompare
<1>17. CASE ScanEnds(w)
  BY <1>17 DEF ScanEnds, Return
<1>18. CASE Open(w) \/ TurnAway(w)
  BY <1>18 DEF Open, TurnAway, Leave
<1> QED
  BY <1>1, <1>2, <1>3, <1>4, <1>5, <1>6, <1>7, <1>8, <1>9, <1>10, <1>11, <1>12, <1>13, <1>14,
     <1>15, <1>16, <1>17, <1>18 DEF Select

LEMMA TicketOnward ==
  ASSUME TypeOK, NEW w \in Workers, UNCHANGED <<next, wraps>> \/ TakeTicket(w)
  PROVE  Onward
<1>1. CASE UNCHANGED <<next, wraps>>
  BY <1>1 DEF Onward, Overflows, TypeOK
<1>2. CASE TakeTicket(w)
  <2>1. wraps' = 0 => wraps = 0 /\ next <= next'
    BY <1>2, NextTicketInRange DEF TakeTicket, TypeOK
  <2> QED
    BY <2>1, <1>2, NextTicketInRange, SizesAssumption DEF TakeTicket, TypeOK, Onward, Overflows
<1> QED
  BY <1>1, <1>2

-----------------------------------------------------------------------------
\* The steps of a call of round-robin.
LEMMA WalkRotates ==
  ASSUME TypeOK, NEW w \in Workers, WalkOf(w), TypeOK',
         TakeTicket(w) \/ RotateTakes(w) \/ RotateSkips(w) \/ RotateEnds(w)
  PROVE  WalkOf(w)'
<1>0. /\ PolicyOf(w) /\ PlaceOf(w) /\ WitnessedBy(w) /\ ScanOf(w) /\ RotationOf(w) /\ ResultOf(w)
      /\ pc[w] \in {"ticket", "rotate"} /\ policy = "round-robin"
  BY DEF WalkOf, PolicyOf, TakeTicket, RotateTakes, RotateSkips, RotateEnds
<1>1. CASE TakeTicket(w)
  <2>1. pc'[w] = "rotate" /\ policy' = policy /\ up' = up /\ at'[w] = 0 /\ ticket'[w] = next
        /\ chosen'[w] = NoBackend /\ UNCHANGED seen
    BY <1>0, <1>1 DEF TakeTicket, Goto, TypeOK, PlaceOf, Scanning, Comparing
  <2>2. RotationOf(w)'
    BY <1>1, <2>1, TicketOnward DEF RotationOf, Onward, TypeOK
  <2>3. PolicyOf(w)' /\ PlaceOf(w)' /\ WitnessedBy(w)' /\ ScanOf(w)' /\ ResultOf(w)'
    BY <1>0, <2>1 DEF PolicyOf, PlaceOf, WitnessedBy, ScanOf, ResultOf, Draws, Tests, Scanning,
       Comparing, seen
  <2> QED
    BY <2>2, <2>3 DEF WalkOf
<1>2. CASE RotateTakes(w)
  <2>1. /\ IndexOf(w) \in Backends /\ IndexOf(w) # NoBackend /\ IndexOf(w) \in seenUp[w]
        /\ pc'[w] = "selected" /\ at'[w] = 0 /\ chosen'[w] = IndexOf(w) /\ UNCHANGED <<policy, up, seen>>
    <3>1. IndexOf(w) \in Backends
      BY IndexInRange
    <3>2. IndexOf(w) \in seenUp[w]
      BY <1>0, <1>2 DEF RotateTakes, Routable, WitnessedBy
    <3>3. /\ pc'[w] = "selected" /\ at'[w] = 0 /\ chosen'[w] = IndexOf(w)
          /\ UNCHANGED <<policy, up, seen>>
      BY <1>2 DEF RotateTakes, Return, Goto, TypeOK, shared
    <3> QED
      BY <3>1, <3>2, <3>3, ZeroIsBackend
  <2> QED
    BY <1>0, <2>1 DEF WalkOf, PolicyOf, PlaceOf, WitnessedBy, ScanOf, RotationOf, ResultOf, Draws,
       Tests, Scanning, Comparing, seen
<1>3. CASE RotateSkips(w)
  <2>1. /\ pc'[w] = "rotate" /\ at'[w] = at[w] + 1 /\ ticket'[w] = ticket[w]
        /\ chosen'[w] = NoBackend /\ UNCHANGED <<policy, up, next, seen, tally>>
    BY <1>0, <1>3 DEF RotateSkips, TypeOK, PlaceOf, Scanning, Comparing, shared
  <2>0. ticket[w] \in Nat /\ at[w] \in Nat
    BY SizesAssumption DEF TypeOK
  <2>2. ASSUME ~ Overflows, NEW o \in Nat, o < at[w] + 1
        PROVE  (ticket[w] + o) % NumBackends \in seenOff[w]
    <3>1. CASE o < at[w]
      BY <1>0, <1>3, <2>2, <3>1 DEF RotationOf, RotateSkips
    <3>2. CASE o = at[w]
      <4>1. ticket[w] + at[w] < TicketSpan /\ ticket[w] + at[w] \in Nat
        BY <1>0, <1>3, <2>2, SizesAssumption DEF RotationOf, RotateSkips, Overflows, TypeOK
      <4>2. (ticket[w] + at[w]) % TicketSpan = ticket[w] + at[w]
        BY <4>1, SizesAssumption, RemainderOfSmall
      <4>3. IndexOf(w) \in Backends /\ IndexOf(w) \notin up
        <5>1. IndexOf(w) \in Backends
          BY IndexInRange
        <5> QED
          BY <1>3, <5>1 DEF RotateSkips, Routable
      <4> QED
        BY <1>0, <1>3, <3>2, <4>2, <4>3 DEF IndexOf, WitnessedBy, RotateSkips
    <3> QED
      BY <2>0, <2>2, <3>1, <3>2
  <2>3. RotationOf(w)'
    BY <1>0, <1>3, <2>1, <2>2 DEF RotationOf, Overflows, tally, seen, RotateSkips
  <2>4. PolicyOf(w)' /\ PlaceOf(w)' /\ WitnessedBy(w)' /\ ScanOf(w)' /\ ResultOf(w)'
    BY <1>0, <2>1 DEF PolicyOf, PlaceOf, WitnessedBy, ScanOf, ResultOf, Draws, Tests, Scanning,
       Comparing, seen
  <2> QED
    BY <2>3, <2>4 DEF WalkOf
<1>4. CASE RotateEnds(w)
  <2>1. /\ pc'[w] = "selected" /\ at'[w] = 0 /\ chosen'[w] = NoBackend
        /\ UNCHANGED <<policy, up, next, seen, wraps>>
    BY <1>4 DEF RotateEnds, Return, Goto, TypeOK, shared
  <2>2. ~ Overflows => seenOff[w] = Backends
    <3> SUFFICES ASSUME ~ Overflows, NEW b \in Backends PROVE b \in seenOff[w]
      BY DEF TypeOK
    <3>1. ticket[w] \in Nat /\ NumBackends \in Nat \ {0} /\ b \in 0 .. NumBackends - 1
      BY SizesAssumption DEF TypeOK, Backends
    <3>2. PICK o \in 0 .. NumBackends - 1 : (ticket[w] + o) % NumBackends = b
      BY <3>1, EachRemainderInARow
    <3> QED
      BY <1>0, <1>4, <3>1, <3>2 DEF RotationOf, RotateEnds
  <2> QED
    BY <1>0, <2>1, <2>2 DEF WalkOf, PolicyOf, PlaceOf, WitnessedBy, ScanOf, RotationOf, ResultOf,
       Draws, Tests, Scanning, Comparing, seen, Overflows
<1> QED
  BY <1>1, <1>2, <1>3, <1>4

\* A call begins with what is the case, and ends when the worker turns to the connection.
LEMMA WalkBeginsAndEnds ==
  ASSUME TypeOK, NEW w \in Workers, WalkOf(w), Call(w) \/ Open(w) \/ TurnAway(w)
  PROVE  WalkOf(w)'
<1> USE DEF WalkOf, PolicyOf, PlaceOf, WitnessedBy, ScanOf, RotationOf, ResultOf, Draws, Tests,
        Scanning, Comparing, Goto, TypeOK
<1>1. CASE Call(w)
  <2>1. /\ pc'[w] \in {"ticket", "draw", "scan"} /\ UNCHANGED <<policy, up, at, chosen>>
        /\ seenUp'[w] = up /\ seenOff'[w] = Backends \ up
        /\ (pc'[w] = "ticket") = (policy = "round-robin")
        /\ pc'[w] = "draw" => policy = "power-of-two-choices"
    BY <1>1 DEF Call, shared, Policies
  <2>2. at[w] = 0 /\ chosen[w] = NoBackend
    BY <1>1 DEF Call
  <2> QED
    BY <2>1, <2>2, ZeroIsBackend
<1>2. CASE Open(w) \/ TurnAway(w)
  <2>1. pc'[w] = "idle" /\ chosen'[w] = NoBackend
    BY <1>2 DEF Open, TurnAway, Leave
  <2>2. at'[w] = 0
    BY <1>2 DEF Open, TurnAway, Leave
  <2> QED
    BY <2>1, <2>2
<1> QED
  BY <1>1, <1>2

\* The steps of a call of power-of-two-choices.
LEMMA WalkDraws ==
  ASSUME TypeOK, NEW w \in Workers, WalkOf(w),
         Draw(w) \/ GiveUpDrawing(w) \/ Test(w) \/ TakeOne(w) \/ LoadFirst(w) \/ LoadSecond(w)
  PROVE  WalkOf(w)'
<1>1. /\ PolicyOf(w) /\ PlaceOf(w) /\ WitnessedBy(w)
      /\ pc[w] \in Draws /\ policy = "power-of-two-choices" /\ at[w] = 0 /\ chosen[w] = NoBackend
      /\ pc[w] # "idle"
  BY DEF WalkOf, PolicyOf, PlaceOf, Draw, GiveUpDrawing, Test, TakeOne, LoadFirst, LoadSecond,
     Draws, Tests, Scanning, Comparing
<1>2. UNCHANGED <<policy, up, next, seen>>
  BY DEF Draw, GiveUpDrawing, Test, TakeOne, LoadFirst, LoadSecond, Return, shared, seen
<1>3. CASE pc'[w] \in Draws
  <2>1. at'[w] = 0 /\ chosen'[w] = NoBackend
    <3>1. CASE Draw(w) \/ GiveUpDrawing(w) \/ Test(w) \/ LoadFirst(w)
      <4>1. UNCHANGED <<at, chosen>>
        BY <3>1 DEF Draw, GiveUpDrawing, Test, LoadFirst
      <4> QED
        BY <1>1, <4>1
    <3>2. CASE TakeOne(w) \/ LoadSecond(w)
      <4>1. pc'[w] = "selected"
        BY <3>2 DEF TakeOne, LoadSecond, Return, Goto, TypeOK
      <4> QED
        BY <1>3, <4>1 DEF Draws, Tests
    <3> QED
      BY <3>1, <3>2
  <2>2. pc'[w] \in DOMAIN Tests => attempts'[w] < 2 * NumBackends
    <3>1. CASE Draw(w)
      BY <3>1 DEF Draw
    <3>2. CASE Test(w)
      <4>1. attempts[w] < 2 * NumBackends
        BY <1>1, <3>2 DEF Test, PlaceOf
      <4>2. pc'[w] # "draw" => attempts'[w] = attempts[w]
        BY <3>2 DEF Test, Goto, TypeOK
      <4>3. "draw" \notin DOMAIN Tests
        BY DEF Tests
      <4> QED
        BY <4>1, <4>2, <4>3
    <3>3. CASE GiveUpDrawing(w) \/ TakeOne(w) \/ LoadFirst(w) \/ LoadSecond(w)
      <4>1. pc'[w] \in {"scan", "selected", "load_second"}
        BY <3>3 DEF GiveUpDrawing, TakeOne, LoadFirst, LoadSecond, Return, Goto, TypeOK
      <4> QED
        BY <4>1 DEF Tests
    <3> QED
      BY <3>1, <3>2, <3>3
  <2>3. /\ pc'[w] # "idle" /\ pc'[w] # "ticket" /\ pc'[w] # "rotate" /\ pc'[w] \notin Scanning
        /\ pc'[w] # "selected"
    BY <1>3 DEF Draws, Tests, Scanning, Comparing
  <2> QED
    BY <1>1, <1>2, <1>3, <2>1, <2>2, <2>3 DEF WalkOf, PolicyOf, PlaceOf, WitnessedBy, ScanOf,
       RotationOf, ResultOf, seen, Draws, Scanning, Comparing
<1>4. CASE GiveUpDrawing(w)
  <2>1. pc'[w] = "scan" /\ at'[w] = 0 /\ chosen'[w] = NoBackend
    BY <1>1, <1>4 DEF GiveUpDrawing, Goto, TypeOK
  <2> QED
    BY <1>1, <1>2, <2>1, ZeroIsBackend DEF WalkOf, PolicyOf, PlaceOf, WitnessedBy, ScanOf,
       RotationOf, ResultOf, seen, Draws, Tests, Scanning, Comparing
<1>5. CASE TakeOne(w) \/ LoadSecond(w)
  <2>1. pc'[w] = "selected" /\ at'[w] = 0 /\ chosen'[w] \in Backends
    BY <1>5 DEF TakeOne, LoadSecond, Return, Goto, TypeOK
  <2> QED
    BY <1>1, <1>2, <2>1, ZeroIsBackend DEF WalkOf, PolicyOf, PlaceOf, WitnessedBy, ScanOf,
       RotationOf, ResultOf, seen, Draws, Tests, Scanning, Comparing
<1>6. CASE Draw(w) \/ Test(w) \/ LoadFirst(w)
  <2>1. pc'[w] \in Draws
    BY <1>6, TestsLead DEF Draw, Test, LoadFirst, Goto, TypeOK, Draws, Tests
  <2> QED
    BY <1>3, <2>1
<1> QED
  BY <1>4, <1>5, <1>6

\* The steps of the scan.
LEMMA WalkScans ==
  ASSUME TypeOK, NEW w \in Workers, WalkOf(w),
         \/ ScanSkips(w) \/ ScanFirst(w) \/ ScanUp(w) \/ ScanLoad(w) \/ ScanCompare(w) \/ ScanEnds(w)
  PROVE  WalkOf(w)'
<1>1. /\ PolicyOf(w) /\ PlaceOf(w) /\ WitnessedBy(w) /\ ScanOf(w)
      /\ pc[w] \in Scanning /\ policy # "round-robin" /\ at[w] \in 0 .. NumBackends
      /\ chosen[w] \in Backends \cup {NoBackend}
  BY DEF WalkOf, PolicyOf, ScanSkips, ScanFirst, ScanUp, ScanLoad, ScanCompare, ScanEnds, Scanning,
     Comparing, TypeOK
<1>2. UNCHANGED <<policy, up, next, seenUp, seenOff>>
  BY DEF ScanSkips, ScanFirst, ScanUp, ScanLoad, ScanCompare, ScanEnds, Return, shared, seen
<1>3. pc[w] # "idle" /\ pc'[w] \in Scanning \cup {"selected"}
  BY DEF ScanSkips, ScanFirst, ScanUp, ScanLoad, ScanCompare, ScanEnds, Return, Goto, TypeOK, Scanning,
     Comparing
<1>4. WitnessedBy(w)' /\ PolicyOf(w)' /\ RotationOf(w)'
  BY <1>1, <1>2, <1>3 DEF WitnessedBy, PolicyOf, RotationOf, Draws, Tests, Scanning, Comparing
<1>5. CASE ScanSkips(w)
  <2>1. /\ pc'[w] = "scan" /\ at'[w] = at[w] + 1 /\ chosen'[w] = chosen[w] /\ pc[w] = "scan"
        /\ at[w] \in Backends /\ at[w] \notin up
    BY <1>1, <1>5, PositionAdvances DEF ScanSkips, TypeOK, Routable
  <2>2. at[w] \in seenOff[w]
    BY <1>1, <1>3, <2>1 DEF WitnessedBy
  <2>3. ASSUME NEW b \in Backends, b < at[w] + 1 PROVE b < at[w] \/ b = at[w]
    BY <1>1, <2>3, ZeroIsBackend, SizesAssumption
  <2>4. ScanOf(w)'
    BY <1>1, <1>2, <2>1, <2>2, <2>3 DEF ScanOf, Scanning, Comparing
  <2> QED
    BY <1>4, <2>1, <2>4 DEF WalkOf, PlaceOf, ResultOf, Draws, Tests, Scanning, Comparing
<1>6. CASE ScanFirst(w)
  <2>1. /\ pc'[w] = "scan" /\ chosen'[w] = at[w] /\ at[w] \in Backends /\ at[w] \in up
    BY <1>1, <1>6, PositionAdvances DEF ScanFirst, TypeOK, Routable, shared
  <2>2. at[w] \in seenUp[w]
    BY <1>1, <1>3, <2>1 DEF WitnessedBy
  <2>3. ScanOf(w)'
    BY <1>2, <2>1, <2>2, ZeroIsBackend DEF ScanOf, Scanning, Comparing
  <2> QED
    BY <1>4, <2>1, <2>3 DEF WalkOf, PlaceOf, ResultOf, Draws, Tests, Scanning, Comparing
<1>7. CASE ScanUp(w)
  <2>1. /\ pc'[w] = "scan_load" /\ pc[w] = "scan" /\ at'[w] = at[w] /\ chosen'[w] = chosen[w]
        /\ chosen[w] # NoBackend /\ at[w] < NumBackends /\ at[w] \in up
    BY <1>7 DEF ScanUp, Goto, TypeOK, Routable
  <2>2. at[w] \in seenUp[w]
    BY <1>1, <1>3, <2>1 DEF WitnessedBy
  <2>3. ScanOf(w)'
    BY <1>1, <1>2, <2>1, <2>2 DEF ScanOf, Scanning, Comparing
  <2> QED
    BY <1>4, <2>1, <2>3 DEF WalkOf, PlaceOf, ResultOf, Draws, Tests, Scanning, Comparing
<1>8. CASE ScanLoad(w)
  <2>1. /\ pc'[w] = "scan_compare" /\ pc[w] = "scan_load" /\ at'[w] = at[w] /\ chosen'[w] = chosen[w]
    BY <1>8 DEF ScanLoad, Goto, TypeOK
  <2>2. ScanOf(w)'
    BY <1>1, <1>2, <2>1 DEF ScanOf, Scanning, Comparing
  <2> QED
    BY <1>1, <1>4, <2>1, <2>2 DEF WalkOf, PlaceOf, ResultOf, Draws, Tests, Scanning, Comparing
<1>9. CASE ScanCompare(w)
  <2>1. /\ pc'[w] = "scan" /\ pc[w] = "scan_compare" /\ chosen'[w] \in {at[w], chosen[w]}
        /\ at[w] \in Backends /\ chosen[w] # NoBackend
    BY <1>1, <1>9, PositionAdvances DEF ScanCompare, Goto, TypeOK, PlaceOf, Comparing
  <2>2. ScanOf(w)'
    BY <1>1, <1>2, <2>1, ZeroIsBackend DEF ScanOf, Scanning, Comparing
  <2> QED
    BY <1>4, <2>1, <2>2 DEF WalkOf, PlaceOf, ResultOf, Draws, Tests, Scanning, Comparing
<1>10. CASE ScanEnds(w)
  <2>1. /\ pc'[w] = "selected" /\ pc[w] = "scan" /\ chosen'[w] = chosen[w] /\ at[w] = NumBackends
        /\ at'[w] = 0
    BY <1>10 DEF ScanEnds, Return, Goto, TypeOK
  <2>2. chosen[w] = NoBackend => seenOff[w] = Backends
    <3>1. \A b \in Backends : b < at[w]
      BY <2>1, SizesAssumption DEF Backends
    <3> QED
      BY <1>1, <2>1, <3>1 DEF ScanOf, Scanning, TypeOK
  <2>3. ResultOf(w)'
    BY <1>1, <1>2, <2>1, <2>2 DEF ScanOf, Scanning, ResultOf
  <2> QED
    BY <1>4, <2>1, <2>3 DEF WalkOf, PlaceOf, ScanOf, Draws, Tests, Scanning, Comparing
<1> QED
  BY <1>5, <1>6, <1>7, <1>8, <1>9, <1>10

\* Ejection, recovery, drain and enable: the calls that are under way take note.
LEMMA WalkInSurroundings ==
  ASSUME TypeOK, NEW w \in Workers, WalkOf(w),
         NEW b \in Backends, Close(b) \/ TakeOut(b) \/ BringBack(b)
  PROVE  WalkOf(w)'
<1>1. /\ UNCHANGED <<policy, next, wraps, pc, ticket, at, attempts, chosen>>
      /\ seenUp[w] \subseteq seenUp'[w] /\ seenOff[w] \subseteq seenOff'[w]
      /\ seenUp'[w] \subseteq Backends /\ seenOff'[w] \subseteq Backends
  BY DEF TypeOK, Close, TakeOut, BringBack, locals, seen, tally
<1>2. WitnessedBy(w)'
  <2>1. CASE Close(b)
    BY <2>1 DEF Close, WalkOf, WitnessedBy, locals, seen
  <2>2. CASE TakeOut(b)
    BY <2>2 DEF TakeOut, WalkOf, WitnessedBy, TypeOK, locals
  <2>3. CASE BringBack(b)
    BY <2>3 DEF BringBack, WalkOf, WitnessedBy, TypeOK, locals
  <2> QED
    BY <2>1, <2>2, <2>3
<1>3. PolicyOf(w)' /\ PlaceOf(w)'
  BY <1>1 DEF WalkOf, PolicyOf, PlaceOf
<1>4. ScanOf(w)'
  BY <1>1 DEF WalkOf, ScanOf
<1>5. RotationOf(w)'
  BY <1>1 DEF WalkOf, RotationOf, Overflows
<1>6. ResultOf(w)'
  BY <1>1 DEF WalkOf, ResultOf, Overflows
<1> QED
  BY <1>2, <1>3, <1>4, <1>5, <1>6 DEF WalkOf

LEMMA WalkStep == TypeOK /\ WalkInv /\ [Next]_vars => WalkInv'
<1> SUFFICES ASSUME TypeOK, WalkInv, [Next]_vars, NEW v \in Workers PROVE WalkOf(v)'
  BY DEF WalkInv
<1>0. TypeOK' /\ WalkOf(v)
  BY TypeStep DEF WalkInv, WalkOf, Walking
<1>1. CASE UNCHANGED vars
  <2>1. CallSame(v) /\ UNCHANGED <<policy, up>> /\ UNCHANGED <<next, wraps>>
    BY <1>1 DEF vars, shared, locals, seen, tally, CallSame
  <2>2. Onward
    BY <2>1 DEF Onward, Overflows, TypeOK
  <2> QED
    BY <1>0, <2>1, <2>2, WalkUndisturbed
<1>2. ASSUME NEW w \in Workers, Select(w) \/ Open(w) \/ TurnAway(w) PROVE WalkOf(v)'
  <2>1. CASE v # w
    <3>1. CallSame(v) /\ UNCHANGED <<policy, up>> /\ Onward
      BY <1>2, <2>1, SelectFrame, TicketOnward
    <3> QED
      BY <1>0, <3>1, WalkUndisturbed
  <2>2. CASE v = w
    <3>1. CASE Call(v) \/ Open(v) \/ TurnAway(v)
      BY <1>0, <3>1, WalkBeginsAndEnds
    <3>2. CASE TakeTicket(v) \/ RotateTakes(v) \/ RotateSkips(v) \/ RotateEnds(v)
      BY <1>0, <3>2, WalkRotates
    <3>3. CASE Draw(v) \/ GiveUpDrawing(v) \/ Test(v) \/ TakeOne(v) \/ LoadFirst(v) \/ LoadSecond(v)
      BY <1>0, <3>3, WalkDraws
    <3>4. CASE \/ ScanSkips(v) \/ ScanFirst(v) \/ ScanUp(v) \/ ScanLoad(v) \/ ScanCompare(v)
               \/ ScanEnds(v)
      BY <1>0, <3>4, WalkScans
    <3> QED
      BY <1>2, <2>2, <3>1, <3>2, <3>3, <3>4 DEF Select
  <2> QED
    BY <2>1, <2>2
<1>3. ASSUME NEW b \in Backends, Close(b) \/ TakeOut(b) \/ BringBack(b) PROVE WalkOf(v)'
  BY <1>0, <1>3, WalkInSurroundings
<1> QED
  BY <1>1, <1>2, <1>3 DEF Next

LEMMA WalkInit == Init => WalkInv
BY DEF Init, WalkInv, WalkOf, PolicyOf, PlaceOf, WitnessedBy, ScanOf, RotationOf, ResultOf, Draws,
   Tests, Scanning, Comparing

\* What every call keeps to, in every reachable state.
LEMMA Walk == Spec => [](TypeOK /\ WalkInv)
<1>1. Init => TypeOK /\ WalkInv
  BY TypeInit, WalkInit
<1>2. TypeOK /\ WalkInv /\ [Next]_vars => TypeOK' /\ WalkInv'
  <2>1. WalkInv => Walking
    BY DEF WalkInv, WalkOf, Walking
  <2> QED
    BY <2>1, TypeStep, WalkStep
<1> QED
  BY <1>1, <1>2, PTL DEF Spec

-----------------------------------------------------------------------------
\* Every variable of the scheduler keeps its type, whichever calls overlap: no
\* index leaves the backends, and no offset or attempt its bound.
THEOREM TypeCorrect == Spec => []TypeOK
BY Walk, PTL

\* Round-robin and least-connections return only a backend that was Up at some
\* moment of the call, whatever is ejected or drained while they look.
THEOREM RoutesToUpAlways == Spec => []RoutesToUp
<1>1. WalkInv => RoutesToUp
  BY DEF WalkInv, WalkOf, ResultOf, RoutesToUp
<1> QED
  BY <1>1, Walk, PTL

\* Short of an overflow of next_, no policy turns a client away while some
\* backend was Up throughout the call.
THEOREM NoneMeansDownAlways == Spec => []NoneMeansDown
<1>1. WalkInv => NoneMeansDown
  BY DEF WalkInv, WalkOf, ResultOf, NoneMeansDown
<1> QED
  BY <1>1, Walk, PTL

-----------------------------------------------------------------------------
(* What is left of RoutesToUp under power-of-two-choices, which may return a  *)
(* sample that was Down all along if the other one turns Down in mid-call.    *)

\* No policy returns a backend from a call during which none was ever Up.
NoneFromNone ==
  \A w \in Workers : pc[w] = "selected" /\ chosen[w] # NoBackend => seenUp[w] # {}

\* An attempt comes to its second condition only after a sample that was Up.
SomeUp(w) ==
  /\ pc[w] \in Draws \ {"draw", "neither_first", "neither_second"} => seenUp[w] # {}
  /\ pc[w] = "selected" /\ chosen[w] # NoBackend => seenUp[w] # {}

SomeUpInv == \A w \in Workers : SomeUp(w)

LEMMA TestSeesUp ==
  ASSUME TypeOK, NEW w \in Workers, WalkOf(w), SomeUp(w), Test(w)
  PROVE  SomeUp(w)'
<1>1. /\ pc[w] \in DOMAIN Tests /\ seenUp'[w] = seenUp[w]
      /\ pc'[w] = IF Sample(w) \in up THEN Tests[pc[w]].up ELSE Tests[pc[w]].off
  BY DEF Test, Goto, Routable, seen, TypeOK
<1>2. Sample(w) \in up => seenUp[w] # {}
  BY <1>1 DEF WalkOf, WitnessedBy, Tests
<1>3. pc[w] \in {"neither_first", "neither_second"} => Tests[pc[w]].off \in {"draw", "neither_second"}
  BY DEF Tests
<1>4. pc[w] \notin {"neither_first", "neither_second"} => seenUp[w] # {}
  BY <1>1 DEF SomeUp, Draws, Tests
<1>5. pc'[w] \in Draws
  BY <1>1, TestsLead
<1>6. pc'[w] # "selected"
  BY <1>5 DEF Draws, Tests
<1> QED
  BY <1>1, <1>2, <1>3, <1>4, <1>6 DEF SomeUp

LEMMA SelectSeesUp ==
  ASSUME TypeOK, NEW w \in Workers, WalkOf(w), SomeUp(w), Select(w) \/ Open(w) \/ TurnAway(w)
  PROVE  SomeUp(w)'
<1>1. CASE \/ Call(w) \/ TakeTicket(w) \/ RotateSkips(w) \/ Draw(w) \/ GiveUpDrawing(w)
           \/ ScanSkips(w) \/ ScanFirst(w) \/ ScanUp(w) \/ ScanLoad(w) \/ ScanCompare(w)
           \/ Open(w) \/ TurnAway(w)
  <2>1. pc'[w] \in {"ticket", "rotate", "draw", "neither_first", "idle"} \cup Scanning
    BY <1>1 DEF Call, TakeTicket, RotateSkips, Draw, GiveUpDrawing, ScanSkips, ScanFirst, ScanUp,
       ScanLoad, ScanCompare, Open, TurnAway, Leave, Goto, Scanning, Comparing, TypeOK, shared
  <2> QED
    BY <2>1 DEF SomeUp, Draws, Tests, Scanning, Comparing
<1>2. CASE Test(w)
  BY <1>2, TestSeesUp
<1>3. CASE LoadFirst(w)
  <2>1. pc'[w] = "load_second" /\ seenUp'[w] = seenUp[w] /\ pc[w] = "load_first"
    BY <1>3 DEF LoadFirst, Goto, seen, TypeOK
  <2> QED
    BY <2>1 DEF SomeUp, Draws, Tests
<1>4. CASE TakeOne(w) \/ LoadSecond(w)
  <2>1. pc[w] \in {"take_first", "take_second", "load_second"} /\ pc'[w] = "selected"
        /\ seenUp'[w] = seenUp[w]
    BY <1>4 DEF TakeOne, LoadSecond, Return, Goto, seen, TypeOK
  <2> QED
    BY <2>1 DEF SomeUp, Draws, Tests
<1>5. CASE RotateTakes(w)
  <2>1. pc[w] # "idle" /\ pc'[w] = "selected" /\ seenUp'[w] = seenUp[w] /\ IndexOf(w) \in up
    BY <1>5 DEF RotateTakes, Routable, Return, Goto, seen, TypeOK
  <2> QED
    BY <2>1 DEF SomeUp, WalkOf, WitnessedBy, Draws, Tests
<1>6. CASE RotateEnds(w)
  <2>1. pc'[w] = "selected" /\ chosen'[w] = NoBackend
    BY <1>6 DEF RotateEnds, Return, Goto, TypeOK
  <2> QED
    BY <2>1 DEF SomeUp, Draws, Tests
<1>7. CASE ScanEnds(w)
  <2>1. pc[w] = "scan" /\ pc'[w] = "selected" /\ chosen'[w] = chosen[w] /\ seenUp'[w] = seenUp[w]
    BY <1>7 DEF ScanEnds, Return, Goto, seen, TypeOK
  <2> QED
    BY <2>1 DEF SomeUp, WalkOf, ScanOf, Draws, Tests, Scanning
<1> QED
  BY <1>1, <1>2, <1>3, <1>4, <1>5, <1>6, <1>7 DEF Select

LEMMA SomeUpStep == TypeOK /\ WalkInv /\ SomeUpInv /\ [Next]_vars => SomeUpInv'
<1> SUFFICES ASSUME TypeOK, WalkInv, \A v \in Workers : SomeUp(v), [Next]_vars, NEW v \in Workers
             PROVE  SomeUp(v)'
  BY DEF SomeUpInv
<1>1. CASE UNCHANGED vars
  BY <1>1 DEF vars, locals, seen, SomeUp
<1>2. ASSUME NEW w \in Workers, Select(w) \/ Open(w) \/ TurnAway(w) PROVE SomeUp(v)'
  <2>1. CASE v # w
    BY <1>2, <2>1, SelectFrame DEF CallSame, SomeUp
  <2>2. CASE v = w
    BY <1>2, <2>2, SelectSeesUp DEF WalkInv
  <2> QED
    BY <2>1, <2>2
<1>3. ASSUME NEW b \in Backends, Close(b) \/ TakeOut(b) \/ BringBack(b) PROVE SomeUp(v)'
  <2>1. UNCHANGED <<pc, chosen>> /\ seenUp[v] \subseteq seenUp'[v]
    BY <1>3 DEF TypeOK, Close, TakeOut, BringBack, locals, seen
  <2> QED
    BY <2>1 DEF SomeUp
<1> QED
  BY <1>1, <1>2, <1>3 DEF Next

\* No policy, power-of-two-choices included, returns a backend from a call
\* during which none was ever Up.
THEOREM NoneFromNoneAlways == Spec => []NoneFromNone
<1>1. Init => SomeUpInv
  BY DEF Init, SomeUp, SomeUpInv, Draws, Tests
<1>2. SomeUpInv => NoneFromNone
  BY DEF SomeUp, SomeUpInv, NoneFromNone
<1> QED
  BY <1>1, <1>2, SomeUpStep, Walk, PTL DEF Spec

-----------------------------------------------------------------------------
(* RotationInv.                                                            *)

LEMMA PendingFinite ==
  ASSUME NEW b
  PROVE  IsFiniteSet(Pending(b)) /\ IsFiniteSet(Pending(b)') /\ Cardinality(Pending(b)) \in Nat
         /\ Cardinality(Pending(b)') \in Nat
<1>1. Pending(b) \subseteq Workers /\ Pending(b)' \subseteq Workers
  BY DEF Pending
<1> QED
  BY <1>1, WorkersAssumption, FS_Subset, FS_CardinalityType

LEMMA TurnsTyped ==
  ASSUME TypeOK, NEW b \in Backends
  PROVE  Turns(b) \in Nat
BY PendingFinite DEF TypeOK, Turns

\* The first backend of the next ticket waits for none.
LEMMA WaitsLeast ==
  ASSUME TypeOK, NEW b \in Backends
  PROVE  /\ next % NumBackends \in Backends /\ Wait(next % NumBackends) = 0
         /\ Wait(b) \in 0 .. NumBackends - 1
<1>1. next \in Nat /\ NumBackends \in Nat \ {0} /\ next % NumBackends \in Backends
  BY SizesAssumption, RemainderInRange DEF TypeOK, Backends
<1> QED
  BY <1>1 DEF Wait, Backends

\* A ticket that does not overflow next_ moves its backend to the end of the
\* line and every other one up.
LEMMA WaitsShift ==
  ASSUME TypeOK, NEW w \in Workers, TakeTicket(w), next + 1 # TicketSpan, NEW b \in Backends
  PROVE  Wait(b)' = IF b = next % NumBackends THEN NumBackends - 1 ELSE Wait(b) - 1
<1>1. next \in Nat /\ NumBackends \in Nat \ {0} /\ next % NumBackends \in 0 .. NumBackends - 1
  <2>1. next \in Nat
    BY DEF TypeOK
  <2> QED
    BY <2>1, SizesAssumption, RemainderInRange
<1>2. next' = next + 1
  BY NextTicketIs DEF TakeTicket, TypeOK
<1>3. next' % NumBackends
        = IF (next % NumBackends) + 1 = NumBackends THEN 0 ELSE (next % NumBackends) + 1
  BY <1>1, <1>2, RemainderOfNext
<1>4. b \in 0 .. NumBackends - 1
  BY DEF Backends
<1> QED
  BY <1>1, <1>3, <1>4 DEF Wait

\* Drawing a ticket gives its backend one more turn.
LEMMA TicketTurns ==
  ASSUME TypeOK, NEW w \in Workers, TakeTicket(w), NEW b \in Backends
  PROVE  Turns(b)' = IF b = next % NumBackends THEN Turns(b) + 1 ELSE Turns(b)
<1>1. /\ pc[w] = "ticket" /\ pc' = [pc EXCEPT ![w] = "rotate"] /\ ticket' = [ticket EXCEPT ![w] = next]
      /\ picks' = picks
  BY DEF TakeTicket, Goto
<1>2. pc \in [Workers -> Labels] /\ ticket \in [Workers -> 0 .. TicketSpan - 1] /\ picks[b] \in Nat
  BY DEF TypeOK
<1>3. w \notin Pending(b)
  BY <1>1 DEF Pending
<1>4. CASE b = next % NumBackends
  <2>1. Pending(b)' = Pending(b) \cup {w}
    BY <1>1, <1>2, <1>4 DEF Pending
  <2>2. Cardinality(Pending(b)') = Cardinality(Pending(b)) + 1
    BY <1>3, <2>1, PendingFinite, FS_AddElement
  <2> QED
    BY <1>1, <1>2, <1>4, <2>2, PendingFinite DEF Turns
<1>5. CASE b # next % NumBackends
  <2>1. Pending(b)' = Pending(b)
    BY <1>1, <1>2, <1>5 DEF Pending
  <2> QED
    BY <1>1, <1>5, <2>1 DEF Turns
<1> QED
  BY <1>4, <1>5

\* While all backends are Up, a call returns the backend of its ticket: a turn
\* that was pending is taken.
LEMMA TakenTurns ==
  ASSUME TypeOK, NEW w \in Workers, RotateTakes(w), policy = "round-robin", at[w] = 0,
         NEW b \in Backends
  PROVE  Turns(b)' = Turns(b)
<1> DEFINE mine == ticket[w] % NumBackends
<1>1. pc \in [Workers -> Labels] /\ ticket \in [Workers -> 0 .. TicketSpan - 1] /\ picks \in [Backends -> Nat]
  BY DEF TypeOK
<1>2. IndexOf(w) = mine /\ mine \in Backends
  <2>1. ticket[w] \in Nat /\ ticket[w] < TicketSpan /\ ticket[w] + at[w] = ticket[w]
    BY <1>1, SizesAssumption
  <2> QED
    BY <2>1, SizesAssumption, RemainderOfSmall, RemainderInRange DEF IndexOf, Backends
<1>3. /\ pc[w] = "rotate" /\ pc' = [pc EXCEPT ![w] = "selected"]
      /\ ticket' = [ticket EXCEPT ![w] = 0]
      /\ picks' = [n \in Backends |-> IF n = mine THEN picks[n] + 1 ELSE picks[n]]
  BY <1>2 DEF RotateTakes, Return, Goto
<1> HIDE DEF mine
<1>4. CASE b = mine
  <2>1. Pending(b)' = Pending(b) \ {w} /\ w \in Pending(b)
    BY <1>1, <1>3, <1>4 DEF Pending, mine
  <2>2. Cardinality(Pending(b)') = Cardinality(Pending(b)) - 1
    BY <2>1, PendingFinite, FS_RemoveElement
  <2> QED
    BY <1>1, <1>3, <1>4, <2>2, PendingFinite DEF Turns
<1>5. CASE b # mine
  <2>1. Pending(b)' = Pending(b)
    BY <1>1, <1>3, <1>5 DEF Pending, mine
  <2> QED
    BY <1>1, <1>3, <1>5, <2>1 DEF Turns
<1> QED
  BY <1>4, <1>5

\* A step that neither draws a ticket nor uses one leaves the rotation alone.
LEMMA TurnsUndisturbed ==
  ASSUME UNCHANGED <<next, wraps, picks>>, NEW b \in Backends,
         \A v \in Workers : \/ pc'[v] = pc[v] /\ ticket'[v] = ticket[v]
                            \/ pc[v] # "rotate" /\ pc'[v] # "rotate"
  PROVE  Turns(b)' = Turns(b) /\ Wait(b)' = Wait(b)
<1>1. Pending(b)' = Pending(b)
  BY DEF Pending
<1> QED
  BY <1>1 DEF Turns, Wait

LEMMA BalanceInTicket ==
  ASSUME TypeOK, TypeOK', Balance, NEW w \in Workers, TakeTicket(w)
  PROVE  Balance'
<1> SUFFICES ASSUME policy = "round-robin", steady, NEW a \in Backends, NEW b \in Backends
             PROVE  /\ Turns(a)' <= Turns(b)' + 1 + wraps'
                    /\ Wait(a)' <= Wait(b)' => Turns(a)' <= Turns(b)' + wraps'
  BY DEF TakeTicket, Balance
<1> DEFINE r == next % NumBackends
<1>1. /\ Turns(a)' = IF a = r THEN Turns(a) + 1 ELSE Turns(a)
      /\ Turns(b)' = IF b = r THEN Turns(b) + 1 ELSE Turns(b)
  BY TicketTurns
<1>2. Turns(a) \in Nat /\ Turns(b) \in Nat /\ Turns(r) \in Nat /\ wraps \in Nat /\ r \in Backends
  BY TurnsTyped, WaitsLeast DEF TypeOK
<1>3. /\ Wait(r) = 0 /\ Wait(a) \in 0 .. NumBackends - 1 /\ Wait(b) \in 0 .. NumBackends - 1
      /\ NumBackends \in Nat
  BY WaitsLeast, SizesAssumption
<1>4. /\ Turns(a) <= Turns(b) + 1 + wraps
      /\ Wait(a) <= Wait(b) => Turns(a) <= Turns(b) + wraps
      /\ Turns(r) <= Turns(b) + wraps
  BY <1>2, <1>3 DEF Balance
<1>5. CASE next + 1 # TicketSpan
  <2>1. wraps' = wraps
    BY <1>5, NextTicketIs, SizesAssumption DEF TakeTicket, TypeOK
  <2>2. /\ Wait(a)' = IF a = r THEN NumBackends - 1 ELSE Wait(a) - 1
        /\ Wait(b)' = IF b = r THEN NumBackends - 1 ELSE Wait(b) - 1
    BY <1>5, WaitsShift
  <2> HIDE DEF r
  <2> QED
    BY <1>1, <1>2, <1>3, <1>4, <2>1, <2>2
<1>6. CASE next + 1 = TicketSpan
  <2>1. wraps' = wraps + 1
    <3>1. next' = 0
      BY <1>6, NextTicketIs DEF TakeTicket, TypeOK
    <3>2. next > 0
      BY <1>6, SizesAssumption DEF TypeOK
    <3> QED
      BY <3>1, <3>2 DEF TakeTicket
  <2> HIDE DEF r
  <2> QED
    BY <1>1, <1>2, <1>4, <2>1
<1> QED
  BY <1>5, <1>6

\* A step of a worker in a rotation of steady backends: only a ticket and its
\* use touch the balance.
LEMMA RotationOfWorker ==
  ASSUME TypeOK, TypeOK', WalkInv, RotationInv, policy = "round-robin", steady,
         NEW w \in Workers, Select(w) \/ Open(w) \/ TurnAway(w)
  PROVE  NoDetour' /\ Balance'
<1>1. at[w] = 0 /\ up = Backends /\ Balance /\ PolicyOf(w) /\ \A v \in Workers : at[v] = 0
  BY DEF RotationInv, NoDetour, SteadyUp, WalkInv, WalkOf
<1>2. \A v \in Workers \ {w} : pc'[v] = pc[v] /\ ticket'[v] = ticket[v] /\ at'[v] = at[v]
  BY SelectFrame DEF CallSame
<1>3. UNCHANGED policy
  BY SelectFrame
<1>4. CASE TakeTicket(w)
  BY <1>1, <1>4, BalanceInTicket DEF TakeTicket, NoDetour
<1>5. CASE RotateTakes(w)
  <2>1. \A b \in Backends : Turns(b)' = Turns(b) /\ Wait(b)' = Wait(b)
    BY <1>1, <1>5, TakenTurns DEF RotateTakes, Return, shared, Wait
  <2>2. UNCHANGED <<wraps, steady>>
    BY <1>5 DEF RotateTakes, Return
  <2>3. at'[w] = 0
    BY <1>5 DEF RotateTakes, Return, TypeOK
  <2> QED
    BY <1>1, <1>2, <1>3, <2>1, <2>2, <2>3 DEF Balance, NoDetour
<1>6. CASE RotateSkips(w) \/ RotateEnds(w)
  <2>1. IndexOf(w) \in Backends
    BY IndexInRange
  <2> QED
    BY <1>1, <1>6, <2>1, SizesAssumption DEF RotateSkips, RotateEnds, Routable
<1>7. CASE Call(w) \/ Open(w) \/ TurnAway(w)
  <2>1. UNCHANGED <<next, wraps, picks, steady, at>> /\ pc[w] # "rotate" /\ pc'[w] # "rotate"
    BY <1>7 DEF Call, Open, TurnAway, Leave, Goto, shared, tally, TypeOK
  <2>2. \A b \in Backends : Turns(b)' = Turns(b) /\ Wait(b)' = Wait(b)
    BY <1>2, <2>1, TurnsUndisturbed
  <2> QED
    BY <1>1, <1>3, <2>1, <2>2 DEF Balance, NoDetour
<1>8. CASE \/ Draw(w) \/ GiveUpDrawing(w) \/ Test(w) \/ TakeOne(w) \/ LoadFirst(w) \/ LoadSecond(w)
           \/ ScanSkips(w) \/ ScanFirst(w) \/ ScanUp(w) \/ ScanLoad(w) \/ ScanCompare(w) \/ ScanEnds(w)
  <2>1. pc[w] \in Draws \cup Scanning
    BY <1>8 DEF Draw, GiveUpDrawing, Test, TakeOne, LoadFirst, LoadSecond, ScanSkips, ScanFirst,
       ScanUp, ScanLoad, ScanCompare, ScanEnds, Draws, Tests, Scanning, Comparing
  <2> QED
    BY <1>1, <2>1 DEF PolicyOf
<1> QED
  BY <1>4, <1>5, <1>6, <1>7, <1>8 DEF Select

LEMMA SteadyStep == TypeOK /\ SteadyUp /\ [Next]_vars => SteadyUp' /\ (steady' => steady)
<1> SUFFICES ASSUME TypeOK, SteadyUp, [Next]_vars PROVE SteadyUp' /\ (steady' => steady)
  OBVIOUS
<1>1. CASE UNCHANGED vars
  BY <1>1 DEF vars, shared, tally, SteadyUp
<1>2. ASSUME NEW w \in Workers, Select(w) \/ Open(w) \/ TurnAway(w) PROVE UNCHANGED <<up, steady>>
  <2>1. UNCHANGED up
    BY <1>2, SelectFrame
  <2>2. UNCHANGED steady
    BY <1>2 DEF Select, Call, TakeTicket, RotateTakes, RotateSkips, RotateEnds, Draw, GiveUpDrawing,
       Test, TakeOne, LoadFirst, LoadSecond, ScanSkips, ScanFirst, ScanUp, ScanLoad, ScanCompare,
       ScanEnds, Return, Open, TurnAway, Leave, tally
  <2> QED
    BY <2>1, <2>2
<1>3. ASSUME NEW b \in Backends, Close(b) \/ TakeOut(b) PROVE steady' = FALSE
  BY <1>3 DEF Close, TakeOut
<1>4. ASSUME NEW b \in Backends, BringBack(b) PROVE steady' = steady /\ ~ steady
  BY <1>4 DEF BringBack, SteadyUp, tally
<1> QED
  BY <1>1, <1>2, <1>3, <1>4 DEF Next, SteadyUp, TypeOK

LEMMA RotationStep == TypeOK /\ WalkInv /\ RotationInv /\ [Next]_vars => RotationInv'
<1> SUFFICES ASSUME TypeOK, WalkInv, RotationInv, [Next]_vars PROVE RotationInv'
  OBVIOUS
<1>1. TypeOK' /\ SteadyUp' /\ (steady' => steady)
  BY TypeStep, SteadyStep DEF RotationInv, WalkInv, WalkOf, Walking
<1>2. SUFFICES ASSUME policy' = "round-robin", steady' PROVE NoDetour' /\ Balance'
  BY <1>1 DEF RotationInv, NoDetour, Balance
<1>3. CASE UNCHANGED vars
  BY <1>3 DEF vars, shared, locals, tally, RotationInv, NoDetour, Balance, Turns, Wait, Pending
<1>4. ASSUME NEW w \in Workers, Select(w) \/ Open(w) \/ TurnAway(w) PROVE NoDetour' /\ Balance'
  <2>1. policy = "round-robin"
    BY <1>2, <1>4, SelectFrame
  <2> QED
    BY <1>1, <1>2, <1>4, <2>1, RotationOfWorker
<1>5. ASSUME NEW b \in Backends, Close(b) \/ TakeOut(b) \/ BringBack(b) PROVE FALSE
  <2>1. steady'  = FALSE \/ up # Backends
    BY <1>5 DEF Close, TakeOut, BringBack
  <2> QED
    BY <1>1, <1>2, <2>1 DEF RotationInv, SteadyUp
<1> QED
  BY <1>3, <1>4, <1>5 DEF Next

LEMMA RotationInit == Init => RotationInv
<1> SUFFICES ASSUME Init PROVE RotationInv
  OBVIOUS
<1>1. SteadyUp /\ NoDetour
  BY DEF Init, SteadyUp, NoDetour
<1>2. ASSUME NEW b \in Backends PROVE Turns(b) = 0
  <2>1. Pending(b) = {}
    BY DEF Init, Pending
  <2> QED
    BY <2>1, FS_EmptySet DEF Init, Turns
<1>3. Balance
  BY <1>2 DEF Balance, Init
<1> QED
  BY <1>1, <1>3 DEF RotationInv

\* While every backend stays Up, round-robin has given each as many of the
\* finished calls as any other, up to one and one more for each overflow of
\* next_: the workers' tickets, not the order in which they use them, decide.
THEOREM RotationEvenAlways == Spec => []RotationEven
<1>1. Init => RotationInv
  BY RotationInit
<1>2. TypeOK /\ WalkInv /\ RotationInv => RotationEven
  <2> SUFFICES ASSUME TypeOK, RotationInv, policy = "round-robin", steady,
                      \A w \in Workers : pc[w] \in {"idle", "selected"},
                      NEW a \in Backends, NEW b \in Backends
               PROVE  picks[a] <= picks[b] + 1 + wraps
    BY DEF RotationEven
  <2>1. ASSUME NEW c \in Backends PROVE Turns(c) = picks[c]
    <3>1. Pending(c) = {}
      BY DEF Pending
    <3> QED
      BY <3>1, FS_EmptySet DEF Turns, TypeOK
  <2> QED
    BY <2>1 DEF RotationInv, Balance
<1> QED
  BY <1>1, <1>2, RotationStep, Walk, PTL DEF Spec

-----------------------------------------------------------------------------
(* LoadsInv.                                                               *)

LEMMA StrayFinite ==
  ASSUME NEW x
  PROVE  /\ Stray(x) \subseteq Workers /\ Stray(x)' \subseteq Workers
         /\ IsFiniteSet(Stray(x)) /\ Cardinality(Stray(x)) \in Nat
         /\ IsFiniteSet(Stray(x)') /\ Cardinality(Stray(x)') \in Nat
         /\ Cardinality(Stray(x)) <= Cardinality(Workers) /\ Cardinality(Workers) \in Nat
<1>1. Stray(x) \subseteq Workers /\ Stray(x)' \subseteq Workers
  BY DEF Stray
<1> QED
  BY <1>1, WorkersAssumption, FS_Subset, FS_CardinalityType

LEMMA LowAndHigh ==
  ASSUME TypeOK, NEW x \in Nat, NEW b \in Backends
  PROVE  /\ active[b] \in Nat
         /\ b \in Low(x) <=> active[b] <= x
         /\ b \in High(x) <=> b \notin Low(x)
BY DEF Low, High, TypeOK

\* The loads stay while a worker is in its call.
LEMMA SelectKeepsLoads ==
  ASSUME NEW w \in Workers, Select(w) \/ TurnAway(w)
  PROVE  UNCHANGED active
BY DEF Select, Call, TakeTicket, RotateTakes, RotateSkips, RotateEnds, Draw, GiveUpDrawing, Test,
   TakeOne, LoadFirst, LoadSecond, ScanSkips, ScanFirst, ScanUp, ScanLoad, ScanCompare, ScanEnds,
   Return, TurnAway, shared

\* Under least-connections, with all backends Up, a call is a scan that skips none.
LEMMA OnlyScans ==
  ASSUME TypeOK, policy = "least-connections", up = Backends, NEW w \in Workers, WalkOf(w),
         Select(w)
  PROVE  \/ Call(w) /\ pc'[w] = "scan"
         \/ ScanFirst(w) \/ ScanUp(w) \/ ScanLoad(w) \/ ScanCompare(w) \/ ScanEnds(w)
<1>1. PolicyOf(w) /\ pc[w] \notin Draws \cup {"ticket", "rotate"}
  BY DEF WalkOf, PolicyOf
<1>2. ~ (\/ TakeTicket(w) \/ RotateTakes(w) \/ RotateSkips(w) \/ RotateEnds(w)
         \/ Draw(w) \/ GiveUpDrawing(w) \/ Test(w) \/ TakeOne(w) \/ LoadFirst(w) \/ LoadSecond(w))
  BY <1>1 DEF TakeTicket, RotateTakes, RotateSkips, RotateEnds, Draw, GiveUpDrawing, Test, TakeOne,
     LoadFirst, LoadSecond, Draws, Tests
<1>3. ~ ScanSkips(w)
  BY PositionAdvances DEF ScanSkips, Routable, TypeOK
<1>4. Call(w) => pc'[w] = "scan"
  BY DEF Call, Goto, TypeOK
<1> QED
  BY <1>2, <1>3, <1>4 DEF Select

\* A call that heads for a low load goes on heading for it.
LEMMA HeadsLowOn ==
  ASSUME TypeOK, policy = "least-connections", up = Backends, HeldOld,
         NEW x \in Nat, Low(x) # {}, NEW w \in Workers, WalkOf(w), HeadsLow(w, x), Select(w)
  PROVE  HeadsLow(w, x)'
<1>1. Low(x)' = Low(x)
  BY SelectKeepsLoads DEF Low
<1>2. /\ Low(x) \subseteq Backends /\ NoBackend \notin Low(x) /\ PlaceOf(w)
      /\ at[w] \in Nat /\ \A b \in Low(x) : b \in Nat /\ b < NumBackends /\ NumBackends \in Nat
  <2>1. Low(x) \subseteq Backends
    BY DEF Low
  <2>2. \A b \in Backends : b \in Nat /\ b < NumBackends
    BY SizesAssumption DEF Backends
  <2>3. at[w] \in Nat
    BY SizesAssumption DEF TypeOK
  <2> QED
    BY <2>1, <2>2, <2>3, ZeroIsBackend, SizesAssumption DEF WalkOf
<1>3. CASE Call(w) /\ pc'[w] = "scan"
  <2>1. at'[w] = 0
    BY <1>2, <1>3 DEF Call, PlaceOf
  <2>2. \E b \in Low(x) : 0 <= b
    BY <1>2
  <2> QED
    BY <1>1, <1>3, <2>1, <2>2 DEF HeadsLow
<1>4. CASE ScanFirst(w)
  <2>1. pc[w] = "scan" /\ pc'[w] = "scan" /\ chosen'[w] = at[w] /\ at'[w] = at[w] + 1
    BY <1>4 DEF ScanFirst, TypeOK, shared
  <2>2. PICK b \in Low(x) : at[w] <= b
    BY <1>2, <1>4, <2>1 DEF HeadsLow, ScanFirst
  <2>3. CASE b = at[w]
    BY <1>1, <2>1, <2>3 DEF HeadsLow
  <2>4. CASE b # at[w]
    <3>1. at'[w] <= b
      BY <1>2, <2>1, <2>2, <2>4
    <3> QED
      BY <1>1, <2>1, <3>1 DEF HeadsLow
  <2> QED
    BY <2>3, <2>4
<1>5. CASE ScanUp(w)
  <2>1. pc[w] = "scan" /\ pc'[w] = "scan_load" /\ chosen'[w] = chosen[w] /\ at'[w] = at[w]
    BY <1>5 DEF ScanUp, Goto, TypeOK
  <2> QED
    BY <1>1, <2>1 DEF HeadsLow
<1>6. CASE ScanLoad(w)
  <2>1. pc[w] = "scan_load" /\ pc'[w] = "scan_compare" /\ chosen'[w] = chosen[w] /\ at'[w] = at[w]
    BY <1>6 DEF ScanLoad, Goto, TypeOK
  <2>2. PICK c \in {at[w], chosen[w]} : held'[w] = [of |-> c, load |-> active[c]]
    BY <1>6 DEF ScanLoad, TypeOK
  <2>3. c \in Backends
    BY <1>2, <2>1, PositionAdvances DEF PlaceOf, Comparing, TypeOK
  <2>4. held'[w].load <= x => held'[w].of \in Low(x)
    BY <2>2, <2>3 DEF Low
  <2>5. CASE chosen[w] \in Low(x) \/ at[w] \in Low(x)
    BY <1>1, <2>1, <2>4, <2>5 DEF HeadsLow
  <2>6. CASE \E b \in Low(x) : at[w] < b
    BY <1>1, <2>1, <2>6 DEF HeadsLow
  <2>7. chosen[w] \in Low(x) \/ \E b \in Low(x) : at[w] <= b
    BY <2>1 DEF HeadsLow
  <2> QED
    BY <1>2, <2>5, <2>6, <2>7
<1>7. CASE ScanCompare(w)
  <2> DEFINE load(b) == IF b = held[w].of THEN held[w].load ELSE active[b]
  <2>1. /\ pc[w] = "scan_compare" /\ pc'[w] = "scan" /\ at'[w] = at[w] + 1
        /\ chosen'[w] = IF load(at[w]) < load(chosen[w]) THEN at[w] ELSE chosen[w]
    BY <1>7 DEF ScanCompare, Goto, Prefers, TypeOK
  <2>2. CASE \E b \in Low(x) : at[w] < b
    <3>1. \E b \in Low(x) : at'[w] <= b
      BY <1>2, <2>1, <2>2
    <3> QED
      BY <1>1, <2>1, <3>1 DEF HeadsLow
  <2>3. CASE (at[w] \in Low(x) \/ chosen[w] \in Low(x)) /\ (held[w].load <= x => held[w].of \in Low(x))
    <3>1. held[w].load <= active[held[w].of]
      BY <2>1 DEF HeldOld
    <3>2. at[w] \in Backends /\ chosen[w] \in Backends
      BY <1>2, <2>1, PositionAdvances DEF PlaceOf, Comparing, TypeOK
    <3>3. held[w].load \in Nat /\ \A b \in Backends : active[b] \in Nat
      BY DEF TypeOK
    <3>4. \A b \in Backends : load(b) \in Nat /\ (load(b) <= x <=> b \in Low(x))
      BY <2>3, <3>1, <3>3, LowAndHigh
    <3> HIDE DEF load
    <3>5. chosen'[w] \in Low(x)
      BY <2>1, <2>3, <3>2, <3>4
    <3> QED
      BY <1>1, <2>1, <3>5 DEF HeadsLow
  <2> QED
    BY <2>1, <2>2, <2>3 DEF HeadsLow
<1>8. CASE ScanEnds(w)
  <2>1. pc[w] = "scan" /\ at[w] = NumBackends /\ pc'[w] = "selected" /\ chosen'[w] = chosen[w]
    BY <1>8 DEF ScanEnds, Return, Goto, TypeOK
  <2>2. chosen[w] \in Low(x)
    BY <1>2, <2>1 DEF HeadsLow
  <2> QED
    BY <1>1, <2>1, <2>2 DEF HeadsLow
<1> QED
  BY <1>3, <1>4, <1>5, <1>6, <1>7, <1>8, OnlyScans

\* The other workers head where they headed, while the loads stay.
LEMMA HeadsLowOfOthers ==
  ASSUME NEW v, CallSame(v), UNCHANGED active, NEW x
  PROVE  HeadsLow(v, x)' <=> HeadsLow(v, x)
BY DEF HeadsLow, CallSame, Low

\* A step of a call makes nobody stray.
LEMMA GapAfterSelect ==
  ASSUME TypeOK, policy = "least-connections", up = Backends, HeldOld,
         NEW w \in Workers, WalkOf(w), \A v \in Workers \ {w} : CallSame(v),
         Select(w) \/ TurnAway(w), NEW x \in Nat, GapBounded(x)
  PROVE  GapBounded(x)'
<1>1. UNCHANGED active
  BY SelectKeepsLoads
<1>2. Low(x)' = Low(x) /\ High(x)' = High(x)
  BY <1>1 DEF Low, High
<1> SUFFICES ASSUME Low(x) # {}, High(x) # {}
             PROVE  \E c \in High(x) : active[c] + Cardinality(Stray(x)') <= x + Cardinality(Workers)
  BY <1>1, <1>2 DEF GapBounded
<1>3. TurnAway(w) => HeadsLow(w, x)'
  BY DEF TurnAway, Leave, Goto, HeadsLow, TypeOK
<1>4. Select(w) /\ HeadsLow(w, x) => HeadsLow(w, x)'
  BY HeadsLowOn
<1>5. Stray(x)' \subseteq Stray(x)
  BY <1>1, <1>3, <1>4, HeadsLowOfOthers DEF Stray
<1>6. Cardinality(Stray(x)') <= Cardinality(Stray(x))
  BY <1>5, StrayFinite, FS_Subset
<1>7. PICK c \in High(x) : active[c] + Cardinality(Stray(x)) <= x + Cardinality(Workers)
  BY DEF GapBounded
<1>8. active[c] \in Nat
  BY DEF High, TypeOK
<1> QED
  BY <1>6, <1>7, <1>8, StrayFinite

\* A worker that opens a connection strays no more. Either the load it raises
\* stays where it was, low or high; or it now is the least of the high ones.
LEMMA GapAfterOpen ==
  ASSUME TypeOK, NEW w \in Workers, Open(w), \A v \in Workers \ {w} : CallSame(v),
         NEW x \in Nat, GapBounded(x)
  PROVE  GapBounded(x)'
<1> DEFINE b == chosen[w]
<1>1. /\ b \in Backends /\ pc[w] = "selected" /\ active'[b] = active[b] + 1
      /\ \A c \in Backends : active[c] \in Nat /\ (c # b => active'[c] = active[c])
  BY DEF Open, TypeOK
<1>2. HeadsLow(w, x)'
  BY DEF Open, Leave, Goto, HeadsLow, TypeOK
<1>3. Stray(x)' \subseteq Workers \ {w}
  BY <1>2 DEF Stray
<1>4. Cardinality(Stray(x)') + 1 <= Cardinality(Workers)
  <2>1. IsFiniteSet(Workers \ {w}) /\ Cardinality(Workers \ {w}) = Cardinality(Workers) - 1
    BY WorkersAssumption, FS_RemoveElement
  <2>2. Cardinality(Stray(x)') <= Cardinality(Workers \ {w})
    BY <1>3, <2>1, FS_Subset
  <2> QED
    BY <2>1, <2>2, StrayFinite
<1>5. CASE active[b] = x
  <2>1. b \in High(x)' /\ active'[b] = x + 1
    BY <1>1, <1>5 DEF High
  <2> QED
    BY <1>4, <2>1, StrayFinite DEF GapBounded
<1>6. CASE active[b] # x
  <2>1. Low(x)' = Low(x) /\ High(x)' = High(x)
    BY <1>1, <1>6 DEF Low, High
  <2> SUFFICES ASSUME Low(x) # {}, High(x) # {}
               PROVE  \E c \in High(x) : active'[c] + Cardinality(Stray(x)') <= x + Cardinality(Workers)
    BY <2>1 DEF GapBounded
  <2>2. PICK c \in High(x) : active[c] + Cardinality(Stray(x)) <= x + Cardinality(Workers)
    BY DEF GapBounded
  <2>3. \A v \in Workers \ {w} : HeadsLow(v, x)' <=> HeadsLow(v, x)
    BY <2>1 DEF HeadsLow, CallSame
  <2>4. Stray(x)' = Stray(x) \ {w}
    BY <1>2, <2>3 DEF Stray
  <2>5. c \in Backends /\ active[c] \in Nat
    BY <1>1 DEF High
  <2>6. CASE b = c
    <3>1. b \notin Low(x)
      BY <2>5, <2>6, LowAndHigh
    <3>2. w \in Stray(x)
      BY <1>1, <3>1 DEF Stray, HeadsLow
    <3>3. Cardinality(Stray(x)') = Cardinality(Stray(x)) - 1
      BY <2>4, <3>2, StrayFinite, FS_RemoveElement
    <3> QED
      BY <1>1, <2>2, <2>5, <2>6, <3>3, StrayFinite
  <2>7. CASE b # c
    <3>1. Cardinality(Stray(x)') <= Cardinality(Stray(x))
      BY <2>4, StrayFinite, FS_Subset
    <3> QED
      BY <1>1, <2>2, <2>5, <2>7, <3>1, StrayFinite
  <2> QED
    BY <2>6, <2>7
<1> QED
  BY <1>5, <1>6

LEMMA HeldOldStep ==
  ASSUME TypeOK, policy = "least-connections", up = Backends, HeldOld,
         NEW w \in Workers, WalkOf(w), \A v \in Workers \ {w} : CallSame(v),
         Select(w) \/ Open(w) \/ TurnAway(w)
  PROVE  HeldOld'
<1>1. \A b \in Backends : active[b] \in Nat /\ active'[b] \in Nat /\ active[b] <= active'[b]
  <2>1. CASE Open(w)
    BY <2>1 DEF Open, TypeOK
  <2>2. CASE Select(w) \/ TurnAway(w)
    BY <2>2, SelectKeepsLoads DEF TypeOK
  <2> QED
    BY <2>1, <2>2
<1>2. ASSUME NEW v \in Workers \ {w}, pc'[v] = "scan_compare"
      PROVE  held'[v].load <= active'[held'[v].of]
  <2>1. /\ held'[v].load = held[v].load /\ held'[v].of = held[v].of /\ held[v].of \in Backends
        /\ held[v].load \in Nat /\ held[v].load <= active[held[v].of]
    BY <1>2 DEF HeldOld, CallSame, TypeOK
  <2> QED
    BY <1>1, <2>1
<1>3. ASSUME pc'[w] = "scan_compare" PROVE held'[w].load <= active'[held'[w].of]
  <2>1. CASE Open(w) \/ TurnAway(w)
    BY <1>3, <2>1 DEF Open, TurnAway, Leave, Goto, TypeOK
  <2>2. CASE Select(w)
    <3>1. ScanLoad(w)
      BY <1>3, <2>2, OnlyScans DEF ScanFirst, ScanUp, ScanCompare, ScanEnds, Return, Goto, TypeOK, shared
    <3>2. PlaceOf(w) /\ pc[w] = "scan_load"
      BY <3>1 DEF ScanLoad, WalkOf
    <3>3. at[w] \in Backends /\ chosen[w] \in Backends
      BY <3>2, PositionAdvances DEF PlaceOf, Comparing, TypeOK
    <3>4. PICK c \in Backends : held'[w] = [of |-> c, load |-> active[c]]
      BY <3>1, <3>3 DEF ScanLoad, TypeOK
    <3> QED
      BY <1>1, <3>4
  <2> QED
    BY <2>1, <2>2
<1> QED
  BY <1>2, <1>3 DEF HeldOld

LEMMA LoadsStep == TypeOK /\ WalkInv /\ SteadyUp /\ LoadsInv /\ [Next]_vars => LoadsInv'
<1> SUFFICES ASSUME TypeOK, WalkInv, SteadyUp, LoadsInv, [Next]_vars,
                    policy' = "least-connections", steady'
             PROVE  HeldOld' /\ \A x \in Nat : GapBounded(x)'
  BY DEF LoadsInv
<1>1. steady /\ SteadyUp' /\ up = Backends
  BY SteadyStep DEF SteadyUp
<1>2. CASE UNCHANGED vars
  <2>1. policy = "least-connections" /\ \A v \in Workers : CallSame(v)
    BY <1>2 DEF vars, shared, locals, seen, CallSame
  <2>2. UNCHANGED active
    BY <1>2 DEF vars, shared
  <2>3. HeldOld /\ \A x \in Nat : GapBounded(x)
    BY <1>1, <2>1 DEF LoadsInv
  <2>4. HeldOld'
    BY <2>1, <2>2, <2>3 DEF HeldOld, CallSame
  <2>5. \A x \in Nat : Stray(x)' = Stray(x) /\ Low(x)' = Low(x) /\ High(x)' = High(x)
    BY <2>1, <2>2, HeadsLowOfOthers DEF Stray, Low, High
  <2> QED
    BY <2>2, <2>3, <2>4, <2>5 DEF GapBounded
<1>3. ASSUME NEW w \in Workers, Select(w) \/ Open(w) \/ TurnAway(w)
      PROVE  HeldOld' /\ \A x \in Nat : GapBounded(x)'
  <2>1. policy = "least-connections" /\ \A v \in Workers \ {w} : CallSame(v)
    BY <1>3, SelectFrame
  <2>2. HeldOld /\ WalkOf(w) /\ \A x \in Nat : GapBounded(x)
    BY <1>1, <2>1 DEF LoadsInv, WalkInv
  <2>3. HeldOld'
    BY <1>1, <1>3, <2>1, <2>2, HeldOldStep
  <2>4. ASSUME NEW x \in Nat PROVE GapBounded(x)'
    BY <1>1, <1>3, <2>1, <2>2, GapAfterSelect, GapAfterOpen
  <2> QED
    BY <2>3, <2>4
<1>4. ASSUME NEW b \in Backends, Close(b) \/ TakeOut(b) \/ BringBack(b) PROVE FALSE
  BY <1>1, <1>4 DEF Close, TakeOut, BringBack
<1> QED
  BY <1>2, <1>3, <1>4 DEF Next

LEMMA LoadsInit == Init => LoadsInv
<1> SUFFICES ASSUME Init PROVE HeldOld /\ \A x \in Nat : GapBounded(x)
  BY DEF LoadsInv
<1>1. HeldOld
  BY DEF Init, HeldOld
<1>2. \A x \in Nat : High(x) = {}
  BY DEF Init, High
<1> QED
  BY <1>1, <1>2 DEF GapBounded

\* While all backends stay Up and connections only open, least-connections
\* leaves no gap in the loads that is wider than the number of workers.
THEOREM LoadsCloseAlways == Spec => []LoadsClose
<1>1. Init => SteadyUp /\ LoadsInv
  BY LoadsInit, RotationInit DEF RotationInv
<1>2. TypeOK /\ WalkInv /\ SteadyUp /\ LoadsInv /\ [Next]_vars => SteadyUp' /\ LoadsInv'
  BY SteadyStep, LoadsStep
<1>3. TypeOK /\ LoadsInv => LoadsClose
  <2> SUFFICES ASSUME TypeOK, LoadsInv, policy = "least-connections", steady,
                      NEW a \in Backends, NEW b \in Backends, active[a] < active[b]
               PROVE  \E c \in Backends : active[a] < active[c]
                                            /\ active[c] <= active[a] + Cardinality(Workers)
    BY DEF LoadsClose
  <2> DEFINE x == active[a]
  <2>1. x \in Nat /\ a \in Low(x) /\ b \in High(x)
    BY DEF Low, High, TypeOK
  <2>2. GapBounded(x)
    BY <2>1 DEF LoadsInv
  <2>3. PICK c \in High(x) : active[c] + Cardinality(Stray(x)) <= x + Cardinality(Workers)
    BY <2>1, <2>2 DEF GapBounded
  <2>4. c \in Backends /\ active[c] \in Nat /\ x < active[c]
    BY DEF High, TypeOK
  <2> QED
    BY <2>1, <2>3, <2>4, StrayFinite
<1> QED
  BY <1>1, <1>2, <1>3, Walk, PTL DEF Spec
=============================================================================
