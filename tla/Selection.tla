------------------------------ MODULE Selection ------------------------------
(***************************************************************************)
(* Scheduler::select under its three policies, called by all workers at    *)
(* once. It takes no lock: it reads the states and the connection counts   *)
(* of the backends one atomic load at a time, and between two loads other  *)
(* workers open and close connections, the health thread ejects and        *)
(* recovers, and the operator drains and enables. One action here is one   *)
(* such load (a draw of random numbers is left open).                      *)
(*                                                                         *)
(* Of a state routable() tells only whether it is Up. What happens to the  *)
(* connection afterwards is the subject of Accounting and BackendHealth.   *)
(***************************************************************************)
EXTENDS Naturals, FiniteSets

CONSTANTS
  Workers,       \* the worker threads
  NumBackends,   \* backends_.size()
  TicketSpan,    \* how many values a size_t has
  NoBackend,     \* std::nullopt
  MaxCalls       \* bound: how often select is called

Policies == {"round-robin", "least-connections", "power-of-two-choices"}
Backends == 0 .. NumBackends - 1

ASSUME SizesAssumption ==
  NumBackends \in Nat \ {0} /\ TicketSpan \in Nat \ {0, 1} /\ NoBackend \notin Backends
ASSUME WorkersAssumption == IsFiniteSet(Workers)
ASSUME BoundAssumption == MaxCalls \in Nat

VARIABLES
  policy,     \* Scheduler::policy_
  up,         \* the backends whose state is Up
  active,     \* Scheduler::active_
  next,       \* Scheduler::next_
  pc,         \* what each worker reads next
  ticket,     \* start, of round-robin
  at,         \* offset of round-robin, i of least-connections
  attempts,   \* attempts of power-of-two-choices
  first,      \* its two samples
  second,
  held,       \* the operand of a comparison that is already loaded
  chosen,     \* selected, or what select returned
  calls       \* how often select was called

VARIABLES     \* history
  seenUp,     \* the backends that were Up at some moment of a worker's call
  seenOff,    \* those that were not Up at some moment of it
  picks,      \* how often round-robin returned each backend
  wraps,      \* how often next_ started over
  steady      \* all backends have been Up, and no connection closed, all along

shared == <<policy, up, active, next>>
locals == <<pc, ticket, at, attempts, first, second, held, chosen>>
seen == <<seenUp, seenOff>>
tally == <<picks, wraps, steady>>
vars == <<shared, locals, calls, seen, tally>>

\* The routable() tests of power-of-two-choices in their order, with the short
\* circuits: which sample each one loads, and what follows if it is Up or not.
Tests ==
  [neither_first  |-> [up |-> "just_first",    off |-> "neither_second"],
   neither_second |-> [up |-> "just_first",    off |-> "draw"],
   just_first     |-> [up |-> "not_second",    off |-> "not_first"],
   not_second     |-> [up |-> "not_first",     off |-> "take_first"],
   not_first      |-> [up |-> "load_first",    off |-> "just_second"],
   just_second    |-> [up |-> "take_second",   off |-> "load_first"]]
Labels ==
  DOMAIN Tests \cup
  {"idle", "ticket", "rotate", "draw", "take_first", "take_second", "load_first",
   "load_second", "scan", "scan_load", "scan_compare", "selected"}

\* routable(b); the slip asks no state.
Configured(b) == b \in Backends
Routable(b) == b \in up

\* An operand that is not loaded.
Nothing == [of |-> 0, load |-> 0]

Goto(w, label) == pc' = [pc EXCEPT ![w] = label]

-----------------------------------------------------------------------------
\* A worker has accepted a client.
Call(w) ==
  /\ pc[w] = "idle" /\ calls < MaxCalls
  /\ calls' = calls + 1
  /\ Goto(w, CASE policy = "round-robin" -> "ticket"
               [] policy = "power-of-two-choices" /\ NumBackends > 1 -> "draw"
               [] OTHER -> "scan")
  /\ seenUp' = [seenUp EXCEPT ![w] = up]
  /\ seenOff' = [seenOff EXCEPT ![w] = Backends \ up]
  /\ UNCHANGED <<shared, ticket, at, attempts, first, second, held, chosen, tally>>

\* select returns b, or nothing.
Return(w, b) ==
  /\ Goto(w, "selected")
  /\ ticket' = [ticket EXCEPT ![w] = 0] /\ at' = [at EXCEPT ![w] = 0]
  /\ attempts' = [attempts EXCEPT ![w] = 0]
  /\ first' = [first EXCEPT ![w] = 0] /\ second' = [second EXCEPT ![w] = 0]
  /\ held' = [held EXCEPT ![w] = Nothing]
  /\ chosen' = [chosen EXCEPT ![w] = b]
  /\ picks' = [n \in Backends |-> IF n = b /\ policy = "round-robin" THEN picks[n] + 1
                                  ELSE picks[n]]
  /\ UNCHANGED <<shared, calls, seen, wraps, steady>>

-----------------------------------------------------------------------------
(* Round-robin.                                                            *)

\* next_.fetch_add(1) on a size_t; one slip runs out of it, the other saturates.
WiderTicket(t) == t + 1
LastTicket(t) == IF t + 1 < TicketSpan THEN t + 1 ELSE t
NextTicket(t) == (t + 1) % TicketSpan

TakeTicket(w) ==
  /\ pc[w] = "ticket"
  /\ ticket' = [ticket EXCEPT ![w] = next]
  /\ next' = NextTicket(next)
  /\ wraps' = IF next' < next THEN wraps + 1 ELSE wraps
  /\ Goto(w, "rotate")
  /\ UNCHANGED <<policy, up, active, at, attempts, first, second, held, chosen>>
  /\ UNCHANGED <<calls, seen, picks, steady>>

\* (start + offset) % size; the slip forgets the offset.
TicketOf(w) == ticket[w] % NumBackends
IndexOf(w) == ((ticket[w] + at[w]) % TicketSpan) % NumBackends

RotateTakes(w) ==
  /\ pc[w] = "rotate" /\ at[w] < NumBackends /\ Routable(IndexOf(w))
  /\ Return(w, IndexOf(w))

RotateSkips(w) ==
  /\ pc[w] = "rotate" /\ at[w] < NumBackends /\ ~ Routable(IndexOf(w))
  /\ at' = [at EXCEPT ![w] = @ + 1]
  /\ UNCHANGED <<shared, pc, ticket, attempts, first, second, held, chosen, calls, seen, tally>>

RotateEnds(w) ==
  /\ pc[w] = "rotate" /\ at[w] = NumBackends
  /\ Return(w, NoBackend)

-----------------------------------------------------------------------------
(* Power of two choices.                                                   *)

Draw(w) ==
  /\ pc[w] = "draw" /\ attempts[w] < 2 * NumBackends
  /\ \E f, s \in Backends : first' = [first EXCEPT ![w] = f] /\ second' = [second EXCEPT ![w] = s]
  /\ Goto(w, "neither_first")
  /\ UNCHANGED <<shared, ticket, at, attempts, held, chosen, calls, seen, tally>>

\* Every attempt drew two backends that were not Up: least-connections decides.
GiveUpDrawing(w) ==
  /\ pc[w] = "draw" /\ attempts[w] = 2 * NumBackends
  /\ Goto(w, "scan")
  /\ UNCHANGED <<shared, ticket, at, attempts, first, second, held, chosen, calls, seen, tally>>

\* One routable() of the three conditions.
Sample(w) ==
  IF pc[w] \in {"neither_first", "just_first", "not_first"} THEN first[w] ELSE second[w]

Test(w) ==
  LET after == IF Routable(Sample(w)) THEN Tests[pc[w]].up ELSE Tests[pc[w]].off IN
  /\ pc[w] \in DOMAIN Tests
  /\ Goto(w, after)
  /\ attempts' = [attempts EXCEPT ![w] = IF after = "draw" THEN @ + 1 ELSE @]
  /\ UNCHANGED <<shared, ticket, at, first, second, held, chosen, calls, seen, tally>>

TakeOne(w) ==
  \/ pc[w] = "take_first" /\ Return(w, first[w])
  \/ pc[w] = "take_second" /\ Return(w, second[w])

LoadFirst(w) ==
  /\ pc[w] = "load_first"
  /\ held' = [held EXCEPT ![w] = [of |-> first[w], load |-> active[first[w]]]]
  /\ Goto(w, "load_second")
  /\ UNCHANGED <<shared, ticket, at, attempts, first, second, chosen, calls, seen, tally>>

LoadSecond(w) ==
  /\ pc[w] = "load_second"
  /\ Return(w, IF held[w].load <= active[second[w]] THEN first[w] ELSE second[w])

-----------------------------------------------------------------------------
(* Least connections.                                                      *)

\* Whether the scan prefers a backend with load a to the selected one with
\* load b; the slip has the operands the wrong way round.
PrefersMore(a, b) == b < a
Prefers(a, b) == a < b

ScanSkips(w) ==
  /\ pc[w] = "scan" /\ at[w] < NumBackends /\ ~ Routable(at[w])
  /\ at' = [at EXCEPT ![w] = @ + 1]
  /\ UNCHANGED <<shared, pc, ticket, attempts, first, second, held, chosen, calls, seen, tally>>

ScanFirst(w) ==
  /\ pc[w] = "scan" /\ at[w] < NumBackends /\ Routable(at[w]) /\ chosen[w] = NoBackend
  /\ chosen' = [chosen EXCEPT ![w] = at[w]]
  /\ at' = [at EXCEPT ![w] = @ + 1]
  /\ UNCHANGED <<shared, pc, ticket, attempts, first, second, held, calls, seen, tally>>

ScanUp(w) ==
  /\ pc[w] = "scan" /\ at[w] < NumBackends /\ Routable(at[w]) /\ chosen[w] # NoBackend
  /\ Goto(w, "scan_load")
  /\ UNCHANGED <<shared, ticket, at, attempts, first, second, held, chosen, calls, seen, tally>>

\* The two loads of the comparison; C++ leaves their order open, and the second
\* one is part of ScanCompare.
ScanLoad(w) ==
  /\ pc[w] = "scan_load"
  /\ \E loaded \in {at[w], chosen[w]} :
       held' = [held EXCEPT ![w] = [of |-> loaded, load |-> active[loaded]]]
  /\ Goto(w, "scan_compare")
  /\ UNCHANGED <<shared, ticket, at, attempts, first, second, chosen, calls, seen, tally>>

ScanCompare(w) ==
  LET load(b) == IF b = held[w].of THEN held[w].load ELSE active[b] IN
  /\ pc[w] = "scan_compare"
  /\ chosen' = [chosen EXCEPT ![w] = IF Prefers(load(at[w]), load(@)) THEN at[w] ELSE @]
  /\ at' = [at EXCEPT ![w] = @ + 1]
  /\ held' = [held EXCEPT ![w] = Nothing]
  /\ Goto(w, "scan")
  /\ UNCHANGED <<shared, ticket, attempts, first, second, calls, seen, tally>>

ScanEnds(w) ==
  /\ pc[w] = "scan" /\ at[w] = NumBackends
  /\ Return(w, chosen[w])

-----------------------------------------------------------------------------
\* attach_backend: the connect has begun and mark_open counts it, or there is
\* no backend or no connect.
Leave(w) ==
  /\ Goto(w, "idle")
  /\ chosen' = [chosen EXCEPT ![w] = NoBackend]
  /\ seenUp' = [seenUp EXCEPT ![w] = {}] /\ seenOff' = [seenOff EXCEPT ![w] = {}]
  /\ UNCHANGED <<policy, up, next, ticket, at, attempts, first, second, held, calls, tally>>

Open(w) ==
  /\ pc[w] = "selected" /\ chosen[w] # NoBackend
  /\ active' = [active EXCEPT ![chosen[w]] = @ + 1]
  /\ Leave(w)

TurnAway(w) ==
  /\ pc[w] = "selected"
  /\ UNCHANGED active
  /\ Leave(w)

\* Some worker closes a connection to b.
Close(b) ==
  /\ active[b] > 0
  /\ active' = [active EXCEPT ![b] = @ - 1]
  /\ steady' = FALSE
  /\ UNCHANGED <<policy, up, next, locals, calls, seen, picks, wraps>>

\* The health thread, a worker or the operator changes the state of b.
TakeOut(b) ==
  /\ b \in up
  /\ up' = up \ {b}
  /\ seenOff' = [w \in Workers |-> IF pc[w] = "idle" THEN seenOff[w] ELSE seenOff[w] \cup {b}]
  /\ steady' = FALSE
  /\ UNCHANGED <<policy, active, next, locals, calls, seenUp, picks, wraps>>

BringBack(b) ==
  /\ b \notin up
  /\ up' = up \cup {b}
  /\ seenUp' = [w \in Workers |-> IF pc[w] = "idle" THEN seenUp[w] ELSE seenUp[w] \cup {b}]
  /\ UNCHANGED <<policy, active, next, locals, calls, seenOff, tally>>

-----------------------------------------------------------------------------
\* A scheduler that may have served any number of calls, with no connection left.
Init ==
  /\ policy \in Policies
  /\ up \in SUBSET Backends
  /\ active = [b \in Backends |-> 0]
  /\ next \in 0 .. TicketSpan - 1 /\ (policy # "round-robin" => next = 0)
  /\ pc = [w \in Workers |-> "idle"]
  /\ ticket = [w \in Workers |-> 0] /\ at = [w \in Workers |-> 0]
  /\ attempts = [w \in Workers |-> 0]
  /\ first = [w \in Workers |-> 0] /\ second = [w \in Workers |-> 0]
  /\ held = [w \in Workers |-> Nothing]
  /\ chosen = [w \in Workers |-> NoBackend]
  /\ calls = 0
  /\ seenUp = [w \in Workers |-> {}] /\ seenOff = [w \in Workers |-> {}]
  /\ picks = [b \in Backends |-> 0] /\ wraps = 0
  /\ steady = (up = Backends)

Select(w) ==
  \/ Call(w)
  \/ TakeTicket(w) \/ RotateTakes(w) \/ RotateSkips(w) \/ RotateEnds(w)
  \/ Draw(w) \/ GiveUpDrawing(w) \/ Test(w) \/ TakeOne(w)
  \/ LoadFirst(w) \/ LoadSecond(w)
  \/ ScanSkips(w) \/ ScanFirst(w) \/ ScanUp(w) \/ ScanLoad(w) \/ ScanCompare(w) \/ ScanEnds(w)

Next ==
  \/ \E w \in Workers : Select(w) \/ Open(w) \/ TurnAway(w)
  \/ \E b \in Backends : Close(b) \/ TakeOut(b) \/ BringBack(b)

Spec == Init /\ [][Next]_vars

-----------------------------------------------------------------------------
TypeOK ==
  /\ policy \in Policies /\ up \in SUBSET Backends
  /\ active \in [Backends -> Nat] /\ next \in 0 .. TicketSpan - 1
  /\ pc \in [Workers -> Labels]
  /\ ticket \in [Workers -> 0 .. TicketSpan - 1] /\ at \in [Workers -> 0 .. NumBackends]
  /\ attempts \in [Workers -> 0 .. 2 * NumBackends]
  /\ first \in [Workers -> Backends] /\ second \in [Workers -> Backends]
  /\ held \in [Workers -> [of : Backends, load : Nat]]
  /\ chosen \in [Workers -> Backends \cup {NoBackend}]
  /\ calls \in 0 .. MaxCalls
  /\ seenUp \in [Workers -> SUBSET Backends] /\ seenOff \in [Workers -> SUBSET Backends]
  /\ picks \in [Backends -> Nat] /\ wraps \in Nat /\ steady \in BOOLEAN

\* next_ is so near its largest value that a sum start + offset may overflow,
\* which makes a call visit one backend twice and another not at all.
Overflows == wraps > 0 \/ next + NumBackends > TicketSpan

\* Short of an overflow of next_, a client is turned away for want of a backend
\* only if each backend was not Up at some moment of the call: no ejection or
\* recovery in mid-scan, and no unlucky draw, hides one that was Up throughout.
NoneMeansDown ==
  ~ Overflows => \A w \in Workers : pc[w] = "selected" /\ chosen[w] = NoBackend => seenOff[w] = Backends

\* Round-robin and least-connections return a backend that was Up at some
\* moment of the call.
RoutesToUp ==
  \A w \in Workers :
    pc[w] = "selected" /\ chosen[w] # NoBackend /\ policy # "power-of-two-choices"
      => chosen[w] \in seenUp[w]

\* What the scheduler tests ask of power-of-two-choices: it skips a backend
\* that is Down for the whole of the call.
P2CSkipsDown ==
  \A w \in Workers :
    pc[w] = "selected" /\ chosen[w] # NoBackend /\ policy = "power-of-two-choices"
      => chosen[w] \in seenUp[w]

\* While every backend is Up, round-robin gives each the same number of calls
\* up to one, from all workers together, and each time next_ overflows up to
\* one more: 2^64 is no multiple of most numbers of backends.
RotationEven ==
  policy = "round-robin" /\ steady /\ (\A w \in Workers : pc[w] \in {"idle", "selected"})
    => \A a, b \in Backends : picks[a] <= picks[b] + 1 + wraps

\* While all backends are Up and connections only open, least-connections leaves
\* no gap in the loads that is wider than the number of workers, although a worker
\* may act on counts that others have changed since it read them: if one backend
\* has more connections than another, some backend has more than that other one
\* and by no more than there are workers. (Two backends are thus within the number
\* of workers of each other. Of more a call makes several comparisons, and a stale
\* one may chain on another: three workers bring five backends to the loads 1, 1,
\* 2, 0 and 4.)
LoadsClose ==
  policy = "least-connections" /\ steady
    => \A a, b \in Backends : active[a] < active[b]
         => \E c \in Backends : active[a] < active[c] /\ active[c] <= active[a] + Cardinality(Workers)
=============================================================================
