\* All policies: two workers that call select three times in all, over two
\* backends. An odd TicketSpan makes the overflow of next_ uneven, as 2^64 does
\* for three backends.
CONSTANTS
  w1 = w1
  w2 = w2
  Workers = {w1, w2}
  NumBackends = 2
  TicketSpan = 5
  NoBackend = NoBackend
  MaxCalls = 3
SPECIFICATION Spec
SYMMETRY Symmetry
INVARIANTS TypeOK NoneMeansDown RoutesToUp RotationEven LoadsClose
\* Calls are bounded.
CHECK_DEADLOCK FALSE
