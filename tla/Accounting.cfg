\* Every interleaving of two workers opening and closing three connections to
\* two backends, with a stop at any moment. No symmetry: StopEnds is temporal.
CONSTANTS
  w1 = w1
  w2 = w2
  c1 = c1
  c2 = c2
  c3 = c3
  b1 = b1
  b2 = b2
  Workers = {w1, w2}
  Conns = {c1, c2, c3}
  Backends = {b1, b2}
  NoConn = NoConn
  NoBackend = NoBackend
SPECIFICATION FairSpec
INVARIANTS TypeOK HeldOnce ActiveExact GaugeExact NeverClamped PeakExact ZeroAtExit
PROPERTY StopEnds
\* After a stop request every thread has ended.
CHECK_DEADLOCK FALSE
