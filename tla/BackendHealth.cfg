\* A worker, the health thread and the operator on two backends, which the
\* health thread visits in turn.
CONSTANTS
  w1 = w1
  p1 = p1
  Workers = {w1}
  Prober = Prober
  NumBackends = 2
  Pairs = {p1}
  NoPair = NoPair
  Threshold = 1
  MaxFailures = 2
SPECIFICATION FairSpec
INVARIANTS TypeOK LateBounded
PROPERTIES Recovers EjectsDead
