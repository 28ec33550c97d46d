\* Is a drained backend kept out of routing until it is enabled?
CONSTANTS
  w1 = w1
  p1 = p1
  Workers = {w1}
  Prober = Prober
  NumBackends = 1
  Pairs = {p1}
  NoPair = NoPair
  Threshold = 1
  MaxFailures = 2
SPECIFICATION Spec
INVARIANT DrainHonoured
