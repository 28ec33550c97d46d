\* Does power-of-two-choices skip a backend that is Down throughout the call?
CONSTANTS
  w1 = w1
  Workers = {w1}
  NumBackends = 2
  TicketSpan = 5
  NoBackend = NoBackend
  MaxCalls = 1
SPECIFICATION Spec
INVARIANT P2CSkipsDown
\* Calls are bounded.
CHECK_DEADLOCK FALSE
