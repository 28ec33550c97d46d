\* Is a pair whose buffer is being drained safe from the idle reaper?
CONSTANTS
  HighWatermark = 2
  BufferSize = 2
  SendBuffer = 1
  StreamLength <- Upload
  IdleTimeout = 2
SPECIFICATION FairSpec
PROPERTIES IdleMeansIdle
\* A closed pair whose ends have read everything rests.
CHECK_DEADLOCK FALSE
