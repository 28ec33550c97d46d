\* Is all that an end sent relayed before its end of stream closes the pair?
CONSTANTS
  HighWatermark = 2
  BufferSize = 2
  SendBuffer = 1
  StreamLength <- Upload
  IdleTimeout = 3
SPECIFICATION FairSpec
PROPERTIES EndAfterLastByte
\* A closed pair whose ends have read everything rests.
CHECK_DEADLOCK FALSE
