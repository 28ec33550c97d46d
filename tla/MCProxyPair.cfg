\* An upload against full buffers. A mark of 3 lets bytes be appended to a buffer
\* that is already partly written; five bytes pause reading, resume it,
\* and could pass the bound.
CONSTANTS
  HighWatermark = 3
  BufferSize = 2
  SendBuffer = 1
  StreamLength <- Upload
  IdleTimeout = 1
SPECIFICATION FairSpec
INVARIANTS TypeOK BufferBound ArmedWhenWaiting
PROPERTIES ImplementsRelay Delivered
\* A closed pair whose ends have read everything rests.
CHECK_DEADLOCK FALSE
