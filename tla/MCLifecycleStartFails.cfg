\* A file that is accepted, and a thread that cannot be created.
CONSTANTS
  NumberKeys <- MCNumberKeys
  Narrow = 3
  Default <- MCDefault
  MaxPort = 2
  Files <- MCFiles
  Detected = 0
  MaxHandlers = 1
SPECIFICATION FairSpec

PROPERTY StartFailureEnds
\* A process that has ended stays ended.
CHECK_DEADLOCK FALSE
