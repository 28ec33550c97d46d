\* Every file of up to three lines; two workers at most.
CONSTANTS
  NumberKeys <- MCNumberKeys
  Narrow = 3
  Default <- MCDefault
  MaxPort = 2
  Files <- MCFiles
  Detected = 0
  MaxHandlers = 1
SPECIFICATION FairSpec
INVARIANTS TypeOK FileTaken FileJudged NoThreadLeft ClosedWhileOpen
PROPERTIES StopEndsProcess NoWorkersNoProcess
\* A process that has ended stays ended.
CHECK_DEADLOCK FALSE
