\* Three numbers: one pair and a client that finds no number for its backend, or
\* two clients that find none; other threads take and give back any of them.
CONSTANTS
  f1 = f1
  f2 = f2
  f3 = f3
  Fds = {f1, f2, f3}
  NoFd = NoFd
  MaxWaiting = 2
SPECIFICATION FairSpec
INVARIANTS TypeOK NumbersAccounted WholePairs
PROPERTIES ClientsAccepted HungClosed
\* After a stop, or an exception, the worker rests.
CHECK_DEADLOCK FALSE
