\* One pair's numbers, handed out again inside a batch.
CONSTANTS
  f1 = f1
  f2 = f2
  Fds = {f1, f2}
  NoFd = NoFd
  MaxWaiting = 1
SPECIFICATION Spec
PROPERTY ConnectTimesOut
CHECK_DEADLOCK FALSE
