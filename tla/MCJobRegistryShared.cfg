\* Both callers use one label; nothing is interrupted.
SPECIFICATION Shell
CONSTANTS
  c1 = c1
  c2 = c2
  a = a
  b = b
  Clients = {c1, c2}
  Labels = {a, b}
  LabelsOf <- SameLabel
  Procs = {1, 2, 3}
  Unruly = {1}
  MaxRunning = 1
  KidKinds = {"group"}
  Interruptible <- NoAwaits
  NoProc = NoProc
  NoId = NoId
  NoStatus = NoStatus
  Empty = Empty
  Stopped = Stopped
  Calls = {}
INVARIANT LiveJobsListed
CHECK_DEADLOCK FALSE
