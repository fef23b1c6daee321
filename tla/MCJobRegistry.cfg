\* Labels of their own; a call may be cancelled or die but in a spawn;
\* two commands that are waited for.
SPECIFICATION Shell
CONSTANTS
  c1 = c1
  c2 = c2
  a = a
  b = b
  Clients = {c1, c2}
  Labels = {a, b}
  LabelsOf <- OwnLabels
  Procs = {1, 2, 3}
  Unruly = {1}
  MaxRunning = 1
  KidKinds = {"group", "session"}
  Interruptible <- SettledAwaits
  NoProc = NoProc
  NoId = NoId
  NoStatus = NoStatus
  Empty = Empty
  Stopped = Stopped
  Calls = {1, 2}
INVARIANTS
  RunningBounded
  OnRecord
  StoppedIsDead
  
PROPERTIES
  StatusFinal
CHECK_DEADLOCK FALSE
