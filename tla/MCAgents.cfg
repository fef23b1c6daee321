SPECIFICATION Spec
CONSTANTS
  Callers = {c1, c2}
  Names = {n1, n2, n3}
  Kids = {k1, k2, k3}
  LgRuns = {r1, r2}
  Hosts <- MCHosts
  a = a
  b = b
  procA = procA
  procB = procB
  Nobody = Nobody
  NoName = NoName
  MaxManaged = 1
  MaxExchanges = 4
  Agents = {a, b}
  Procs = {procA, procB}
  MaxPerChannel = 1
  Threshold = 1
  MaxSignals = 3
  MaxId = 3
  MaxAttempts = 2
  MaxWrites = 2
  PageLimit = 1
  MaxFaults = 1
  Chats = {"c", "d"}
  Providers = {"ChatAnthropic", "ChatGoogleGenerativeAI", "ChatMoonshot"}
  MaxLastId = 6
  MaxCalls = 2
CONSTRAINT Slice
CHECK_DEADLOCK FALSE
INVARIANTS
  SpawnsAccounted
  ConversationKept
  SignalsKept
  CheckpointsKept
  
PROPERTIES
  PrefixStable
