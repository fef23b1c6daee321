\* Thresholds on the number of messages only; well-formed tool calls.
SPECIFICATION Spec
CONSTANTS
  NoLimit = NoLimit
  Sizes = {1}
  MaxSize = 1
  TriggerMessages = 6
  TriggerTokens = NoLimit
  PrefetchMessages = NoLimit
  PrefetchTokens = NoLimit
  KeepMessages = 2
  KeepTokens = NoLimit
  MaxMessages = 11
  MaxCalls = 2
  MayMisformat = FALSE
INVARIANTS
  NoMessageLost
  ToolPairsWhole
  SummaryStaysValid
  FiledBeforeForgotten
PROPERTIES
  WindowKept
  ImplementsMemory
