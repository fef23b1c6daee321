\* An orphan removed behind a background summary shifts the delta path's indices.
SPECIFICATION Spec
CONSTANTS
  NoLimit = NoLimit
  Sizes = {1}
  MaxSize = 1
  TriggerMessages = 5
  TriggerTokens = NoLimit
  PrefetchMessages = NoLimit
  PrefetchTokens = NoLimit
  KeepMessages = 1
  KeepTokens = NoLimit
  MaxMessages = 8
  MaxCalls = 2
  MayMisformat = TRUE
INVARIANT
  EvictedAreSummarised
CHECK_DEADLOCK FALSE
