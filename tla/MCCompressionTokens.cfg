\* A trigger on tokens, a suffix kept by tokens; the model may return malformed
\* tool calls, whose results are orphans; runs are scheduled fairly.
SPECIFICATION FairSpec
CONSTANTS
  NoLimit = NoLimit
  Sizes = {0, 1}
  MaxSize = 1
  TriggerMessages = 5
  TriggerTokens = 2
  PrefetchMessages = NoLimit
  PrefetchTokens = 1
  KeepMessages = NoLimit
  KeepTokens = 1
  MaxMessages = 6
  MaxCalls = 2
  MayMisformat = TRUE
CONSTRAINT UserSpeaks
INVARIANTS
  CutoffIsTheWalk
PROPERTIES
  
  CompressionSettles
