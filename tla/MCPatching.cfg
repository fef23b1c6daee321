SPECIFICATION Spec
CONSTANTS
  Chats = {c}
  Providers = {"ChatOpenAI"}
  MaxLastId = 6
  MaxCalls = 1
CHECK_DEADLOCK FALSE
INVARIANTS
  EveryCallMatched
