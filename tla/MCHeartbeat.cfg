SPECIFICATION Spec
CONSTANTS
    Calls = {s1, s2}
    Schedule <- MCSchedule
    Every <- MCEvery
    CronMinutes <- MCCronMinutes
    Period = 2
    MinuteLen = 2
    WatchPaths <- MCWatchPaths
    TickInterval = 2
    Cooldown = 3
    MaxLog = 2
    AllowConcurrent = FALSE
    SelfHeal = TRUE
    Late = 0
    Editable = {"nine"}
    MaxTick = 1
    None = None
CONSTRAINT
    OverlapSlice
INVARIANTS
    StopCancels
    EffectorsExclusive
    NoEditMissed
PROPERTIES
    NeverTooEarly
    KeepsBeating
