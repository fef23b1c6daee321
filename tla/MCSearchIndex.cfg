\* A user who writes, deletes and reconfigures at any time while watched, and
\* moves at rest; every search.json of up to three globs and patterns; every
\* file of up to five lines.
SPECIFICATION Search
CONSTANTS
  f = f
  g = g
  Paths = {f, g}
  Contents = {1, 2}
  NoFile = NoFile
  NoHash = NoHash
  BatchSize = 2
  Scopes <- BothOrOne
  Patient = TRUE
  MaxEdits = 3
  MaxFaults = 1
  Files <- MCFiles
  Globs <- MCGlobs
  Ignores <- MCIgnores
  Depths = {3}
  MaxGlobs = 3
  WholeLines = 4
  WholeChars = 9
  TargetChars = 4
  MaxChars = 6
  MinChars = 2
  OverlapLines = 1
  Lengths = {1, 3, 8}
  MaxLines = 5
INVARIANTS
  
  WalkFindsAll
  

  
CHECK_DEADLOCK FALSE
