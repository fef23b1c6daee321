SPECIFICATION Both
CONSTANTS
    one = one
    two = two
    Contents = {one, two}
    Torn = torn
    None = none
    Names = {".recycle_bin", "f", "d", "e"}
    LiveFiles <- MCLiveFiles
    LiveDirs <- MCLiveDirs
    MaxFiles = 3
    MaxDepth = 3
    MaxTime = 2
    Writers = {v, w, x}
    Remote = {x}
    MaxTexts = 3
SYMMETRY Interchangeable
CONSTRAINT Slice
CHECK_DEADLOCK FALSE
INVARIANTS  UndoAccepted FilesWhole
 
