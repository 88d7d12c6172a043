SPECIFICATION Spec
CONSTANTS
    Saves = {1}
    Keys = {1, 2, 3}
    Vals = {a, b}
    InitialKeys = {1, 2}
    InitialVal = a
    None = None
    PageSize = 1
    MaxPending = 1
    LockModes = {"xmin", "displayed"}
    InsertVals = {b}
    OtherKinds = {"update", "delete", "insert", "alter"}
    MaxDrafts = 2
    MaxTurns = 1
    MaxSwitches = 0
INVARIANTS
    DraftsFollowRows
    GridShowsCommitted
PROPERTIES
    SavesWholeSet
    SeenIsReplaced
CHECK_DEADLOCK FALSE
