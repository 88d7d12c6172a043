SPECIFICATION Spec
CONSTANTS
    Saves = {1, 2}
    Keys = {1}
    Vals = {a, b}
    InitialKeys = {1}
    InitialVal = a
    None = None
    PageSize = 2
    MaxPending = 1
    LockModes = {"xmin"}
    InsertVals = {}
    OtherKinds = {}
    MaxDrafts = 1
    MaxTurns = 3
    MaxSwitches = 1
INVARIANTS
    ChangeSetsAreGuarded
    OutcomeIsTrue
    RetryAppliesOnce
CHECK_DEADLOCK FALSE
