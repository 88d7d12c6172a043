CONSTANTS
    MaxPasteRows = 2
    MaxPasteCells = 3
    MaxSql = 4
    MaxCells = 4
    MaxColumns = 3
SPECIFICATION Spec
INVARIANTS
    
    ValuesReadBack
    DraftsAreAddressed
CHECK_DEADLOCK FALSE
