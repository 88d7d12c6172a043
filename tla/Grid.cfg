CONSTANTS
    ServerRows = 2
    PageSize = 1
    Cols = 2
    Editable = {0}
    MaxInserts = 2
    MaxNew = 2
    MaxSaves = 1
SPECIFICATION Spec
 
PROPERTIES SelectionFollowsRows DeletesAreSelected
