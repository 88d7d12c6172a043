CONSTANTS
    MaxTabs = 4
    MaxProfiles = 2
    None = None
    MaxCalls = 2
    MaxRestarts = 1
    MaxChanges = 2
    PeriodIsFree = TRUE
SPECIFICATION ShellSpec
INVARIANTS LayoutIsWhole ConnectionsAreWhole ShortcutsAreKept
CHECK_DEADLOCK FALSE
