CONSTANTS
    Tabs = {t1}
    Results = {r1, r2}
    MaxSessions = 2
    Patient = TRUE
SPECIFICATION Spec
INVARIANTS  NothingLostUnasked
CHECK_DEADLOCK FALSE
