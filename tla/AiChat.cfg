CONSTANTS
    MaxSends = 2
    MaxConvs = 2
    MaxChanges = 1
    MaxSessions = 2
    MaxTotal = 4
    AiProvider = "claude"
    AnswerWaits = TRUE
SPECIFICATION Spec
INVARIANTS TurnsApart 
PROPERTY BusyEnds
CHECK_DEADLOCK FALSE
