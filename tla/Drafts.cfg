CONSTANTS
    Profiles = {p1, p2}
    Queries = {q1}
    Texts = {a, b}
    MaxQueue = 2
    MaxOps = 7
    MaxRestarts = 1
    AnyFails = FALSE
SPECIFICATION Spec
INVARIANTS DraftsSurvive BoundTabsFollow
 
CHECK_DEADLOCK FALSE
