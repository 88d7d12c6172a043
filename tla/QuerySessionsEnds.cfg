SPECIFICATION FairSpec
CONSTANTS
    Conns = {c1}
    Tabs = {t1}
    Results = {r1}
    Sessions = {s1}
    Execs = {e1, e2}
    Pages = {p1}
    Kinds = {"query", "table"}
    None = None
    MaxMailbox = 4
    MaxSessions = 1
    MaxSwitches = 0
    MaxClosings = 1
PROPERTIES
    SessionsSettle
    SentIsAnswered
CHECK_DEADLOCK FALSE
