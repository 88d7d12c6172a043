SPECIFICATION Spec
CONSTANTS
    Conns = {c1, c2}
    Tabs = {t1, t2}
    Results = {r1}
    Sessions = {s1, s2}
    Execs = {e1, e2}
    Pages = {p1}
    Kinds = {"table"}
    None = None
    MaxMailbox = 4
    MaxSessions = 1
    MaxSwitches = 1
    MaxClosings = 1
SYMMETRY Symmetry
INVARIANTS
    RegistriesAgree
    StoresOfOpenConnections
    OnlyThisDatabase
    NothingInterrupted
CHECK_DEADLOCK FALSE
