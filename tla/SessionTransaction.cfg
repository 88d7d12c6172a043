SPECIFICATION TxnSpec
CONSTANT
    Statements = {"begin", "commit", "commit and chain", "rollback", "rollback and chain",
                  "rollback to", "commit prepared", "other"}
INVARIANTS
    TrackedMatchesServer
    RecoveryReachesServer
    CloseDropsNothing
    CommitTagIsTrue
CHECK_DEADLOCK FALSE
