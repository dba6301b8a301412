SPECIFICATION FairSpec
CONSTANTS
    exit = exit  gateway = gateway  r1 = r1  r2 = r2
    None = None  NoSnapshot = NoSnapshot
    Nodes <- TwoNodes
    Gateway = gateway
    Rank <- ExitFirst
    Releases <- TwoReleases
    Before <- NoneOrFirst
    Interrupted = {exit}
    Modes = {"install", "maintain", "rollback", "remove"}
    MaxSessions = 1
    Attempts = 2
PROPERTIES
    SuccessIsTrue
    RollbackIsTrue
    UpgradeIsNotAbandoned
    SessionEnds
CHECK_DEADLOCK FALSE
