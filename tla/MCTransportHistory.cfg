SPECIFICATION HFairSpec
CONSTANTS
    wg = wg  hy2 = hy2  timeout = timeout  refused = refused
    None = None
    Preferred = wg
    Fallback = hy2
    Reasons <- TwoReasons
    Elapsed <- PromptAndLate
    FailureConfirmations = 2
    AlternateConfirmations = 2
    RecoveryConfirmations = 2
    EvidenceGap = 1
    QualityInterval = 2
    QualityGap = 4
    PreferredInterval = 2
    PreferredGap = 3
    RecoverySeconds = 4
    RetryBase = 4
    RetryMax = 4
    StableReset = 4
    SwitchBase = 3
    SwitchMax = 4
    AgeCap = 5
    Turns = 2
    MaxCount = 2
PROPERTIES
    LossNeedsTwoPairs
    ReturnNeedsCleanWindow
    BackoffIsHonoured
    NoPingPong
    FailoverNeedsTwoCycles
    LeavesDeadPath
    ReturnsToPreferred
INVARIANTS
    TypeOK
