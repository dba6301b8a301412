SPECIFICATION FairSpec
CONSTANTS
    None = None
    Hosts = {mine, other}
    Judges = {mine}
    Modes <- ThreeModes
    Reports <- FewReports
    Faults = 1
CHECK_DEADLOCK FALSE
INVARIANTS ProbesUseOwnClient AcceptedIsProven
PROPERTY RunnerEnds
