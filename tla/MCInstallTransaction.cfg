SPECIFICATION FairSpec
CONSTANTS
    a = a  b = b  c = c
    None = None
    Releases <- ThreeReleases
    MaxFaults = 2
INVARIANTS
    LinkTargetsExist
PROPERTIES
    FailedRunRestores
    InstallLeavesOneRelease
    InstallGetsThrough
