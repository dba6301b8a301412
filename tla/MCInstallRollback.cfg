SPECIFICATION Spec
CONSTANTS
    a = a  b = b  c = c
    None = None
    Releases <- TwoReleases
    MaxFaults = 1
PROPERTIES
    RollbackKeepsCurrent
