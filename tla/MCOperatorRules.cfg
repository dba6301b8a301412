SPECIFICATION FairSpec
CONSTANTS
    w1 = w1  w2 = w2  c1 = c1  a = a  b = b
    None = None
    Starter = Starter
    Web <- OnePage
    Cli <- OneCommand
    Rules <- TwoRules
    Slow = TRUE
    MaxFaults = 1
INVARIANTS
    DriftIsVisible
PROPERTIES
    WebChangesOneRule
    SuccessMeansApplied
    QuietRouterRunsItsRules
