SPECIFICATION Spec
CONSTANTS
    w1 = w1  w2 = w2  c1 = c1  a = a  b = b
    None = None
    Starter = Starter
    Web <- OnePage
    Cli <- Nobody
    Rules <- OneRule
    Slow = FALSE
    MaxFaults = 0
PROPERTIES
    ChangesAreApplied
