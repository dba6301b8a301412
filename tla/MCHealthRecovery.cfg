SPECIFICATION FairSpec
CONSTANTS
    timer = timer  operator = operator
    tunnel = tunnel  router = router  front = front
    Runs = {timer, operator}
    Timer = timer
    ServiceOrder <- TunnelFirst
    Tunnel = tunnel
    Router = router
    Fragile <- FewParts
    Gap = 1
    Cooldown = 2
    MaxBreaks = 2
    MaxFaults = 1
    MaxInstalls = 1
    MaxChecks = 1
INVARIANTS
    CooldownSurvives
    HealthyIsProven
PROPERTIES
    ActsOnRepeatedFailure
    BecomesRestored
