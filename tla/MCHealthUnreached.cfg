SPECIFICATION FairSpec
CONSTANTS
    timer = timer  operator = operator
    tunnel = tunnel  router = router  front = front
    Runs = {timer}
    Timer = timer
    ServiceOrder <- TunnelFirst
    Tunnel = tunnel
    Router = router
    Fragile <- FewParts
    Gap = 1
    Cooldown = 2
    MaxBreaks = 1
    MaxFaults = 0
    MaxInstalls = 0
    MaxChecks = 0
PROPERTIES
    HealthKeepsRunning
