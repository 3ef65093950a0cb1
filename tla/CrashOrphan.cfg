CONSTANTS
    a1 = a1
    a2 = a2
    c1 = c1
    c2 = c2
    k1 = k1
    k2 = k2
    NoApp = NoApp
    NoClient = NoClient
    Apps <- OneApp
    Clients <- OneClient
    MaxTasks = 1
    SourceKeys <- TwoKeys
    SourceKey <- DistinctKeys
    Faults = {"crash"}
    MaxStops = 1
SPECIFICATION FairSpec
PROPERTY FailedCleansUp
