CONSTANTS
    a1 = a1
    a2 = a2
    c1 = c1
    c2 = c2
    k1 = k1
    k2 = k2
    NoApp = NoApp
    NoClient = NoClient
    Apps <- OneApp
    Clients <- TwoClients
    MaxTasks = 1
    SourceKeys <- TwoKeys
    SourceKey <- DistinctKeys
    Faults = {}
    MaxStops = 0
SPECIFICATION Spec
INVARIANT ActiveTaskHasApp
