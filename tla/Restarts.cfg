CONSTANTS
    a1 = a1
    a2 = a2
    c1 = c1
    c2 = c2
    k1 = k1
    k2 = k2
    NoApp = NoApp
    NoClient = NoClient
    Apps <- TwoApps
    Clients <- OneClient
    MaxTasks = 2
    SourceKeys <- TwoKeys
    SourceKey <- DistinctKeys
    Faults = {"store", "crash", "long"}
    MaxStops = 1
SPECIFICATION OverlapSpec
INVARIANT NoStepOutlivesTask
INVARIANT CompletedDownloadable
PROPERTY RunningIsOwned
PROPERTY QueuedSettles
PROPERTY QueueDrains
