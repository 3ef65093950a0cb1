CONSTANTS
    a1 = a1
    a2 = a2
    c1 = c1
    c2 = c2
    k1 = k1
    k2 = k2
    NoApp = NoApp
    NoClient = NoClient
    Apps <- OneApp
    Clients <- TwoClients
    MaxTasks = 2
    SourceKeys <- TwoKeys
    SourceKey <- DistinctKeys
    Faults = {"db", "lost", "store", "fs", "crash"}
    MaxStops = 2
SPECIFICATION Spec
SYMMETRY ClientSymmetry
INVARIANT OneActivePerApp
INVARIANT AppMirrorsLatestTask
INVARIANT TypeOK
INVARIANT StepsFollowTask
INVARIANT FailedClaimsNothing
PROPERTY TaskMoves
PROPERTY ImplementsLifecycle
