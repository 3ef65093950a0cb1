CONSTANTS
    a1 = a1
    a2 = a2
    c1 = c1
    c2 = c2
    k1 = k1
    k2 = k2
    NoApp = NoApp
    NoClient = NoClient
    Apps <- TwoApps
    Clients <- TwoClients
    MaxTasks = 1
    SourceKeys <- TwoKeys
    SourceKey <- SharedKey
    Faults = {"db", "fs"}
    MaxStops = 0
SPECIFICATION FairSpec
INVARIANT FailedLeavesNoObject
INVARIANT AppHasSource
INVARIANT CompletedDownloadable
PROPERTY RequestsEnd
