SPECIFICATION Spec
CONSTANTS
    MaxTasks = 2
    Apps = {a1, a2}
    RiskLevels = {"low", "high"}
    MaxNow = 3
    HoursPerDay = 2
    RecentLimit = 1
    TopLimit = 2
    PageSize = 1
    None = None
INVARIANTS
    TypeOK
    NumbersFit
    TrendIsToday
    RecentIsSettled
    TopIsOrdered
    WalkMissesNothing
