SPECIFICATION MCSpec
CONSTANTS
    MaxPeriod = 3
    MaxParallel = 2
    Requests <- MCRequests
    MaxIngests = 3
    MaxFaults = 2
    MaxKills = 1
    u1 = u1
    u2 = u2
    h1 = h1
    h2 = h2
    Users = {u1, u2}
    Hosts = {h1, h2}
    NoOne = NoOne
    MaxUpdates = 2
    MaxTicks = 1
    MaxIndexKills = 1
    FirstYear = 2018
    LastYear = 2026
    Windows <- MCWindows
    Loads <- MCLoads
    Reducers = {"sum"}
    Exports <- MCExports
    MaxSteps = 2
INVARIANTS MCTypeOK EndsAsItSays IndexHolds ExportsAreWhole DaysHold
PROPERTIES KeepsPublished FailedIsFreed
CHECK_DEADLOCK FALSE
