SPECIFICATION MCFairSpec
CONSTANTS
    n1 = n1  o1 = o1  w1 = w1  w2 = w2  t1 = t1
    Updates = {n1, o1}
    Native = {n1}
    WriteDelay = 1
    Margin = 1
    MaxClock = 4
    MaxStarts = 2
    Workflows = {w1, w2}
    Reads <- MCReads
    Nameless = {}
    MaxEventAttempts = 2
    MaxEdits = 2
    MaxFaults = 1
    Startup = Startup
    Triggers = {t1}
    OnUpdateOf <- MCOnUpdateOf
    ReplayExisting = {}
    MaxRefusals = 1
    Configs <- MCConfigs
INVARIANTS TypeOK DecidedOnce NothingMissed
PROPERTIES RunsAreCurrent UpdatesSettle
CHECK_DEADLOCK FALSE
