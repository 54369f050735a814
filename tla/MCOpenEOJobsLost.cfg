SPECIFICATION MCSpec
CONSTANTS
    p1 = p1  w1 = w1  v1 = v1  m1 = m1  h1 = h1
    managed = managed  plain = plain
    Jobs = {managed, plain}
    Triggered = {}
    Managed = {managed}
    Cancellable = {managed}
    Procs <- MCProcs
    Workers = {w1}
    Watchers = {v1}
    Mains <- MCMains
    Handlers = {h1}
    Home <- MCHome
    MaxAttempts = 1
    MaxRuns = 2
    MaxStarts = 1
    MaxIngests = 0
    NoThread = NoThread
    NoJob = NoJob
    Ingest = Ingest
PROPERTIES EveryJobEnds
ACTION_CONSTRAINT OneJob
CHECK_DEADLOCK FALSE
