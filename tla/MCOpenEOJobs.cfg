SPECIFICATION MCSpec
CONSTANTS
    p1 = p1  w1 = w1  v1 = v1  m1 = m1  h1 = h1
    managed = managed  plain = plain
    Jobs = {managed, plain}
    Triggered = {managed, plain}
    Managed = {managed}
    Cancellable = {plain}
    Procs <- MCProcs
    Workers = {w1}
    Watchers = {v1}
    Mains <- MCMains
    Handlers = {h1}
    Home <- MCHome
    MaxAttempts = 2
    MaxRuns = 1
    MaxStarts = 3
    MaxIngests = 1
    NoThread = NoThread
    NoJob = NoJob
    Ingest = Ingest
PROPERTIES EveryJobEnds EventsReachConsumer
ACTION_CONSTRAINT OneJob
CHECK_DEADLOCK FALSE
