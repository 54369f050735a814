SPECIFICATION Spec
CONSTANTS
    p1 = p1  p2 = p2  w1 = w1  w2 = w2  v1 = v1  v2 = v2  m1 = m1  m2 = m2
    h1 = h1  j1 = j1
    Jobs = {j1}
    Triggered = {j1}
    Managed = {j1}
    Cancellable = {j1}
    Procs <- MCProcs
    Workers = {w1, w2}
    Watchers = {v1, v2}
    Mains <- MCMains
    Handlers = {h1}
    Home <- MCHome
    MaxAttempts = 2
    MaxRuns = 0
    MaxStarts = 2
    MaxIngests = 0
    NoThread = NoThread
    NoJob = NoJob
    Ingest = Ingest
PROPERTIES OverlapIsSafe
CHECK_DEADLOCK FALSE
