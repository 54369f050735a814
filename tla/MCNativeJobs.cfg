SPECIFICATION MCSpec
CONSTANTS
    p1 = p1  w1 = w1  w2 = w2  v1 = v1  m1 = m1  h1 = h1
    j1 = j1  j2 = j2
    Jobs = {j1, j2}
    Procs <- MCProcs
    Workers = {w1, w2}
    Watchers = {v1}
    Mains <- MCMains
    Handlers = {h1}
    Home <- MCHome
    Slots = 1
    MaxAttempts = 2
    OpenEORuns = 1
    MaxStarts = 3
    NoThread = NoThread
    NoJob = NoJob
INVARIANTS TypeOK CountsAreRight
PROPERTIES EveryJobEnds ImplementsLifecycle
ACTION_CONSTRAINT OneOrTwo
CHECK_DEADLOCK FALSE
