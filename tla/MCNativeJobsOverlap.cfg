SPECIFICATION Spec
CONSTANTS
    p1 = p1  p2 = p2
    w1 = w1  w2 = w2  v1 = v1  v2 = v2  v3 = v3  v4 = v4
    m1 = m1  m2 = m2  h1 = h1  h2 = h2  j1 = j1
    Jobs = {j1}
    Procs <- MCProcs
    Workers = {w1, w2}
    Watchers = {v1, v2, v4}
    Mains <- MCMains
    Handlers = {h1, h2}
    Home <- MCHome
    Slots = 1
    MaxAttempts = 2
    OpenEORuns = 0
    MaxStarts = 3
    NoThread = NoThread
    NoJob = NoJob
INVARIANTS ExecutionIsExclusive FailuresWithinBudget
PROPERTIES CustodyKept TerminalIsFinal
ACTION_CONSTRAINT FirstThenSecond
SYMMETRY WatcherSymmetry
CHECK_DEADLOCK FALSE
