SPECIFICATION Spec
CONSTANTS
    p1 = p1  w1 = w1  w2 = w2  v1 = v1  m1 = m1
    h1 = h1  h2 = h2  j1 = j1  j2 = j2  j3 = j3
    Jobs = {j1, j2, j3}
    Triggered = {j1}
    Managed = {j1, j2, j3}
    Cancellable = {j1}
    Procs <- MCProcs
    Workers = {w1, w2}
    Watchers = {v1}
    Mains <- MCMains
    Handlers = {h1, h2}
    Home <- MCHome
    MaxAttempts = 2
    MaxRuns = 2
    MaxStarts = 2
    MaxIngests = 0
    NoThread = NoThread
    NoJob = NoJob
    Ingest = Ingest
INVARIANTS TypeOK PublicationSound
PROPERTIES ImplementsLedger ResultsStand
SYMMETRY JobSymmetry
ACTION_CONSTRAINT OneOrTwo
CHECK_DEADLOCK FALSE
