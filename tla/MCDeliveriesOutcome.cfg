SPECIFICATION MCSpec
CONSTANTS
    finish = finish  recover = recover  operator = operator
    hook = hook  sweep = sweep  c1 = c1  c2 = c2
    Callers = {finish, recover, operator, hook, sweep, c1, c2}
    Finisher = finish  Recoverer = recover  Operator = operator
    Hook = hook  Sweep = sweep  Clients = {c1, c2}
    Owners = {"pipeline"}
    Configs = {"none", "dry_run", "live", "read_only"}
    RunModes = {"dry_run", "live"}
    MaxJobs = 3
    MaxVersion = 2
    MaxRuns = 1
    MaxFaults = 1
    MaxDeliveryAttempts = 2
    MaxRequests = 2
    MaxStarts = 3
    N = 2
    MaxRestarts = 2
    MaxBroken = 1
INVARIANT OutcomeIsItsDeliverys

CHECK_DEADLOCK FALSE
