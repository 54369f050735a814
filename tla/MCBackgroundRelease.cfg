SPECIFICATION MCSpec
CONSTANTS
  d1 = d1
  d2 = d2
  daily = daily
  provincial = provincial
  None = None
  Datasets = {d1, d2}
  Settings = {daily}
  MaxWrites = 0
  MaxFaults = 0
  MaxStarts = 1
  Threads = {t1, t2}
  Providers = {provincial}
  Hand = Hand
  Readers = {r1}
  MaxFiles = 1
  MaxKills = 0
  MaxPeriod = 3
  MaxChanges = 2
  MaxIngests = 1
INVARIANTS
  BumpIsRewritten
CHECK_DEADLOCK FALSE
