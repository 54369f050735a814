SPECIFICATION MCSpec
CONSTANTS
  d1 = d1
  d2 = d2
  daily = daily
  provincial = provincial
  None = None
  Datasets = {d1, d2}
  Settings = {daily}
  MaxWrites = 2
  MaxFaults = 2
  MaxStarts = 2
  Threads = {t1, t2}
  Providers = {provincial}
  Hand = Hand
  Readers = {r1}
  MaxFiles = 3
  MaxKills = 1
  MaxPeriod = 4
  MaxChanges = 2
  MaxIngests = 1
INVARIANTS MCTypeOK StatusIsTheClock OneScheduledSync ReadersFindTheirFile
PROPERTIES ChangesReachTheClock NothingTaken PlansHold
CHECK_DEADLOCK FALSE
