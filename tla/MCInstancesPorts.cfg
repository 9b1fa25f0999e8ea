CONSTANTS
  Teams = {t1, t2}
  Chals = {c1}
  Probed = {}
  Ports = {1, 2}
  Reqs = {r1, r2}
  Sweeper = Sweeper
  Cleaner = Cleaner
  NoTeam = NoTeam
  NoChal = NoChal
  Free = Free
  Quota = 1
  TTL = 1
  Extension = 1
  MaxTTL = 1
  ReapAfter = 1
  MaxInst = 2
  MaxCtr = 2
  MaxNow = 3
  LastReq = 0
  MaxFaults = 1
  MaxReopens = 0
SPECIFICATION FairSpec
INVARIANTS RowsDistinct
PROPERTIES RowsReclaimed
CHECK_DEADLOCK FALSE
