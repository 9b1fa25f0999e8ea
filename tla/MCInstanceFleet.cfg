CONSTANTS
  Teams = {t1}
  Chals = {c1}
  Probed = {}
  Ports = {1}
  Reqs = {r1}
  Sweeper = Sweeper
  Cleaner = Cleaner
  NoTeam = NoTeam
  NoChal = NoChal
  Free = Free
  Quota = 1
  TTL = 0
  Extension = 1
  MaxTTL = 2
  ReapAfter = 2
  MaxInst = 2
  MaxCtr = 2
  MaxNow = 4
  LastReq = 3
  MaxFaults = 1
  MaxReopens = 0
  Grace = 2
  MaxAdmin = 1
SPECIFICATION FleetSpec
PROPERTY UnrecordedKept
CHECK_DEADLOCK FALSE
