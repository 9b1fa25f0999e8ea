CONSTANTS
  Teams = {t1}
  Chals = {c1}
  Probed = {}
  Ports = {1}
  Reqs = {r1}
  Sweeper = Sweeper
  Cleaner = Cleaner
  NoTeam = NoTeam
  NoChal = NoChal
  Free = Free
  Quota = 1
  TTL = 0
  Extension = 1
  MaxTTL = 2
  ReapAfter = 2
  MaxInst = 2
  MaxCtr = 2
  MaxNow = 3
  LastReq = 0
  MaxFaults = 1
  MaxReopens = 0
  Grace = 2
  MaxAdmin = 0
SPECIFICATION FleetFairSpec
PROPERTIES OrphansRemoved PhantomsNoticed GradesCorrected
CHECK_DEADLOCK FALSE
