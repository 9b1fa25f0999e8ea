CONSTANTS
  Teams = {t1}
  Chals = {c1, c2}
  Probed = {c1}
  Ports = {1, 2}
  Reqs = {r1, r2}
  Sweeper = Sweeper
  Cleaner = Cleaner
  NoTeam = NoTeam
  NoChal = NoChal
  Free = Free
  Quota = 1
  TTL = 1
  Extension = 2
  MaxTTL = 2
  ReapAfter = 1
  MaxInst = 2
  MaxCtr = 2
  MaxNow = 2
  LastReq = 2
  MaxFaults = 1
  MaxReopens = 1
SPECIFICATION Spec
INVARIANTS QuotaHeld OneAtWork
PROPERTY DestroyedForCause
SYMMETRY Symmetry
CHECK_DEADLOCK FALSE
