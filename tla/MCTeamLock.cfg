CONSTANTS
  Teams = {t1, t2}
  Procs = {p1, p2, p3}
  Structs = {s1, s2, s3}
  NoStruct = NoStruct
  NoTeam = NoTeam
  Free = Free
SPECIFICATION Spec
INVARIANT RegistryExact
PROPERTY ImplementsMutex
