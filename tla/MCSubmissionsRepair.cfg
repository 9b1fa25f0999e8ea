CONSTANTS
  Teams = {t1, t2}
  Chals = {c1}
  Guesses = {g1}
  Modes = {m1}
  Builtin = Builtin
  Types = {Builtin}
  Limits = {0}
  Reqs = {r1}
  NoTeam = NoTeam
  NoChal = NoChal
  NoGuess = NoGuess
  Free = Free
  Fallback = FALSE
  Batch = 1
  MaxSubs = 3
  MaxEdits = 1
  MaxFaults = 2
SPECIFICATION RecoveringSpec
PROPERTY SolvesScored
CHECK_DEADLOCK FALSE
