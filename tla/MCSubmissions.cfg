CONSTANTS
  Teams = {t1, t2}
  Chals = {c1}
  Guesses = {g1, g2}
  Modes = {m1}
  Builtin = Builtin
  Types = {Builtin, plug}
  Limits = {0, 1}
  Reqs = {r1, r2}
  NoTeam = NoTeam
  NoChal = NoChal
  NoGuess = NoGuess
  Free = Free
  Fallback = TRUE
  Batch = 2
  MaxSubs = 2
  MaxEdits = 1
  MaxFaults = 1
SPECIFICATION Spec
INVARIANT ValueCountsSelf
PROPERTIES SolvedIsFinal AttemptsHeld VerdictCurrent ScoreWriteOnce
SYMMETRY Symmetry
CHECK_DEADLOCK FALSE
