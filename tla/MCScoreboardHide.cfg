CONSTANTS
  Teams = {t1}
  Chals = {c1}
  Tasks = {p1, p2}
  NoBoard = NoBoard
  Free = Free
  MaxEdits = 1
  MaxFaults = 0
SPECIFICATION Spec
INVARIANT HiddenGone
SYMMETRY Symmetry
CHECK_DEADLOCK FALSE
