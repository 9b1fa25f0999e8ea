CONSTANTS
  Teams = {t1}
  Chals = {c1, c2}
  Tasks = {p1, p2}
  NoBoard = NoBoard
  Free = Free
  MaxEdits = 1
  MaxFaults = 1
SPECIFICATION Spec
INVARIANTS SolvesPublished ReadNotBehind NoLateShown
SYMMETRY Symmetry
CHECK_DEADLOCK FALSE
