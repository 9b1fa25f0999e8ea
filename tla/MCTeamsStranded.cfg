CONSTANTS
  Users = {u1, u2}
  TeamIds = {x1}
  TeamReqs = {r1}
  maxSize = 2
  MaxCode = 1
SPECIFICATION TeamSpec
INVARIANT CaptainIsMember
CHECK_DEADLOCK FALSE
