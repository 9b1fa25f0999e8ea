CONSTANTS
  MaxChanges = 1
  Users = {u1, u2, u3}
  TeamIds = {x1, x2}
  TeamReqs = {r1, r2}
  maxSize = 2
  MaxCode = 1
  Tokens = {k1, k2, k3}
  StoreReqs = {r1, r2}
  ttl = 4
  AccountIds = {x1, x2}
  Addresses = {x1, x2}
  SessIds = {s1}
  States = {l1}
  AuthReqs = {r1, r2}
  policy = "open"
  ChallengeIds = {c1}
  AttachmentIds = {x1, x2}
  FileNames = {"notes.txt", "dump.pcap"}
  AuthorReqs = {r1, r2}
  MaxPoints = 2
  MaxColumns = 2
  MaxSolves = 3
SPECIFICATION Spec
INVARIANTS AuthorityLive NoWayAround TeamSizeHeld CaptainKept IndexCovers BannedOut SubjectOneAccount AttachmentServed WorthHeld
SYMMETRY Alike
CHECK_DEADLOCK FALSE
