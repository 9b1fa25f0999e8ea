CONSTANTS
  Pubs = {p1, p2}
  Subs = {s1}
  QueueCap = 1
  MaxEvents = 4
  Conns = {c1}
  Keys = {k1}
  NoKey = NoKey
  IncomingCap = 1
  ClientQueueCap = 2
  MaxConns = 2
  MaxConnsPerKey = 1
  HandshakeBurst = 1
  MaxForgive = 1
  MaxFrames = 4
  MaxHandshakes = 2
  Plugins = {p3}
  Types <- AuthTypes
  Builtins = {}
  Calls = {c2, c3}
  PerCap = 2
  GlobalCap = 1
  MaxAttempts = 2
  MaxProcs = 2
  MaxReloads = 1
  MaxBoots = 2
SPECIFICATION Spec
INVARIANTS EventsAccounted FramesOrdered PhasesKept SlotsReturned SlotsExact ClientLive ProviderServed NothingLeaks
PROPERTIES RemovalEnds BoardArrives StopCompletes
CHECK_DEADLOCK FALSE
