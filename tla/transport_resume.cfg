SPECIFICATION Spec
CONSTANTS
  s1 = s1
  s2 = s2
  c1 = c1
  c2 = c2
  Session = {s1, s2}
  Caller = {c1}
  Ops = {"open", "fresh"}
  ChannelBuffer = 1
  ReconnectBudget = 0
  DelayMax = 1
  ExpMax = 1
  AttemptMax = 2
  Seed = 0
  MaxLedger = 1
  StoredMax = 0
  MaxId = 2
  WireCap = 1
CHECK_DEADLOCK FALSE
INVARIANTS
  CursorTracksStream
  OpensFromItsOwnCursor
SYMMETRY SessionSymmetry
PROPERTIES
  ImplementsFeed
