SPECIFICATION Spec
CONSTANTS
  s1 = s1
  s2 = s2
  c1 = c1
  c2 = c2
  Session = {s1}
  Caller = {c1, c2}
  Ops = {"ask", "turn", "list", "disconnect"}
  ChannelBuffer = 1
  ReconnectBudget = 1
  DelayMax = 1
  ExpMax = 1
  AttemptMax = 3
  Seed = 0
  MaxLedger = 0
  StoredMax = 0
  MaxId = 2
  WireCap = 1
CHECK_DEADLOCK FALSE
SYMMETRY CallerSymmetry
INVARIANTS
  TypeOK
  ReplyMatchesRequest
  CallerAccounted
  GiveUpOnlyWhenExhausted
