CONSTANTS
  s1 = s1  s2 = s2
  t1 = t1  t2 = t2
  k1 = k1  a1 = a1
  Session = {s1, s2}
  Turn = {t1, t2}
  Tool = {k1}
  Task = {a1}
  SessionOf <- Homes
  TurnOf <- Calls
  MaxLedger = 3
SPECIFICATION Spec
CHECK_DEADLOCK FALSE
INVARIANTS TypeOK NothingStreamsOn ActiveHasWork
PROPERTIES EndedStaysEnded DarkMeansDone
