SPECIFICATION Spec
CONSTANTS
  s1 = s1
  s2 = s2
  w1 = w1
  w2 = w2
  Session = {s1, s2}
  Store = {w1}
  Garbage = Garbage
  MaxSeq = 2
  ReadMayFail = FALSE
  DirSyncMayFail = FALSE
INVARIANTS
  TypeOK
  AckedSurvivesCrash
  FileIsAcked
PROPERTIES
  ImplementsCursorMap
  NeverTorn
