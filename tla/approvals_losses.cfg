\* Two cards, two clicks; requests, replies, the transport and the agent may be lost.
CONSTANTS
  a1 = a1  a2 = a2
  approve = approve  deny = deny  other = other
  Undecided = Undecided
  Approval = {a1, a2}
  Button = {approve, deny}
  Decision = {approve, deny}
  MaxClicks = 2
  EventCap = 1
  MayLose = TRUE
  MayReplace = TRUE
SPECIFICATION Spec
CHECK_DEADLOCK FALSE
INVARIANT DecidedAgrees
PROPERTY WaitingKeepsItsAnswer
SYMMETRY ApprovalSymmetry
