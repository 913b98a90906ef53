\* A click while the queue moves.
CONSTANTS
  a1 = a1  a2 = a2
  approve = approve  deny = deny  other = other
  Undecided = Undecided
  Approval = {a1, a2}
  Button = {approve, deny}
  Decision = {approve, deny}
  MaxClicks = 1
  EventCap = 2
  MayLose = FALSE
  MayReplace = FALSE
SPECIFICATION Spec
CHECK_DEADLOCK FALSE
PROPERTY ClickAnswersShownCard
