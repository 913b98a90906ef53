\* Two cards, two clicks, nothing lost.
CONSTANTS
  a1 = a1  a2 = a2
  approve = approve  deny = deny  other = other
  Undecided = Undecided
  Approval = {a1, a2}
  Button = {approve, deny}
  Decision = {approve, deny}
  MaxClicks = 2
  EventCap = 1
  MayLose = FALSE
  MayReplace = FALSE
SPECIFICATION FairSpec
CHECK_DEADLOCK FALSE
INVARIANTS TypeOK SliceShape QuietCardsAgree
PROPERTIES SettledStays ImplementsLedger AnswerSettles
