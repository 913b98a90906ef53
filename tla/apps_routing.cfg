\* Two messages that may overlap and one other event: the user's, or a fault.
CONSTANTS
  old = old
  Answers <- SomeAnswers
  OldSessions = {old}
  MaxSubmits = 2
  MaxMoves = 1
  MaxApps = 4
SPECIFICATION FairSpec
CHECK_DEADLOCK FALSE
INVARIANTS TypeOK HeldMessageIsJudged TrackedIsInFlight BusyMeansWorking
PROPERTIES RoutedAsDecided HeldMessageIsSettled
