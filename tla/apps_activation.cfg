\* Two messages one after the other: the second activates another app.
CONSTANTS
  old = old
  Answers <- SomeAnswers
  OldSessions = {}
  MaxSubmits = 2
  MaxMoves = 0
  MaxApps = 3
SPECIFICATION Spec
CHECK_DEADLOCK FALSE
PROPERTIES RoutingKeepsReplies
