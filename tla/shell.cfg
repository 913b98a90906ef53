CONSTANTS
  h1 = h1
  p1 = p1  p2 = p2
  s1 = s1  s2 = s2
  th1 = th1  th2 = th2
  weather = weather  app = app
  Host = {h1}
  Profile = {p1, p2}
  Owner <- SoloOwner
  Default <- DefaultIdentity
  NoConf = NoConf
  Thread = {th1, th2}
  Session = {s1, s2}
  NoSession = NoSession
  MaxLists = 1
  File = {1, 2, 3}
  KindOf <- Kinds
  Matches = {1}
  Nothing = Nothing
  MaxRequests = 2
  Capacity = 2
  Conversation = {weather, app, s1, s2}
  Boot = {weather}
  First = weather
  MaxCards = 2
  MaxStimuli = 4
SPECIFICATION Spec
CHECK_DEADLOCK FALSE
INVARIANTS TypeOK AgentIsCurrent FailedDeleteRollsBack LoadingIsBacked ToastsAreTimed
PROPERTIES OnlyHistoryMixes SwitchKeepsConversations
