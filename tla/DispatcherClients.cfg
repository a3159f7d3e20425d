SPECIFICATION FairSpec
CONSTANTS
  tstat = tstat
  v1 = v1
  v2 = v2
  s1 = s1
  s2 = s2
  Nothing = Nothing
  NoEvent = NoEvent
  Keys <- OneKey
  Values <- TwoValues
  Sockets <- TwoSockets
  BroadcastCap = 1
  ListenerCap = 2
CHECK_DEADLOCK FALSE
INVARIANTS TypeOK NeverPanics LastEventIsCached
PROPERTIES UpdatesProceed DroppedSocketsEnd ClientsConverge FeedsClients
