SPECIFICATION Spec
CONSTANTS
  s1 = s1
  s2 = s2
  Servers = {s1, s2}
  NoServer = NoServer
  MAX_ACTIVE_REQUESTS = 1
  MAX_NOT_CONNECT_COUNT = 2
  SERVER_RESPONSE_TIMEOUT = 1
  SUBSCR_EXPIRE_TIME = 1
  NEXT_CONNECT_ATTEMPT_TIME = 2
  Answers <- AnyAnswer
  InitStates = {"SEND_REQ", "RESP", "WAIT", "SUBSCR"}
  InitCounts = {0, 2}
  InitAges = {0, 2}
SYMMETRY ServersAlike
INVARIANTS
  TypeOK
  OnePlace
  SlotsAccounted
  SubscribedHealthy
  SleepMatchesQueue
  NoMissedAnswer
  ParseExclusive
PROPERTY
  PoolSpec
