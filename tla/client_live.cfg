SPECIFICATION FairSpec
CONSTANTS
  s1 = s1
  s2 = s2
  Servers = {s1, s2}
  NoServer = NoServer
  MAX_ACTIVE_REQUESTS = 1
  MAX_NOT_CONNECT_COUNT = 2
  SERVER_RESPONSE_TIMEOUT = 1
  SUBSCR_EXPIRE_TIME = 0
  NEXT_CONNECT_ATTEMPT_TIME = 1
  Answers <- OneSilent
  InitStates = {"SEND_REQ"}
  InitCounts = {0}
  InitAges = {1}
PROPERTIES
  RequestReturns
  ClientNeverStalls
