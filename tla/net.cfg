SPECIFICATION FairSpec
CONSTANTS
  Server = Server
  Client = Client
  m1 = m1
  Messages = {m1}
  NoServer = NoServer
  NoClient = NoClient
  NoMessage = NoMessage
  MAX_ACTIVE_REQUESTS = 1
  MAX_NOT_CONNECT_COUNT = 2
  SERVER_RESPONSE_TIMEOUT = 1
  NEXT_CONNECT_ATTEMPT_TIME = 2
  SUBSCR_EXPIRE_TIME = 1
  MAX_ACTIVE_SENDINGS = 1
  MAX_FAULTS = 1
INVARIANTS
  TypeOK
  StaysSubscribed
  SubscriberServed
PROPERTY
  SubscriptionRestored
