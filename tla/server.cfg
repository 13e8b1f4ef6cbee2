SPECIFICATION FairSpec
CONSTANTS
  c1 = c1
  c2 = c2
  m1 = m1
  m2 = m2
  Clients = {c1, c2}
  Messages = {m1, m2}
  NoClient = NoClient
  NoMessage = NoMessage
  MAX_ACTIVE_SENDINGS = 1
  SUBSCR_EXPIRE_TIME = 0
INVARIANTS
  TypeOK
  SlotsBalanced
  IterationSafe
  BarrierExact
  RoundComplete
  AudienceServed
  ClientsAlive
  NoLostSignal
PROPERTIES
  BroadcastSpec
  MessagesGetOut
