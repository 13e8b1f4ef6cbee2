SPECIFICATION Spec
CONSTANTS
  s1 = s1
  s2 = s2
  s3 = s3
  s4 = s4
  s5 = s5
  Servers = {s1, s2, s3, s4, s5}
  NoServer = NoServer
  not_connect_count <- Counts
  last_connect_attempt_time <- Attempts
  Comparisons <- Outcomes
INVARIANTS
  TypeOK
  FirstIsSoonest
PROPERTY
  ImplementsQueue
