SPECIFICATION FairSpec
CONSTANTS
  n1 = n1
  n2 = n2
  t1 = t1
  t2 = t2
  Names = {n1, n2}
  Texts = {t1, t2}
  Empty = Empty
  Absent = Absent
  NoName = NoName
  NoMessage = NoMessage
  Budgets <- FilesOrSignals
CHECK_DEADLOCK FALSE
PROPERTY AnnouncedGetOut
