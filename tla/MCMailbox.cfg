CONSTANTS
  Tasks = {t1, t2, t3}
  Messages = {m1, m2}
  MAX_MBOX_LENGTH = 2
  MaxCalls = 2
  Names = {"shu", "wei", "wu"}
  MAX_NUM_BOX = 2
  MaxOpens = 2
SPECIFICATION MCSpec
INVARIANTS PtrCounts  OpenersMeet
PROPERTIES ImplementsStack ImplementsFairStack
CHECK_DEADLOCK FALSE
