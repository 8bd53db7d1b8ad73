CONSTANTS
  Tasks = {t1, t2, t3}
  Lowest = 0
  Highest = 3
  INITIAL_PRIORITY = 1
  MaxSleep = 1
SPECIFICATION Spec
PROPERTIES ReadyRuns 
CHECK_DEADLOCK FALSE
