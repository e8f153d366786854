SPECIFICATION FairSpec
CONSTANTS
  t1 = t1
  t2 = t2
  t3 = t3
  Tasks = {t1, t2, t3}
  NoTask = NoTask
  MaxRequests = 2
  MaxFaults = 1
  MaxExpiries = 2
INVARIANTS
  LoginOncePerClear
PROPERTIES
  TasksEnd
CHECK_DEADLOCK FALSE
