CONSTANTS
  t1 = t1
  t2 = t2
  t3 = t3
  Task <- MCOneTask
  Idle = Idle
  NoTask = NoTask
  InitTask = t1
  DEFAULT_SLICE = 2
  MaxSleep = 2
  MaxPid = 1
  Calls = {"other", "sleep"}
SPECIFICATION FairSpec
PROPERTY SleepEnds
