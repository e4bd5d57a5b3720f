CONSTANTS
  t1 = t1
  t2 = t2
  t3 = t3
  Task <- MCTask
  Idle = Idle
  NoTask = NoTask
  InitTask = t1
  DEFAULT_SLICE = 1
  MaxSleep = 2
  MaxPid = 3
  Calls <- AllCalls
SPECIFICATION FairSpec
INVARIANTS TasksSound UserInOwnSpace SyscallFlagCovers
PROPERTIES DeadStayDead RunnableRuns
