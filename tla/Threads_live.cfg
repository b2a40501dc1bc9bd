\* One processor: a killed process ends, a join returns.  No call locks an inode
\* (a killed holder never returns: README, known differences).
SPECIFICATION FairSpec
CONSTANTS
  NPROC = 2
  NTHRD = 4
  NCPU = 1
  MaxPid = 2
  MaxTid = 3
  Killers = {1, 2}
  FileUsers = {}
  Nested = TRUE
  ThreadExec = FALSE
  MainExits = FALSE
  Failures = 1
INVARIANTS RetvalKept
PROPERTIES KilledDies 
CHECK_DEADLOCK FALSE
