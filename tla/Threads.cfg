\* Two processors, three processes: init, a child and its child or threads.
SPECIFICATION Spec
CONSTANTS
  NPROC = 3
  NTHRD = 3
  NCPU = 2
  MaxPid = 3
  MaxTid = 3
  Killers = {1}
  FileUsers = {2}
  Nested = TRUE
  ThreadExec = FALSE
  MainExits = TRUE
  Failures = 0
INVARIANTS TypeOK RunsOnItsStack   NoLostWait
CHECK_DEADLOCK FALSE
