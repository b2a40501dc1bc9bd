\* Two processes that open the same file with O_CREATE.
SPECIFICATION Spec
CONSTANTS
  Proc = {p1, p2}
  NINODE = 3
  Name = {"a", "b"}
  Paths <- MCOnePath
  Kinds <- MCCreates
  p1 = p1
  p2 = p2
  Intrude = FALSE
  MaxHops = 2
  MaxLeaks = 0
  None = None
INVARIANTS NoDeadlock
CHECK_DEADLOCK FALSE
