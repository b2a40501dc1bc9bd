\* Two processes, a directory in the root directory, one file, lost references of one link.
SPECIFICATION Spec
CONSTANTS
  Proc = {p1, p2}
  NINODE = 3
  Name = {"a", "b"}
  Paths <- MCPaths
  Kinds <- MCKinds
  p1 = p1
  p2 = p2
  Intrude = FALSE
  MaxHops = 2
  MaxLeaks = 2
  None = None
INVARIANTS TypeOK LinksExact InUseKept 
CHECK_DEADLOCK FALSE
