SPECIFICATION Spec
CONSTANTS
  Proc = {p1, p2}
  first = p1
  NFILE = 3
  NOFILE = 2
  Pages = {g1}
  PIPESIZE = 2
  WRAP = 4
  ReadSizes = {1, 3}
  Killable = {p2}
  WriteSizes = {3}
  None = None
INVARIANTS TypeOK EndsMatch NoLostWakeup
PROPERTY StreamSpec
CHECK_DEADLOCK FALSE
