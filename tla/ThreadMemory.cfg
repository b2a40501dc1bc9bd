\* Up to 12 pages of two units, four threads, stacks of one and two pages.
SPECIFICATION Spec
CONSTANTS
  PGSIZE = 2
  KERNBASE = 26
  NTHRD = 4
  Images = {1}
  StackSizes = {2}
  Increments = {1, 3}
  Habits = {}
INVARIANTS TypeOK StacksWhole HolesAreQueued LimitHolds
CHECK_DEADLOCK FALSE
