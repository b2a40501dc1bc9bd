\* Three slots, so that a ring can wrap with any of its sizes.
SPECIFICATION Spec
CONSTANTS
  NPROC = 3
  Priorities = {0, 1}
  USELESS = 2
PROPERTIES ImplementsQueueSpec
VIEW Windows
