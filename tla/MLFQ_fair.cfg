\* One processor, three processes; process 1 dictates and never unlocks.
SPECIFICATION FairSpec
CONSTANTS
  NPROC = 3
  NCPU = 1
  QuantumBase = 1
  QuantumStep = 0
  TopPriority = 0
  BoostTicks = 1
  Lockers = {1}
  Setters = {}
  Killers = {}
  Sleeps = {}
  MaxQueue = 0
PROPERTIES NoStarvation WaitReturns DictatorSteps
