\* Two processors, three processes; process 1 kills.
SPECIFICATION Spec
CONSTANTS
  NPROC = 3
  NCPU = 2
  QuantumBase = 1
  QuantumStep = 0
  TopPriority = 0
  BoostTicks = 1
  Lockers = {}
  Setters = {}
  Killers = {1}
  Sleeps = {}
  MaxQueue = 0
INVARIANTS TypeOK OneCPU QueuedOnce LevelMatches NoLostExit
PROPERTIES BoostLiftsWaiting
VIEW ReadableState
