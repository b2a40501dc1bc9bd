\* One processor, two processes; process 1 does everything a program can.
SPECIFICATION Spec
CONSTANTS
  NPROC = 2
  NCPU = 1
  QuantumBase = 1
  QuantumStep = 0
  TopPriority = 1
  BoostTicks = 2
  Lockers = {1}
  Setters = {1}
  Killers = {1}
  Sleeps <- SleepAny
  MaxQueue = 3
INVARIANTS NoLostProcess DictatorAlone
 
VIEW ReadableState
