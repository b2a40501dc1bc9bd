------------------------------- MODULE MCMLFQ -------------------------------
(* Instances of MLFQ for TLC.                                              *)
EXTENDS MLFQ

\* What the program can still read: fork() resets the level, priority and used
\* time of a slot before anything reads them, and scheduler() sets its lv when
\* it dispatches.
InUse(f, unused) == [p \in Slot |-> IF Live(p) THEN f[p] ELSE unused]
ReadableState ==
  <<procVars, InUse(qlv, 0), InUse(priority, 0), InUse(tq, 0), queue, dictator,
    tickVars, cur, [c \in CPU |-> IF cur[c] = None THEN 0 ELSE level[c]], ptableLock>>

SleepIO  == {IOChan}
SleepAny == Channels
=============================================================================
