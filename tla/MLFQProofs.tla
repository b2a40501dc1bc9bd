----------------------------- MODULE MLFQProofs -----------------------------
(***************************************************************************)
(* Theorems about MLFQ for every number of slots, processors and priority, *)
(* and all quanta and boost periods.                                       *)
(***************************************************************************)
EXTENDS MLFQ, TLAPS

-----------------------------------------------------------------------------
(* Queues.                                                                 *)

\* A rotation keeps a queue a queue of slots.
LEMMA RotateType ==
  ASSUME NEW q \in Seq(Slot), NEW k \in 1..Len(q)
  PROVE  Rotate(q, k) \in Seq(Slot)
BY DEF Rotate

\* And so does taking an element out.
LEMMA ExtractType ==
  ASSUME NEW q \in Seq(Slot), NEW k \in 1..Len(q)
  PROVE  Extract(q, k) \in Seq(Slot)
BY DEF Extract

\* A boost leaves queues of slots.
LEMMA BoostedType ==
  ASSUME NEW q \in [Levels -> Seq(Slot)], NEW d \in Slot \cup {None}
  PROVE  Boosted(q, d) \in [Levels -> Seq(Slot)]
<1>1. q[0] \in Seq(Slot) /\ q[1] \in Seq(Slot) /\ q[2] \in Seq(Slot)
  BY DEF Levels
<1>2. q[0] \o q[1] \o q[2] \in Seq(Slot)
  BY <1>1
<1>3. ASSUME d # None PROVE PutFront(q[0], d) \o q[1] \o q[2] \in Seq(Slot)
  <2>1. <<d>> \in Seq(Slot)
    BY <1>3
  <2> QED BY <1>1, <2>1 DEF PutFront
<1> QED BY <1>2, <1>3 DEF Boosted

-----------------------------------------------------------------------------
(* Type correctness.  It is inductive with one fact about fork(): between    *)
(* allocproc() and the end of fork() the child's slot is known.              *)

ForkHasSlot == \A p \in Slot : pc[p] = "fork" => np[p] \in Slot

TypeInv == TypeOK /\ ForkHasSlot

\* What every process that leaves a processor does keeps the types.
LEMMA SwitchOutType ==
  ASSUME TypeOK, NEW c \in CPU, cur[c] # None, NEW d \in Slot \cup {None},
         SwitchOut(c, d)
  PROVE  /\ qlv' \in [Slot -> Levels \cup {-1}]
         /\ tq' \in [Slot -> 0..MaxQuantum]
         /\ priority' \in [Slot -> 0..(TopPriority + 1)]
         /\ queue' \in [Levels -> Seq(Slot)]
         /\ dictator' \in Slot \cup {None}
         /\ gticks' \in 0..BoostTicks /\ tickReg' \in 0..BoostTicks
         /\ tick' \in {"idle", "loaded", "stored", "yield"}
         /\ cur' \in [CPU -> Slot \cup {None}] /\ level' \in [CPU -> Levels]
         /\ ptableLock' = None
<1> DEFINE p       == cur[c]
           used    == MinOf(tq[p] + 1, MaxQuantum)
           expired == Expired(c, d, used)
           lv      == IF expired THEN NextLevel(level[c]) ELSE level[c]
           lowered == IF priority[p] > 0 THEN priority[p] - 1 ELSE 0
           q       == Requeued(p, lv, d)
<1>1. MaxQuantum \in Nat /\ BoostTicks \in Nat /\ TopPriority \in Nat
  BY ConstantsAssumption DEF MaxQuantum, Quantum
<1>2. p \in Slot /\ used \in 0..MaxQuantum /\ lowered \in 0..(TopPriority + 1)
  BY <1>1 DEF TypeOK, MinOf
<1>3. lv \in Levels
  BY DEF TypeOK, NextLevel, MinOf, Levels
<1>4. q \in [Levels -> Seq(Slot)]
  BY <1>2, <1>3 DEF TypeOK, Requeued, enQ
<1>5. Boosted(q, d) \in [Levels -> Seq(Slot)]
  BY <1>4, BoostedType
<1> HIDE DEF p, used, expired, lv, lowered, q
<1>6. qlv' \in [Slot -> Levels \cup {-1}]
  BY <1>3 DEF SwitchOut, TypeOK, Levels, p, used, expired, lv, q
<1>7. tq' \in [Slot -> 0..MaxQuantum]
  BY <1>1, <1>2 DEF SwitchOut, TypeOK, p, used, expired, lv, q
<1>8. priority' \in [Slot -> 0..(TopPriority + 1)]
  BY <1>1, <1>2 DEF SwitchOut, TypeOK, p, used, expired, lv, lowered, q
<1>9. queue' \in [Levels -> Seq(Slot)]
  BY <1>4, <1>5 DEF SwitchOut, p, used, expired, lv, q
<1>10. dictator' \in Slot \cup {None} /\ gticks' \in 0..BoostTicks
  BY <1>1 DEF SwitchOut, TypeOK
<1>11. /\ tickReg' \in 0..BoostTicks /\ tick' \in {"idle", "loaded", "stored", "yield"}
       /\ cur' \in [CPU -> Slot \cup {None}] /\ level' \in [CPU -> Levels]
       /\ ptableLock' = None
  BY DEF SwitchOut, TypeOK
<1> QED
  BY <1>6, <1>7, <1>8, <1>9, <1>10, <1>11

\* The types hold initially.
LEMMA InitType == Init => TypeInv
<1> SUFFICES ASSUME Init PROVE TypeInv
  OBVIOUS
<1>1. init \in Slot
  BY ConstantsAssumption DEF init, Slot
<1>2. queue \in [Levels -> Seq(Slot)]
  <2>1. <<init>> \in Seq(Slot) /\ <<>> \in Seq(Slot)
    BY <1>1
  <2> QED BY <2>1 DEF Init
<1> QED
  BY <1>1, <1>2, ConstantsAssumption
     DEF Init, TypeInv, TypeOK, ForkHasSlot, PState, Levels, MaxQuantum, Quantum

\* A step of a processor keeps the types, action by action.
LEMMA StepType ==
  ASSUME TypeInv, NEW c \in CPU, Step(c)
  PROVE  TypeInv'
<1> USE DEF TypeInv, TypeOK, ForkHasSlot, tickVars, schedVars, procVars, cpuVars
<1>1. CASE DispatchDictator(c)
  BY <1>1 DEF DispatchDictator, Resume, PState, Levels
<1>2. CASE DispatchQueued(c)
  <2>1. PICK lv \in Levels :
          /\ \E k \in Picks(queue[lv], lv, Ready, priority) :
               /\ Resume(c, queue[lv][k])
               /\ queue' = [queue EXCEPT ![lv] = Extract(@, k)]
          /\ level' = [level EXCEPT ![c] = lv]
    BY <1>2 DEF DispatchQueued
  <2>2. PICK k \in Picks(queue[lv], lv, Ready, priority) :
          /\ Resume(c, queue[lv][k])
          /\ queue' = [queue EXCEPT ![lv] = Extract(@, k)]
    BY <2>1
  <2>3. k \in 1..Len(queue[lv]) /\ queue[lv] \in Seq(Slot)
    BY DEF Picks, ReadyAt
  <2>4. queue[lv][k] \in Slot /\ Extract(queue[lv], k) \in Seq(Slot)
    BY <2>3, ExtractType
  <2> QED BY <2>1, <2>2, <2>4 DEF Resume, PState
<1>3. CASE Yield(c)
  <2>1. SwitchOut(c, dictator) /\ cur[c] # None
    BY <1>3 DEF Yield
  <2> QED BY <1>3, <2>1, SwitchOutType DEF Yield, PState
<1>4. ASSUME NEW ch \in Sleeps, Sleep(c, ch) PROVE TypeInv'
  <2>1. SwitchOut(c, dictator) /\ cur[c] # None
    BY <1>4 DEF Sleep
  <2>2. ch \in Channels
    BY ConstantsAssumption DEF Channels, TicksChan, IOChan
  <2> QED BY <1>4, <2>1, <2>2, SwitchOutType DEF Sleep, PState
<1>5. ASSUME NEW p \in Slot, ForkFail(c, p) PROVE TypeInv'
  BY <1>5 DEF ForkFail, PState
<1>6. ASSUME NEW p \in Slot, ForkFinish(c, p) PROVE TypeInv'
  <2>1. np[p] \in Slot
    BY <1>6 DEF ForkFinish, At
  <2>2. 0 \in 0..MaxQuantum /\ TopPriority \in 0..(TopPriority + 1)
    BY ConstantsAssumption DEF MaxQuantum, Quantum
  <2>3. queue' \in [Levels -> Seq(Slot)]
    <3>1. queue' = [queue EXCEPT ![0] = Append(@, np[p])]
      BY <1>6 DEF ForkFinish, enQ
    <3>2. 0 \in Levels /\ queue[0] \in Seq(Slot)
      BY ConstantsAssumption DEF Levels
    <3>3. Append(queue[0], np[p]) \in Seq(Slot)
      BY <2>1, <3>2
    <3> QED BY <3>1, <3>2, <3>3
  <2>4. /\ priority' \in [Slot -> 0..(TopPriority + 1)]
        /\ qlv' \in [Slot -> Levels \cup {-1}] /\ tq' \in [Slot -> 0..MaxQuantum]
    BY <1>6, <2>1, <2>2 DEF ForkFinish, Levels
  <2>5. /\ state' \in [Slot -> PState] /\ parent' \in [Slot -> Slot \cup {None}]
        /\ np' \in [Slot -> Slot \cup {None}]
        /\ pc' \in [Slot -> {"user", "fork", "wait", "exit"}]
    BY <1>6, <2>1 DEF ForkFinish, PState
  <2>6. ForkHasSlot'
    BY <1>6 DEF ForkFinish
  <2>7. UNCHANGED <<killed, hasPid, chan, dictator, gticks, tickReg, tick, cur, level, ptableLock>>
    BY <1>6 DEF ForkFinish
  <2> QED BY <2>3, <2>4, <2>5, <2>6, <2>7
<1>7. ASSUME NEW p \in Slot, ExitStart(c, p) PROVE TypeInv'
  BY <1>7 DEF ExitStart
<1>8. ASSUME NEW p \in Slot, ExitFinal(c, p) PROVE TypeInv'
  <2>1. SwitchOut(c, StepDown(p)) /\ cur[c] # None
    BY <1>8 DEF ExitFinal, At, None, Slot
  <2>2. StepDown(p) \in Slot \cup {None}
    BY DEF StepDown
  <2>3. ExitWakes(p) \in [Slot -> PState]
    BY DEF ExitWakes, Woken, PState
  <2>4. Adopted(p) \in [Slot -> Slot \cup {None}]
    BY ConstantsAssumption DEF Adopted, init, Slot
  <2> QED BY <1>8, <2>1, <2>2, <2>3, <2>4, SwitchOutType DEF ExitFinal, PState
<1>9. ASSUME NEW p \in Slot, WaitNone(c, p) PROVE TypeInv'
  BY <1>9 DEF WaitNone
<1>10. ASSUME NEW p \in Slot, WaitSleep(c, p) PROVE TypeInv'
  <2>1. SwitchOut(c, dictator) /\ cur[c] # None
    BY <1>10 DEF WaitSleep, InWait, At, None, Slot
  <2> QED BY <1>10, <2>1, SwitchOutType DEF WaitSleep, PState
<1>11. ASSUME NEW p \in Slot, LockRefused(c, p) PROVE TypeInv'
  BY <1>11 DEF LockRefused
<1>12. ASSUME NEW p \in Slot, Lock(c, p) PROVE TypeInv'
  <2>1. 0 \in 0..MaxQuantum /\ 0 \in 0..BoostTicks
    BY ConstantsAssumption DEF MaxQuantum, Quantum
  <2>2. dictator' \in Slot \cup {None} /\ gticks' \in 0..BoostTicks
    BY <1>12, <2>1 DEF Lock
  <2>3. tq' \in [Slot -> 0..MaxQuantum] /\ qlv' \in [Slot -> Levels \cup {-1}]
    BY <1>12, <2>1 DEF Lock
  <2> QED BY <1>12, <2>2, <2>3 DEF Lock
<1>13. ASSUME NEW p \in Slot, Unlock(c, p) PROVE TypeInv'
  <2>1. PutFront(queue[0], p) \in Seq(Slot)
    BY DEF PutFront, Levels
  <2>2. 0 \in 0..MaxQuantum /\ TopPriority \in 0..(TopPriority + 1)
    BY ConstantsAssumption DEF MaxQuantum, Quantum
  <2>3. queue' \in [Levels -> Seq(Slot)]
    BY <1>13, <2>1 DEF Unlock
  <2>4. /\ tq' \in [Slot -> 0..MaxQuantum] /\ qlv' \in [Slot -> Levels \cup {-1}]
        /\ priority' \in [Slot -> 0..(TopPriority + 1)]
    BY <1>13, <2>2 DEF Unlock, Levels
  <2> QED BY <1>13, <2>3, <2>4 DEF Unlock
<1>14. ASSUME NEW p \in Slot, NEW t \in Slot, ForkAlloc(c, p, t) PROVE TypeInv'
  BY <1>14 DEF ForkAlloc, PState
<1>15. ASSUME NEW p \in Slot, NEW t \in Slot, WaitReap(c, p, t) PROVE TypeInv'
  BY <1>15 DEF WaitReap, PState
<1>16. ASSUME NEW p \in Slot, NEW t \in Slot, Kill(c, p, t) PROVE TypeInv'
  BY <1>16 DEF Kill, PState
<1>17. ASSUME NEW p \in Slot, NEW t \in Slot, NEW pr \in -1..(TopPriority + 2),
              SetPriority(c, p, t, pr)
       PROVE  TypeInv'
  <2>1. queue' \in [Levels -> Seq(Slot)]
    <3>1. PICK lv \in Levels : \E k \in FirstAt(queue[lv], t) :
            queue' = [queue EXCEPT ![lv] = Rotate(@, k)]
      BY <1>17 DEF SetPriority
    <3>2. PICK k \in FirstAt(queue[lv], t) : queue' = [queue EXCEPT ![lv] = Rotate(@, k)]
      BY <3>1
    <3>3. k \in 1..Len(queue[lv])
      BY DEF FirstAt
    <3> QED BY <3>2, <3>3, RotateType
  <2>2. priority' \in [Slot -> 0..(TopPriority + 1)]
    BY <1>17, ConstantsAssumption DEF SetPriority
  <2> QED BY <1>17, <2>1, <2>2 DEF SetPriority
<1> QED
  BY <1>1, <1>2, <1>3, <1>4, <1>5, <1>6, <1>7, <1>8, <1>9, <1>10, <1>11, <1>12,
     <1>13, <1>14, <1>15, <1>16, <1>17 DEF Step

\* And so does every other step.
LEMMA NextType == TypeInv /\ [Next]_vars => TypeInv'
<1> SUFFICES ASSUME TypeInv, [Next]_vars PROVE TypeInv'
  OBVIOUS
<1> USE DEF TypeInv, TypeOK, ForkHasSlot, tickVars, schedVars, procVars, cpuVars
<1>1. CASE TickLoad
  BY <1>1 DEF TickLoad
<1>2. CASE TickStore
  BY <1>2, ConstantsAssumption DEF TickStore, MinOf
<1>3. CASE TickWakeup
  BY <1>3 DEF TickWakeup, Woken, PState
<1>4. CASE WakeupIO
  BY <1>4 DEF WakeupIO, Woken, PState
<1>5. ASSUME NEW c \in CPU, Step(c) PROVE TypeInv'
  BY <1>5, StepType
<1>6. CASE UNCHANGED vars
  BY <1>6 DEF vars
<1> QED
  BY <1>1, <1>2, <1>3, <1>4, <1>5, <1>6 DEF Next

\* Every reachable state of the processes, the queues, the timer and the
\* processors has the types of TypeOK.
THEOREM TypeCorrect == Spec => []TypeOK
<1>1. TypeInv => TypeOK
  BY DEF TypeInv
<1> QED
  BY <1>1, InitType, NextType, PTL DEF Spec

-----------------------------------------------------------------------------
(* Processors and the dictator, on one processor or without a dictator: two  *)
(* processors may dispatch one dictator, and then nothing below holds.       *)

Undivided == NCPU = 1 \/ Lockers = {}

\* Between allocproc() and the end of fork() the child's slot is its own.
ForkOwns ==
  \A p \in Slot : pc[p] = "fork" =>
    /\ np[p] \in Slot /\ state[np[p]] = "EMBRYO"
    /\ \A o \in Slot : pc[o] = "fork" /\ np[o] = np[p] => o = p

OnlyLockersDictate == Lockers = {} => dictator = None

ExecInv ==
  /\ TypeInv /\ OnlyLockersDictate
  /\ ForkOwns /\ OneCPU /\ DictatorAlone

\* What a step may do to a process it is not about: leave it, or wake it.
Quiet(s) ==
  \/ state'[s] = state[s]
  \/ state[s] = "SLEEPING" /\ state'[s] = "RUNNABLE"

\* main() starts with nobody on a processor.
LEMMA InitExec == Init => ExecInv
<1> SUFFICES ASSUME Init PROVE ExecInv
  OBVIOUS
<1>1. TypeInv
  BY InitType
<1>2. OneCPU
  BY DEF OneCPU, Init, None, Slot
<1>3. ForkOwns /\ OnlyLockersDictate /\ DictatorAlone
  BY DEF ForkOwns, OnlyLockersDictate, DictatorAlone, Init
<1> QED BY <1>1, <1>2, <1>3 DEF ExecInv

\* fork()'s slots stay with their processes when no call of fork() moves.
LEMMA StayForks ==
  ASSUME ExecInv,
         \A s \in Slot : pc'[s] = "fork" => pc[s] = "fork" /\ np'[s] = np[s],
         \A s \in Slot : state[s] = "EMBRYO" => state'[s] = "EMBRYO"
  PROVE  ForkOwns'
BY DEF ExecInv, ForkOwns

\* A step that leaves processors and dictator alone, wakes processes, starts the
\* child of a fork() and moves slots between UNUSED, EMBRYO and ZOMBIE.
LEMMA StayExec ==
  ASSUME ExecInv, TypeInv', ForkOwns', dictator' = dictator, cur' = cur,
         \A s \in Slot :
           \/ Quiet(s)
           \/ state[s] \in {"UNUSED", "EMBRYO", "ZOMBIE"}
              /\ state'[s] \in {"UNUSED", "EMBRYO", "ZOMBIE", "RUNNABLE"}
  PROVE  ExecInv'
<1>1. OneCPU'
  BY DEF ExecInv, OneCPU, Quiet
<1>2. DictatorAlone'
  <2> SUFFICES ASSUME dictator # None PROVE Live(dictator)'
    BY DEF ExecInv, DictatorAlone
  <2>1. Live(dictator) /\ dictator \in Slot
    BY DEF ExecInv, DictatorAlone, TypeInv, TypeOK
  <2> QED BY <2>1 DEF Live, Quiet
<1> QED BY <1>1, <1>2 DEF ExecInv, OnlyLockersDictate

\* A process leaves its processor (sched).
LEMMA LeaveExec ==
  ASSUME ExecInv, TypeInv', NEW c \in CPU, cur[c] # None,
         NEW d \in {None, dictator}, SwitchOut(c, d),
         state'[cur[c]] \in {"RUNNABLE", "SLEEPING", "ZOMBIE"},
         state'[cur[c]] = "ZOMBIE" => d # cur[c],
         \A s \in Slot : s # cur[c] => Quiet(s),
         \A s \in Slot : pc'[s] = "fork" => pc[s] = "fork" /\ np'[s] = np[s]
  PROVE  ExecInv'
<1> DEFINE p == cur[c]
<1>1. cur \in [CPU -> Slot \cup {None}] /\ cur' = [cur EXCEPT ![c] = None]
  BY DEF SwitchOut, ExecInv, TypeInv, TypeOK
<1>2. p \in Slot /\ state[p] = "RUNNING"
  BY <1>1 DEF ExecInv, OneCPU
<1>3. dictator' \in {None, d} /\ dictator \in Slot \cup {None}
  BY DEF SwitchOut, ExecInv, TypeInv, TypeOK
<1>4. ForkOwns'
  BY <1>2, StayForks DEF Quiet
<1>5. /\ cur'[c] = None
      /\ \A e \in CPU : e # c => cur'[e] = cur[e] /\ cur'[e] # p
  BY <1>1 DEF ExecInv, OneCPU
<1>6. p # None /\ \A s \in Slot : s # None
  BY DEF Slot, None
<1>7. OneCPU'
  <2>1. \A s \in Slot : s # p => (state'[s] = "RUNNING" <=> state[s] = "RUNNING")
    BY DEF Quiet
  <2>2. ASSUME NEW s \in Slot
        PROVE  state'[s] = "RUNNING" <=> \E e \in CPU : cur'[e] = s
    BY <1>2, <1>5, <1>6, <2>1 DEF ExecInv, OneCPU
  <2>3. \A b, e \in CPU : b # e /\ cur'[b] # None => cur'[b] # cur'[e]
    BY <1>5 DEF ExecInv, OneCPU
  <2> QED BY <2>2, <2>3 DEF OneCPU
<1>8. DictatorAlone'
  <2> SUFFICES ASSUME dictator' # None
               PROVE  Live(dictator)' /\ \A e \in CPU : cur'[e] \in {None, dictator'}
    BY DEF DictatorAlone
  <2>1. dictator' = dictator /\ dictator \in Slot /\ dictator = d /\ Live(dictator)
    BY <1>3 DEF ExecInv, DictatorAlone
  <2>2. \A e \in CPU : cur'[e] \in {None, dictator'}
    BY <1>5, <2>1 DEF ExecInv, DictatorAlone
  <2>3. state'[dictator] \in {"SLEEPING", "RUNNABLE", "RUNNING"}
    BY <2>1 DEF Quiet, Live
  <2> QED BY <2>1, <2>2, <2>3 DEF Live
<1>9. OnlyLockersDictate'
  BY <1>3 DEF ExecInv, OnlyLockersDictate
<1> QED BY <1>4, <1>7, <1>8, <1>9 DEF ExecInv

\* A process enters a processor (scheduler).
LEMMA ResumeExec ==
  ASSUME ExecInv, TypeInv', NEW c \in CPU, cur[c] = None,
         NEW p \in Slot, Resume(c, p), state[p] # "EMBRYO",
         \A d \in CPU : cur[d] # p, dictator \in {None, p}
  PROVE  ExecInv'
<1>1. /\ cur' = [cur EXCEPT ![c] = p] /\ state' = [state EXCEPT ![p] = "RUNNING"]
      /\ pc' = pc /\ np' = np /\ dictator' = dictator
  BY DEF Resume
<1>2. state \in [Slot -> PState] /\ cur \in [CPU -> Slot \cup {None}]
  BY DEF ExecInv, TypeInv, TypeOK
<1>3. ForkOwns'
  BY <1>1, <1>2 DEF ExecInv, ForkOwns
<1>4. cur'[c] = p /\ \A d \in CPU : d # c => cur'[d] = cur[d] /\ cur[d] # p
  BY <1>1, <1>2
<1>5. OneCPU'
  <2>1. p # None /\ \A s \in Slot : s # None
    BY DEF Slot, None
  <2>2. state'[p] = "RUNNING" /\ \A s \in Slot : s # p => state'[s] = state[s]
    BY <1>1, <1>2
  <2>3. ASSUME NEW s \in Slot
        PROVE  state'[s] = "RUNNING" <=> \E d \in CPU : cur'[d] = s
    BY <1>4, <2>1, <2>2 DEF ExecInv, OneCPU
  <2>4. \A d, e \in CPU : d # e /\ cur'[d] # None => cur'[d] # cur'[e]
    BY <1>4 DEF ExecInv, OneCPU
  <2> QED BY <2>3, <2>4 DEF OneCPU
<1>6. DictatorAlone'
  BY <1>1, <1>2, <1>4 DEF ExecInv, DictatorAlone, Live
<1> QED BY <1>1, <1>3, <1>5, <1>6 DEF ExecInv, OnlyLockersDictate

\* Every step of a processor, action by action.
LEMMA StepExec ==
  ASSUME ExecInv, TypeInv', Undivided, NEW c \in CPU, Step(c)
  PROVE  ExecInv'
<1>1. /\ state \in [Slot -> PState] /\ pc \in [Slot -> {"user", "fork", "wait", "exit"}]
      /\ np \in [Slot -> Slot \cup {None}] /\ cur \in [CPU -> Slot \cup {None}]
      /\ dictator \in Slot \cup {None}
  BY DEF ExecInv, TypeInv, TypeOK
<1>2. \A p \in Slot, d \in CPU : cur[d] = p => state[p] = "RUNNING" /\ cur[d] # None
  BY DEF ExecInv, OneCPU, Slot, None
<1> USE DEF schedVars, procVars, tickVars, cpuVars
<1>3. CASE DispatchDictator(c)
  <2>1. cur[c] = None /\ dictator \in Slot /\ Resume(c, dictator)
    BY <1>1, <1>3 DEF DispatchDictator
  <2>2. CPU = {c}
    BY <1>3, ConstantsAssumption
       DEF DispatchDictator, Undivided, ExecInv, OnlyLockersDictate, CPU
  <2>3. state[dictator] # "EMBRYO" /\ \A d \in CPU : cur[d] # dictator
    BY <2>1, <2>2 DEF ExecInv, DictatorAlone, Live, Slot, None
  <2> QED BY <2>1, <2>3, ResumeExec
<1>4. CASE DispatchQueued(c)
  <2>1. PICK lv \in Levels : \E k \in Picks(queue[lv], lv, Ready, priority) :
          Resume(c, queue[lv][k])
    BY <1>4 DEF DispatchQueued
  <2>2. PICK k \in Picks(queue[lv], lv, Ready, priority) : Resume(c, queue[lv][k])
    BY <2>1
  <2> DEFINE p == queue[lv][k]
  <2>3. state[p] = "RUNNABLE" /\ p \in Slot
    BY DEF Picks, ReadyAt, Ready
  <2>4. cur[c] = None /\ dictator = None /\ Resume(c, p)
    BY <1>4, <2>2 DEF DispatchQueued
  <2>5. \A d \in CPU : cur[d] # p
    BY <1>2, <2>3
  <2> HIDE DEF p
  <2> QED BY <2>3, <2>4, <2>5, ResumeExec
<1>5. CASE Yield(c)
  <2>1. cur[c] # None /\ SwitchOut(c, dictator)
    BY <1>5 DEF Yield
  <2>2. state' = [state EXCEPT ![cur[c]] = "RUNNABLE"] /\ pc' = pc /\ np' = np
    BY <1>5 DEF Yield
  <2> QED BY <1>1, <2>1, <2>2, LeaveExec DEF Quiet
<1>6. ASSUME NEW ch \in Sleeps, Sleep(c, ch) PROVE ExecInv'
  <2>1. cur[c] # None /\ SwitchOut(c, dictator)
    BY <1>6 DEF Sleep
  <2>2. state' = [state EXCEPT ![cur[c]] = "SLEEPING"] /\ pc' = pc /\ np' = np
    BY <1>6 DEF Sleep
  <2> QED BY <1>1, <2>1, <2>2, LeaveExec DEF Quiet
<1>7. ASSUME NEW p \in Slot, ForkFail(c, p) PROVE ExecInv'
  <2>1. /\ pc[p] = "fork" /\ state' = [state EXCEPT ![np[p]] = "UNUSED"]
        /\ np' = [np EXCEPT ![p] = None] /\ pc' = [pc EXCEPT ![p] = "user"]
        /\ cur' = cur /\ dictator' = dictator
    BY <1>7 DEF ForkFail, At
  <2>2. np[p] \in Slot /\ state[np[p]] = "EMBRYO"
    BY <2>1 DEF ExecInv, ForkOwns
  <2>3. ForkOwns'
    BY <1>1, <2>1, <2>2 DEF ExecInv, ForkOwns
  <2> QED BY <1>1, <2>1, <2>2, <2>3, StayExec DEF Quiet
<1>8. ASSUME NEW p \in Slot, ForkFinish(c, p) PROVE ExecInv'
  <2>1. /\ pc[p] = "fork" /\ state' = [state EXCEPT ![np[p]] = "RUNNABLE"]
        /\ np' = [np EXCEPT ![p] = None] /\ pc' = [pc EXCEPT ![p] = "user"]
        /\ cur' = cur /\ dictator' = dictator
    BY <1>8 DEF ForkFinish, At
  <2>2. np[p] \in Slot /\ state[np[p]] = "EMBRYO"
    BY <2>1 DEF ExecInv, ForkOwns
  <2>3. ForkOwns'
    BY <1>1, <2>1, <2>2 DEF ExecInv, ForkOwns
  <2> QED BY <1>1, <2>1, <2>2, <2>3, StayExec DEF Quiet
<1>9. ASSUME NEW p \in Slot, ExitStart(c, p) PROVE ExecInv'
  <2>1. /\ state' = state /\ np' = np /\ pc' = [pc EXCEPT ![p] = "exit"]
        /\ cur' = cur /\ dictator' = dictator
    BY <1>9 DEF ExitStart
  <2>2. ForkOwns'
    BY <1>1, <2>1, StayForks
  <2> QED BY <2>1, <2>2, StayExec DEF Quiet
<1>10. ASSUME NEW p \in Slot, ExitFinal(c, p) PROVE ExecInv'
  <2>1. cur[c] = p /\ cur[c] # None /\ SwitchOut(c, StepDown(p))
    BY <1>2, <1>10 DEF ExitFinal, At
  <2>2. StepDown(p) \in {None, dictator} /\ StepDown(p) # p
    BY DEF StepDown, None, Slot
  <2>3. /\ state' = [ExitWakes(p) EXCEPT ![p] = "ZOMBIE"]
        /\ pc' = [pc EXCEPT ![p] = "user"] /\ np' = np
    BY <1>10 DEF ExitFinal
  <2>4. /\ ExitWakes(p) \in [Slot -> PState]
        /\ \A s \in Slot : \/ ExitWakes(p)[s] = state[s]
                           \/ state[s] = "SLEEPING" /\ ExitWakes(p)[s] = "RUNNABLE"
    BY <1>1 DEF ExitWakes, Woken, PState
  <2>5. \A s \in Slot : s # cur[c] => Quiet(s)
    BY <2>1, <2>3, <2>4 DEF Quiet
  <2>6. state'[cur[c]] = "ZOMBIE"
    BY <2>1, <2>3, <2>4
  <2>7. \A s \in Slot : pc'[s] = "fork" => pc[s] = "fork" /\ np'[s] = np[s]
    BY <1>1, <2>3
  <2> QED BY <2>1, <2>2, <2>5, <2>6, <2>7, LeaveExec
<1>11. ASSUME NEW p \in Slot, WaitNone(c, p) PROVE ExecInv'
  <2>1. /\ state' = state /\ np' = np /\ pc' = [pc EXCEPT ![p] = "user"]
        /\ cur' = cur /\ dictator' = dictator
    BY <1>11 DEF WaitNone
  <2>2. ForkOwns'
    BY <1>1, <2>1, StayForks
  <2> QED BY <2>1, <2>2, StayExec DEF Quiet
<1>12. ASSUME NEW p \in Slot, WaitSleep(c, p) PROVE ExecInv'
  <2>1. cur[c] = p /\ cur[c] # None /\ SwitchOut(c, dictator)
    BY <1>2, <1>12 DEF WaitSleep, InWait, At
  <2>2. /\ state' = [state EXCEPT ![p] = "SLEEPING"]
        /\ pc' = [pc EXCEPT ![p] = "wait"] /\ np' = np
    BY <1>12 DEF WaitSleep
  <2> QED BY <1>1, <2>1, <2>2, LeaveExec DEF Quiet
<1>13. ASSUME NEW p \in Slot, LockRefused(c, p) \/ Lock(c, p) \/ Unlock(c, p)
       PROVE  ExecInv'
  <2>1. /\ p \in Lockers /\ cur[c] = p /\ cur' = cur /\ state' = state /\ np' = np
        /\ dictator' \in {None, p}
        /\ pc' = pc \/ pc' = [pc EXCEPT ![p] = "exit"]
    BY <1>13 DEF LockRefused, Lock, Unlock, At
  <2>2. CPU = {c}
    BY <2>1, ConstantsAssumption DEF Undivided, CPU
  <2>3. ForkOwns'
    BY <1>1, <2>1, StayForks
  <2>4. OneCPU' /\ DictatorAlone'
    BY <1>2, <2>1, <2>2 DEF ExecInv, OneCPU, DictatorAlone, Live
  <2> QED BY <2>1, <2>3, <2>4 DEF ExecInv, OnlyLockersDictate
<1>14. ASSUME NEW p \in Slot, NEW n \in Slot, ForkAlloc(c, p, n) PROVE ExecInv'
  <2>1. /\ pc[p] = "user" /\ state[n] = "UNUSED"
        /\ state' = [state EXCEPT ![n] = "EMBRYO"]
        /\ np' = [np EXCEPT ![p] = n] /\ pc' = [pc EXCEPT ![p] = "fork"]
        /\ cur' = cur /\ dictator' = dictator
    BY <1>14 DEF ForkAlloc, At
  <2>2. ForkOwns'
    BY <1>1, <2>1 DEF ExecInv, ForkOwns
  <2> QED BY <1>1, <2>1, <2>2, StayExec DEF Quiet
<1>15. ASSUME NEW p \in Slot, NEW z \in Slot, WaitReap(c, p, z) PROVE ExecInv'
  <2>1. /\ state[z] = "ZOMBIE" /\ state' = [state EXCEPT ![z] = "UNUSED"]
        /\ np' = np /\ pc' = [pc EXCEPT ![p] = "user"]
        /\ cur' = cur /\ dictator' = dictator
    BY <1>15 DEF WaitReap, ZombieChild
  <2>2. ForkOwns'
    BY <1>1, <2>1, StayForks
  <2> QED BY <1>1, <2>1, <2>2, StayExec DEF Quiet
<1>16. ASSUME NEW p \in Slot, NEW t \in Slot, Kill(c, p, t) PROVE ExecInv'
  <2>1. /\ state' = [state EXCEPT ![t] = IF @ = "SLEEPING" THEN "RUNNABLE" ELSE @]
        /\ np' = np /\ pc' = pc /\ cur' = cur /\ dictator' = dictator
    BY <1>16 DEF Kill
  <2>2. ForkOwns'
    BY <1>1, <2>1, StayForks
  <2> QED BY <1>1, <2>1, <2>2, StayExec DEF Quiet
<1>17. ASSUME NEW p \in Slot, NEW t \in Slot, NEW pr \in -1..(TopPriority + 2),
              SetPriority(c, p, t, pr)
       PROVE  ExecInv'
  <2>1. state' = state /\ np' = np /\ pc' = pc /\ cur' = cur /\ dictator' = dictator
    BY <1>17 DEF SetPriority
  <2>2. ForkOwns'
    BY <1>1, <2>1, StayForks
  <2> QED BY <2>1, <2>2, StayExec DEF Quiet
<1> QED
  BY <1>3, <1>4, <1>5, <1>6, <1>7, <1>8, <1>9, <1>10, <1>11, <1>12, <1>13,
     <1>14, <1>15, <1>16, <1>17 DEF Step

\* The timer and the wakeups of others keep the invariant too.
LEMMA NextExec ==
  ASSUME ExecInv, Undivided, [Next]_vars
  PROVE  ExecInv'
<1>1. TypeInv'
  BY NextType DEF ExecInv
<1>2. state \in [Slot -> PState]
  BY DEF ExecInv, TypeInv, TypeOK
<1>3. ASSUME NEW c \in CPU, Step(c) PROVE ExecInv'
  BY <1>1, <1>3, StepExec
<1>4. ASSUME TickLoad \/ TickStore \/ TickWakeup \/ WakeupIO \/ UNCHANGED vars
      PROVE  ExecInv'
  <2>1. /\ np' = np /\ pc' = pc /\ cur' = cur /\ dictator' = dictator
        /\ state' = state \/ state' = Woken(state, TicksChan) \/ state' = Woken(state, IOChan)
    BY <1>4 DEF TickLoad, TickStore, TickWakeup, WakeupIO, vars,
                procVars, schedVars, cpuVars
  <2>2. \A s \in Slot : Quiet(s)
    BY <1>2, <2>1 DEF Quiet, Woken
  <2>3. ForkOwns'
    BY <2>1, <2>2, StayForks DEF Quiet
  <2> QED BY <1>1, <2>1, <2>2, <2>3, StayExec
<1> QED BY <1>3, <1>4 DEF Next

LEMMA ExecAlways == ASSUME Undivided PROVE Spec => []ExecInv
<1>1. ExecInv /\ [Next]_vars => ExecInv'
  BY NextExec
<1> QED BY <1>1, InitExec, PTL DEF Spec

\* No two processors run one process, and a process is RUNNING exactly while one
\* does (scheduler, sched).
THEOREM OneCPUEach == ASSUME Undivided PROVE Spec => []OneCPU
<1>1. ExecInv => OneCPU
  BY DEF ExecInv
<1> QED BY <1>1, ExecAlways, PTL

\* While the scheduler is dictated only the dictator executes (schedulerLock,
\* scheduler), and the dictator is alive: exit() steps down first.
THEOREM DictatorRunsAlone == ASSUME Undivided PROVE Spec => []DictatorAlone
<1>1. ExecInv => DictatorAlone
  BY DEF ExecInv
<1> QED BY <1>1, ExecAlways, PTL

-----------------------------------------------------------------------------
(* Parents and children: exit() and wait() miss no wakeup.                   *)

\* init never exits, and is nobody's child: exit() gives it the children of others.
InitLives == Live(init) /\ parent[init] = None /\ pc[init] # "exit"

NoOwnParent == \A p \in Slot : parent[p] # p

FamilyInv == InitLives /\ NoOwnParent /\ NoLostExit

\* A step without a new sleeper in wait() and without a new ZOMBIE
LEMMA StayFamily ==
  ASSUME FamilyInv, InitLives',
         \A s \in Slot : parent'[s] # s,
         \A s \in Slot : state'[s] = "SLEEPING" /\ chan'[s] = s =>
                           state[s] = "SLEEPING" /\ chan[s] = s,
         \A s \in Slot : state'[s] = "ZOMBIE" => state[s] = "ZOMBIE" /\ parent'[s] = parent[s]
  PROVE  FamilyInv'
BY DEF FamilyInv, NoOwnParent, NoLostExit, ZombieChild, Children

\* init stays alive, as long as it does not exit.
LEMMA StayInit ==
  ASSUME ExecInv, InitLives, init \in Slot, parent'[init] = parent[init],
         \/ Quiet(init)
         \/ state'[init] \in {"RUNNING", "RUNNABLE", "SLEEPING"},
         pc'[init] = pc[init] \/ pc'[init] # "exit"
  PROVE  InitLives'
BY DEF InitLives, Live, Quiet

\* exit() makes a ZOMBIE, and gives children away, but wakes who waits for them.
LEMMA ExitFamily ==
  ASSUME ExecInv, FamilyInv, NEW c \in CPU, NEW p \in Slot, ExitFinal(c, p)
  PROVE  FamilyInv'
<1>1. /\ state \in [Slot -> PState] /\ parent \in [Slot -> Slot \cup {None}]
      /\ pc \in [Slot -> {"user", "fork", "wait", "exit"}]
  BY DEF ExecInv, TypeInv, TypeOK
<1>2. /\ state' = [ExitWakes(p) EXCEPT ![p] = "ZOMBIE"] /\ parent' = Adopted(p)
      /\ pc' = [pc EXCEPT ![p] = "user"] /\ chan' = chan /\ pc[p] = "exit" /\ cur[c] = p
  BY DEF ExitFinal, At
<1>3. state[p] = "RUNNING"
  BY <1>2 DEF ExecInv, OneCPU
<1>4. p # init /\ init \in Slot /\ init # None
  BY <1>2, ConstantsAssumption DEF FamilyInv, InitLives, init, Slot, None
<1> DEFINE st == Woken(state, parent[p])
<1>5. /\ ExitWakes(p) \in [Slot -> PState]
      /\ ExitWakes(p) = IF \E s \in Children(p) : st[s] = "ZOMBIE" THEN Woken(st, init) ELSE st
      /\ st \in [Slot -> PState]
  BY <1>1 DEF ExitWakes, Woken, PState
<1>6. \A s \in Slot : /\ st[s] = IF state[s] = "SLEEPING" /\ chan[s] = parent[p]
                                 THEN "RUNNABLE" ELSE state[s]
                      /\ Woken(st, init)[s] = IF st[s] = "SLEEPING" /\ chan[s] = init
                                              THEN "RUNNABLE" ELSE st[s]
  BY DEF Woken
<1> HIDE DEF st
<1>7. \A s \in Slot : parent'[s] = IF parent[s] = p THEN init ELSE parent[s]
  BY <1>2 DEF Adopted, Children
<1>8. \A s \in Slot : s # p => state'[s] = ExitWakes(p)[s]
  BY <1>2, <1>5
<1>9. state'[p] = "ZOMBIE"
  BY <1>2, <1>5
<1>10. InitLives'
  <2>1. parent'[init] = None
    BY <1>4, <1>7 DEF FamilyInv, InitLives, None, Slot
  <2>2. Live(init)'
    BY <1>4, <1>5, <1>6, <1>8 DEF FamilyInv, InitLives, Live
  <2>3. pc'[init] # "exit"
    BY <1>1, <1>2, <1>4 DEF FamilyInv, InitLives
  <2> QED BY <2>1, <2>2, <2>3 DEF InitLives
<1>11. NoOwnParent'
  <2>1. parent[init] # p
    BY DEF FamilyInv, InitLives, None, Slot
  <2> QED BY <1>7, <2>1 DEF FamilyInv, NoOwnParent
<1>12. ASSUME NEW x \in Slot, state'[x] = "SLEEPING", chan'[x] = x,
              NEW s \in Slot, parent'[s] = x, state'[s] = "ZOMBIE"
       PROVE  FALSE
  <2>1. x # p /\ state[x] = "SLEEPING" /\ chan[x] = x /\ x # parent[p]
    BY <1>2, <1>5, <1>6, <1>8, <1>9, <1>12
  <2>2. s # p
    BY <1>4, <1>7, <1>12, <2>1 DEF FamilyInv, NoOwnParent
  <2>3. state[s] = "ZOMBIE" /\ st[s] = "ZOMBIE"
    BY <1>5, <1>6, <1>8, <1>12, <2>2
  <2>4. parent[s] # x
    BY <2>1, <2>3 DEF FamilyInv, NoLostExit, ZombieChild, Children
  <2>5. parent[s] = p /\ x = init
    BY <1>7, <1>12, <2>4
  <2>6. ExitWakes(p) = Woken(st, init)
    BY <1>5, <2>3, <2>5 DEF Children
  <2> QED BY <1>6, <1>8, <1>12, <2>1, <2>5, <2>6
<1>13. NoLostExit'
  BY <1>12 DEF NoLostExit, ZombieChild, Children
<1> QED BY <1>10, <1>11, <1>13 DEF FamilyInv

\* Every step of a processor, action by action.
LEMMA StepFamily ==
  ASSUME ExecInv, FamilyInv, NEW c \in CPU, Step(c)
  PROVE  FamilyInv'
<1>1. /\ state \in [Slot -> PState] /\ pc \in [Slot -> {"user", "fork", "wait", "exit"}]
      /\ np \in [Slot -> Slot \cup {None}] /\ cur \in [CPU -> Slot \cup {None}]
      /\ chan \in [Slot -> Slot \cup Channels \cup {None}]
      /\ parent \in [Slot -> Slot \cup {None}]
      /\ dictator \in Slot \cup {None}
  BY DEF ExecInv, TypeInv, TypeOK
<1>2. \A p \in Slot, d \in CPU : cur[d] = p => state[p] = "RUNNING" /\ cur[d] # None
  BY DEF ExecInv, OneCPU, Slot, None
<1>3. init \in Slot /\ init # None /\ NPROC \in Nat
  BY ConstantsAssumption DEF init, Slot, None
<1>4. /\ InitLives
      /\ \A p \in Slot : parent[p] # p
      /\ state[init] \in {"SLEEPING", "RUNNABLE", "RUNNING"}
  BY DEF FamilyInv, NoOwnParent, InitLives, Live
<1> USE DEF schedVars, procVars, tickVars, cpuVars
<1>5. ASSUME NEW p \in Slot, Resume(c, p) PROVE FamilyInv'
  <2>1. /\ state' = [state EXCEPT ![p] = "RUNNING"] /\ chan' = [chan EXCEPT ![p] = None]
        /\ pc' = pc /\ parent' = parent
    BY <1>5 DEF Resume
  <2>2. InitLives'
    BY <1>1, <1>3, <1>4, <2>1, StayInit DEF Quiet
  <2> QED BY <1>1, <1>4, <2>1, <2>2, StayFamily
<1>6. CASE DispatchDictator(c)
  <2>1. dictator \in Slot /\ Resume(c, dictator)
    BY <1>1, <1>6 DEF DispatchDictator
  <2> QED BY <1>5, <2>1
<1>7. CASE DispatchQueued(c)
  <2>1. PICK lv \in Levels : \E k \in Picks(queue[lv], lv, Ready, priority) :
          Resume(c, queue[lv][k])
    BY <1>7 DEF DispatchQueued
  <2>2. PICK k \in Picks(queue[lv], lv, Ready, priority) : Resume(c, queue[lv][k])
    BY <2>1
  <2>3. queue[lv][k] \in Slot
    BY DEF Picks, ReadyAt, Ready
  <2> QED BY <1>5, <2>2, <2>3
<1>8. CASE Yield(c)
  <2>1. /\ state' = [state EXCEPT ![cur[c]] = "RUNNABLE"]
        /\ pc' = pc /\ parent' = parent /\ chan' = chan
    BY <1>8 DEF Yield
  <2>2. InitLives'
    BY <1>1, <1>3, <1>4, <2>1, StayInit DEF Quiet
  <2> QED BY <1>1, <1>4, <2>1, <2>2, StayFamily
<1>9. ASSUME NEW ch \in Sleeps, Sleep(c, ch) PROVE FamilyInv'
  <2>1. /\ state' = [state EXCEPT ![cur[c]] = "SLEEPING"]
        /\ chan' = [chan EXCEPT ![cur[c]] = ch]
        /\ pc' = pc /\ parent' = parent /\ cur[c] # None
    BY <1>9 DEF Sleep
  <2>2. cur[c] \in Slot /\ ch \notin Slot
    BY <1>1, <1>3, <2>1, ConstantsAssumption DEF Slot
  <2>3. InitLives'
    BY <1>1, <1>3, <1>4, <2>1, StayInit DEF Quiet
  <2>4. \A s \in Slot : state'[s] = "SLEEPING" /\ chan'[s] = s =>
                          state[s] = "SLEEPING" /\ chan[s] = s
    BY <1>1, <2>1, <2>2
  <2>5. \A s \in Slot : state'[s] = "ZOMBIE" => state[s] = "ZOMBIE"
    BY <1>1, <2>1
  <2> QED BY <1>4, <2>1, <2>3, <2>4, <2>5, StayFamily
<1>10. ASSUME NEW p \in Slot, ForkFail(c, p) \/ ForkFinish(c, p) PROVE FamilyInv'
  <2> DEFINE n == np[p]
  <2>1. /\ pc[p] = "fork" /\ pc' = [pc EXCEPT ![p] = "user"] /\ chan' = chan /\ cur[c] = p
        /\ \/ parent' = parent /\ state' = [state EXCEPT ![n] = "UNUSED"]
           \/ parent' = [parent EXCEPT ![n] = p] /\ state' = [state EXCEPT ![n] = "RUNNABLE"]
    BY <1>10 DEF ForkFail, ForkFinish, At
  <2>2. n \in Slot /\ state[n] = "EMBRYO" /\ n # init /\ n # p
    BY <1>2, <1>4, <2>1 DEF ExecInv, ForkOwns
  <2> HIDE DEF n
  <2>3. InitLives'
    BY <1>1, <1>3, <1>4, <2>1, <2>2, StayInit DEF Quiet
  <2>4. \A s \in Slot : parent'[s] # s
    BY <1>1, <1>4, <2>1, <2>2
  <2>5. \A s \in Slot : state'[s] \in {"SLEEPING", "ZOMBIE"} =>
                          s # n /\ state'[s] = state[s] /\ parent'[s] = parent[s]
    BY <1>1, <2>1, <2>2
  <2> QED BY <2>1, <2>3, <2>4, <2>5, StayFamily
<1>11. ASSUME NEW p \in Slot, ExitStart(c, p) PROVE FamilyInv'
  <2>1. /\ state' = state /\ pc' = [pc EXCEPT ![p] = "exit"]
        /\ chan' = chan /\ parent' = parent /\ p # init
    BY <1>11 DEF ExitStart
  <2>2. InitLives'
    BY <1>1, <1>3, <1>4, <2>1, StayInit DEF Quiet
  <2> QED BY <1>4, <2>1, <2>2, StayFamily
<1>12. ASSUME NEW p \in Slot, ExitFinal(c, p) PROVE FamilyInv'
  BY <1>12, ExitFamily
<1>13. ASSUME NEW p \in Slot, WaitNone(c, p) PROVE FamilyInv'
  <2>1. /\ state' = state /\ pc' = [pc EXCEPT ![p] = "user"]
        /\ chan' = chan /\ parent' = parent
    BY <1>13 DEF WaitNone
  <2>2. InitLives'
    BY <1>1, <1>3, <1>4, <2>1, StayInit DEF Quiet
  <2> QED BY <1>4, <2>1, <2>2, StayFamily
<1>14. ASSUME NEW p \in Slot, WaitSleep(c, p) PROVE FamilyInv'
  <2>1. /\ state' = [state EXCEPT ![p] = "SLEEPING"] /\ pc' = [pc EXCEPT ![p] = "wait"]
        /\ chan' = [chan EXCEPT ![p] = p] /\ parent' = parent
        /\ ZombieChild(p) = {} /\ cur[c] = p
    BY <1>14 DEF WaitSleep, InWait, At
  <2>2. InitLives'
    BY <1>1, <1>3, <1>4, <2>1, StayInit DEF Quiet
  <2>3. ASSUME NEW x \in Slot, state'[x] = "SLEEPING", chan'[x] = x,
               NEW s \in Slot, parent'[s] = x, state'[s] = "ZOMBIE"
        PROVE  FALSE
    <3>1. state[s] = "ZOMBIE" /\ parent[s] = x
      BY <1>1, <2>1, <2>3
    <3>2. x = p \/ (state[x] = "SLEEPING" /\ chan[x] = x)
      BY <1>1, <2>1, <2>3
    <3> QED BY <2>1, <3>1, <3>2 DEF FamilyInv, NoLostExit, ZombieChild, Children
  <2>4. NoLostExit'
    BY <2>3 DEF NoLostExit, ZombieChild, Children
  <2> QED BY <1>4, <2>1, <2>2, <2>4 DEF FamilyInv, NoOwnParent
<1>15. ASSUME NEW p \in Slot, LockRefused(c, p) \/ Lock(c, p) \/ Unlock(c, p)
       PROVE  FamilyInv'
  <2>1. /\ p \in Lockers /\ state' = state /\ chan' = chan /\ parent' = parent
        /\ pc' = pc \/ pc' = [pc EXCEPT ![p] = "exit"]
    BY <1>15 DEF LockRefused, Lock, Unlock
  <2>2. p # init
    BY <2>1, ConstantsAssumption DEF init
  <2>3. InitLives'
    BY <1>1, <1>3, <1>4, <2>1, <2>2, StayInit DEF Quiet
  <2> QED BY <1>4, <2>1, <2>3, StayFamily
<1>16. ASSUME NEW p \in Slot, NEW n \in Slot, ForkAlloc(c, p, n) PROVE FamilyInv'
  <2>1. /\ state[n] = "UNUSED" /\ state' = [state EXCEPT ![n] = "EMBRYO"]
        /\ pc' = [pc EXCEPT ![p] = "fork"] /\ chan' = chan /\ parent' = parent
    BY <1>16 DEF ForkAlloc
  <2>2. InitLives'
    BY <1>1, <1>3, <1>4, <2>1, StayInit DEF Quiet
  <2> QED BY <1>1, <1>4, <2>1, <2>2, StayFamily
<1>17. ASSUME NEW p \in Slot, NEW z \in Slot, WaitReap(c, p, z) PROVE FamilyInv'
  <2>1. /\ state[z] = "ZOMBIE" /\ state' = [state EXCEPT ![z] = "UNUSED"]
        /\ pc' = [pc EXCEPT ![p] = "user"] /\ chan' = chan
        /\ parent' = [parent EXCEPT ![z] = None]
    BY <1>17 DEF WaitReap, ZombieChild
  <2>2. z # init
    BY <1>4, <2>1
  <2>3. InitLives'
    BY <1>1, <1>3, <1>4, <2>1, <2>2, StayInit DEF Quiet
  <2>4. \A s \in Slot : parent'[s] # s
    BY <1>1, <1>4, <2>1 DEF None, Slot
  <2> QED BY <1>1, <2>1, <2>3, <2>4, StayFamily
<1>18. ASSUME NEW p \in Slot, NEW t \in Slot, Kill(c, p, t) PROVE FamilyInv'
  <2>1. /\ state' = [state EXCEPT ![t] = IF @ = "SLEEPING" THEN "RUNNABLE" ELSE @]
        /\ pc' = pc /\ chan' = chan /\ parent' = parent
    BY <1>18 DEF Kill
  <2>2. InitLives'
    BY <1>1, <1>3, <1>4, <2>1, StayInit DEF Quiet
  <2> QED BY <1>1, <1>4, <2>1, <2>2, StayFamily
<1>19. ASSUME NEW p \in Slot, NEW t \in Slot, NEW pr \in -1..(TopPriority + 2),
              SetPriority(c, p, t, pr)
       PROVE  FamilyInv'
  <2>1. state' = state /\ pc' = pc /\ chan' = chan /\ parent' = parent
    BY <1>19 DEF SetPriority
  <2>2. InitLives'
    BY <1>1, <1>3, <1>4, <2>1, StayInit DEF Quiet
  <2> QED BY <1>4, <2>1, <2>2, StayFamily
<1> QED
  BY <1>6, <1>7, <1>8, <1>9, <1>10, <1>11, <1>12, <1>13, <1>14, <1>15, <1>16, <1>17,
     <1>18, <1>19 DEF Step

LEMMA NextFamily ==
  ASSUME ExecInv, FamilyInv, [Next]_vars
  PROVE  FamilyInv'
<1>1. ASSUME NEW c \in CPU, Step(c) PROVE FamilyInv'
  BY <1>1, StepFamily
<1>2. ASSUME TickLoad \/ TickStore \/ TickWakeup \/ WakeupIO \/ UNCHANGED vars
      PROVE  FamilyInv'
  <2>1. /\ pc' = pc /\ chan' = chan /\ parent' = parent
        /\ state' = state \/ state' = Woken(state, TicksChan) \/ state' = Woken(state, IOChan)
    BY <1>2 DEF TickLoad, TickStore, TickWakeup, WakeupIO, vars,
                procVars, schedVars, cpuVars
  <2>2. state \in [Slot -> PState] /\ init \in Slot
    BY ConstantsAssumption DEF ExecInv, TypeInv, TypeOK, init, Slot
  <2>3. \A s \in Slot : Quiet(s)
    BY <2>1, <2>2 DEF Quiet, Woken
  <2>4. InitLives'
    BY <2>1, <2>2, <2>3, StayInit DEF FamilyInv
  <2> QED BY <2>1, <2>3, <2>4, StayFamily DEF Quiet, FamilyInv, NoOwnParent
<1> QED BY <1>1, <1>2 DEF Next

\* A parent that sleeps in wait() has no ZOMBIE child: exit() wakes it, also when
\* its child was adopted dead (exit, wait, wakeup1).
THEOREM ExitsAreSeen == ASSUME Undivided PROVE Spec => []NoLostExit
<1>1. Init => FamilyInv
  <2> SUFFICES ASSUME Init PROVE FamilyInv
    OBVIOUS
  <2>1. init \in Slot /\ \A s \in Slot : s # None
    BY ConstantsAssumption DEF init, Slot, None
  <2>2. InitLives
    BY <2>1 DEF InitLives, Live, Init
  <2>3. NoOwnParent /\ NoLostExit
    BY <2>1 DEF NoOwnParent, NoLostExit, Init
  <2> QED BY <2>2, <2>3 DEF FamilyInv
<1>2. ExecInv /\ FamilyInv /\ [Next]_vars => FamilyInv'
  BY NextFamily
<1>3. FamilyInv => NoLostExit
  BY DEF FamilyInv
<1> QED BY <1>1, <1>2, <1>3, ExecAlways, PTL DEF Spec

-----------------------------------------------------------------------------
(* The ticks.                                                              *)

\* Between the load and the store of trap()'s increment global_ticks can only be
\* set back, and on one processor nothing comes between the two.
TickInFlight ==
  tick = "loaded" => gticks <= tickReg /\ (NCPU = 1 => tickReg = gticks)

LEMMA TickStep ==
  ASSUME TypeOK, TickInFlight, [Next]_vars
  PROVE  /\ TickInFlight'
         /\ TickStore => gticks <= gticks'
         /\ NCPU = 1 => gticks' \in {0, gticks, gticks + 1}
<1> USE DEF schedVars, procVars, tickVars, cpuVars
<1> DEFINE NoLoad == /\ gticks' \in {0, gticks} /\ tick' \in {tick, "idle"}
                     /\ tick' = "loaded" =>
                          /\ tick = "loaded" /\ tickReg' = tickReg
                          /\ NCPU = 1 => gticks' = gticks
<1>0. gticks \in 0..BoostTicks /\ tickReg \in 0..BoostTicks /\ BoostTicks \in Nat
  BY ConstantsAssumption DEF TypeOK
<1>1. ASSUME NEW c \in CPU, NEW d, Active(c) \/ tick = "yield", SwitchOut(c, d)
      PROVE  NoLoad
  <2>1. NCPU = 1 => c = 0
    BY DEF CPU
  <2> QED BY <1>1, <2>1 DEF SwitchOut, Active
<1>2. ASSUME NEW c \in CPU, Step(c) PROVE NoLoad
  <2>1. NCPU = 1 => c = 0
    BY DEF CPU
  <2>2. CASE DispatchDictator(c) \/ DispatchQueued(c)
    BY <2>2 DEF DispatchDictator, DispatchQueued, Resume
  <2>3. CASE Yield(c)
    BY <1>1, <2>3 DEF Yield
  <2>4. ASSUME NEW ch \in Sleeps, Sleep(c, ch) PROVE NoLoad
    BY <1>1, <2>4 DEF Sleep, CanLock
  <2>5. ASSUME NEW p \in Slot, ExitFinal(c, p) \/ WaitSleep(c, p) PROVE NoLoad
    BY <1>1, <2>5 DEF ExitFinal, WaitSleep, InWait, At
  <2>6. ASSUME NEW p \in Slot, ExitStart(c, p) \/ Lock(c, p) PROVE NoLoad
    BY <2>1, <2>6 DEF ExitStart, Lock, At, Active
  <2>7. ASSUME NEW p \in Slot,
               \/ ForkFail(c, p) \/ ForkFinish(c, p) \/ WaitNone(c, p)
               \/ LockRefused(c, p) \/ Unlock(c, p)
        PROVE  NoLoad
    BY <2>7 DEF ForkFail, ForkFinish, WaitNone, LockRefused, Unlock
  <2>8. ASSUME NEW p \in Slot, NEW t \in Slot,
               ForkAlloc(c, p, t) \/ WaitReap(c, p, t) \/ Kill(c, p, t)
        PROVE  NoLoad
    BY <2>8 DEF ForkAlloc, WaitReap, Kill
  <2>9. ASSUME NEW p \in Slot, NEW t \in Slot, NEW pr \in -1..(TopPriority + 2),
               SetPriority(c, p, t, pr)
        PROVE  NoLoad
    BY <2>9 DEF SetPriority
  <2> QED BY <1>2, <2>2, <2>3, <2>4, <2>5, <2>6, <2>7, <2>8, <2>9 DEF Step
<1>3. ASSUME NEW c \in CPU, Step(c)
      PROVE  /\ TickInFlight' /\ gticks' \in {0, gticks}
             /\ TickStore => gticks <= gticks'
  <2>1. ~TickStore
    BY <1>2, <1>3 DEF TickStore
  <2> QED BY <1>0, <1>2, <1>3, <2>1 DEF TickInFlight
<1>4. CASE TickLoad
  BY <1>0, <1>4 DEF TickLoad, TickStore, TickInFlight
<1>5. CASE TickStore
  BY <1>0, <1>5 DEF TickStore, TickInFlight, MinOf
<1>6. CASE TickWakeup \/ WakeupIO \/ UNCHANGED vars
  BY <1>0, <1>6 DEF TickWakeup, WakeupIO, TickStore, vars, TickInFlight
<1> QED BY <1>3, <1>4, <1>5, <1>6 DEF Next

LEMMA TickAlways == Spec => []TickInFlight
<1>1. Init => TickInFlight
  BY DEF Init, TickInFlight
<1>2. TypeOK /\ TickInFlight /\ [Next]_vars => TickInFlight'
  BY TickStep
<1> QED BY <1>1, <1>2, TypeCorrect, PTL DEF Spec

\* global_ticks goes up by one or to 0: no tick is lost or counted twice, and no
\* reset is undone, when one processor takes timer interrupts and runs the rest
\* (trap, priorityBoost, schedulerLock).
THEOREM TicksCounted == ASSUME NCPU = 1 PROVE Spec => TicksByOne
<1>1. TypeOK /\ TickInFlight /\ [Next]_vars => [gticks' \in {0, gticks, gticks + 1}]_vars
  BY TickStep
<1> QED BY <1>1, TickAlways, TypeCorrect, PTL DEF Spec, TicksByOne
=============================================================================
