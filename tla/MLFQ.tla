-------------------------------- MODULE MLFQ --------------------------------
(***************************************************************************)
(* Processes and the multi-level feedback queue scheduler of               *)
(* Project01-MLFQ (proc.c, trap.c, sysproc.c).                             *)
(*                                                                         *)
(* ptable.lock makes each critical section of proc.c one action.  The one  *)
(* section that spans two actions is a dispatch that resumes a process     *)
(* inside wait(): the lock taken by scheduler() is still held when the     *)
(* process scans for children again, so ptableLock names the CPU that      *)
(* holds it between the two.  What the code does without the lock          *)
(* (allocation in fork(), the files closed by exit(), the timer's          *)
(* increment of global_ticks) is a step of its own.                        *)
(***************************************************************************)
EXTENDS ReadyQueue, FiniteSets

CONSTANTS
  NPROC,        \* entries of the process table
  NCPU,         \* processors; processor 0 counts the ticks
  QuantumBase,  \* 4: time slices of L0 ...
  QuantumStep,  \* 2: ... and how many more each lower level has
  TopPriority,  \* 3: the priority of a new or boosted process
  BoostTicks,   \* 100: ticks between two priority boosts
  Lockers,      \* slots whose programs call schedulerLock and schedulerUnlock
  Setters,      \* slots whose programs call setPriority
  Killers,      \* slots whose programs call kill
  Sleeps,       \* channels the programs sleep on: some of Channels
  MaxQueue      \* bound: an unlock is tried with fewer entries in mlfq

ASSUME ConstantsAssumption ==
  /\ NPROC \in Nat \ {0} /\ NCPU \in Nat \ {0}
  /\ QuantumBase \in Nat \ {0} /\ QuantumStep \in Nat
  /\ TopPriority \in Nat /\ BoostTicks \in Nat \ {0}
  \* init (slot 0) runs init.c, which calls none of the three
  /\ Lockers \subseteq 1..(NPROC - 1)
  /\ Setters \subseteq 0..(NPROC - 1) /\ Killers \subseteq 0..(NPROC - 1)
  /\ Sleeps \subseteq {NPROC, NPROC + 1}
  /\ MaxQueue \in Nat

Slot == 0..(NPROC - 1)      \* an entry of ptable.proc
CPU  == 0..(NCPU - 1)
None == -1                  \* a null pointer, an index of -1
init == 0                   \* the slot of initproc

\* Sleep channels: a slot stands for the address of its struct proc.
TicksChan == NPROC          \* &ticks
IOChan    == NPROC + 1      \* a buffer, a pipe, the log: released by someone
Channels  == {TicksChan, IOChan}

VARIABLES
  state,      \* p->state
  killed,     \* p->killed
  hasPid,     \* p->pid # 0; pids are never reused, so a slot identifies one
  parent,     \* p->parent
  chan,       \* p->chan
  qlv,        \* p->qlv
  priority,   \* p->priority
  tq,         \* p->consumed_tq
  pc,         \* where the process is in its system call
  np,         \* fork(): the slot allocated for the child
  queue,      \* mlfq[lv], as a sequence of slots
  dictator,   \* scheduler_dictator; None exactly when is_dictated = 0
  gticks,     \* global_ticks
  tick,       \* progress of the timer handler on CPU 0
  tickReg,    \* the value of global_ticks its increment has loaded
  cur,        \* c->proc
  level,      \* the local variable lv of scheduler() on each CPU
  ptableLock  \* the CPU that holds ptable.lock from one action to the next

procVars  == <<state, killed, hasPid, parent, chan, pc, np>>
schedVars == <<qlv, priority, tq, queue, dictator>>
tickVars  == <<gticks, tick, tickReg>>
cpuVars   == <<cur, level, ptableLock>>
vars == <<procVars, schedVars, tickVars, cpuVars>>

PState == {"UNUSED", "EMBRYO", "SLEEPING", "RUNNABLE", "RUNNING", "ZOMBIE"}

Quantum(lv)  == lv * QuantumStep + QuantumBase
MaxQuantum   == Quantum(2)
MinOf(a, b)  == IF a < b THEN a ELSE b
Live(p)      == state[p] \in {"SLEEPING", "RUNNABLE", "RUNNING"}
Queued       == UNION {Members(queue[lv]) : lv \in Levels}

TypeOK ==
  /\ state \in [Slot -> PState] /\ killed \in [Slot -> BOOLEAN]
  /\ hasPid \in [Slot -> BOOLEAN] /\ parent \in [Slot -> Slot \cup {None}]
  /\ chan \in [Slot -> Slot \cup Channels \cup {None}] /\ qlv \in [Slot -> Levels \cup {-1}]
  /\ priority \in [Slot -> 0..(TopPriority + 1)]
  /\ tq \in [Slot -> 0..MaxQuantum]
  /\ pc \in [Slot -> {"user", "fork", "wait", "exit"}]
  /\ np \in [Slot -> Slot \cup {None}]
  /\ queue \in [Levels -> Seq(Slot)]
  /\ dictator \in Slot \cup {None}
  /\ gticks \in 0..BoostTicks /\ tickReg \in 0..BoostTicks
  /\ tick \in {"idle", "loaded", "stored", "yield"}
  /\ cur \in [CPU -> Slot \cup {None}] /\ level \in [CPU -> Levels]
  /\ ptableLock \in CPU \cup {None}

\* main() after userinit(): init is RUNNABLE in L0, every CPU in scheduler().
Init ==
  /\ state = [p \in Slot |-> IF p = init THEN "RUNNABLE" ELSE "UNUSED"]
  /\ hasPid = [p \in Slot |-> p = init]
  /\ killed = [p \in Slot |-> FALSE]
  /\ parent = [p \in Slot |-> None] /\ chan = [p \in Slot |-> None]
  /\ qlv = [p \in Slot |-> 0] /\ tq = [p \in Slot |-> 0]
  /\ priority = [p \in Slot |-> IF p = init THEN TopPriority ELSE 0]
  /\ pc = [p \in Slot |-> "user"] /\ np = [p \in Slot |-> None]
  /\ queue = [lv \in Levels |-> IF lv = 0 THEN <<init>> ELSE <<>>]
  /\ dictator = None
  /\ gticks = 0 /\ tick = "idle" /\ tickReg = 0
  /\ cur = [c \in CPU |-> None] /\ level = [c \in CPU |-> 0]
  /\ ptableLock = None

-----------------------------------------------------------------------------
(* The scheduler.                                                          *)

\* CPU c executes ordinary code, not the timer interrupt.
AlwaysActive(c) == TRUE
Active(c) == c # 0 \/ tick = "idle"

\* CPU c runs a process that can enter a critical section of ptable.lock.
CanLock(c) == Active(c) /\ ptableLock = None

Ready == {p \in Slot : state[p] = "RUNNABLE"}

\* p runs on c.  It returns from sched() inside sleep(), which clears p->chan;
\* inside wait() it goes on with ptable.lock held.
LateRunning(c, p) ==
  /\ cur' = [cur EXCEPT ![c] = p]
  /\ chan' = [chan EXCEPT ![p] = None]
  /\ ptableLock' = IF pc[p] = "wait" THEN c ELSE None
  /\ UNCHANGED <<state, killed, hasPid, parent, pc, np, qlv, priority, tq, dictator>>
  /\ UNCHANGED tickVars
Resume(c, p) ==
  /\ cur' = [cur EXCEPT ![c] = p]
  /\ state' = [state EXCEPT ![p] = "RUNNING"]
  /\ chan' = [chan EXCEPT ![p] = None]
  /\ ptableLock' = IF pc[p] = "wait" THEN c ELSE None
  /\ UNCHANGED <<killed, hasPid, parent, pc, np, qlv, priority, tq, dictator>>
  /\ UNCHANGED tickVars

\* scheduler(): the dictator runs, whatever its state, and stays out of mlfq.
DispatchDictator(c) ==
  /\ cur[c] = None /\ CanLock(c) /\ dictator # None
  /\ Resume(c, dictator)
  /\ level' = [level EXCEPT ![c] = 0]
  /\ UNCHANGED queue

\* scheduler(): the first level with a RUNNABLE process gives its pick.
DispatchQueued(c) ==
  /\ cur[c] = None /\ CanLock(c) /\ dictator = None
  /\ \E lv \in Levels :
       /\ ReadyAt(queue[lv], Ready) # {}
       /\ \A l \in 0..(lv - 1) : ReadyAt(queue[l], Ready) = {}
       /\ \E k \in Picks(queue[lv], lv, Ready, priority) :
            /\ Resume(c, queue[lv][k])
            /\ queue' = [queue EXCEPT ![lv] = Extract(@, k)]
       /\ level' = [level EXCEPT ![c] = lv]

\* The level after one that is used up, and whether it is: dictators use none up.
UnboundedNextLevel(lv) == lv + 1
NextLevel(lv) == MinOf(lv + 1, 2)

LateExpired(c, d, used) == d = None /\ used > Quantum(level[c])
Expired(c, d, used) == d = None /\ used >= Quantum(level[c])

\* enQ() after the feedback: not for a dictator, not for a ZOMBIE.
RequeuedZombie(p, lv, d) ==
  IF d = None THEN [queue EXCEPT ![lv] = enQ(@, p)] ELSE queue
Requeued(p, lv, d) ==
  IF d = None /\ state'[p] # "ZOMBIE" THEN [queue EXCEPT ![lv] = enQ(@, p)] ELSE queue

\* Whether priorityBoost() is due when a process leaves under the dictator d.
UndictatedBoostDue(d) == gticks >= BoostTicks /\ d = None
BoostDue(d) == gticks >= BoostTicks

\* priorityBoost(): where the queues and a dictator d end, and whose level,
\* priority and time it resets.
LosingBoosted(q, d) ==
  [lv \in Levels |-> IF lv # 0 THEN <<>> ELSE q[0] \o q[1] \o q[2]]
StickyBoosted(q, d) ==
  [q EXCEPT ![0] = @ \o q[1], ![1] = <<>>]
Boosted(q, d) ==
  [lv \in Levels |->
     IF lv # 0 THEN <<>>
     ELSE IF d = None THEN q[0] \o q[1] \o q[2]
     ELSE PutFront(q[0], d) \o q[1] \o q[2]]

ShortLifted(q, d) == {s \in Slot : s = d \/ \E l \in 0..1 : s \in Members(q[l])}
Lifted(q, d) == {s \in Slot : s = d \/ \E l \in Levels : s \in Members(q[l])}

(***************************************************************************)
(* sched() on CPU c after the process has set its state, and the rest of   *)
(* the scheduler's loop body: feedback, enQ, boost.  d is the dictator     *)
(* when the process enters sched().  consumed_tq is only compared with     *)
(* quanta: it stays at MaxQuantum once there.                              *)
(***************************************************************************)
SwitchOut(c, d) ==
  LET p       == cur[c]
      used    == MinOf(tq[p] + 1, MaxQuantum)
      expired == Expired(c, d, used)
      lv      == IF expired THEN NextLevel(level[c]) ELSE level[c]
      lowered == IF priority[p] > 0 THEN priority[p] - 1 ELSE 0
      q       == Requeued(p, lv, d)
      boost   == BoostDue(d)
      lifted  == IF boost THEN Lifted(q, d) ELSE {}
      qlv1    == [qlv EXCEPT ![p] = IF expired THEN lv ELSE @]
      tq1     == [tq EXCEPT ![p] = IF expired THEN 0 ELSE used]
      prio1   == [priority EXCEPT ![p] = IF expired /\ level[c] = 2 THEN lowered ELSE @]
  IN /\ qlv' = [s \in Slot |-> IF s \in lifted THEN 0 ELSE qlv1[s]]
     /\ tq' = [s \in Slot |-> IF s \in lifted THEN 0 ELSE tq1[s]]
     /\ priority' = [s \in Slot |-> IF s \in lifted THEN TopPriority ELSE prio1[s]]
     /\ queue' = IF boost THEN Boosted(q, d) ELSE q
     /\ dictator' = IF boost THEN None ELSE d
     /\ gticks' = IF boost THEN 0 ELSE gticks
     /\ cur' = [cur EXCEPT ![c] = None]
     /\ ptableLock' = None
     /\ tick' = IF c = 0 THEN "idle" ELSE tick
     /\ UNCHANGED <<level, tickReg>>

-----------------------------------------------------------------------------
(* The timer: trap.c, on CPU 0.  It interrupts a process, or the           *)
(* scheduler's loop, while CPU 0 does not hold ptable.lock, and ends in    *)
(* yield() when it interrupts a process.                                   *)

TickLoad ==
  /\ tick = "idle" /\ ptableLock # 0
  /\ tick' = "loaded" /\ tickReg' = gticks
  /\ UNCHANGED <<procVars, schedVars, cpuVars, gticks>>

\* global_ticks stays at BoostTicks once there: it is only compared with it.
TickStore ==
  /\ tick = "loaded"
  /\ tick' = "stored" /\ gticks' = MinOf(tickReg + 1, BoostTicks)
  /\ tickReg' = 0
  /\ UNCHANGED <<procVars, schedVars, cpuVars>>

\* wakeup1(): every process asleep on ch becomes RUNNABLE in state st.
Woken(st, ch) == [p \in Slot |-> IF st[p] = "SLEEPING" /\ chan[p] = ch
                                 THEN "RUNNABLE" ELSE st[p]]

TickWakeup ==
  /\ tick = "stored" /\ ptableLock = None
  /\ tick' = IF cur[0] = None THEN "idle" ELSE "yield"
  /\ state' = Woken(state, TicksChan)
  /\ UNCHANGED <<killed, hasPid, parent, chan, pc, np, gticks, tickReg>>
  /\ UNCHANGED <<schedVars, cpuVars>>

\* An interrupt handler or another process calls wakeup() for finished I/O.
WakeupIO ==
  /\ ptableLock = None
  /\ state' = Woken(state, IOChan)
  /\ UNCHANGED <<killed, hasPid, parent, chan, pc, np>>
  /\ UNCHANGED <<schedVars, tickVars, cpuVars>>

-----------------------------------------------------------------------------
(* System calls of the process p that runs on CPU c.                       *)

At(c, p, where) == cur[c] = p /\ Active(c) /\ pc[p] = where

\* yield(): at the end of a timer interrupt, which comes at any point of a
\* process that does not hold ptable.lock, and from sys_yield.
Yield(c) ==
  /\ cur[c] # None /\ ptableLock = None /\ (Active(c) \/ tick = "yield")
  /\ state' = [state EXCEPT ![cur[c]] = "RUNNABLE"]
  /\ SwitchOut(c, dictator)
  /\ UNCHANGED <<killed, hasPid, parent, chan, pc, np>>

\* sleep() on a channel other than the process's own wait().
Sleep(c, ch) ==
  /\ cur[c] # None /\ CanLock(c)
  /\ pc[cur[c]] = "user" \/ (pc[cur[c]] = "exit" /\ ch = IOChan)
  /\ chan' = [chan EXCEPT ![cur[c]] = ch]
  /\ state' = [state EXCEPT ![cur[c]] = "SLEEPING"]
  /\ SwitchOut(c, dictator)
  /\ UNCHANGED <<killed, hasPid, parent, pc, np>>

\* allocproc() under the lock; no free slot makes fork() return -1.
ForkAlloc(c, p, n) ==
  /\ At(c, p, "user") /\ ptableLock = None
  /\ state[n] = "UNUSED" /\ \A s \in 0..(n - 1) : state[s] # "UNUSED"
  /\ state' = [state EXCEPT ![n] = "EMBRYO"]
  /\ hasPid' = [hasPid EXCEPT ![n] = TRUE]
  /\ np' = [np EXCEPT ![p] = n] /\ pc' = [pc EXCEPT ![p] = "fork"]
  /\ UNCHANGED <<killed, parent, chan, schedVars, tickVars, cpuVars>>

\* kalloc() or copyuvm() fails: the slot is given back without the lock, and
\* keeps its pid and its killed flag.
ForkFail(c, p) ==
  /\ At(c, p, "fork")
  /\ state' = [state EXCEPT ![np[p]] = "UNUSED"]
  /\ np' = [np EXCEPT ![p] = None] /\ pc' = [pc EXCEPT ![p] = "user"]
  /\ UNCHANGED <<killed, hasPid, parent, chan, schedVars, tickVars, cpuVars>>

\* The rest of fork(): the child enters L0.
ForkFinish(c, p) ==
  /\ At(c, p, "fork") /\ ptableLock = None
  /\ parent' = [parent EXCEPT ![np[p]] = p]
  /\ state' = [state EXCEPT ![np[p]] = "RUNNABLE"]
  /\ priority' = [priority EXCEPT ![np[p]] = TopPriority]
  /\ qlv' = [qlv EXCEPT ![np[p]] = 0] /\ tq' = [tq EXCEPT ![np[p]] = 0]
  /\ queue' = [queue EXCEPT ![0] = enQ(@, np[p])]
  /\ np' = [np EXCEPT ![p] = None] /\ pc' = [pc EXCEPT ![p] = "user"]
  /\ UNCHANGED <<killed, hasPid, chan, dictator, tickVars, cpuVars>>

\* exit() up to the lock, called by the process, or by trap() for a killed one
\* (before the yield, in a timer interrupt).  init never exits.
ExitStart(c, p) ==
  /\ cur[c] = p /\ pc[p] = "user" /\ p # init
  /\ Active(c) \/ (tick = "yield" /\ killed[p])
  /\ pc' = [pc EXCEPT ![p] = "exit"]
  /\ tick' = IF c = 0 THEN "idle" ELSE tick
  /\ UNCHANGED <<state, killed, hasPid, parent, chan, np>>
  /\ UNCHANGED <<schedVars, gticks, tickReg, cpuVars>>

\* The rest of exit(): wake the parent, give the children to init (and wake
\* init for a ZOMBIE among them), become a ZOMBIE, step down as dictator.
Children(p) == {s \in Slot : parent[s] = p}

UnwokenParent(p) ==
  IF \E s \in Children(p) : state[s] = "ZOMBIE" THEN Woken(state, init) ELSE state
ExitWakes(p) ==
  LET st == Woken(state, parent[p])
  IN IF \E s \in Children(p) : st[s] = "ZOMBIE" THEN Woken(st, init) ELSE st

Adopted(p) == [s \in Slot |-> IF s \in Children(p) THEN init ELSE parent[s]]

StayDictator(p) == dictator
StepDown(p) == IF dictator = p THEN None ELSE dictator

ExitFinal(c, p) ==
  /\ At(c, p, "exit") /\ ptableLock = None
  /\ state' = [ExitWakes(p) EXCEPT ![p] = "ZOMBIE"]
  /\ parent' = Adopted(p)
  /\ pc' = [pc EXCEPT ![p] = "user"]
  /\ SwitchOut(c, StepDown(p))
  /\ UNCHANGED <<killed, hasPid, chan, np>>

\* One round of wait(): its first, or one that a dispatch resumes.
InWait(c, p) ==
  \/ At(c, p, "user") /\ ptableLock = None
  \/ At(c, p, "wait") /\ ptableLock = c

ZombieChild(p) == {s \in Children(p) : state[s] = "ZOMBIE"}

WaitReap(c, p, z) ==
  /\ InWait(c, p)
  /\ z \in ZombieChild(p) /\ \A s \in ZombieChild(p) : z <= s
  /\ state' = [state EXCEPT ![z] = "UNUSED"]
  /\ hasPid' = [hasPid EXCEPT ![z] = FALSE]
  /\ parent' = [parent EXCEPT ![z] = None]
  /\ killed' = [killed EXCEPT ![z] = FALSE]
  /\ pc' = [pc EXCEPT ![p] = "user"]
  /\ ptableLock' = None
  /\ UNCHANGED <<chan, np, schedVars, tickVars, cur, level>>

WaitNone(c, p) ==
  /\ InWait(c, p)
  /\ ZombieChild(p) = {} /\ (Children(p) = {} \/ killed[p])
  /\ pc' = [pc EXCEPT ![p] = "user"]
  /\ ptableLock' = None
  /\ UNCHANGED <<state, killed, hasPid, parent, chan, np>>
  /\ UNCHANGED <<schedVars, tickVars, cur, level>>

BlindWaitSleep(c, p) ==
  /\ InWait(c, p) /\ Children(p) # {} /\ ~killed[p]
  /\ pc' = [pc EXCEPT ![p] = "wait"]
  /\ chan' = [chan EXCEPT ![p] = p]
  /\ state' = [state EXCEPT ![p] = "SLEEPING"]
  /\ SwitchOut(c, dictator)
  /\ UNCHANGED <<killed, hasPid, parent, np>>
WaitSleep(c, p) ==
  /\ InWait(c, p)
  /\ ZombieChild(p) = {} /\ Children(p) # {} /\ ~killed[p]
  /\ pc' = [pc EXCEPT ![p] = "wait"]
  /\ chan' = [chan EXCEPT ![p] = p]
  /\ state' = [state EXCEPT ![p] = "SLEEPING"]
  /\ SwitchOut(c, dictator)
  /\ UNCHANGED <<killed, hasPid, parent, np>>

\* kill(pid) takes the first slot whose pid matches; kill(0) matches a slot
\* without a process.  Programs do not kill init, which would panic in exit().
Kill(c, p, t) ==
  /\ At(c, p, "user") /\ p \in Killers /\ ptableLock = None
  /\ t # init /\ (hasPid[t] \/ \A s \in 0..(t - 1) : hasPid[s])
  /\ killed' = [killed EXCEPT ![t] = TRUE]
  /\ state' = [state EXCEPT ![t] = IF @ = "SLEEPING" THEN "RUNNABLE" ELSE @]
  /\ UNCHANGED <<hasPid, parent, chan, pc, np, schedVars, tickVars, cpuVars>>

\* setPriority(pid, pr): the search rotates the level that holds the process,
\* so that it ends at the back; the range check comes after the search.
SetPriority(c, p, t, pr) ==
  /\ At(c, p, "user") /\ p \in Setters /\ ptableLock = None
  /\ \E lv \in Levels :
       /\ \A l \in 0..(lv - 1) : t \notin Members(queue[l])
       /\ \E k \in FirstAt(queue[lv], t) :
            queue' = [queue EXCEPT ![lv] = Rotate(@, k)]
  /\ priority' = IF pr < 0 \/ pr > TopPriority + 1 THEN priority
                 ELSE [priority EXCEPT ![t] = pr]
  /\ UNCHANGED <<qlv, tq, dictator, procVars, tickVars, cpuVars>>

\* schedulerLock() while the scheduler is dictated, or with a wrong password:
\* the caller goes to exit(); in the first case the dictator steps down.
LockRefused(c, p) ==
  /\ At(c, p, "user") /\ p \in Lockers /\ ptableLock = None
  /\ dictator' = None
  /\ pc' = [pc EXCEPT ![p] = "exit"]
  /\ UNCHANGED <<state, killed, hasPid, parent, chan, np>>
  /\ UNCHANGED <<qlv, priority, tq, queue, tickVars, cpuVars>>

Lock(c, p) ==
  /\ At(c, p, "user") /\ p \in Lockers /\ ptableLock = None
  /\ dictator = None
  /\ dictator' = p /\ gticks' = 0
  /\ tq' = [tq EXCEPT ![p] = 0] /\ qlv' = [qlv EXCEPT ![p] = -1]
  /\ UNCHANGED <<procVars, priority, queue, tick, tickReg, cpuVars>>

\* schedulerUnlock(): the dictator goes to the front of L0 while it runs.  A
\* wrong password is ExitStart, any other caller is left as it is.
Unlock(c, p) ==
  /\ At(c, p, "user") /\ p \in Lockers /\ ptableLock = None
  /\ dictator = p /\ Len(queue[0]) + Len(queue[1]) + Len(queue[2]) < MaxQueue
  /\ dictator' = None
  /\ priority' = [priority EXCEPT ![p] = TopPriority]
  /\ qlv' = [qlv EXCEPT ![p] = 0] /\ tq' = [tq EXCEPT ![p] = 0]
  /\ queue' = [queue EXCEPT ![0] = PutFront(@, p)]
  /\ UNCHANGED <<procVars, tickVars, cpuVars>>

-----------------------------------------------------------------------------
Step(c) ==
  \/ DispatchDictator(c) \/ DispatchQueued(c) \/ Yield(c)
  \/ \E ch \in Sleeps : Sleep(c, ch)
  \/ \E p \in Slot :
       \/ ForkFail(c, p) \/ ForkFinish(c, p)
       \/ ExitStart(c, p) \/ ExitFinal(c, p)
       \/ WaitNone(c, p) \/ WaitSleep(c, p)
       \/ LockRefused(c, p) \/ Lock(c, p) \/ Unlock(c, p)
       \/ \E t \in Slot : ForkAlloc(c, p, t) \/ WaitReap(c, p, t) \/ Kill(c, p, t)
       \/ \E t \in Slot, pr \in -1..(TopPriority + 2) : SetPriority(c, p, t, pr)

Next ==
  \/ TickLoad \/ TickStore \/ TickWakeup \/ WakeupIO
  \/ \E c \in CPU : Step(c)

Spec == Init /\ [][Next]_vars

(***************************************************************************)
(* The timer interrupts every CPU again and again (an interrupt that comes *)
(* while ptable.lock is held stays pending, hence SF), and between two of  *)
(* them a CPU executes enough to get through scheduler() once.             *)
(***************************************************************************)
Fairness ==
  /\ SF_vars(TickLoad) /\ WF_vars(TickStore) /\ WF_vars(TickWakeup)
  /\ \A c \in CPU : /\ WF_vars(Yield(c))
                    /\ SF_vars(DispatchQueued(c)) /\ SF_vars(DispatchDictator(c))
                    /\ \A p \in Slot : WF_vars(WaitNone(c, p) \/ WaitSleep(c, p))
                    /\ \A p, z \in Slot : WF_vars(WaitReap(c, p, z))

FairSpec == Spec /\ Fairness

-----------------------------------------------------------------------------
(* Safety.                                                                 *)

\* A process that is runnable or asleep can be found by scheduler(): it is in
\* mlfq or it is the dictator.  (enQ/deQ in scheduler, fork, priorityBoost.)
NoLostProcess ==
  \A p \in Slot : state[p] \in {"RUNNABLE", "SLEEPING"} => p \in Queued \cup {dictator}

\* A process executes on at most one CPU, and its state is RUNNING exactly
\* while it does (c->proc, "the process running on this cpu or null").
OneCPU ==
  /\ \A c, d \in CPU : c # d /\ cur[c] # None => cur[c] # cur[d]
  /\ \A p \in Slot : state[p] = "RUNNING" <=> \E c \in CPU : cur[c] = p

\* scheduler() leaves each waiting process in exactly one place of one level:
\* no duplicate, no entry for a running, free or dead process.
QueuedOnce ==
  \A lv, l \in Levels : \A i \in 1..Len(queue[lv]), j \in 1..Len(queue[l]) :
    /\ state[queue[lv][i]] \in {"RUNNABLE", "SLEEPING"}
    /\ queue[lv][i] = queue[l][j] => lv = l /\ i = j

\* p->qlv is the level whose queue holds the process, and a queued process has
\* time left there: feedback in scheduler() moved it before it used the last.
LevelMatches ==
  \A lv \in Levels : \A p \in Members(queue[lv]) : qlv[p] = lv /\ tq[p] < Quantum(lv)

\* No wakeup is lost between exit() and wait(): a parent that sleeps in wait()
\* has no ZOMBIE child.
NoLostExit ==
  \A p \in Slot : state[p] = "SLEEPING" /\ chan[p] = p => ZombieChild(p) = {}

\* While the scheduler is dictated, only the dictator executes.
DictatorAlone ==
  dictator # None => Live(dictator) /\ \A c \in CPU : cur[c] \in {None, dictator}

-----------------------------------------------------------------------------
(* Action properties.                                                      *)

\* priorityBoost() reaches every process that no other processor executes, the
\* one that leaves the processor and a dictator included.
BoostLiftsWaiting ==
  [][gticks' < gticks /\ dictator' = None =>
       \A p \in Slot : Live(p)' /\ (\A c \in CPU : cur'[c] # p) =>
         qlv'[p] = 0 /\ tq'[p] = 0 /\ priority'[p] = TopPriority]_vars

\* global_ticks counts ticks: it goes up by one, or is set to 0 by a boost or
\* by schedulerLock() ("global ticks set to 0"), and stays so until a tick.
TicksByOne == [][gticks' \in {0, gticks, gticks + 1}]_vars

-----------------------------------------------------------------------------
(* Liveness, under FairSpec.                                               *)

\* No process starves, whatever its level, once nobody dictates any more.
NoStarvation ==
  <>[](dictator = None) => \A p \in Slot : state[p] = "RUNNABLE" ~> state[p] # "RUNNABLE"

\* "Condition 2": a dictatorship ends, even if the dictator never unlocks.
DictatorSteps == dictator # None ~> dictator = None

\* A parent in wait() whose child is dead gets out of wait(), likewise.
WaitReturns ==
  <>[](dictator = None) =>
    \A p \in Slot : pc[p] = "wait" /\ ZombieChild(p) # {} ~> pc[p] # "wait"
=============================================================================
