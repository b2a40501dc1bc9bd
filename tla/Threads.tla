------------------------------- MODULE Threads -------------------------------
(***************************************************************************)
(* Processes and threads of Project02-Thread (proc.c, exec.c, trap.c,      *)
(* sleeplock.c).                                                           *)
(*                                                                         *)
(* A thread lives in pthread_table; the thread that runs is copied into    *)
(* the entry of its process in ptable ("a cloth for threads"), and copied  *)
(* back when it gives up the processor.  While it runs, its entry in       *)
(* pthread_table is therefore out of date, and what others write there is  *)
(* overwritten.                                                            *)
(*                                                                         *)
(* Each critical section of ptable.lock is one action, the switch to the   *)
(* next thread included.  pthread_table.lock is also held between actions, *)
(* so lk names the thread that holds it.  An entry of pthread_table is the *)
(* address of its struct and of its kernel stack, so it is also where the  *)
(* position of the thread in its system call (pc, arg) is kept.            *)
(***************************************************************************)
EXTENDS Naturals, FiniteSetsExt

CONSTANTS
  NPROC,        \* entries of ptable
  NTHRD,        \* entries of pthread_table
  NCPU,         \* processors
  MaxPid,       \* bound: the last pid fork() hands out
  MaxTid,       \* bound: the last thread_id of a process
  Killers,      \* slots whose programs call kill()
  FileUsers,    \* slots whose programs make calls that lock an inode
  Nested,       \* do threads other than the main one create and join?
  ThreadExec,   \* ... and exec?
  MainExits,    \* do main threads call thread_exit()?
  Failures      \* how many times creations fail for want of a page (bound)

ASSUME ThreadsAssumption ==
  /\ NPROC \in Nat \ {0} /\ NTHRD \in Nat \ {0} /\ NCPU \in Nat \ {0}
  /\ MaxPid \in Nat \ {0} /\ MaxTid \in Nat \ {0}
  /\ Killers \subseteq 1..NPROC /\ FileUsers \subseteq 1..NPROC
  /\ {Nested, ThreadExec, MainExits} \subseteq BOOLEAN /\ Failures \in Nat

Slot  == 1..NPROC
Entry == 1..NTHRD
CPU   == 1..NCPU
None  == 0                      \* a null pointer
init  == 1                      \* the slot of initproc
MAINTH == 1

\* Sleep channels: an entry is the address of its struct pthread_t.
LockChan == NTHRD + 1           \* the sleep lock of the inode
DiskChan == NTHRD + 2           \* a buffer the disk driver fills

VARIABLES
  proc,      \* ptable.proc
  th,        \* pthread_table.pthread
  lk,        \* the thread that holds pthread_table.lock, or None
  on,        \* c->proc, or None
  scan,      \* where the loop of scheduler() stands
  pc, arg,   \* where a thread is in its system call, and the thread it is about
  ilock,     \* the thread that holds the sleep lock, or None
  nextpid,
  pages,     \* kernel stacks allocated and not freed
  panicked   \* the kernel has stopped in panic()

vars == <<proc, th, lk, on, scan, pc, arg, ilock, nextpid, pages, panicked>>

-----------------------------------------------------------------------------
(* The two tables                                                          *)

NoValue == <<0, 0>>
UnusedProc == [state |-> "UNUSED", pid |-> 0, killed |-> FALSE, parent |-> None,
               parent_proc |-> None, assign |-> 0, main |-> None, idx |-> None,
               tid |-> 0, joiner |-> None]
UnusedThread == [state |-> "UNUSED", pid |-> 0, tid |-> 0, joiner |-> None,
                 chan |-> None, retval |-> NoValue, kstack |-> FALSE]

\* The value a thread hands to thread_exit() is its own name.
Value(pid, tid) == <<pid, tid>>

\* allocthread(): a kernel stack and an entry that a new thread will own
allocthread(e, pid) ==
  [th[e] EXCEPT !.state = "EMBRYO", !.kstack = TRUE, !.retval = NoValue, !.pid = pid]

UnusedEntries == {e \in Entry : th[e].state = "UNUSED"}
UnusedSlots   == {p \in Slot : proc[p].state = "UNUSED"}

\* mvThreadToProc(): process p puts on thread e and runs it
IdlemvThreadToProc(P, T, p, e) ==
  [P EXCEPT ![p].idx = e, ![p].tid = T[e].tid, ![p].joiner = T[e].joiner]
mvThreadToProc(P, T, p, e) ==
  [P EXCEPT ![p].state = "RUNNING", ![p].idx = e, ![p].tid = T[e].tid,
            ![p].joiner = T[e].joiner]

\* mvProcToThread(): the thread p wore goes back to its entry, with state st
mvProcToThread(P, T, p, st, chan) ==
  [T EXCEPT ![P[p].idx].state = st,         ![P[p].idx].pid = P[p].pid,
            ![P[p].idx].chan = chan,        ![P[p].idx].tid = P[p].tid,
            ![P[p].idx].joiner = P[p].joiner]

\* wakeup1(): every thread asleep on chan in the table becomes runnable
wakeup1(T, chan) ==
  [e \in Entry |-> IF T[e].state = "SLEEPING" /\ T[e].chan = chan
                   THEN [T[e] EXCEPT !.state = "RUNNABLE"] ELSE T[e]]

LoneThreadsOf(T, pid) == {e \in Entry : T[e].pid = pid /\ T[e].tid = MAINTH}
ThreadsOf(T, pid) == {e \in Entry : T[e].pid = pid}
Runnable(T, pid)  == {e \in ThreadsOf(T, pid) : T[e].state = "RUNNABLE"}

\* deleteThread() and its copies: the entries of D are given back
deleted(T, D) == [e \in Entry |-> IF e \in D THEN UnusedThread ELSE T[e]]

\* What is left of a system call when a kernel stack is given back: nothing
atStart(D) == [e \in Entry |-> IF e \in D THEN "user" ELSE pc[e]]

EndlessNextSlot(p) == p + 1
NextSlot(p) == IF p = NPROC THEN 1 ELSE p + 1

-----------------------------------------------------------------------------
(* The scheduler                                                           *)

\* The thread of processor c and where it is
Me(c)    == proc[on[c]].idx
My(c)    == proc[on[c]]
At(c, w) == on[c] # None /\ ~panicked /\ pc[Me(c)] = w
MyEntry(c, e) == on[c] # None /\ Me(c) = e

\* sched() with p->state = st, and the rest of the loop of scheduler() over
\* the threads of p: the next runnable one of a higher index goes on at once.
\* P and T are the tables as the caller left them.
sched(c, st, chan, P, T) ==
  LET p    == on[c]
      T1   == mvProcToThread(P, T, p, st, chan)
      rest == {e \in Runnable(T1, P[p].pid) : e > P[p].idx}
  IN  /\ th' = T1
      /\ \/ /\ st # "ZOMBIE" /\ rest # {}
            /\ proc' = mvThreadToProc(P, T1, p, Min(rest))
            /\ UNCHANGED <<on, scan>>
         \/ /\ st = "ZOMBIE" \/ rest = {}
            /\ proc' = [P EXCEPT ![p].state =
                          IF st = "ZOMBIE" THEN "ZOMBIE" ELSE "RUNNABLE"]
            /\ on' = [on EXCEPT ![c] = None]
            /\ scan' = [scan EXCEPT ![c] = NextSlot(p)]

\* scheduler() looks at one process: its first runnable thread is put on.
scheduler(c) ==
  LET p     == scan[c]
      ready == Runnable(th, proc[p].pid)
  IN  /\ on[c] = None /\ ~panicked
      /\ \/ /\ proc[p].state = "RUNNABLE" /\ ready # {}
            /\ proc' = mvThreadToProc(proc, th, p, Min(ready))
            /\ on' = [on EXCEPT ![c] = p]
            /\ UNCHANGED scan
         \/ /\ proc[p].state # "RUNNABLE" \/ ready = {}
            /\ scan' = [scan EXCEPT ![c] = NextSlot(p)]
            /\ UNCHANGED <<proc, on>>
      /\ UNCHANGED <<th, lk, pc, arg, ilock, nextpid, pages, panicked>>

\* yield(): the timer interrupts a thread that holds no spin lock.  One that
\* returns to user space killed exits instead.
yield(c) ==
  /\ on[c] # None /\ ~panicked /\ lk # Me(c)
  /\ pc[Me(c)] = "user" => ~My(c).killed
  /\ sched(c, "RUNNABLE", None, proc, th)
  /\ UNCHANGED <<lk, pc, arg, ilock, nextpid, pages, panicked>>

-----------------------------------------------------------------------------
(* thread_create, thread_exit, thread_join                                 *)

\* A system call starts in user space; trap() lets no killed thread in.
Calls(c) == At(c, "user") /\ ~My(c).killed

\* thread_create() up to acquire(&ptable.lock): pthread_fork()
thread_create(c) ==
  /\ Calls(c) /\ on[c] # init /\ lk = None
  /\ Nested \/ My(c).tid = MAINTH
  /\ My(c).assign < MaxTid
  /\ UnusedEntries # {}
  /\ LET e == Min(UnusedEntries)
         tid == My(c).assign + 1
     IN  /\ th' = [th EXCEPT ![e] = [allocthread(e, My(c).pid) EXCEPT !.tid = tid]]
         /\ arg' = [arg EXCEPT ![Me(c)] = e]
         /\ proc' = [proc EXCEPT ![on[c]].assign = tid]
  /\ lk' = Me(c)
  /\ pc' = [pc EXCEPT ![Me(c)] = "create"]
  /\ pages' = pages + 1
  /\ UNCHANGED <<on, scan, ilock, nextpid, panicked>>

\* Kernel stacks that no entry has
Lost == pages - Cardinality({e \in Entry : th[e].kstack /\ th[e].state # "UNUSED"})

\* ... and from there: pthread_exec() and the fields of the new thread, or bad
thread_create_end(c) ==
  /\ At(c, "create")
  /\ LET e == arg[Me(c)]
     IN  \/ /\ th' = [th EXCEPT ![e].state = "RUNNABLE", ![e].joiner = Me(c)]
            /\ pc' = [pc EXCEPT ![Me(c)] = "user", ![e] = "user"]
         \/ /\ Lost < Failures
            /\ th' = [th EXCEPT ![e].state = "UNUSED"]
            /\ pc' = [pc EXCEPT ![Me(c)] = "user"]
  /\ lk' = None
  /\ arg' = [arg EXCEPT ![Me(c)] = None]
  /\ UNCHANGED <<proc, on, scan, ilock, nextpid, pages, panicked>>

\* Where the value of an exiting thread goes, and the channel it wakes
StrayExitTable(c) ==
  [th EXCEPT ![My(c).joiner].retval = Value(My(c).pid, My(c).tid)]
ExitTable(c) == [th EXCEPT ![Me(c)].retval = Value(My(c).pid, My(c).tid)]
StrayExitChan(c) == Me(c)
ExitChan(c) == My(c).joiner

\* thread_exit() of a thread that is not the main one, up to acquire(&ptable.lock)
thread_exit(c) ==
  /\ Calls(c) /\ lk = None /\ My(c).tid # MAINTH
  /\ th' = ExitTable(c)
  /\ proc' = [proc EXCEPT ![on[c]].state = "THZOMBIE"]
  /\ lk' = Me(c)
  /\ pc' = [pc EXCEPT ![Me(c)] = "thread_exit"]
  /\ UNCHANGED <<on, scan, arg, ilock, nextpid, pages, panicked>>

\* ... and from there: it wakes its joiner and never returns
thread_exit_end(c) ==
  /\ At(c, "thread_exit")
  /\ lk' = None
  /\ sched(c, "THZOMBIE", None, proc, wakeup1(th, ExitChan(c)))
  /\ UNCHANGED <<pc, arg, ilock, nextpid, pages, panicked>>

\* kill(): the process is marked; its other threads are made zombies in the
\* table, its main thread runnable.
Uselesskilled(T, pid) ==
  [e \in Entry |-> IF T[e].pid # pid \/ T[e].tid = MAINTH THEN T[e]
                   ELSE [T[e] EXCEPT !.state = "THZOMBIE"]]
killed(T, pid) ==
  [e \in Entry |-> IF T[e].pid # pid THEN T[e]
                   ELSE [T[e] EXCEPT !.state = IF T[e].tid = MAINTH
                                               THEN "RUNNABLE" ELSE "THZOMBIE"]]
kill(c) ==
  /\ Calls(c) /\ on[c] \in Killers
  /\ \E p \in Slot \ {init} :
       /\ proc[p].pid # 0
       /\ proc' = [proc EXCEPT ![p].killed = TRUE]
       /\ th' = killed(th, proc[p].pid)
  /\ UNCHANGED <<lk, on, scan, pc, arg, ilock, nextpid, pages, panicked>>

\* thread_exit() of a main thread: kill() of its own process, and sched() with
\* p->state still RUNNING
thread_exit_main(c) ==
  /\ MainExits /\ Calls(c) /\ on[c] # init /\ lk = None /\ My(c).tid = MAINTH
  /\ proc' = [proc EXCEPT ![on[c]].killed = TRUE]
  /\ th' = wakeup1(killed(th, My(c).pid), My(c).joiner)
  /\ panicked' = TRUE
  /\ UNCHANGED <<lk, on, scan, pc, arg, ilock, nextpid, pages>>

\* The thread that thread_join(tid) of the caller finds
Joined(c, tid) ==
  {e \in ThreadsOf(th, My(c).pid) :
     th[e].tid = tid /\ th[e].joiner # None /\ th[th[e].joiner].tid = My(c).tid}

\* One pass of the loop of thread_join(): the thread is found dead and given
\* back, or there is no point in waiting, or the caller is about to sleep.
thread_join_scan(c, tid) ==
  LET found == Joined(c, tid)
      dead  == {e \in found : th[e].state = "THZOMBIE"}
  IN  \/ /\ dead # {}
         /\ th' = [th EXCEPT ![Min(dead)] = [UnusedThread EXCEPT !.retval = th[Min(dead)].retval]]
         /\ pages' = pages - 1
         /\ pc' = atStart({Min(dead), Me(c)})
         /\ arg' = [arg EXCEPT ![Me(c)] = None]
         /\ UNCHANGED lk
      \/ /\ dead = {} /\ (found = {} \/ My(c).killed)
         /\ pc' = [pc EXCEPT ![Me(c)] = "user"]
         /\ arg' = [arg EXCEPT ![Me(c)] = None]
         /\ UNCHANGED <<th, lk, pages>>
      \/ /\ dead = {} /\ found # {} /\ ~My(c).killed
         /\ pc' = [pc EXCEPT ![Me(c)] = "join_sleep"]
         /\ arg' = [arg EXCEPT ![Me(c)] = tid]
         /\ lk' = Me(c)
         /\ UNCHANGED <<th, pages>>

\* thread_join(): called with the id of a thread that was created, or woken
thread_join(c) ==
  /\ lk = None
  /\ \/ /\ Calls(c)
        /\ Nested \/ My(c).tid = MAINTH
        /\ \E tid \in 2..My(c).assign :
             /\ \A e \in ThreadsOf(th, My(c).pid) : th[e].tid = tid => th[e].state # "UNUSED"
             /\ thread_join_scan(c, tid)
     \/ At(c, "join") /\ thread_join_scan(c, arg[Me(c)])
  /\ UNCHANGED <<proc, on, scan, ilock, nextpid, panicked>>

\* sleep(curproc->joiner_pthread, &pthread_table.lock) in thread_join()
thread_join_sleep(c) ==
  /\ At(c, "join_sleep")
  /\ lk' = None
  /\ pc' = [pc EXCEPT ![Me(c)] = "join"]
  /\ sched(c, "SLEEPING", My(c).joiner, proc, th)
  /\ UNCHANGED <<arg, ilock, nextpid, pages, panicked>>

-----------------------------------------------------------------------------
(* fork, exec, exit, wait                                                  *)

\* fork(): by a thread that is not the main one, or of a process that has one
\* thread (what becomes of the copies of other threads is undefined).
fork(c) ==
  /\ Calls(c) /\ lk = None /\ nextpid <= MaxPid
  /\ My(c).tid = MAINTH => ThreadsOf(th, My(c).pid) = {Me(c)}
  /\ UnusedSlots # {} /\ UnusedEntries # {}
  /\ LET p == Min(UnusedSlots)
         e == Min(UnusedEntries)
         isMain == My(c).tid = MAINTH
         joiner == IF isMain THEN e ELSE Me(c)
         child == [UnusedProc EXCEPT !.pid = nextpid, !.main = e, !.idx = e,
                     !.tid = MAINTH, !.parent = Me(c), !.parent_proc = on[c]]
     IN  \/ /\ proc' = [proc EXCEPT ![p] =
                [child EXCEPT !.state = "RUNNABLE", !.killed = My(c).killed,
                   !.assign = IF isMain THEN My(c).assign ELSE 1, !.joiner = joiner]]
            /\ th' = [th EXCEPT ![e] = [allocthread(e, nextpid) EXCEPT
                        !.state = "RUNNABLE", !.tid = MAINTH, !.joiner = joiner,
                        !.chan = None]]
            /\ pc' = [pc EXCEPT ![e] = "user"]
            /\ pages' = pages + 1
         \/ /\ Lost < Failures  \* copyuvm(): the stack goes, the entry stays
            /\ proc' = [proc EXCEPT ![p] =
                 [child EXCEPT !.parent = None, !.parent_proc = None,
                               !.assign = 1, !.joiner = e]]
            /\ th' = [th EXCEPT ![e] = allocthread(e, nextpid)]
            /\ UNCHANGED <<pc, pages>>
  /\ nextpid' = nextpid + 1
  /\ UNCHANGED <<lk, on, scan, arg, ilock, panicked>>

\* exec(), from lock() on: the other threads are deleted, their children
\* adopted, and the caller is the main thread of the new program.
exec(c) ==
  LET p == on[c]
      others == {e \in ThreadsOf(th, My(c).pid) : th[e].tid # My(c).tid}
  IN  /\ Calls(c) /\ p # init /\ lk = None
      /\ ThreadExec \/ My(c).tid = MAINTH
      /\ th' = deleted(th, others)
      /\ pages' = pages - Cardinality({e \in others : th[e].kstack})
      /\ proc' = [q \in Slot |->
           LET r == [proc[q] EXCEPT !.parent = IF @ \in others THEN Me(c) ELSE @]
           IN  IF q # p THEN r
               ELSE [r EXCEPT !.joiner = Me(c), !.tid = MAINTH, !.assign = 1, !.main = Me(c)]]
      /\ pc' = atStart(others)
      /\ UNCHANGED <<lk, on, scan, arg, ilock, nextpid, panicked>>

\* exit(), by a system call or because trap() finds the process killed: it
\* starts with the files and the current directory, whose inode it locks.
exit(c) ==
  /\ At(c, "user") /\ on[c] # init
  /\ pc' = [pc EXCEPT ![Me(c)] = IF on[c] \in FileUsers THEN "exit_lock" ELSE "exit"]
  /\ UNCHANGED <<proc, th, lk, on, scan, arg, ilock, nextpid, pages, panicked>>

Orphans(c) == {q \in Slot : proc[q].parent_proc = on[c]}

\* Whom exit() wakes: the parent, and init if it inherits a dead child
HastyExitWakes(c) ==
  IF \E q \in Orphans(c) : proc[q].state = "ZOMBIE"
  THEN wakeup1(th, proc[init].parent) ELSE th
ExitWakes(c) ==
  LET T == wakeup1(th, My(c).parent)
  IN  IF \E q \in Orphans(c) : proc[q].state = "ZOMBIE"
      THEN wakeup1(T, proc[init].parent) ELSE T

\* ... and ends in one critical section of both locks.
exit_end(c) ==
  LET T2 == ExitWakes(c)
      T3 == [e \in Entry |-> IF T2[e].pid = My(c).pid
                             THEN [T2[e] EXCEPT !.state = "THZOMBIE"] ELSE T2[e]]
      P  == [q \in Slot |-> IF q \in Orphans(c)
                            THEN [proc[q] EXCEPT !.parent_proc = init,
                                                 !.parent = proc[init].parent]
                            ELSE proc[q]]
  IN  /\ At(c, "exit") /\ lk = None
      /\ sched(c, "ZOMBIE", None, P, T3)
      /\ UNCHANGED <<lk, pc, arg, ilock, nextpid, pages, panicked>>

\* One pass of wait(): a dead child of the calling thread is given back with
\* all its threads, or there is no point in waiting, or the caller sleeps.
wait(c) ==
  LET kids == {p \in Slot : proc[p].parent = Me(c)}
      dead == {p \in kids : proc[p].state = "ZOMBIE"}
  IN  /\ Calls(c) \/ At(c, "wait")
      /\ \/ /\ dead # {}
            /\ LET p == Min(dead)
                   D == ThreadsOf(th, proc[p].pid)
               IN  /\ th' = deleted(th, D)
                   /\ pages' = pages - Cardinality({e \in D : th[e].kstack})
                   /\ proc' = [proc EXCEPT ![p] = UnusedProc]
                   /\ pc' = atStart(D \cup {Me(c)})
            /\ UNCHANGED <<on, scan>>
         \/ /\ dead = {} /\ (kids = {} \/ My(c).killed)
            /\ pc' = [pc EXCEPT ![Me(c)] = "user"]
            /\ UNCHANGED <<proc, th, on, scan, pages>>
         \/ /\ dead = {} /\ kids # {} /\ ~My(c).killed
            /\ pc' = [pc EXCEPT ![Me(c)] = "wait"]
            /\ sched(c, "SLEEPING", Me(c), proc, th)
            /\ UNCHANGED pages
      /\ UNCHANGED <<lk, arg, ilock, nextpid, panicked>>

-----------------------------------------------------------------------------
(* A call that locks an inode and waits for the disk                       *)

\* acquiresleep(): the lock is taken, or the thread sleeps until it is free
acquiresleep(c) ==
  /\ \/ Calls(c) /\ on[c] \in FileUsers
     \/ At(c, "lock")
     \/ At(c, "exit_lock")
  /\ LET exits == pc[Me(c)] = "exit_lock"
     IN  \/ /\ ilock = None
            /\ ilock' = Me(c)
            /\ pc' = [pc EXCEPT ![Me(c)] = IF exits THEN "exit_held" ELSE "held"]
            /\ UNCHANGED <<proc, th, on, scan>>
         \/ /\ ilock # None
            /\ pc' = [pc EXCEPT ![Me(c)] = IF exits THEN "exit_lock" ELSE "lock"]
            /\ sched(c, "SLEEPING", LockChan, proc, th)
            /\ UNCHANGED ilock
  /\ UNCHANGED <<lk, arg, nextpid, pages, panicked>>

\* iderw(): the holder sleeps until the disk has the block
iderw(c) ==
  /\ At(c, "held")
  /\ sched(c, "SLEEPING", DiskChan, proc, th)
  /\ UNCHANGED <<lk, pc, arg, ilock, nextpid, pages, panicked>>

\* ideintr(): the disk has answered
ideintr ==
  /\ ~panicked
  /\ \E e \in Entry : th[e].state = "SLEEPING" /\ th[e].chan = DiskChan
  /\ th' = wakeup1(th, DiskChan)
  /\ UNCHANGED <<proc, lk, on, scan, pc, arg, ilock, nextpid, pages, panicked>>

\* releasesleep(): the lock is free and those who wait for it are woken
releasesleep(c) ==
  /\ At(c, "held") \/ At(c, "exit_held")
  /\ ilock' = None
  /\ th' = wakeup1(th, LockChan)
  /\ pc' = [pc EXCEPT ![Me(c)] = IF @ = "held" THEN "user" ELSE "exit"]
  /\ UNCHANGED <<proc, lk, on, scan, arg, nextpid, pages, panicked>>

-----------------------------------------------------------------------------
(* The specification                                                       *)

\* userinit(): the first process, which is its own parent
Init ==
  /\ proc = [p \in Slot |-> IF p # init THEN UnusedProc
               ELSE [state |-> "RUNNABLE", pid |-> 1, killed |-> FALSE, parent |-> 1,
                     parent_proc |-> init, assign |-> 1, main |-> 1, idx |-> 1,
                     tid |-> MAINTH, joiner |-> 1]]
  /\ th = [e \in Entry |-> IF e # 1 THEN UnusedThread
             ELSE [UnusedThread EXCEPT !.state = "RUNNABLE", !.pid = 1, !.tid = MAINTH,
                                       !.joiner = 1, !.kstack = TRUE]]
  /\ lk = None
  /\ on = [c \in CPU |-> None]
  /\ scan = [c \in CPU |-> 1]
  /\ pc = [e \in Entry |-> "user"]
  /\ arg = [e \in Entry |-> None]
  /\ ilock = None
  /\ nextpid = 2
  /\ pages = 1
  /\ panicked = FALSE

\* What a thread does on its own once it is in the kernel, or killed
Kernel(c) ==
  \/ thread_create_end(c) \/ thread_exit_end(c) \/ thread_join_sleep(c)
  \/ At(c, "join") /\ thread_join(c)
  \/ My(c).killed /\ exit(c)
  \/ exit_end(c)
  \/ At(c, "wait") /\ wait(c)
  \/ (At(c, "lock") \/ At(c, "exit_lock")) /\ acquiresleep(c)
  \/ iderw(c) \/ releasesleep(c)

\* What the program of a thread chooses to do
User(c) ==
  \/ thread_create(c) \/ thread_exit(c) \/ thread_exit_main(c) \/ thread_join(c)
  \/ fork(c) \/ exec(c) \/ exit(c) \/ wait(c) \/ kill(c) \/ acquiresleep(c)

Next ==
  \/ \E c \in CPU : scheduler(c) \/ yield(c) \/ (on[c] # None /\ (Kernel(c) \/ User(c)))
  \/ ideintr

Spec == Init /\ [][Next]_vars

\* The processors run scheduler() and what is in the kernel, the disk answers,
\* and the timer ticks: a tick that finds interrupts off stays pending until they
\* are on, hence strong fairness.  A thread may be interrupted in the kernel again
\* and again, so that its steps there need strong fairness too.  Nothing makes a
\* program call anything.
Fairness ==
  /\ \A c \in CPU : WF_vars(scheduler(c)) /\ SF_vars(yield(c))
  /\ \A c \in CPU, e \in Entry : SF_vars(MyEntry(c, e) /\ Kernel(c))
  /\ WF_vars(ideintr)

FairSpec == Spec /\ Fairness

-----------------------------------------------------------------------------
(* Properties                                                              *)

States == {"UNUSED", "EMBRYO", "SLEEPING", "RUNNABLE", "RUNNING", "ZOMBIE", "THZOMBIE"}
Places == {"user", "create", "thread_exit", "join_sleep", "join", "exit_lock", "exit_held",
           "exit", "wait", "lock", "held"}

\* The fields of the two tables hold what their declarations in proc.h allow.
TypeOK ==
  /\ \A p \in Slot :
       /\ proc[p].state \in States \ {"EMBRYO", "SLEEPING"}
       /\ proc[p].pid \in 0..MaxPid /\ proc[p].killed \in BOOLEAN
       /\ proc[p].parent_proc \in Slot \cup {None}
       /\ proc[p].assign \in 0..MaxTid /\ proc[p].tid \in 0..MaxTid
       /\ {proc[p].parent, proc[p].main, proc[p].idx, proc[p].joiner} \subseteq Entry \cup {None}
  /\ \A e \in Entry :
       /\ th[e].state \in States /\ th[e].pid \in 0..MaxPid /\ th[e].tid \in 0..MaxTid
       /\ th[e].joiner \in Entry \cup {None} /\ th[e].chan \in 0..DiskChan
       /\ th[e].retval \in (0..MaxPid) \X (0..MaxTid) /\ th[e].kstack \in BOOLEAN
       /\ pc[e] \in Places /\ arg[e] \in 0..MaxTid \cup Entry
  /\ {lk, ilock} \subseteq Entry \cup {None}
  /\ on \in [CPU -> Slot \cup {None}] /\ scan \in [CPU -> Slot]
  /\ nextpid \in 2..(MaxPid + 1) /\ pages \in Nat /\ panicked \in BOOLEAN

\* A process runs on one processor at a time, and the thread that runs is on a
\* kernel stack of its own that nobody has given back: not thread_join(), not
\* wait(), not exec(), which free stacks of threads they believe to be dead.
RunsOnItsStack ==
  \A c \in CPU : on[c] # None =>
    /\ \A d \in CPU \ {c} : on[d] # on[c]
    /\ My(c).state \in {"RUNNING", "THZOMBIE"}
    /\ th[Me(c)].kstack /\ th[Me(c)].state # "UNUSED" /\ th[Me(c)].pid = My(c).pid

\* Every kernel stack that was allocated is the stack of an entry in use, and
\* every entry in use belongs to a process in use: thread_join(), wait() and
\* exec() give back each stack once, and forget none.
StacksAccounted ==
  /\ pages = Cardinality({e \in Entry : th[e].kstack})
  /\ \A e \in Entry : th[e].kstack <=> th[e].state # "UNUSED"
  /\ \A e \in Entry : th[e].state # "UNUSED" =>
       \E p \in Slot : proc[p].state # "UNUSED" /\ proc[p].pid = th[e].pid

AsleepInJoin(e) == th[e].state = "SLEEPING" /\ pc[e] = "join"

\* e is in thread_join() for f, and f is dead
Missed(e, f) ==
  /\ pc[e] = "join" /\ th[f].state = "THZOMBIE"
  /\ th[f].pid = th[e].pid /\ th[f].tid = arg[e]

\* A main thread asleep in thread_join() for a thread it created waits for one
\* that is still to exit, unless its process was killed meanwhile: the wakeup of
\* thread_exit() (proc.c:1043) is not lost between the scan and the sleep.
NoLostJoin ==
  \A e, f \in Entry :
    AsleepInJoin(e) /\ Missed(e, f) /\ th[e].joiner = e /\ th[f].joiner = e =>
      \E p \in Slot : proc[p].pid = th[e].pid /\ proc[p].killed

\* No child of a thread asleep in wait() is a zombie: the child of an exiting
\* process that init adopts, or of a thread that exec() deletes, included.
NoLostWait ==
  \A e \in Entry : th[e].state = "SLEEPING" /\ pc[e] = "wait" =>
    \A p \in Slot : proc[p].state = "ZOMBIE" => proc[p].parent # e

\* What thread_join() will hand over is what the thread gave to thread_exit(),
\* not what a thread left that had the entry before.
RetvalKept ==
  \A e \in Entry : th[e].state = "THZOMBIE" =>
    \/ th[e].retval = Value(th[e].pid, th[e].tid)
    \/ \E p \in Slot : proc[p].pid = th[e].pid /\ (proc[p].killed \/ proc[p].state = "ZOMBIE")

Active(p) == proc[p].state \notin {"UNUSED", "ZOMBIE"}

\* A killed process ends, whatever its threads were doing.
KilledDies ==
  \A p \in Slot \ {init} : (Active(p) /\ proc[p].killed) ~> ~Active(p)

\* A main thread that waits in thread_join() for a thread it created goes on once
\* that one has exited, unless its process ends.
JoinReturns ==
  \A e \in Entry :
    (\E f \in Entry : Missed(e, f) /\ th[e].joiner = e /\ th[f].joiner = e)
      ~> (pc[e] # "join" \/ \E p \in Slot : proc[p].pid = th[e].pid /\ ~Active(p))
=============================================================================
