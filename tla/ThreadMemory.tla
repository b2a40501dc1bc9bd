---------------------------- MODULE ThreadMemory ----------------------------
(***************************************************************************)
(* The address space of a process of Project02-Thread: the heap that       *)
(* sbrk() moves, the stacks that thread_create() and thread_join() put and *)
(* take inside it, the limit of setmemorylimit(), and what exec(), exec2() *)
(* and fork() make of them (proc.c, exec.c, vm.c).                         *)
(*                                                                         *)
(* Addresses count in units of which PGSIZE make a page, so that sizes     *)
(* that are not multiples of a page occur.  Every call but exec() and      *)
(* thread_join() changes the process under ptable.lock and is one action;  *)
(* exec() does without, so setmemorylimit() is split where exec() can come *)
(* between its check and its assignment.                                   *)
(***************************************************************************)
EXTENDS Integers, Sequences, FiniteSets

CONSTANTS
  PGSIZE,      \* units in a page
  KERNBASE,    \* where user addresses end (bound)
  NTHRD,       \* entries of pthread_table, and places of freed_sz
  Images,      \* the sizes of the programs, in pages
  StackSizes,  \* the stack sizes that exec2() is asked for, in pages
  Increments,  \* what sbrk() is asked to add, or to take back
  Habits       \* what programs do: some of HabitNames

HabitNames == {
  "shrink",     \* give heap back while threads have or had stacks above
  "fork",       \* fork after a thread was joined
  "exec"}       \* exec() on one processor during setmemorylimit() on another

ASSUME MemoryAssumption ==
  /\ PGSIZE \in Nat \ {0} /\ KERNBASE \in Nat /\ PGSIZE <= KERNBASE /\ NTHRD \in Nat \ {0}
  /\ Images \subseteq Nat \ {0} /\ StackSizes \subseteq 1..100
  /\ Increments \subseteq Nat \ {0} /\ Habits \subseteq HabitNames

VARIABLES
  sz,        \* p->sz
  memlimit,  \* p->memlimit: 0 when there is none
  stacksz,   \* p->stacksz: the pages of a stack
  freed,     \* the queue p->freed_sz: where stacks of joined threads began
  stacks,    \* th->th_sz of the live threads but the main one: where they end
  mapped,    \* the pages that are present in p->pgdir
  user,      \* those of them the program can reach (PTE_U)
  pending,   \* the limit setmemorylimit() is about to store, or None
  panicked

vars == <<sz, memlimit, stacksz, freed, stacks, mapped, user, pending, panicked>>
None == -1

\* The page that starts at address a or after it, PGROUNDUP(a) / PGSIZE
PageUp(a) == (a + PGSIZE - 1) \div PGSIZE
PGROUNDUP(a) == PageUp(a) * PGSIZE
Pages(from, to) == PageUp(from)..(PageUp(to) - 1)

StackSpan == (stacksz + 1) * PGSIZE     \* a stack and its guard page
Slot(base) == Pages(base, base + StackSpan)
Freed == {freed[i] : i \in 1..Len(freed)}

-----------------------------------------------------------------------------
(* vm.c                                                                    *)

\* allocuvm() from oldsz to newsz: panic("remap") if there is a page already
allocuvm(oldsz, newsz) ==
  /\ newsz < KERNBASE
  /\ panicked' = (Pages(oldsz, newsz) \cap mapped # {})
  /\ mapped' = mapped \cup Pages(oldsz, newsz)

\* allocuvm() that fails: the range is too high, or memory runs out, and all
\* pages of the range are given back.
allocuvm_fails(oldsz, newsz) ==
  LET P == IF newsz < KERNBASE THEN Pages(oldsz, newsz) ELSE {}
  IN  /\ mapped' = mapped \ P
      /\ user' = user \ P
      /\ UNCHANGED <<sz, memlimit, stacksz, freed, stacks, pending, panicked>>

\* deallocuvm() from oldsz down to newsz
deallocuvm(oldsz, newsz) ==
  /\ mapped' = mapped \ Pages(newsz, oldsz)
  /\ user' = user \ Pages(newsz, oldsz)

-----------------------------------------------------------------------------
(* The system calls                                                        *)

Running  == ~panicked
Unlocked == Running /\ pending = None

\* What the limit allows
LateWithin(end) == memlimit = 0 \/ sz <= memlimit
Within(end) == memlimit = 0 \/ end <= memlimit

\* sbrk(n)
growproc(n) ==
  /\ Unlocked /\ Within(sz + n)
  /\ \/ /\ allocuvm(sz, sz + n)
        /\ user' = user \cup Pages(sz, sz + n)
        /\ sz' = sz + n
        /\ UNCHANGED <<memlimit, stacksz, freed, stacks, pending>>
     \/ allocuvm_fails(sz, sz + n)

Blindgrowproc_shrink(n) ==
  /\ Unlocked /\ stacks = {} /\ freed = <<>>
  /\ deallocuvm(sz, sz - n)
  /\ sz' = sz - n
  /\ UNCHANGED <<memlimit, stacksz, freed, stacks, pending, panicked>>

\* sbrk(-n).  deallocuvm() returns the new size, and growproc() takes 0 for an
\* error: the pages are gone and the size stays.
growproc_shrink(n) ==
  /\ Unlocked /\ n <= sz
  /\ "shrink" \in Habits \/ (stacks = {} /\ freed = <<>> /\ n < sz)
  /\ deallocuvm(sz, sz - n)
  /\ sz' = IF sz = n THEN sz ELSE sz - n
  /\ UNCHANGED <<memlimit, stacksz, freed, stacks, pending, panicked>>

\* The queue without the stack that was taken
Popped == Tail(freed)

\* pthread_exec(): the stack of a new thread goes where one was freed, or at the
\* end of the heap.
LastStackBase == PGROUNDUP(IF freed # <<>> THEN freed[Len(freed)] ELSE sz)
StackBase == PGROUNDUP(IF freed # <<>> THEN Head(freed) ELSE sz)

thread_create ==
  LET base == StackBase
      top  == base + StackSpan
  IN  /\ Unlocked /\ Cardinality(stacks) < NTHRD - 1 /\ Within(top)
      /\ \/ /\ allocuvm(base, top)
            /\ user' = user \cup (Slot(base) \ {PageUp(base)})    \* clearpteu()
            /\ stacks' = stacks \cup {top}
            /\ IF freed # <<>> THEN freed' = Popped /\ sz' = sz
                               ELSE sz' = top /\ freed' = freed
            /\ UNCHANGED <<memlimit, stacksz, pending>>
         \/ allocuvm_fails(base, top)

Sweepingthread_join(top) ==
  /\ Running /\ top \in stacks
  /\ freed' = Append(freed, top - StackSpan)
  /\ stacks' = stacks \ {top}
  /\ deallocuvm(sz, top - StackSpan)
  /\ UNCHANGED <<sz, memlimit, stacksz, pending, panicked>>

\* thread_exit() and thread_join() of the thread whose stack ends at top
thread_join(top) ==
  /\ Running /\ top \in stacks
  /\ freed' = Append(freed, top - StackSpan)
  /\ stacks' = stacks \ {top}
  /\ deallocuvm(top, top - StackSpan)
  /\ UNCHANGED <<sz, memlimit, stacksz, pending, panicked>>

\* setmemorylimit(): by any process, under ptable.lock
setmemorylimit(limit) ==
  /\ Unlocked /\ limit >= 0 /\ sz <= limit
  /\ pending' = limit
  /\ UNCHANGED <<sz, memlimit, stacksz, freed, stacks, mapped, user, panicked>>
setmemorylimit_store ==
  /\ Running /\ pending # None
  /\ memlimit' = pending
  /\ pending' = None
  /\ UNCHANGED <<sz, stacksz, freed, stacks, mapped, user, panicked>>

\* exec() and exec2() of a program of `image' pages, with s pages of stack above
\* a guard page: the other threads are gone.
exec2(image, s) ==
  LET end == image + s + 1
  IN  /\ Unlocked \/ (Running /\ "exec" \in Habits)
      /\ end * PGSIZE < KERNBASE
      /\ sz' = end * PGSIZE
      /\ mapped' = 0..(end - 1)
      /\ user' = mapped' \ {image}
      /\ memlimit' = 0
      /\ stacksz' = s
      /\ freed' = <<>>
      /\ stacks' = {}
      /\ UNCHANGED <<pending, panicked>>
exec(image) == exec2(image, 1)

\* fork(), seen by the child: copyuvm() copies every page below the size, and
\* panics at one that is not there.  The stacks of all threads come with it; the
\* threads themselves only when the main thread forks.
CopyRange == Pages(0, sz)
fork ==
  /\ Unlocked /\ ("fork" \in Habits \/ freed = <<>>)
  /\ panicked' = ~(CopyRange \subseteq mapped)
  /\ mapped' = CopyRange
  /\ user' = user \cap CopyRange
  /\ stacks' \in {stacks, {}}
  /\ UNCHANGED <<sz, memlimit, stacksz, freed, pending>>

-----------------------------------------------------------------------------
(* The specification                                                       *)

\* userinit(): one page of initcode
Init ==
  /\ sz = PGSIZE
  /\ memlimit = 0
  /\ stacksz = 1
  /\ freed = <<>>
  /\ stacks = {}
  /\ mapped = {0}
  /\ user = {0}
  /\ pending = None
  /\ panicked = FALSE

Next ==
  \/ \E n \in Increments : growproc(n) \/ growproc_shrink(n)
  \/ thread_create
  \/ \E top \in stacks : thread_join(top)
  \/ \E limit \in 0..KERNBASE : setmemorylimit(limit)
  \/ setmemorylimit_store
  \/ \E image \in Images : exec(image) \/ (\E s \in StackSizes : exec2(image, s))
  \/ fork

Spec == Init /\ [][Next]_vars

-----------------------------------------------------------------------------
(* Properties                                                              *)

\* The fields of a process have the types proc.h gives them; freed_sz has a place
\* for every stack that can be in the queue (thread_join() does not look whether it
\* has, proc.c:1097).
TypeOK ==
  /\ sz \in 0..KERNBASE /\ memlimit \in 0..KERNBASE
  /\ stacksz \in StackSizes \cup {1}
  /\ freed \in Seq(0..KERNBASE) /\ Len(freed) + Cardinality(stacks) < NTHRD
  /\ stacks \subseteq 0..KERNBASE
  /\ mapped \subseteq 0..KERNBASE /\ user \subseteq mapped
  /\ pending \in 0..KERNBASE \cup {None} /\ panicked \in BOOLEAN

\* Every live thread has a stack of its own: its pages are there, the lowest of
\* them is out of the program's reach, the others are not, and no two stacks meet,
\* whatever the order in which threads are created and joined and the heap grows
\* between them (pthread_exec, thread_join).  No stack is mapped where a page is
\* (panic("remap"), vm.c:72), and no fork() misses a page (vm.c:331).
StacksWhole ==
  /\ ~panicked
  /\ \A top \in stacks :
       LET base == top - StackSpan
       IN  /\ base >= 0 /\ top <= sz
           /\ Slot(base) \subseteq mapped
           /\ Slot(base) \ user = {PageUp(base)}
  /\ \A s, t \in stacks : s < t => s <= t - StackSpan

\* Every page below the size of the process is present, but those of the stacks
\* that were freed and wait in the queue; nothing above is.  A stack in the queue
\* is nobody's, and is there once.
HolesAreQueued ==
  /\ mapped = Pages(0, sz) \ UNION {Slot(base) : base \in Freed}
  /\ Cardinality(Freed) = Len(freed)
  /\ \A base \in Freed : base + StackSpan \notin stacks

\* A process that has a limit never gets more memory than it allows: not by
\* sbrk(), not by threads, not in a child that inherits limit and size.
LimitHolds == memlimit # 0 => sz <= memlimit
=============================================================================
