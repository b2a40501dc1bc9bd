----------------------------- MODULE RingQueue ------------------------------
(***************************************************************************)
(* struct fq and its routines as Project01-MLFQ/proc.c has them: a ring of *)
(* NPROC indices with front, back and size, and loops of deQ() and enQ().  *)
(* ptable.lock is held throughout each call, so a call is one step.        *)
(***************************************************************************)
EXTENDS Integers, Sequences

CONSTANTS NPROC, Priorities,
          USELESS   \* 200 in defs.h: above every priority

ASSUME PrioritiesAssumption == \A pr \in Priorities : pr < USELESS /\ USELESS - 1 \in Priorities

Proc   == 0..(NPROC - 1)
Levels == 0..2

VARIABLES mlfq, result

\* One round of a loop body, and n of them.
RECURSIVE Rounds(_, _, _)
Rounds(Body(_, _), n, s) == IF n = 0 THEN s ELSE Body(Rounds(Body, n - 1, s), n - 1)

enQ(f, x) ==
  [f EXCEPT !.proc_idx[f.back] = x, !.back = (@ + 1) % NPROC, !.size = @ + 1]

isEmpty(f) == f.size = 0

\* deQ() in two parts: what it returns and what it leaves.
front(f) == IF isEmpty(f) THEN -1 ELSE f.proc_idx[f.front]
deQ(f) ==
  IF isEmpty(f) THEN f
  ELSE [f EXCEPT !.front = (@ + 1) % NPROC, !.size = @ - 1]

\* enQ(lv, deQ(lv)), n times.
Turn(f) == enQ(deQ(f), front(f))
Turns(f, n) == Rounds(LAMBDA g, i : Turn(g), n, f)

\* pickProc(), lv 0 and 1: <<what is left, the process or -1>>.
PickFirst(f, ready) ==
  Rounds(LAMBDA s, i :
           IF s[2] # -1 THEN s
           ELSE IF front(s[1]) \in ready THEN <<deQ(s[1]), front(s[1])>>
           ELSE <<Turn(s[1]), -1>>,
         f.size, <<f, -1>>)

\* pickProc(), lv 2: a first turn of the ring finds the best priority and its
\* distance, a second one goes there.
LastBestOf(f, ready, priority) ==
  Rounds(LAMBDA s, i :
           LET x == front(s.f)
           IN IF x \in ready /\ s.best >= priority[x]
              THEN [f |-> Turn(s.f), best |-> priority[x], at |-> i]
              ELSE [s EXCEPT !.f = Turn(@)],
         f.size, [f |-> f, best |-> USELESS, at |-> 0])
BestOf(f, ready, priority) ==
  Rounds(LAMBDA s, i :
           LET x == front(s.f)
           IN IF x \in ready /\ s.best > priority[x]
              THEN [f |-> Turn(s.f), best |-> priority[x], at |-> i]
              ELSE [s EXCEPT !.f = Turn(@)],
         f.size, [f |-> f, best |-> USELESS, at |-> 0])

PickBest(f, ready, priority) ==
  LET s == BestOf(f, ready, priority)
      g == Turns(s.f, s.at)
  IN IF s.best = USELESS THEN <<s.f, -1>> ELSE <<deQ(g), front(g)>>

pickProc(lv, ready, priority) ==
  IF isEmpty(mlfq[lv]) THEN <<mlfq[lv], -1>>
  ELSE IF lv = 2 THEN PickBest(mlfq[lv], ready, priority)
  ELSE PickFirst(mlfq[lv], ready)

\* The search of setPriority() in one level: it stops after the entry it seeks.
SearchLevel(f, x) ==
  Rounds(LAMBDA s, i : IF s[2] THEN s ELSE <<Turn(s[1]), front(s[1]) = x>>,
         f.size, <<f, FALSE>>)

\* enQ() of x and a turn of all the others, as in schedulerUnlock().
InFront(f, x) == Turns(enQ(f, x), f.size)

\* priorityBoost(): each level from 0 to 2 is moved to the back of level 0.
MoveUp(m, lv) ==
  Rounds(LAMBDA w, i : LET x == front(w[lv]) 
                           u == [w EXCEPT ![lv] = deQ(@)]
                       IN [u EXCEPT ![0] = enQ(@, x)],
         m[lv].size, m)

-----------------------------------------------------------------------------
Entries == mlfq[0].size + mlfq[1].size + mlfq[2].size

Init ==
  /\ mlfq = [lv \in Levels |->
               [proc_idx |-> [i \in Proc |-> 0], front |-> 0, back |-> 0, size |-> 0]]
  /\ result = -1

CallEnQ(lv, x) ==
  /\ Entries < NPROC
  /\ mlfq' = [mlfq EXCEPT ![lv] = enQ(@, x)] /\ result' = x

CallPickProc(lv, ready, priority) ==
  LET r == pickProc(lv, ready, priority)
  IN mlfq' = [mlfq EXCEPT ![lv] = r[1]] /\ result' = r[2]

\* setPriority(): the levels in turn, until one holds the process.
CallSetPriority(x) ==
  LET s  == [lv \in Levels |-> SearchLevel(mlfq[lv], x)]
      on == [lv \in Levels |-> \A l \in 0..(lv - 1) : ~s[l][2]]
  IN /\ mlfq' = [lv \in Levels |-> IF on[lv] THEN s[lv][1] ELSE mlfq[lv]]
     /\ result' = IF \E lv \in Levels : s[lv][2] THEN x ELSE -1

CallUnlock(x) ==
  /\ Entries < NPROC
  /\ mlfq' = [mlfq EXCEPT ![0] = InFront(@, x)] /\ result' = x

CallBoost ==
  /\ mlfq' = MoveUp(MoveUp(MoveUp(mlfq, 0), 1), 2) /\ result' = -1

Next ==
  \/ \E lv \in Levels, x \in Proc : CallEnQ(lv, x)
  \/ \E ready \in SUBSET Proc :  \* only L2 reads the priorities
       \/ \E lv \in {0, 1} : CallPickProc(lv, ready, [p \in Proc |-> USELESS - 1])
       \/ \E priority \in [Proc -> Priorities] : CallPickProc(2, ready, priority)
  \/ \E x \in Proc : CallSetPriority(x) \/ CallUnlock(x)
  \/ CallBoost

Spec == Init /\ [][Next]_<<mlfq, result>>

-----------------------------------------------------------------------------
\* The sequence a ring stands for.
Contents(f) == [i \in 1..f.size |-> f.proc_idx[(f.front + i - 1) % NPROC]]

QS == INSTANCE QueueSpec WITH queue <- [lv \in Levels |-> Contents(mlfq[lv])],
                              Capacity <- NPROC

\* The loops over the rings do what their callers rely on: take the first
\* RUNNABLE process, or the first of the best priority in L2, keep the order of
\* the others up to rotation, and lose or duplicate none.
ImplementsQueueSpec == QS!Spec
=============================================================================
