----------------------------- MODULE ReadyQueue -----------------------------
(***************************************************************************)
(* What the queue routines of Project01-MLFQ/proc.c (struct fq, enQ, deQ,  *)
(* pickProc, the loops of setPriority, schedulerUnlock and priorityBoost)  *)
(* compute, as operators on sequences of process-table slots.  The loops   *)
(* of the code rotate a ring buffer one element at a time; here each loop  *)
(* is the sequence it leaves behind.  Module RingQueue keeps the ring and  *)
(* the loops, and is checked to implement these operators.                 *)
(***************************************************************************)
EXTENDS Integers, Sequences

Levels == 0..2

\* enQ(): append at the back.
enQ(q, x) == Append(q, x)

\* k rounds of "x = deQ(lv); enQ(lv, x)".
Rotate(q, k) == SubSeq(q, k + 1, Len(q)) \o SubSeq(q, 1, k)

\* k-1 rounds of rotation, then a deQ() whose result is not put back.
Extract(q, k) == SubSeq(q, k + 1, Len(q)) \o SubSeq(q, 1, k - 1)

\* enQ(x) followed by a full rotation of the older elements: x gets in front.
PutFront(q, x) == <<x>> \o q

\* The positions of q that hold a process of the set ready.
ReadyAt(q, ready) == {k \in 1..Len(q) : q[k] \in ready}

(***************************************************************************)
(* The position pickProc(lv) takes from q: in L0 and L1 the first RUNNABLE *)
(* process, in L2 the first one of the numerically least priority.         *)
(***************************************************************************)
Better(q, lv, priority, j, k) ==
  IF lv = 2 /\ priority[q[j]] # priority[q[k]]
  THEN priority[q[j]] < priority[q[k]]
  ELSE j <= k

Picks(q, lv, ready, priority) ==
  {k \in ReadyAt(q, ready) :
     \A j \in ReadyAt(q, ready) : Better(q, lv, priority, k, j)}

\* The slots that occur in q, and where x occurs first.
Members(q) == {q[k] : k \in 1..Len(q)}
FirstAt(q, x) == {k \in 1..Len(q) : q[k] = x /\ \A j \in 1..(k - 1) : q[j] # x}
=============================================================================
