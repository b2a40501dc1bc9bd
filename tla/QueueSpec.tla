----------------------------- MODULE QueueSpec ------------------------------
(***************************************************************************)
(* The three queues of Project01-MLFQ as their callers see them: sequences *)
(* that change in one step by the operators of ReadyQueue.  MLFQ takes its *)
(* steps from the same operators; RingQueue implements this specification. *)
(***************************************************************************)
EXTENDS ReadyQueue

CONSTANTS Proc,        \* entries of the process table
          Priorities,  \* values of p->priority
          Capacity     \* bound on the entries of all queues, NPROC in the code

VARIABLES queue, result   \* the sequences, and what the last call returned

Entries == Len(queue[0]) + Len(queue[1]) + Len(queue[2])

Init == queue = [lv \in Levels |-> <<>>] /\ result = -1

\* fork() and scheduler() put a process at the back of a level.
Enqueue(lv, x) ==
  /\ Entries < Capacity
  /\ queue' = [queue EXCEPT ![lv] = enQ(@, x)] /\ result' = x

\* scheduler() asks for a process among the RUNNABLE ones.
Pick(lv, ready, priority) ==
  \/ /\ ReadyAt(queue[lv], ready) = {}
     /\ result' = -1 /\ UNCHANGED queue
  \/ \E k \in Picks(queue[lv], lv, ready, priority) :
       queue' = [queue EXCEPT ![lv] = Extract(@, k)] /\ result' = queue[lv][k]

\* setPriority() looks for a process from L0 down.
Find(x) ==
  \/ /\ \A lv \in Levels : x \notin Members(queue[lv])
     /\ result' = -1 /\ UNCHANGED queue
  \/ \E lv \in Levels : \E k \in FirstAt(queue[lv], x) :
       /\ \A l \in 0..(lv - 1) : x \notin Members(queue[l])
       /\ queue' = [queue EXCEPT ![lv] = Rotate(@, k)] /\ result' = x

\* schedulerUnlock() and priorityBoost() put the dictator in front of L0.
Jump(x) ==
  /\ Entries < Capacity
  /\ queue' = [queue EXCEPT ![0] = PutFront(@, x)] /\ result' = x

\* priorityBoost() empties L1 and L2 into L0, in this order.
Boost ==
  /\ queue' = [lv \in Levels |-> IF lv = 0 THEN queue[0] \o queue[1] \o queue[2] ELSE <<>>]
  /\ result' = -1

Next ==
  \/ \E lv \in Levels, x \in Proc : Enqueue(lv, x)
  \/ \E lv \in Levels, ready \in SUBSET Proc, priority \in [Proc -> Priorities] :
       Pick(lv, ready, priority)
  \/ \E x \in Proc : Find(x) \/ Jump(x)
  \/ Boost

Spec == Init /\ [][Next]_<<queue, result>>
=============================================================================
