--------------------------- MODULE ThreadsProofs ---------------------------
(***************************************************************************)
(* Theorems about Threads for every size of the two tables and every       *)
(* number of processors, when only main threads create, join and exec;     *)
(* those that count stacks or speak of thread_join() also when no creation *)
(* fails.                                                                  *)
(***************************************************************************)
EXTENDS Threads, FiniteSetTheorems, TLAPS

-----------------------------------------------------------------------------
(* The inductive invariant, said of tables P and T and of what runs, O.    *)

\* Which programs the theorems are about: only main threads create, join and exec.
MainOnly == ~Nested /\ ~ThreadExec

Ptr == Entry \cup {None}
PRec == [state : States \ {"EMBRYO", "SLEEPING"}, pid : 0..MaxPid, killed : BOOLEAN, parent : Ptr,
         parent_proc : Slot \cup {None}, assign : 0..MaxTid, main : Ptr, idx : Ptr,
         tid : 0..MaxTid, joiner : Ptr]
TRec == [state : States, pid : 0..MaxPid, tid : 0..MaxTid, joiner : Ptr, chan : 0..DiskChan,
         retval : (0..MaxPid) \X (0..MaxTid), kstack : BOOLEAN]
Typed(P, T, O) ==
  P \in [Slot -> PRec] /\ T \in [Entry -> TRec] /\ O \in [CPU -> Slot \cup {None}]

\* What process p of a processor wears.
Dressed(P, T, p) ==
  /\ P[p].state \in {"RUNNING", "THZOMBIE"}
  /\ P[p].idx \in Entry
  /\ T[P[p].idx].state \in {"RUNNABLE", "THZOMBIE"}
  /\ T[P[p].idx].pid = P[p].pid /\ T[P[p].idx].tid = P[p].tid
Alone(O) == \A c, d \in CPU : O[c] = O[d] => c = d \/ O[c] = None
AllDressed(P, T, O) == \A c \in CPU : O[c] # None => Dressed(P, T, O[c])

\* No two entries of ptable have one pid.
Pids(P) ==
  /\ \A p \in Slot : P[p].state # "UNUSED" => P[p].pid # 0
  /\ \A p, q \in Slot : P[p].pid = P[q].pid => p = q \/ P[p].pid = 0
Stacks(T) == \A e \in Entry :
  (T[e].state # "UNUSED" => T[e].pid # 0) /\ (T[e].pid # 0 => T[e].kstack)

Tables(P, T, O) == Typed(P, T, O) /\ Alone(O) /\ AllDressed(P, T, O) /\ Pids(P) /\ Stacks(T)

Holding == {"create", "thread_exit", "join_sleep"}
PlacesTyped(C, A, k) ==
  C \in [Entry -> Places] /\ A \in [Entry -> 0..MaxTid \cup Entry] /\ k \in Ptr
\* pthread_table.lock is with a thread that runs, where the code holds it.
LockOK(P, T, O, C, k) ==
  /\ k # None => C[k] \in Holding /\ \E c \in CPU : O[c] # None /\ P[O[c]].idx = k
  /\ \A e \in Entry : C[e] \in {"create", "join_sleep"} => k = e
  /\ \A e \in Entry : C[e] = "thread_exit" =>
       T[e].tid # MAINTH /\ (k = e \/ T[e].state = "THZOMBIE")
  /\ \A c \in CPU : O[c] # None /\ C[P[O[c]].idx] = "thread_exit" => k = P[O[c]].idx
Joiners(T, C, A) == \A e \in Entry : C[e] \in {"join", "join_sleep"} =>
  T[e].tid = MAINTH /\ A[e] \in 2..MaxTid
Creating(T, C, A) == \A e \in Entry : C[e] = "create" =>
  /\ A[e] \in Entry /\ A[e] # e /\ C[A[e]] = "user"
  /\ T[A[e]].state \in {"EMBRYO", "THZOMBIE"} /\ T[A[e]].pid = T[e].pid /\ T[A[e]].tid # MAINTH
Newborn(T, C) == \A e \in Entry : T[e].state \in {"UNUSED", "EMBRYO"} => C[e] = "user"
Positions(P, T, O, C, A, k) ==
  /\ PlacesTyped(C, A, k) /\ LockOK(P, T, O, C, k)
  /\ Joiners(T, C, A) /\ Creating(T, C, A) /\ Newborn(T, C)

\* The pids given out, and a process has given out the id of its main thread.
GivenOut(P, n) ==
  /\ \A p \in Slot : P[p].pid < n
  /\ \A p \in Slot : P[p].state # "UNUSED" => P[p].assign # 0
Rest ==
  /\ scan \in [CPU -> Slot] /\ ilock \in Ptr /\ panicked \in BOOLEAN
  /\ nextpid \in 2..(MaxPid + 1) /\ GivenOut(proc, nextpid)
RunInv == Tables(proc, th, on) /\ Positions(proc, th, on, pc, arg, lk) /\ Rest

\* No creation fails.
StackInv ==
  /\ pages = Cardinality({e \in Entry : th[e].kstack})
  /\ \A e \in Entry : (th[e].kstack <=> th[e].state # "UNUSED") /\ (th[e].state = "UNUSED" => th[e].pid = 0)
  /\ \A e \in Entry : th[e].state # "UNUSED" =>
       \E p \in Slot : proc[p].state # "UNUSED" /\ proc[p].pid = th[e].pid

Exiting == {"exit", "exit_lock", "exit_held"}
WaitInv ==
  /\ \A e \in Entry : th[e].state = "SLEEPING" /\ pc[e] = "wait" => th[e].chan = e
  /\ \A p \in Slot : p # init => proc[p].parent_proc # p
  /\ proc[init].pid = 1 /\ proc[init].state \notin {"UNUSED", "ZOMBIE"}
  /\ \A e \in Entry : pc[e] \in Exiting => th[e].pid # 1
  /\ NoLostWait

KilledIn(P, pid) == \E p \in Slot : P[p].pid = pid /\ P[p].killed
GoneIn(P, pid) == \E p \in Slot : P[p].pid = pid /\ (P[p].killed \/ P[p].state = "ZOMBIE")
JoinInv ==
  /\ \A e \in Entry : AsleepInJoin(e) => th[e].chan = th[e].joiner
  /\ \A e, f \in Entry :
       /\ pc[e] = "join_sleep" \/ (AsleepInJoin(e) /\ th[e].joiner = e)
       /\ th[f].state = "THZOMBIE" /\ th[f].pid = th[e].pid /\ th[f].tid = arg[e] /\ th[f].joiner = e
       => KilledIn(proc, th[e].pid)
RetInv ==
  /\ \A e \in Entry : pc[e] = "thread_exit" => th[e].retval = Value(th[e].pid, th[e].tid)
  /\ \A e \in Entry : th[e].state = "THZOMBIE" =>
       th[e].retval = Value(th[e].pid, th[e].tid) \/ GoneIn(proc, th[e].pid)

-----------------------------------------------------------------------------
(* Tables, one field at a time.                                            *)

LEMMA Sizes ==
  /\ NPROC \in Nat \ {0} /\ NTHRD \in Nat \ {0} /\ NCPU \in Nat \ {0}
  /\ MaxPid \in Nat \ {0} /\ MaxTid \in Nat \ {0} /\ Failures \in Nat
  /\ None \notin Slot /\ None \notin Entry /\ init \in Slot /\ 1 \in Entry
  /\ Slot \subseteq Nat /\ Entry \subseteq Nat /\ MAINTH \in 0..MaxTid
  /\ Entry \subseteq 0..DiskChan /\ LockChan \in 0..DiskChan /\ None \in 0..DiskChan
  /\ DiskChan \in 0..DiskChan
<1>1. /\ NPROC \in Nat \ {0} /\ NTHRD \in Nat \ {0} /\ NCPU \in Nat \ {0}
      /\ MaxPid \in Nat \ {0} /\ MaxTid \in Nat \ {0} /\ Failures \in Nat
  BY ThreadsAssumption
<1> QED BY <1>1 DEF Slot, Entry, None, init, MAINTH, DiskChan, LockChan

LEMMA FiniteTables == IsFiniteSet(Entry) /\ IsFiniteSet(Slot)
<1>1. 1 \in Int /\ NPROC \in Int /\ NTHRD \in Int
  BY Sizes
<1> QED BY <1>1, FS_Interval DEF Entry, Slot

Rank(S, d) == Cardinality({e \in S : e <= d})

LEMMA Ranks ==
  ASSUME NEW S, S \subseteq Nat, IsFiniteSet(S)
  PROVE  /\ \A d \in S : Rank(S, d) \in 1..Cardinality(S)
         /\ \A d, e \in S : Rank(S, d) = Rank(S, e) => d = e
         /\ \A i \in 1..Cardinality(S) : \E d \in S : Rank(S, d) = i
<1> DEFINE U(d) == {e \in S : e <= d}
           n == Cardinality(S)
           h == [d \in S |-> Rank(S, d)]
<1>1. \A d : IsFiniteSet(U(d)) /\ Cardinality(U(d)) \in Nat /\ Cardinality(U(d)) <= n
  <2>1. \A d : U(d) \subseteq S
    OBVIOUS
  <2> HIDE DEF U
  <2> QED BY <2>1, FS_Subset, FS_CardinalityType
<1>2. n \in Nat
  BY FS_CardinalityType
<1>3. ASSUME NEW d \in S PROVE Cardinality(U(d)) > 0
  <2>1. d \in U(d)
    OBVIOUS
  <2> HIDE DEF U
  <2>2. Cardinality(U(d)) # 0
    BY <1>1, <2>1, FS_EmptySet
  <2> QED BY <1>1, <2>2
<1>4. ASSUME NEW d \in S, NEW e \in S, d < e PROVE Cardinality(U(d)) < Cardinality(U(e))
  <2>1. e \in U(e) /\ U(d) \subseteq U(e) \ {e}
    <3>1. d \in Nat /\ e \in Nat
      OBVIOUS
    <3>2. ASSUME NEW x \in S, x <= d PROVE x <= e /\ x # e
      <4>1. x \in Nat
        OBVIOUS
      <4> QED BY <1>4, <3>1, <3>2, <4>1
    <3>3. e <= e
      BY <3>1
    <3> QED BY <3>2, <3>3
  <2> HIDE DEF U
  <2>2. IsFiniteSet(U(e) \ {e}) /\ Cardinality(U(e) \ {e}) = Cardinality(U(e)) - 1
    BY <1>1, <2>1, FS_RemoveElement
  <2>3. Cardinality(U(d)) <= Cardinality(U(e) \ {e})
    BY <2>1, <2>2, FS_Subset
  <2> QED BY <1>1, <2>2, <2>3
<1>5. \A d : Rank(S, d) = Cardinality(U(d))
  BY DEF Rank
<1> HIDE DEF U, n
<1>6. \A d \in S : Rank(S, d) \in 1..n
  BY <1>1, <1>2, <1>3, <1>5
<1>7. ASSUME NEW d \in S, NEW e \in S, Rank(S, d) = Rank(S, e) PROVE d = e
  <2>1. ~(d < e) /\ ~(e < d)
    BY <1>1, <1>4, <1>5, <1>7
  <2> QED BY <2>1
<1>8. h \in [S -> 1..n] /\ \A d \in S : h[d] = Rank(S, d)
  BY <1>6
<1> HIDE DEF h
<1>9. h \in Injection(S, 1..n)
  BY <1>7, <1>8 DEF Injection, IsInjective
<1>10. IsFiniteSet(1..n) /\ Cardinality(1..n) = n
  <2>1. IsFiniteSet(1..n) /\ Cardinality(1..n) = IF 1 > n THEN 0 ELSE n - 1 + 1
    BY <1>2, FS_Interval
  <2> QED BY <1>2, <2>1
<1>11. h \in Surjection(S, 1..n)
  BY <1>9, <1>10, FS_Injection DEF n
<1>12. \A i \in 1..n : \E d \in S : h[d] = i
  BY <1>11 DEF Surjection
<1> QED BY <1>6, <1>7, <1>8, <1>12 DEF n

LEMMA LeastExists ==
  ASSUME NEW S, S \subseteq Nat, IsFiniteSet(S), S # {}
  PROVE  \E d \in S : \A e \in S : d <= e
<1>1. Cardinality(S) \in Nat /\ Cardinality(S) # 0
  BY FS_CardinalityType, FS_EmptySet
<1>2. 1 \in 1..Cardinality(S)
  BY <1>1
<1>3. PICK d \in S : Rank(S, d) = 1
  BY <1>2, Ranks
<1> DEFINE U == {e \in S : e <= d}
<1>4. Cardinality(U) = 1 /\ d \in U /\ U \subseteq S
  BY <1>3 DEF Rank
<1> HIDE DEF U
<1>5. PICK x : U = {x}
  BY <1>4, FS_Subset, FS_Singleton
<1>6. \A e \in S : e <= d => e = d
  BY <1>4, <1>5 DEF U
<1>7. \A e \in S : d <= e
  BY <1>6
<1> QED BY <1>7

LEMMA LeastOf ==
  ASSUME NEW S, S \subseteq Nat, IsFiniteSet(S), S # {}
  PROVE  Min(S) \in S
<1>1. \E d \in S : \A e \in S : d <= e
  BY LeastExists
<1> QED BY <1>1 DEF Min

LEMMA LeastEntry ==
  ASSUME NEW S, S \subseteq Entry, S # {}
  PROVE  Min(S) \in S
BY LeastOf, FiniteTables, FS_Subset, Sizes

LEMMA LeastSlot ==
  ASSUME NEW S, S \subseteq Slot, S # {}
  PROVE  Min(S) \in S
BY LeastOf, FiniteTables, FS_Subset, Sizes

\* The thread of a processor goes back to its entry.
LEMMA MvBack ==
  ASSUME NEW P \in [Slot -> PRec], NEW T \in [Entry -> TRec], NEW p \in Slot,
         P[p].idx \in Entry, NEW st \in States, NEW chan \in 0..DiskChan,
         NEW T1, T1 = mvProcToThread(P, T, p, st, chan)
  PROVE  /\ T1 \in [Entry -> TRec]
         /\ \A e \in Entry : e # P[p].idx => T1[e] = T[e]
         /\ T1[P[p].idx].state = st /\ T1[P[p].idx].chan = chan
         /\ T1[P[p].idx].pid = P[p].pid /\ T1[P[p].idx].tid = P[p].tid
         /\ T1[P[p].idx].joiner = P[p].joiner
         /\ T1[P[p].idx].retval = T[P[p].idx].retval
         /\ T1[P[p].idx].kstack = T[P[p].idx].kstack
<1> DEFINE i == P[p].idx
<1>1. P[p] \in PRec /\ i \in Entry /\ T[i] \in TRec
  OBVIOUS
<1>2. P[p].pid \in 0..MaxPid /\ P[p].tid \in 0..MaxTid /\ P[p].joiner \in Ptr
  BY <1>1 DEF PRec
<1>3. T1 = [T EXCEPT ![i] = [T[i] EXCEPT !.state = st, !.pid = P[p].pid, !.chan = chan,
                               !.tid = P[p].tid, !.joiner = P[p].joiner]]
  BY <1>1 DEF mvProcToThread, TRec
<1> HIDE DEF i
<1>4. T1[i] = [T[i] EXCEPT !.state = st, !.pid = P[p].pid, !.chan = chan,
                           !.tid = P[p].tid, !.joiner = P[p].joiner]
  BY <1>1, <1>3
<1>5. T1[i] \in TRec
  BY <1>1, <1>2, <1>4 DEF TRec
<1>6. \A e \in Entry : e # i => T1[e] = T[e]
  BY <1>3
<1>7. T1 \in [Entry -> TRec]
  BY <1>1, <1>3, <1>4, <1>5
<1>8. /\ T1[i].state = st /\ T1[i].chan = chan /\ T1[i].pid = P[p].pid /\ T1[i].tid = P[p].tid
      /\ T1[i].joiner = P[p].joiner /\ T1[i].retval = T[i].retval /\ T1[i].kstack = T[i].kstack
  BY <1>1, <1>4 DEF TRec
<1> QED BY <1>6, <1>7, <1>8 DEF i

\* A process puts a thread on.
LEMMA MvOn ==
  ASSUME NEW P \in [Slot -> PRec], NEW T \in [Entry -> TRec], NEW p \in Slot,
         NEW e \in Entry, NEW P1, P1 = mvThreadToProc(P, T, p, e)
  PROVE  /\ P1 \in [Slot -> PRec]
         /\ \A q \in Slot : q # p => P1[q] = P[q]
         /\ P1[p].state = "RUNNING" /\ P1[p].idx = e
         /\ P1[p].tid = T[e].tid /\ P1[p].joiner = T[e].joiner
         /\ P1[p].pid = P[p].pid /\ P1[p].killed = P[p].killed
         /\ P1[p].parent = P[p].parent /\ P1[p].parent_proc = P[p].parent_proc
         /\ P1[p].assign = P[p].assign
<1>1. P[p] \in PRec /\ T[e] \in TRec /\ e \in Ptr
  BY DEF Ptr
<1>2. T[e].tid \in 0..MaxTid /\ T[e].joiner \in Ptr /\ "RUNNING" \in States \ {"EMBRYO", "SLEEPING"}
  BY <1>1 DEF TRec, States
<1>3. P1 = [P EXCEPT ![p] = [P[p] EXCEPT !.state = "RUNNING", !.idx = e, !.tid = T[e].tid,
                               !.joiner = T[e].joiner]]
  BY <1>1 DEF mvThreadToProc, PRec
<1>4. P1[p] = [P[p] EXCEPT !.state = "RUNNING", !.idx = e, !.tid = T[e].tid, !.joiner = T[e].joiner]
  BY <1>1, <1>3
<1>5. P1[p] \in PRec
  BY <1>1, <1>2, <1>4 DEF PRec
<1>6. P1 \in [Slot -> PRec] /\ \A q \in Slot : q # p => P1[q] = P[q]
  BY <1>1, <1>3, <1>5
<1>7. /\ P1[p].state = "RUNNING" /\ P1[p].idx = e
      /\ P1[p].tid = T[e].tid /\ P1[p].joiner = T[e].joiner
      /\ P1[p].pid = P[p].pid /\ P1[p].killed = P[p].killed
      /\ P1[p].parent = P[p].parent /\ P1[p].parent_proc = P[p].parent_proc
      /\ P1[p].assign = P[p].assign
  BY <1>1, <1>4 DEF PRec
<1> QED BY <1>6, <1>7

-----------------------------------------------------------------------------
(* What keeps the tables.                                                  *)

\* Fields of ptable and pthread_table that nobody's dress depends on change.
Kept(P, T, O, P1, T1) ==
  /\ Tables(P, T, O) /\ P1 \in [Slot -> PRec] /\ T1 \in [Entry -> TRec]
  /\ \A q \in Slot : /\ P1[q].pid = P[q].pid /\ P1[q].idx = P[q].idx /\ P1[q].tid = P[q].tid
                     /\ \/ P1[q].state = P[q].state
                        \/ {P1[q].state, P[q].state} \subseteq {"RUNNING", "THZOMBIE"}
  /\ \A e \in Entry : (T1[e].state # "UNUSED" => T1[e].pid # 0) /\ (T1[e].pid # 0 => T1[e].kstack)
  /\ \A c \in CPU : O[c] # None =>
       /\ T1[P[O[c]].idx].state \in {"RUNNABLE", "THZOMBIE"}
       /\ T1[P[O[c]].idx].pid = T[P[O[c]].idx].pid
       /\ T1[P[O[c]].idx].tid = T[P[O[c]].idx].tid

LEMMA TablesKept ==
  ASSUME NEW P, NEW T, NEW O, NEW P1, NEW T1, Kept(P, T, O, P1, T1)
  PROVE  Tables(P1, T1, O)
<1> USE DEF Kept
<1>1. Typed(P1, T1, O) /\ Alone(O)
  BY DEF Tables, Typed
<1>2. ASSUME NEW c \in CPU, O[c] # None PROVE Dressed(P1, T1, O[c])
  <2>1. O[c] \in Slot /\ Dressed(P, T, O[c])
    BY <1>2 DEF Tables, Typed, AllDressed
  <2> DEFINE p == O[c]
  <2>2. /\ P1[p].pid = P[p].pid /\ P1[p].idx = P[p].idx /\ P1[p].tid = P[p].tid
        /\ P1[p].state \in {"RUNNING", "THZOMBIE"}
    BY <2>1 DEF Dressed
  <2> QED BY <1>2, <2>1, <2>2 DEF Dressed
<1>3. Pids(P1)
  <2>1. \A q \in Slot : P1[q].state # "UNUSED" => P[q].state # "UNUSED"
    <3>1. ASSUME NEW q \in Slot, P1[q].state # "UNUSED" PROVE P[q].state # "UNUSED"
      <4>1. P1[q].state = P[q].state \/ {P1[q].state, P[q].state} \subseteq {"RUNNING", "THZOMBIE"}
        OBVIOUS
      <4> QED BY <3>1, <4>1
    <3> QED BY <3>1
  <2> QED BY <2>1 DEF Tables, Pids
<1>4. Stacks(T1)
  BY DEF Stacks
<1> QED BY <1>1, <1>2, <1>3, <1>4 DEF Tables, AllDressed

\* A process in another state, and a processor with another process.
InState(P, p, ps) == [P EXCEPT ![p].state = ps]
Runs(O, c, p) == [O EXCEPT ![c] = p]

\* Two threads that run are of two processes.
LEMMA OtherPid ==
  ASSUME NEW P, NEW T, NEW O, Tables(P, T, O), NEW c \in CPU, NEW d \in CPU,
         O[c] # None, O[d] # None, T[P[O[c]].idx].pid = T[P[O[d]].idx].pid
  PROVE  c = d
<1>1. O[c] \in Slot /\ O[d] \in Slot /\ Dressed(P, T, O[c]) /\ Dressed(P, T, O[d])
  BY DEF Tables, Typed, AllDressed
<1>2. P[O[c]].pid = P[O[d]].pid /\ P[O[c]].pid # 0
  <2>1. P[O[c]].state # "UNUSED"
    BY <1>1 DEF Dressed
  <2> QED BY <1>1, <2>1 DEF Dressed, Tables, Pids
<1>3. O[c] = O[d]
  BY <1>1, <1>2 DEF Tables, Pids
<1> QED BY <1>3 DEF Tables, Alone

LEMMA OtherDress ==
  ASSUME NEW P, NEW T, NEW O, Tables(P, T, O), NEW c \in CPU, NEW d \in CPU,
         O[c] # None, O[d] # None, P[O[c]].idx = P[O[d]].idx
  PROVE  c = d
BY OtherPid

\* sched() up to the switch: the thread is back in its entry.
LEMMA Undress ==
  ASSUME NEW P, NEW T, NEW O, Tables(P, T, O), NEW c \in CPU, O[c] # None,
         NEW p, p = O[c], NEW i, i = P[p].idx,
         NEW st \in {"RUNNABLE", "SLEEPING", "THZOMBIE", "ZOMBIE"}, NEW chan \in 0..DiskChan,
         NEW T1, T1 = mvProcToThread(P, T, p, st, chan),
         NEW ps \in {"RUNNABLE", "ZOMBIE"}, NEW P1, P1 = InState(P, p, ps),
         NEW O1, O1 = Runs(O, c, None)
  PROVE  /\ Tables(P1, T1, O1) /\ T1 \in [Entry -> TRec] /\ P1 \in [Slot -> PRec]
         /\ P1[p].state = ps /\ P1[p].pid = P[p].pid /\ O1[c] = None
         /\ \A e \in Entry : e # i => T1[e] = T[e]
         /\ T1[i].state = st /\ T1[i].chan = chan /\ T1[i].pid = P[p].pid
         /\ T1[i].tid = P[p].tid /\ T1[i].joiner = P[p].joiner
         /\ T1[i].retval = T[i].retval /\ T1[i].kstack = T[i].kstack
         /\ T1[i].pid = T[i].pid /\ T1[i].tid = T[i].tid
<1>1. p \in Slot /\ Dressed(P, T, p) /\ Typed(P, T, O) /\ Pids(P) /\ Stacks(T) /\ Alone(O)
  BY DEF Tables, Typed, AllDressed
<1>2. st \in States /\ ps \in States \ {"EMBRYO", "SLEEPING"} /\ i \in Entry
  BY <1>1 DEF States, Dressed
<1>3. /\ T1 \in [Entry -> TRec]
      /\ \A e \in Entry : e # i => T1[e] = T[e]
      /\ T1[i].state = st /\ T1[i].chan = chan
      /\ T1[i].pid = P[p].pid /\ T1[i].tid = P[p].tid
      /\ T1[i].joiner = P[p].joiner
      /\ T1[i].retval = T[i].retval
      /\ T1[i].kstack = T[i].kstack
  BY <1>1, <1>2, MvBack DEF Typed
<1>4. T1[i].pid = T[i].pid /\ T1[i].tid = T[i].tid
  BY <1>1, <1>3 DEF Dressed
<1>5. P[p] \in PRec
  BY <1>1 DEF Typed
<1>6. P1[p] = [P[p] EXCEPT !.state = ps] /\ \A q \in Slot : q # p => P1[q] = P[q]
  BY <1>1 DEF Typed, InState
<1>7. P1[p] \in PRec /\ P1[p].state = ps /\ P1[p].pid = P[p].pid /\ P1[p].idx = P[p].idx
  BY <1>2, <1>5, <1>6 DEF PRec
<1>8. P1 \in [Slot -> PRec]
  BY <1>1, <1>7 DEF Typed, InState
<1>9. O1 \in [CPU -> Slot \cup {None}] /\ O1[c] = None /\ \A d \in CPU : d # c => O1[d] = O[d]
  BY <1>1 DEF Typed, Runs
<1>10. Alone(O1)
  BY <1>1, <1>9 DEF Alone
<1>11. ASSUME NEW d \in CPU, O1[d] # None PROVE Dressed(P1, T1, O1[d])
  <2>1. d # c /\ O1[d] = O[d] /\ O[d] # p
    BY <1>1, <1>9, <1>11 DEF Alone
  <2>2. O[d] \in Slot /\ Dressed(P, T, O[d])
    BY <1>9, <1>11, <2>1 DEF Tables, Typed, AllDressed
  <2>3. P[O[d]].idx # i
    BY <1>9, <1>11, <2>1, OtherDress
  <2>4. P1[O[d]] = P[O[d]] /\ T1[P[O[d]].idx] = T[P[O[d]].idx]
    BY <1>3, <1>6, <2>1, <2>2, <2>3 DEF Dressed
  <2> QED BY <2>1, <2>2, <2>4 DEF Dressed
<1>12. Pids(P1)
  <2>1. \A q \in Slot : P1[q].pid = P[q].pid
    BY <1>6, <1>7
  <2>2. P[p].pid # 0
    BY <1>1 DEF Pids, Dressed
  <2> QED BY <1>1, <1>6, <2>1, <2>2 DEF Pids
<1>13. Stacks(T1)
  <2>1. T[i].kstack /\ T[i].pid # 0
    BY <1>1, <1>2 DEF Stacks, Dressed
  <2>2. ASSUME NEW e \in Entry
        PROVE  (T1[e].state # "UNUSED" => T1[e].pid # 0) /\ (T1[e].pid # 0 => T1[e].kstack)
    <3>1. CASE e = i
      BY <1>3, <1>4, <2>1, <3>1
    <3>2. CASE e # i
      BY <1>1, <1>3, <3>2 DEF Stacks
    <3> QED BY <3>1, <3>2
  <2> QED BY <2>2 DEF Stacks
<1> QED BY <1>3, <1>4, <1>7, <1>8, <1>9, <1>10, <1>11, <1>12, <1>13 DEF Tables, Typed, AllDressed

\* scheduler(): an idle processor puts a runnable thread of a process on.
LEMMA Dress ==
  ASSUME NEW P, NEW T, NEW O, Tables(P, T, O), NEW c \in CPU, O[c] = None, NEW p \in Slot,
         P[p].state = "RUNNABLE", NEW e \in Runnable(T, P[p].pid),
         NEW P1, P1 = mvThreadToProc(P, T, p, e), NEW O1, O1 = Runs(O, c, p)
  PROVE  Tables(P1, T, O1)
<1>1. Typed(P, T, O) /\ Pids(P) /\ Stacks(T) /\ Alone(O) /\ AllDressed(P, T, O)
  BY DEF Tables
<1>2. e \in Entry /\ T[e].state = "RUNNABLE" /\ T[e].pid = P[p].pid
  BY DEF Runnable, ThreadsOf
<1>3. /\ P1 \in [Slot -> PRec]
      /\ \A q \in Slot : q # p => P1[q] = P[q]
      /\ P1[p].state = "RUNNING" /\ P1[p].idx = e
      /\ P1[p].tid = T[e].tid /\ P1[p].pid = P[p].pid
  BY <1>1, <1>2, MvOn DEF Typed
<1>4. O1 \in [CPU -> Slot \cup {None}] /\ O1[c] = p /\ \A d \in CPU : d # c => O1[d] = O[d]
  BY <1>1 DEF Typed, Runs
<1>5. \A d \in CPU : O[d] # p
  <2>1. ASSUME NEW d \in CPU, O[d] = p PROVE FALSE
    <3>1. Dressed(P, T, p)
      BY <1>1, <2>1, Sizes DEF AllDressed
    <3> QED BY <3>1 DEF Dressed
  <2> QED BY <2>1
<1>6. Alone(O1)
  BY <1>1, <1>4, <1>5 DEF Alone
<1>7. ASSUME NEW d \in CPU, O1[d] # None PROVE Dressed(P1, T, O1[d])
  <2>1. CASE d = c
    BY <1>2, <1>3, <1>4, <2>1 DEF Dressed
  <2>2. CASE d # c
    <3>1. O1[d] = O[d] /\ O[d] # p /\ O[d] \in Slot /\ Dressed(P, T, O[d])
      BY <1>1, <1>4, <1>5, <1>7, <2>2 DEF Typed, AllDressed
    <3> QED BY <1>3, <3>1 DEF Dressed
  <2> QED BY <2>1, <2>2
<1>8. Pids(P1)
  <2>1. \A q \in Slot : P1[q].pid = P[q].pid
    BY <1>3
  <2>2. P[p].pid # 0
    BY <1>1 DEF Pids
  <2> QED BY <1>1, <1>3, <2>1, <2>2 DEF Pids
<1> QED BY <1>1, <1>3, <1>4, <1>6, <1>7, <1>8 DEF Tables, Typed, AllDressed

\* The state that sched() writes first does not matter to the next thread.
LEMMA MvAgain ==
  ASSUME NEW P \in [Slot -> PRec], NEW T, NEW p \in Slot, NEW e, NEW ps,
         NEW Q, Q = InState(P, p, ps)
  PROVE  mvThreadToProc(Q, T, p, e) = mvThreadToProc(P, T, p, e)
<1> DEFINE R == [P[p] EXCEPT !.state = ps]
<1>1. P[p] \in PRec
  OBVIOUS
<1>2. Q[p] = R /\ DOMAIN Q = Slot /\ \A q \in Slot : q # p => Q[q] = P[q]
  BY DEF InState
<1>3. mvThreadToProc(Q, T, p, e)
        = [Q EXCEPT ![p] = [R EXCEPT !.state = "RUNNING", !.idx = e, !.tid = T[e].tid, !.joiner = T[e].joiner]]
  BY <1>1, <1>2 DEF mvThreadToProc, PRec
<1>4. mvThreadToProc(P, T, p, e)
        = [P EXCEPT ![p] = [P[p] EXCEPT !.state = "RUNNING", !.idx = e, !.tid = T[e].tid, !.joiner = T[e].joiner]]
  BY <1>1 DEF mvThreadToProc, PRec
<1>5. [R EXCEPT !.state = "RUNNING", !.idx = e, !.tid = T[e].tid, !.joiner = T[e].joiner]
        = [P[p] EXCEPT !.state = "RUNNING", !.idx = e, !.tid = T[e].tid, !.joiner = T[e].joiner]
  BY <1>1 DEF PRec, InState
<1>6. Q = [P EXCEPT ![p] = R]
  BY DEF InState
<1> HIDE DEF R
<1> QED BY <1>3, <1>4, <1>5, <1>6

LEMMA NextSlotIs == ASSUME NEW p \in Slot PROVE NextSlot(p) \in Slot
BY Sizes DEF NextSlot, Slot

\* The thread st leaves in its entry, on its channel, and what the processor does.
Parked(P, T, i, p, st, chan, T1) ==
  /\ T1 \in [Entry -> TRec]
  /\ \A e \in Entry : e # i => T1[e] = T[e]
  /\ i \in Entry
  /\ T1[i].state = st /\ T1[i].chan = chan /\ T1[i].joiner = P[p].joiner
  /\ T1[i].pid = P[p].pid /\ T1[i].tid = P[p].tid
  /\ T1[i].pid = T[i].pid /\ T1[i].tid = T[i].tid
  /\ T1[i].retval = T[i].retval /\ T1[i].kstack = T[i].kstack
Moved(P, O, c, p, st, P1, T1, O1) ==
  /\ P1 \in [Slot -> PRec]
  /\ \A q \in Slot : q # p => P1[q] = P[q]
  /\ P1[p].pid = P[p].pid /\ P1[p].killed = P[p].killed
  /\ P1[p].parent = P[p].parent /\ P1[p].parent_proc = P[p].parent_proc /\ P1[p].assign = P[p].assign
  /\ P1[p].state \in IF st = "ZOMBIE" THEN {"ZOMBIE"} ELSE {"RUNNABLE", "RUNNING"}
  /\ O1 \in [CPU -> Slot \cup {None}]
  /\ \A d \in CPU : d # c => O1[d] = O[d]
  /\ \/ O1[c] = None
     \/ /\ O1[c] = p /\ P1[p].idx \in Entry /\ T1[P1[p].idx].state = "RUNNABLE"
        /\ P1[p].idx # P[p].idx

\* sched() with the tables, the processors and the next one named.
Switches(P, T, O, c, p, i, st, chan, T1, rest, ps, P1, O1, P2, O2) ==
  /\ Tables(P, T, O) /\ c \in CPU /\ O[c] # None /\ p = O[c] /\ i = P[p].idx
  /\ st \in {"RUNNABLE", "SLEEPING", "THZOMBIE", "ZOMBIE"} /\ chan \in 0..DiskChan
  /\ T1 = mvProcToThread(P, T, p, st, chan)
  /\ \A e : e \in rest <=> e \in Runnable(T1, P[p].pid) /\ e > i
  /\ ps = IF st = "ZOMBIE" THEN "ZOMBIE" ELSE "RUNNABLE"
  /\ P1 = InState(P, p, ps) /\ O1 = Runs(O, c, None)
  /\ \/ st # "ZOMBIE" /\ rest # {} /\ P2 = mvThreadToProc(P, T1, p, Min(rest)) /\ O2 = O
     \/ P2 = P1 /\ O2 = O1

LEMMA Switch ==
  ASSUME NEW P, NEW T, NEW O, NEW c, NEW p, NEW i, NEW st, NEW chan, NEW T1, NEW rest,
         NEW ps, NEW P1, NEW O1, NEW P2, NEW O2,
         Switches(P, T, O, c, p, i, st, chan, T1, rest, ps, P1, O1, P2, O2)
  PROVE  Tables(P2, T1, O2) /\ Parked(P, T, i, p, st, chan, T1) /\ Moved(P, O, c, p, st, P2, T1, O2)
<1> USE DEF Switches
<1>1. \A e : e \in rest <=> e \in Runnable(T1, P[p].pid) /\ e > i
  OBVIOUS
<1>2. /\ \/ st # "ZOMBIE" /\ rest # {} /\ P2 = mvThreadToProc(P, T1, p, Min(rest)) /\ O2 = O
         \/ P2 = P1 /\ O2 = O1
      /\ ps = IF st = "ZOMBIE" THEN "ZOMBIE" ELSE "RUNNABLE"
      /\ c \in CPU /\ st \in {"RUNNABLE", "SLEEPING", "THZOMBIE", "ZOMBIE"} /\ chan \in 0..DiskChan
      /\ i = P[p].idx
  OBVIOUS
<1>3. p \in Slot /\ Dressed(P, T, p) /\ P \in [Slot -> PRec] /\ i \in Entry
      /\ O \in [CPU -> Slot \cup {None}] /\ P[p] \in PRec
  BY DEF Tables, Typed, AllDressed, Dressed
<1>4. ps \in {"RUNNABLE", "ZOMBIE"}
  OBVIOUS
<1>5. /\ Tables(P1, T1, O1) /\ T1 \in [Entry -> TRec] /\ P1 \in [Slot -> PRec]
      /\ P1[p].state = ps /\ P1[p].pid = P[p].pid /\ O1[c] = None
      /\ \A e \in Entry : e # i => T1[e] = T[e]
      /\ T1[i].state = st /\ T1[i].chan = chan /\ T1[i].pid = P[p].pid
      /\ T1[i].tid = P[p].tid /\ T1[i].joiner = P[p].joiner
      /\ T1[i].retval = T[i].retval /\ T1[i].kstack = T[i].kstack
      /\ T1[i].pid = T[i].pid /\ T1[i].tid = T[i].tid
  BY <1>4, Undress
<1>6. Parked(P, T, i, p, st, chan, T1)
  BY <1>3, <1>5 DEF Parked
<1>7. /\ P1[p].killed = P[p].killed /\ P1[p].parent = P[p].parent /\ P1[p].idx = P[p].idx
      /\ P1[p].assign = P[p].assign
      /\ P1[p].parent_proc = P[p].parent_proc /\ \A q \in Slot : q # p => P1[q] = P[q]
  BY <1>3 DEF PRec, InState
<1>8. O1 \in [CPU -> Slot \cup {None}] /\ \A d \in CPU : d # c => O1[d] = O[d]
  BY <1>3 DEF Runs
<1>9. CASE st # "ZOMBIE" /\ rest # {} /\ P2 = mvThreadToProc(P, T1, p, Min(rest)) /\ O2 = O
  <2>1. PICK e : e = Min(rest)
    OBVIOUS
  <2>2. e \in rest /\ rest \subseteq Entry
    <3>1. rest \subseteq Entry
      BY DEF Runnable, ThreadsOf
    <3> QED BY <1>9, <2>1, <3>1, LeastEntry
  <2>3. e \in Entry /\ e \in Runnable(T1, P1[p].pid) /\ P1[p].state = "RUNNABLE" /\ T1[e].state = "RUNNABLE"
        /\ e # i
    <3>1. e > i /\ e \in Nat /\ i \in Nat
      BY <1>3, <2>2, Sizes
    <3>2. e # i
      BY <3>1
    <3> QED BY <1>5, <1>9, <2>2, <3>2 DEF Runnable
  <2>4. P2 = mvThreadToProc(P1, T1, p, e)
    BY <1>3, <1>9, <2>1, MvAgain
  <2>5. O2 = Runs(O1, c, p)
    BY <1>3, <1>9 DEF Runs
  <2>6. Tables(P2, T1, O2)
    BY <1>3, <1>5, <2>3, <2>4, <2>5, Dress
  <2>7. /\ P2 \in [Slot -> PRec]
        /\ \A q \in Slot : q # p => P2[q] = P1[q]
        /\ P2[p].state = "RUNNING" /\ P2[p].idx = e
        /\ P2[p].pid = P1[p].pid /\ P2[p].killed = P1[p].killed /\ P2[p].assign = P1[p].assign
        /\ P2[p].parent = P1[p].parent /\ P2[p].parent_proc = P1[p].parent_proc
    <3>1. P1 \in [Slot -> PRec] /\ T1 \in [Entry -> TRec] /\ p \in Slot /\ e \in Entry
          /\ P2 = mvThreadToProc(P1, T1, p, e)
      BY <1>3, <1>5, <2>3, <2>4
    <3> QED BY <3>1, MvOn
  <2>8. /\ \A q \in Slot : q # p => P2[q] = P[q]
        /\ P2[p].pid = P[p].pid /\ P2[p].killed = P[p].killed
        /\ P2[p].parent = P[p].parent /\ P2[p].parent_proc = P[p].parent_proc /\ P2[p].assign = P[p].assign
        /\ P2[p].idx \in Entry /\ T1[P2[p].idx].state = "RUNNABLE" /\ P2[p].idx # P[p].idx
    <3>1. ASSUME NEW q \in Slot, q # p PROVE P2[q] = P[q]
      BY <1>7, <2>7, <3>1
    <3>2. P2[p].idx = e /\ i = P[p].idx
      BY <2>7
    <3>3. P2[p].idx \in Entry /\ T1[P2[p].idx].state = "RUNNABLE" /\ P2[p].idx # P[p].idx
      BY <2>3, <3>2
    <3>4. /\ P2[p].pid = P[p].pid /\ P2[p].killed = P[p].killed
          /\ P2[p].parent = P[p].parent /\ P2[p].parent_proc = P[p].parent_proc /\ P2[p].assign = P[p].assign
      <4>1. /\ P2[p].pid = P1[p].pid /\ P2[p].killed = P1[p].killed
            /\ P2[p].parent = P1[p].parent /\ P2[p].parent_proc = P1[p].parent_proc
            /\ P2[p].assign = P1[p].assign
        BY <2>7
      <4>2. /\ P1[p].pid = P[p].pid /\ P1[p].killed = P[p].killed
            /\ P1[p].parent = P[p].parent /\ P1[p].parent_proc = P[p].parent_proc
            /\ P1[p].assign = P[p].assign
        BY <1>5, <1>7
      <4> QED BY <4>1, <4>2
    <3> QED BY <3>1, <3>3, <3>4, ZenonT(30)
  <2>9. P2[p].state \in IF st = "ZOMBIE" THEN {"ZOMBIE"} ELSE {"RUNNABLE", "RUNNING"}
    BY <1>9, <2>7
  <2>10. Moved(P, O, c, p, st, P2, T1, O2)
    BY <1>3, <1>9, <2>7, <2>8, <2>9 DEF Moved
  <2> QED BY <1>6, <2>6, <2>10
<1>10. CASE P2 = P1 /\ O2 = O1
  <2>1. Moved(P, O, c, p, st, P2, T1, O2)
    BY <1>5, <1>7, <1>8, <1>10 DEF Moved
  <2> QED BY <1>5, <1>6, <1>10, <2>1
<1> QED BY <1>9, <1>10

LEMMA SchedTables ==
  ASSUME NEW P, NEW T, Tables(P, T, on), scan \in [CPU -> Slot],
         NEW c \in CPU, on[c] # None,
         NEW st \in {"RUNNABLE", "SLEEPING", "THZOMBIE", "ZOMBIE"}, NEW chan \in 0..DiskChan,
         sched(c, st, chan, P, T)
  PROVE  /\ Tables(proc', th', on') /\ Parked(P, T, P[on[c]].idx, on[c], st, chan, th')
         /\ Moved(P, on, c, on[c], st, proc', th', on') /\ scan' \in [CPU -> Slot]
<1>1. PICK O, P2, T2, O2 : O = on /\ P2 = proc' /\ T2 = th' /\ O2 = on'
  OBVIOUS
<1>2. PICK p, i, ps : p = O[c] /\ i = P[p].idx /\ ps = IF st = "ZOMBIE" THEN "ZOMBIE" ELSE "RUNNABLE"
  OBVIOUS
<1>3. PICK rest : rest = {e \in Runnable(T2, P[p].pid) : e > i}
  OBVIOUS
<1>4. \A e : e \in rest <=> e \in Runnable(T2, P[p].pid) /\ e > i
  BY <1>3
<1>5. Tables(P, T, O) /\ O[c] # None
  BY <1>1
<1>6. PICK P1, O1 : P1 = InState(P, p, ps) /\ O1 = Runs(O, c, None)
  OBVIOUS
<1>7. T2 = mvProcToThread(P, T, p, st, chan)
  BY <1>1, <1>2 DEF sched
<1>8. \/ st # "ZOMBIE" /\ rest # {} /\ P2 = mvThreadToProc(P, T2, p, Min(rest)) /\ O2 = O /\ scan' = scan
      \/ P2 = P1 /\ O2 = O1 /\ scan' = [scan EXCEPT ![c] = NextSlot(p)]
  BY <1>1, <1>2, <1>3, <1>6, <1>7 DEF sched, InState, Runs
<1>9. Tables(P2, T2, O2) /\ Parked(P, T, i, p, st, chan, T2) /\ Moved(P, O, c, p, st, P2, T2, O2)
  <2>1. Switches(P, T, O, c, p, i, st, chan, T2, rest, ps, P1, O1, P2, O2)
    BY <1>2, <1>4, <1>5, <1>6, <1>7, <1>8 DEF Switches
  <2> QED BY <2>1, Switch
<1>10. scan' \in [CPU -> Slot]
  <2>1. p \in Slot
    BY <1>1, <1>2 DEF Tables, Typed
  <2> QED BY <1>8, <2>1, NextSlotIs
<1> QED BY <1>1, <1>2, <1>9, <1>10

-----------------------------------------------------------------------------
(* How the entries of pthread_table age: what wakeup1(), kill() and exit() *)
(* do to threads that are not theirs.                                      *)

Older(r, s) ==
  \/ s.state = r.state
  \/ r.pid # 0 /\ s.state = "THZOMBIE"
  \/ r.pid # 0 /\ s.state = "RUNNABLE" /\ (r.state = "SLEEPING" \/ r.tid = MAINTH)
SameThread(r, s) ==
  s.pid = r.pid /\ s.tid = r.tid /\ s.kstack = r.kstack /\ s.joiner = r.joiner /\ s.chan = r.chan
Ages(T, T1) ==
  T1 \in [Entry -> TRec] /\ \A e \in Entry : SameThread(T[e], T1[e]) /\ Older(T[e], T1[e])
SameValues(T, T1) == \A e \in Entry : T1[e].retval = T[e].retval

LEMMA OneOlder ==
  ASSUME NEW r \in TRec, NEW st \in States, NEW s, s = [r EXCEPT !.state = st]
  PROVE  s \in TRec /\ SameThread(r, s) /\ s.retval = r.retval /\ s.state = st
BY DEF TRec, SameThread

LEMMA WakeAges ==
  ASSUME NEW T \in [Entry -> TRec], Stacks(T), NEW chan, NEW T1, T1 = wakeup1(T, chan)
  PROVE  /\ Ages(T, T1) /\ SameValues(T, T1)
         /\ \A e \in Entry : T1[e].state = IF T[e].state = "SLEEPING" /\ T[e].chan = chan
                                           THEN "RUNNABLE" ELSE T[e].state
<1>1. "RUNNABLE" \in States /\ T1 = [e \in Entry |-> T1[e]]
  BY DEF States, wakeup1
<1>2. ASSUME NEW e \in Entry
      PROVE  /\ T1[e] \in TRec /\ SameThread(T[e], T1[e]) /\ Older(T[e], T1[e]) /\ T1[e].retval = T[e].retval
             /\ T1[e].state = IF T[e].state = "SLEEPING" /\ T[e].chan = chan
                              THEN "RUNNABLE" ELSE T[e].state
  <2>1. T[e] \in TRec
    OBVIOUS
  <2>2. CASE T[e].state = "SLEEPING" /\ T[e].chan = chan
    <3>1. T1[e] = [T[e] EXCEPT !.state = "RUNNABLE"]
      BY <2>2 DEF wakeup1
    <3>2. T1[e] \in TRec /\ SameThread(T[e], T1[e]) /\ T1[e].retval = T[e].retval /\ T1[e].state = "RUNNABLE"
      BY <1>1, <2>1, <3>1, OneOlder
    <3>3. T[e].pid # 0
      BY <2>2 DEF Stacks
    <3> QED BY <2>2, <3>2, <3>3 DEF Older
  <2>3. CASE ~(T[e].state = "SLEEPING" /\ T[e].chan = chan)
    <3>1. T1[e] = T[e]
      BY <2>3 DEF wakeup1
    <3> QED BY <2>1, <2>3, <3>1 DEF Older, SameThread
  <2> QED BY <2>2, <2>3
<1>3. T1 \in [Entry -> TRec]
  BY <1>1, <1>2
<1> QED BY <1>2, <1>3 DEF Ages, SameValues

LEMMA KillAges ==
  ASSUME NEW T \in [Entry -> TRec], NEW pid, pid # 0, NEW T1, T1 = killed(T, pid)
  PROVE  /\ Ages(T, T1) /\ SameValues(T, T1)
         /\ \A e \in Entry : T1[e].state = IF T[e].pid # pid THEN T[e].state
                               ELSE IF T[e].tid = MAINTH THEN "RUNNABLE" ELSE "THZOMBIE"
<1>1. {"RUNNABLE", "THZOMBIE"} \subseteq States /\ T1 = [e \in Entry |-> T1[e]]
  BY DEF States, killed
<1>2. ASSUME NEW e \in Entry
      PROVE  /\ T1[e] \in TRec /\ SameThread(T[e], T1[e]) /\ Older(T[e], T1[e]) /\ T1[e].retval = T[e].retval
             /\ T1[e].state = IF T[e].pid # pid THEN T[e].state
                               ELSE IF T[e].tid = MAINTH THEN "RUNNABLE" ELSE "THZOMBIE"
  <2>1. T[e] \in TRec
    OBVIOUS
  <2>2. CASE T[e].pid = pid
    <3>1. PICK st : st = IF T[e].tid = MAINTH THEN "RUNNABLE" ELSE "THZOMBIE"
      OBVIOUS
    <3>2. T1[e] = [T[e] EXCEPT !.state = st] /\ st \in States
      BY <1>1, <2>2, <3>1 DEF killed
    <3>3. T1[e] \in TRec /\ SameThread(T[e], T1[e]) /\ T1[e].retval = T[e].retval /\ T1[e].state = st
      BY <2>1, <3>2, OneOlder
    <3> QED BY <2>2, <3>1, <3>3 DEF Older
  <2>3. CASE T[e].pid # pid
    <3>1. T1[e] = T[e]
      BY <2>3 DEF killed
    <3> QED BY <2>1, <2>3, <3>1 DEF Older, SameThread
  <2> QED BY <2>2, <2>3
<1>3. T1 \in [Entry -> TRec]
  BY <1>1, <1>2
<1> QED BY <1>2, <1>3 DEF Ages, SameValues

\* exit(): the threads of the process are dead.
AllDead(T, pid) ==
  [e \in Entry |-> IF T[e].pid = pid THEN [T[e] EXCEPT !.state = "THZOMBIE"] ELSE T[e]]

LEMMA DeadAges ==
  ASSUME NEW T \in [Entry -> TRec], NEW pid, pid # 0, NEW T1, T1 = AllDead(T, pid)
  PROVE  /\ Ages(T, T1) /\ SameValues(T, T1)
         /\ \A e \in Entry : T1[e].state = IF T[e].pid = pid THEN "THZOMBIE" ELSE T[e].state
<1>1. "THZOMBIE" \in States /\ T1 = [e \in Entry |-> T1[e]]
  BY DEF States, AllDead
<1>2. ASSUME NEW e \in Entry
      PROVE  /\ T1[e] \in TRec /\ SameThread(T[e], T1[e]) /\ Older(T[e], T1[e]) /\ T1[e].retval = T[e].retval
             /\ T1[e].state = IF T[e].pid = pid THEN "THZOMBIE" ELSE T[e].state
  <2>1. T[e] \in TRec
    OBVIOUS
  <2>2. CASE T[e].pid = pid
    <3>1. T1[e] = [T[e] EXCEPT !.state = "THZOMBIE"]
      BY <2>2 DEF AllDead
    <3>2. T1[e] \in TRec /\ SameThread(T[e], T1[e]) /\ T1[e].retval = T[e].retval /\ T1[e].state = "THZOMBIE"
      BY <1>1, <2>1, <3>1, OneOlder
    <3> QED BY <2>2, <3>2 DEF Older
  <2>3. CASE T[e].pid # pid
    <3>1. T1[e] = T[e]
      BY <2>3 DEF AllDead
    <3> QED BY <2>1, <2>3, <3>1 DEF Older, SameThread
  <2> QED BY <2>2, <2>3
<1>3. T1 \in [Entry -> TRec]
  BY <1>1, <1>2
<1> QED BY <1>2, <1>3 DEF Ages, SameValues

LEMMA AgesAgain ==
  ASSUME NEW T, NEW T1, NEW T2, Ages(T, T1), Ages(T1, T2)
  PROVE  Ages(T, T2)
<1>1. ASSUME NEW e \in Entry PROVE SameThread(T[e], T2[e]) /\ Older(T[e], T2[e])
  <2>1. SameThread(T[e], T1[e]) /\ Older(T[e], T1[e]) /\ SameThread(T1[e], T2[e]) /\ Older(T1[e], T2[e])
    BY DEF Ages
  <2> QED BY <2>1 DEF SameThread, Older
<1> QED BY <1>1 DEF Ages

LEMMA AgesSelf ==
  ASSUME NEW T \in [Entry -> TRec]
  PROVE  Ages(T, T) /\ SameValues(T, T)
BY DEF Ages, SameThread, Older, SameValues

LEMMA AgedStacks ==
  ASSUME NEW T, NEW T1, Stacks(T), Ages(T, T1)
  PROVE  Stacks(T1)
<1>1. ASSUME NEW e \in Entry
      PROVE  (T1[e].state # "UNUSED" => T1[e].pid # 0) /\ (T1[e].pid # 0 => T1[e].kstack)
  <2>1. /\ SameThread(T[e], T1[e]) /\ Older(T[e], T1[e])
        /\ (T[e].state # "UNUSED" => T[e].pid # 0) /\ (T[e].pid # 0 => T[e].kstack)
    BY DEF Ages, Stacks
  <2> QED BY <2>1 DEF SameThread, Older
<1> QED BY <1>1 DEF Stacks

\* In ptable only what nobody's dress depends on changes.
SameDress(P, P1) ==
  \A q \in Slot : /\ P1[q].pid = P[q].pid /\ P1[q].idx = P[q].idx /\ P1[q].tid = P[q].tid
                  /\ \/ P1[q].state = P[q].state
                     \/ {P1[q].state, P[q].state} \subseteq {"RUNNING", "THZOMBIE"}

LEMMA AgedTables ==
  ASSUME NEW P, NEW T, NEW O, Tables(P, T, O),
         NEW P1 \in [Slot -> PRec], SameDress(P, P1), NEW T1, Ages(T, T1)
  PROVE  Tables(P1, T1, O)
<1>1. T1 \in [Entry -> TRec] /\ Stacks(T1)
  BY AgedStacks DEF Tables, Ages
<1>2. ASSUME NEW c \in CPU, O[c] # None
      PROVE  /\ T1[P[O[c]].idx].state \in {"RUNNABLE", "THZOMBIE"}
             /\ T1[P[O[c]].idx].pid = T[P[O[c]].idx].pid
             /\ T1[P[O[c]].idx].tid = T[P[O[c]].idx].tid
  <2>1. PICK i : i = P[O[c]].idx
    OBVIOUS
  <2>2. i \in Entry /\ T[i].state \in {"RUNNABLE", "THZOMBIE"}
    BY <1>2, <2>1 DEF Tables, AllDressed, Dressed
  <2>3. SameThread(T[i], T1[i]) /\ Older(T[i], T1[i])
    BY <2>2 DEF Ages
  <2> QED BY <2>1, <2>2, <2>3 DEF SameThread, Older
<1>3. \A e \in Entry : (T1[e].state # "UNUSED" => T1[e].pid # 0) /\ (T1[e].pid # 0 => T1[e].kstack)
  BY <1>1 DEF Stacks
<1> QED BY <1>1, <1>2, <1>3, TablesKept DEF SameDress, Kept

\* An entry of ptable that no processor runs is given out or back.
LEMMA TablesSlot ==
  ASSUME NEW P, NEW T, NEW O, Tables(P, T, O),
         NEW P1 \in [Slot -> PRec], NEW T1 \in [Entry -> TRec], NEW p \in Slot,
         P[p].state \notin {"RUNNING", "THZOMBIE"}, \A q \in Slot : q # p => P1[q] = P[q],
         P1[p].state # "UNUSED" => P1[p].pid # 0,
         \A q \in Slot : q # p => P1[p].pid # P[q].pid \/ P1[p].pid = 0,
         Stacks(T1), \A c \in CPU : O[c] # None => T1[P[O[c]].idx] = T[P[O[c]].idx]
  PROVE  Tables(P1, T1, O)
<1>1. Typed(P1, T1, O) /\ Alone(O) /\ Pids(P)
  BY DEF Tables, Typed
<1>2. ASSUME NEW c \in CPU, O[c] # None PROVE Dressed(P1, T1, O[c])
  <2>1. O[c] \in Slot /\ Dressed(P, T, O[c])
    BY <1>2 DEF Tables, Typed, AllDressed
  <2>2. O[c] # p
    BY <2>1 DEF Dressed
  <2>3. P1[O[c]] = P[O[c]] /\ T1[P[O[c]].idx] = T[P[O[c]].idx]
    BY <1>2, <2>1, <2>2
  <2> QED BY <2>1, <2>3 DEF Dressed
<1>3. Pids(P1)
  <2>1. ASSUME NEW q \in Slot, P1[q].state # "UNUSED" PROVE P1[q].pid # 0
    BY <1>1, <2>1 DEF Pids
  <2>2. ASSUME NEW q \in Slot, NEW r \in Slot, P1[q].pid = P1[r].pid PROVE q = r \/ P1[q].pid = 0
    <3>1. CASE q = p /\ r # p
      BY <2>2, <3>1
    <3>2. CASE q # p /\ r = p
      BY <2>2, <3>2
    <3>3. CASE q # p /\ r # p
      BY <1>1, <2>2, <3>3 DEF Pids
    <3> QED BY <3>1, <3>2, <3>3
  <2> QED BY <2>1, <2>2 DEF Pids
<1> QED BY <1>1, <1>2, <1>3 DEF Tables, AllDressed

-----------------------------------------------------------------------------
(* Where the threads are in their system calls.                            *)

\* The thread of processor c, in tables that are right.
Running(P, T, O, C, A, k, c, m) ==
  /\ Tables(P, T, O) /\ Positions(P, T, O, C, A, k)
  /\ c \in CPU /\ O[c] # None /\ m = P[O[c]].idx

LEMMA RunsOn ==
  ASSUME NEW P, NEW T, NEW O, NEW C, NEW A, NEW k, NEW c, NEW m, Running(P, T, O, C, A, k, c, m)
  PROVE  /\ O[c] \in Slot /\ m \in Entry /\ P[O[c]].idx = m
         /\ T[m].state \in {"RUNNABLE", "THZOMBIE"} /\ T[m].pid # 0 /\ T[m].kstack
         /\ T[m].pid = P[O[c]].pid /\ T[m].tid = P[O[c]].tid
         /\ P[O[c]].state \in {"RUNNING", "THZOMBIE"}
         /\ P[O[c]] \in PRec /\ T[m] \in TRec
         /\ \A e \in Entry : C[e] = "create" => A[e] # m
<1>1. O[c] \in Slot /\ Dressed(P, T, O[c]) /\ Stacks(T) /\ Typed(P, T, O)
  BY DEF Running, Tables, Typed, AllDressed
<1>2. ASSUME NEW e \in Entry, C[e] = "create" PROVE A[e] # m
  <2>1. k = e /\ A[e] # e /\ T[A[e]].pid = T[e].pid
    BY <1>2 DEF Running, Positions, LockOK, Creating
  <2>2. PICK d \in CPU : O[d] # None /\ P[O[d]].idx = e
    <3>1. e # None
      BY Sizes
    <3> QED BY <2>1, <3>1 DEF Running, Positions, LockOK
  <2>3. ASSUME A[e] = m PROVE FALSE
    <3>1. T[P[O[c]].idx].pid = T[P[O[d]].idx].pid
      BY <2>1, <2>2, <2>3 DEF Running
    <3>2. c = d
      BY <2>2, <3>1, OtherPid DEF Running
    <3> QED BY <2>1, <2>2, <2>3, <3>2 DEF Running
  <2> QED BY <2>3
<1>3. P[O[c]].idx = m /\ m \in Entry
  BY <1>1 DEF Running, Dressed
<1>4. /\ T[m].state \in {"RUNNABLE", "THZOMBIE"}
      /\ T[m].pid = P[O[c]].pid /\ T[m].tid = P[O[c]].tid
      /\ P[O[c]].state \in {"RUNNING", "THZOMBIE"}
  BY <1>1, <1>3 DEF Dressed
<1>5. T[m].pid # 0 /\ T[m].kstack
  BY <1>1, <1>3, <1>4 DEF Stacks
<1> QED BY <1>1, <1>2, <1>3, <1>4, <1>5 DEF Typed

\* Threads age, and nobody moves.
LEMMA PositionsAge ==
  ASSUME NEW P, NEW T, NEW O, NEW C, NEW A, NEW k, Positions(P, T, O, C, A, k),
         O \in [CPU -> Slot \cup {None}], NEW T1, Ages(T, T1), NEW P1, SameDress(P, P1)
  PROVE  Positions(P1, T1, O, C, A, k)
<1>1. ASSUME NEW e \in Entry PROVE SameThread(T[e], T1[e]) /\ Older(T[e], T1[e])
  BY DEF Ages
<1>2. PlacesTyped(C, A, k)
  BY DEF Positions
<1>3. LockOK(P1, T1, O, C, k)
  <2>1. LockOK(P, T, O, C, k) /\ \A c \in CPU : O[c] # None => P1[O[c]].idx = P[O[c]].idx
    BY DEF Positions, SameDress
  <2>2. ASSUME NEW e \in Entry, C[e] = "thread_exit"
        PROVE  T1[e].tid # MAINTH /\ (k = e \/ T1[e].state = "THZOMBIE")
    <3>1. T[e].tid # MAINTH /\ (k = e \/ T[e].state = "THZOMBIE")
      BY <2>1, <2>2 DEF LockOK
    <3> QED BY <1>1, <3>1 DEF SameThread, Older
  <2>3. k # None => C[k] \in Holding /\ \E c \in CPU : O[c] # None /\ P1[O[c]].idx = k
    BY <2>1 DEF LockOK
  <2>4. \A c \in CPU : O[c] # None /\ C[P1[O[c]].idx] = "thread_exit" => k = P1[O[c]].idx
    BY <2>1 DEF LockOK
  <2> QED BY <2>1, <2>2, <2>3, <2>4 DEF LockOK
<1>4. Joiners(T1, C, A)
  BY <1>1 DEF Positions, Joiners, SameThread
<1>5. Creating(T1, C, A)
  <2>1. ASSUME NEW e \in Entry, C[e] = "create"
        PROVE  /\ A[e] \in Entry /\ A[e] # e /\ C[A[e]] = "user"
               /\ T1[A[e]].state \in {"EMBRYO", "THZOMBIE"} /\ T1[A[e]].pid = T1[e].pid
               /\ T1[A[e]].tid # MAINTH
    <3>1. PICK f : f = A[e]
      OBVIOUS
    <3>2. /\ f \in Entry /\ f # e /\ C[f] = "user"
          /\ T[f].state \in {"EMBRYO", "THZOMBIE"} /\ T[f].pid = T[e].pid /\ T[f].tid # MAINTH
      BY <2>1, <3>1 DEF Positions, Creating
    <3>3. T1[f].state \in {"EMBRYO", "THZOMBIE"}
      BY <1>1, <3>2 DEF Older
    <3>4. T1[f].pid = T1[e].pid /\ T1[f].tid # MAINTH
      BY <1>1, <3>2 DEF SameThread
    <3> QED BY <3>1, <3>2, <3>3, <3>4
  <2> QED BY <2>1 DEF Creating
<1>6. Newborn(T1, C)
  BY <1>1 DEF Positions, Newborn, Older
<1> QED BY <1>2, <1>3, <1>4, <1>5, <1>6 DEF Positions

\* The thread of a processor goes on in its call, and does not hold the lock.
LEMMA PositionsStep ==
  ASSUME NEW P, NEW T, NEW O, NEW C, NEW A, NEW k, NEW c, NEW m, Running(P, T, O, C, A, k, c, m),
         C[m] \notin Holding, NEW w \in Places \ (Holding \cup {"join"}),
         NEW C1 \in [Entry -> Places], C1[m] = w, \A e \in Entry : e # m => C1[e] = C[e],
         NEW A1 \in [Entry -> 0..MaxTid \cup Entry], \A e \in Entry : e # m => A1[e] = A[e]
  PROVE  Positions(P, T, O, C1, A1, k)
<1>1. m \in Entry /\ T[m].state \in {"RUNNABLE", "THZOMBIE"} /\ \A e \in Entry : C[e] = "create" => A[e] # m
  BY RunsOn
<1>2. /\ PlacesTyped(C, A, k) /\ LockOK(P, T, O, C, k)
      /\ Joiners(T, C, A) /\ Creating(T, C, A) /\ Newborn(T, C)
      /\ Typed(P, T, O) /\ AllDressed(P, T, O)
  BY DEF Running, Positions, Tables
<1>3. k # m
  <2>1. m # None
    BY <1>1, Sizes
  <2> QED BY <1>2, <2>1 DEF LockOK
<1>4. w \notin {"create", "join_sleep", "thread_exit", "join"} /\ k \in Ptr
  BY <1>2 DEF Holding, PlacesTyped
<1>5. PlacesTyped(C1, A1, k)
  BY <1>2 DEF PlacesTyped
<1>6. LockOK(P, T, O, C1, k)
  <2>1. k # None => C1[k] \in Holding /\ \E d \in CPU : O[d] # None /\ P[O[d]].idx = k
    BY <1>2, <1>3, <1>4 DEF LockOK, Ptr
  <2>2. ASSUME NEW d \in CPU, O[d] # None, C1[P[O[d]].idx] = "thread_exit" PROVE k = P[O[d]].idx
    <3>1. P[O[d]].idx \in Entry
      BY <1>2, <2>2 DEF AllDressed, Dressed
    <3> QED BY <1>2, <1>4, <2>2, <3>1 DEF LockOK
  <2>3. \A e \in Entry : C1[e] \in {"create", "join_sleep"} => k = e
    BY <1>2, <1>4 DEF LockOK
  <2>4. \A e \in Entry : C1[e] = "thread_exit" =>
          T[e].tid # MAINTH /\ (k = e \/ T[e].state = "THZOMBIE")
    BY <1>2, <1>4 DEF LockOK
  <2> QED BY <2>1, <2>2, <2>3, <2>4 DEF LockOK
<1>7. Joiners(T, C1, A1)
  BY <1>2, <1>4 DEF Joiners
<1>8. Creating(T, C1, A1)
  <2>1. ASSUME NEW e \in Entry, C1[e] = "create"
        PROVE  /\ A1[e] \in Entry /\ A1[e] # e /\ C1[A1[e]] = "user"
               /\ T[A1[e]].state \in {"EMBRYO", "THZOMBIE"} /\ T[A1[e]].pid = T[e].pid
               /\ T[A1[e]].tid # MAINTH
    <3>1. e # m /\ A1[e] = A[e] /\ C[e] = "create" /\ A[e] # m
      BY <1>1, <1>4, <2>1
    <3> QED BY <1>2, <3>1 DEF Creating
  <2> QED BY <2>1 DEF Creating
<1>9. Newborn(T, C1)
  BY <1>1, <1>2 DEF Newborn
<1> QED BY <1>5, <1>6, <1>7, <1>8, <1>9 DEF Positions

\* Entries of threads that are in no call and that no call is about change hands.
Elsewhere(P, T, O, C, A, k, P1, T1, C1, D) ==
  /\ Positions(P, T, O, C, A, k) /\ k \notin D
  /\ \A c \in CPU : O[c] # None => P1[O[c]].idx = P[O[c]].idx /\ P[O[c]].idx \in Entry
  /\ \A e \in Entry : C[e] = "create" => A[e] \notin D
  /\ \A e \in Entry : e \notin D => T1[e] = T[e]
  /\ C1 \in [Entry -> Places] /\ \A e \in Entry : C1[e] = IF e \in D THEN "user" ELSE C[e]

LEMMA PositionsElse ==
  ASSUME NEW P, NEW T, NEW O, NEW C, NEW A, NEW k, NEW P1, NEW T1, NEW C1, NEW D,
         Elsewhere(P, T, O, C, A, k, P1, T1, C1, D)
  PROVE  Positions(P1, T1, O, C1, A, k)
<1> USE DEF Elsewhere
<1>1. /\ PlacesTyped(C, A, k) /\ LockOK(P, T, O, C, k)
      /\ Joiners(T, C, A) /\ Creating(T, C, A) /\ Newborn(T, C)
  BY DEF Positions
<1>2. \A e \in Entry : C1[e] # "user" => e \notin D /\ C1[e] = C[e] /\ T1[e] = T[e]
  OBVIOUS
<1>3. PlacesTyped(C1, A, k)
  BY <1>1 DEF PlacesTyped
<1>4. LockOK(P1, T1, O, C1, k)
  <2>1. k # None => C1[k] \in Holding /\ \E d \in CPU : O[d] # None /\ P1[O[d]].idx = k
    <3>1. k # None => k \in Entry /\ C1[k] = C[k]
      BY <1>1 DEF PlacesTyped, Ptr
    <3> QED BY <1>1, <3>1 DEF LockOK
  <2>2. ASSUME NEW d \in CPU, O[d] # None, C1[P1[O[d]].idx] = "thread_exit" PROVE k = P1[O[d]].idx
    <3>1. PICK i \in Entry : i = P1[O[d]].idx /\ i = P[O[d]].idx
      BY <2>2
    <3> QED BY <1>1, <1>2, <2>2, <3>1 DEF LockOK
  <2>3. \A e \in Entry : C1[e] \in {"create", "join_sleep"} => k = e
    BY <1>1, <1>2 DEF LockOK
  <2>4. \A e \in Entry : C1[e] = "thread_exit" =>
          T1[e].tid # MAINTH /\ (k = e \/ T1[e].state = "THZOMBIE")
    BY <1>1, <1>2 DEF LockOK
  <2> QED BY <2>1, <2>2, <2>3, <2>4 DEF LockOK
<1>5. Joiners(T1, C1, A)
  BY <1>1, <1>2 DEF Joiners
<1>6. Creating(T1, C1, A)
  <2>1. ASSUME NEW e \in Entry, C1[e] = "create"
        PROVE  /\ A[e] \in Entry /\ A[e] # e /\ C1[A[e]] = "user"
               /\ T1[A[e]].state \in {"EMBRYO", "THZOMBIE"} /\ T1[A[e]].pid = T1[e].pid
               /\ T1[A[e]].tid # MAINTH
    <3>1. C[e] = "create" /\ T1[e] = T[e] /\ A[e] \notin D
      BY <1>2, <2>1
    <3>2. A[e] \in Entry
      BY <1>1, <3>1 DEF Creating
    <3> QED BY <1>1, <3>1, <3>2 DEF Creating
  <2> QED BY <2>1 DEF Creating
<1>7. Newborn(T1, C1)
  BY <1>1 DEF Newborn
<1> QED BY <1>3, <1>4, <1>5, <1>6, <1>7 DEF Positions

\* An entry out of use, or of a thread that is no more, is not part of any call.
LEMMA Idle ==
  ASSUME NEW P, NEW T, NEW O, NEW C, NEW A, NEW k, Tables(P, T, O), Positions(P, T, O, C, A, k),
         NEW e \in Entry, T[e].state = "UNUSED"
  PROVE  /\ C[e] = "user" /\ k # e /\ \A f \in Entry : C[f] = "create" => A[f] # e
         /\ \A c \in CPU : O[c] # None => P[O[c]].idx # e
<1>1. C[e] = "user"
  BY DEF Positions, Newborn
<1>2. k # e
  <2>1. e # None
    BY Sizes
  <2> QED BY <1>1, <2>1 DEF Positions, LockOK, Holding
<1>3. \A f \in Entry : C[f] = "create" => A[f] # e
  BY DEF Positions, Creating
<1>4. \A c \in CPU : O[c] # None => P[O[c]].idx # e
  BY DEF Tables, AllDressed, Dressed
<1> QED BY <1>1, <1>2, <1>3, <1>4

\* sched(): the processor switches, and pthread_table.lock is not with the thread that leaves.
Leaves(P, T, O, C, A, k, c, m, p, st, chan, P1, T1, O1) ==
  /\ Running(P, T, O, C, A, k, c, m) /\ p = O[c]
  /\ Tables(P1, T1, O1) /\ Parked(P, T, m, p, st, chan, T1) /\ Moved(P, O, c, p, st, P1, T1, O1)
  /\ st \in {"RUNNABLE", "SLEEPING", "THZOMBIE", "ZOMBIE"}

LEMMA PositionsSwitch ==
  ASSUME NEW P, NEW T, NEW O, NEW C, NEW A, NEW k, NEW c, NEW m, NEW p, NEW st, NEW chan,
         NEW P1, NEW T1, NEW O1, Leaves(P, T, O, C, A, k, c, m, p, st, chan, P1, T1, O1),
         NEW w \in Places \ {"create", "join_sleep"},
         w = "thread_exit" => st = "THZOMBIE" /\ T[m].tid # MAINTH,
         w = "join" => T[m].tid = MAINTH /\ A[m] \in 2..MaxTid,
         NEW C1 \in [Entry -> Places], C1[m] = w, \A e \in Entry : e # m => C1[e] = C[e],
         NEW k1, k1 = IF k = m THEN None ELSE k
  PROVE  Positions(P1, T1, O1, C1, A, k1)
<1>1. /\ Running(P, T, O, C, A, k, c, m) /\ p = O[c] /\ c \in CPU /\ O[c] # None /\ m = P[p].idx
      /\ Tables(P, T, O) /\ st \in {"RUNNABLE", "SLEEPING", "THZOMBIE", "ZOMBIE"}
  BY DEF Leaves, Running
<1>2. /\ PlacesTyped(C, A, k) /\ LockOK(P, T, O, C, k)
      /\ Joiners(T, C, A) /\ Creating(T, C, A) /\ Newborn(T, C)
      /\ Typed(P, T, O) /\ Alone(O) /\ AllDressed(P, T, O)
  BY <1>1 DEF Running, Positions, Tables
<1>3. m \in Entry /\ \A e \in Entry : C[e] = "create" => A[e] # m
  BY <1>1, RunsOn
<1>4. /\ \A e \in Entry : e # m => T1[e] = T[e]
      /\ T1[m].state = st /\ T1[m].tid = T[m].tid /\ T1[m].pid = T[m].pid
  BY DEF Leaves, Parked
<1>5. /\ \A q \in Slot : q # p => P1[q] = P[q]
      /\ \A d \in CPU : d # c => O1[d] = O[d]
      /\ \/ O1[c] = None
         \/ /\ O1[c] = p /\ P1[p].idx \in Entry /\ T1[P1[p].idx].state = "RUNNABLE"
            /\ P1[p].idx # P[p].idx
  BY DEF Leaves, Moved
<1>6. k \in Ptr /\ m # None /\ k1 \in Ptr
  BY <1>2, <1>3, Sizes DEF PlacesTyped, Ptr
<1>7. PlacesTyped(C1, A, k1)
  BY <1>2, <1>6 DEF PlacesTyped
<1>8. ASSUME NEW d \in CPU, d # c, O1[d] # None
      PROVE  /\ O1[d] = O[d] /\ O[d] # None /\ P1[O1[d]] = P[O[d]]
             /\ P[O[d]].idx \in Entry /\ P[O[d]].idx # m
  <2>1. O1[d] = O[d] /\ O[d] \in Slot /\ O[d] # p
    BY <1>1, <1>2, <1>5, <1>8 DEF Alone, Typed
  <2>2. P[O[d]].idx \in Entry
    BY <1>2, <1>8, <2>1 DEF AllDressed, Dressed
  <2>3. P[O[d]].idx # m
    BY <1>1, <1>8, <2>1, OtherDress
  <2> QED BY <1>5, <1>8, <2>1, <2>2, <2>3
<1>9. LockOK(P1, T1, O1, C1, k1)
  <2>1. ASSUME k1 # None PROVE C1[k1] \in Holding /\ \E d \in CPU : O1[d] # None /\ P1[O1[d]].idx = k1
    <3>1. k1 = k /\ k # m /\ k \in Entry
      BY <1>6, <2>1 DEF Ptr
    <3>2. PICK d \in CPU : O[d] # None /\ P[O[d]].idx = k
      BY <1>2, <2>1, <3>1 DEF LockOK
    <3>3. d # c
      BY <1>1, <3>1, <3>2
    <3>4. O1[d] # None /\ P1[O1[d]].idx = k1
      BY <1>5, <1>8, <3>1, <3>2, <3>3
    <3> QED BY <1>2, <2>1, <3>1, <3>4 DEF LockOK
  <2>2. ASSUME NEW d \in CPU, O1[d] # None, C1[P1[O1[d]].idx] = "thread_exit" PROVE k1 = P1[O1[d]].idx
    <3>1. CASE d = c
      <4>1. PICK f : f = P1[p].idx
        OBVIOUS
      <4>2. f \in Entry /\ f # m /\ T[f].state = "RUNNABLE" /\ C[f] = "thread_exit" /\ O1[d] = p
        BY <1>1, <1>4, <1>5, <2>2, <3>1, <4>1
      <4> QED BY <1>2, <4>1, <4>2 DEF LockOK
    <3>2. CASE d # c
      <4>1. PICK f : f = P[O[d]].idx
        OBVIOUS
      <4>2. O1[d] = O[d] /\ O[d] # None /\ P1[O1[d]].idx = f /\ f \in Entry /\ f # m
        BY <1>8, <2>2, <3>2, <4>1
      <4> QED BY <1>2, <2>2, <4>1, <4>2 DEF LockOK
    <3> QED BY <3>1, <3>2
  <2>3. \A e \in Entry : C1[e] \in {"create", "join_sleep"} => k1 = e
    BY <1>2 DEF LockOK
  <2>4. \A e \in Entry : C1[e] = "thread_exit" =>
          T1[e].tid # MAINTH /\ (k1 = e \/ T1[e].state = "THZOMBIE")
    <3>1. ASSUME NEW e \in Entry, C1[e] = "thread_exit", e # m
          PROVE  T1[e].tid # MAINTH /\ (k1 = e \/ T1[e].state = "THZOMBIE")
      BY <1>2, <1>4, <3>1 DEF LockOK
    <3>2. C1[m] = "thread_exit" => T1[m].tid # MAINTH /\ (k1 = m \/ T1[m].state = "THZOMBIE")
      BY <1>4
    <3> QED BY <3>1, <3>2
  <2> QED BY <2>1, <2>2, <2>3, <2>4 DEF LockOK
<1>10. Joiners(T1, C1, A)
  BY <1>2, <1>4 DEF Joiners
<1>11. Creating(T1, C1, A)
  <2>1. ASSUME NEW e \in Entry, C1[e] = "create"
        PROVE  /\ A[e] \in Entry /\ A[e] # e /\ C1[A[e]] = "user"
               /\ T1[A[e]].state \in {"EMBRYO", "THZOMBIE"} /\ T1[A[e]].pid = T1[e].pid
               /\ T1[A[e]].tid # MAINTH
    <3>1. e # m /\ C[e] = "create" /\ T1[e] = T[e] /\ A[e] # m
      BY <1>3, <1>4, <2>1
    <3>2. A[e] \in Entry
      BY <1>2, <3>1 DEF Creating
    <3> QED BY <1>2, <1>4, <3>1, <3>2 DEF Creating
  <2> QED BY <2>1 DEF Creating
<1>12. Newborn(T1, C1)
  BY <1>1, <1>2, <1>4 DEF Newborn
<1> QED BY <1>7, <1>9, <1>10, <1>11, <1>12 DEF Positions

\* scheduler(): an idle processor puts thread e of process p on.
LEMMA PositionsDress ==
  ASSUME NEW P, NEW T, NEW O, NEW C, NEW A, NEW k, Tables(P, T, O), Positions(P, T, O, C, A, k),
         NEW c \in CPU, O[c] = None, NEW p \in Slot, P[p].state = "RUNNABLE",
         NEW e \in Entry, T[e].state = "RUNNABLE",
         NEW P1, P1[p].idx = e, \A q \in Slot : q # p => P1[q] = P[q],
         NEW O1, O1[c] = p, \A d \in CPU : d # c => O1[d] = O[d]
  PROVE  Positions(P1, T, O1, C, A, k)
<1>1. /\ PlacesTyped(C, A, k) /\ LockOK(P, T, O, C, k)
      /\ Joiners(T, C, A) /\ Creating(T, C, A) /\ Newborn(T, C)
      /\ Typed(P, T, O) /\ AllDressed(P, T, O)
  BY DEF Positions, Tables
<1>2. ASSUME NEW d \in CPU, O[d] # None
      PROVE  d # c /\ O1[d] = O[d] /\ P1[O[d]] = P[O[d]]
  <2>1. O[d] \in Slot /\ Dressed(P, T, O[d])
    BY <1>1, <1>2 DEF AllDressed, Typed
  <2>2. O[d] # p
    BY <2>1 DEF Dressed
  <2> QED BY <1>2, <2>1, <2>2
<1>3. LockOK(P1, T, O1, C, k)
  <2>1. k # None => C[k] \in Holding /\ \E d \in CPU : O1[d] # None /\ P1[O1[d]].idx = k
    <3>1. ASSUME k # None PROVE \E d \in CPU : O1[d] # None /\ P1[O1[d]].idx = k
      <4>1. PICK d \in CPU : O[d] # None /\ P[O[d]].idx = k
        BY <1>1, <3>1 DEF LockOK
      <4> QED BY <1>2, <4>1
    <3> QED BY <1>1, <3>1 DEF LockOK
  <2>2. ASSUME NEW d \in CPU, O1[d] # None, C[P1[O1[d]].idx] = "thread_exit" PROVE k = P1[O1[d]].idx
    <3>1. CASE d = c
      BY <1>1, <2>2, <3>1 DEF LockOK
    <3>2. CASE d # c
      <4>1. O[d] # None /\ O1[d] = O[d] /\ P1[O[d]] = P[O[d]]
        BY <1>2, <2>2, <3>2
      <4> QED BY <1>1, <2>2, <4>1 DEF LockOK
    <3> QED BY <3>1, <3>2
  <2> QED BY <1>1, <2>1, <2>2 DEF LockOK
<1> QED BY <1>1, <1>3 DEF Positions

-----------------------------------------------------------------------------
(* The actions.                                                            *)

LEMMA Now ==
  ASSUME RunInv
  PROVE  /\ Tables(proc, th, on) /\ Positions(proc, th, on, pc, arg, lk) /\ Rest
         /\ proc \in [Slot -> PRec] /\ th \in [Entry -> TRec] /\ on \in [CPU -> Slot \cup {None}]
         /\ pc \in [Entry -> Places] /\ arg \in [Entry -> 0..MaxTid \cup Entry] /\ lk \in Ptr
         /\ Pids(proc) /\ Stacks(th) /\ scan \in [CPU -> Slot] /\ GivenOut(proc, nextpid)
BY DEF RunInv, Tables, Typed, Positions, PlacesTyped, Rest

\* The thread that runs.
LEMMA Mine ==
  ASSUME RunInv, NEW c \in CPU, on[c] # None
  PROVE  /\ Running(proc, th, on, pc, arg, lk, c, Me(c))
         /\ on[c] \in Slot /\ Me(c) \in Entry /\ proc[on[c]].idx = Me(c)
         /\ th[Me(c)].state \in {"RUNNABLE", "THZOMBIE"} /\ th[Me(c)].pid # 0 /\ th[Me(c)].kstack
         /\ th[Me(c)].pid = My(c).pid /\ th[Me(c)].tid = My(c).tid
         /\ My(c).state \in {"RUNNING", "THZOMBIE"}
         /\ My(c) \in PRec /\ th[Me(c)] \in TRec
         /\ \A e \in Entry : pc[e] = "create" => arg[e] # Me(c)
<1>1. Running(proc, th, on, pc, arg, lk, c, Me(c))
  BY Now DEF Running, Me
<1>2. proc[on[c]] = My(c)
  BY DEF My
<1> QED BY <1>1, <1>2, RunsOn

LEMMA PidsMoved ==
  ASSUME NEW P, NEW O, NEW c, NEW p, NEW st, NEW P1, NEW T1, NEW O1, NEW n,
         Moved(P, O, c, p, st, P1, T1, O1), GivenOut(P, n), P[p].state # "UNUSED"
  PROVE  GivenOut(P1, n)
<1>1. /\ \A q \in Slot : q # p => P1[q] = P[q]
      /\ P1[p].pid = P[p].pid /\ P1[p].assign = P[p].assign
  BY DEF Moved
<1> QED BY <1>1 DEF GivenOut

\* An action that ends in sched(), called with tables P and T.
SchedStep(P, T, c, m, st, chan, w) ==
  /\ Tables(P, T, on) /\ Positions(P, T, on, pc, arg, lk) /\ Rest /\ GivenOut(P, nextpid)
  /\ c \in CPU /\ on[c] # None /\ m = P[on[c]].idx
  /\ st \in {"RUNNABLE", "SLEEPING", "THZOMBIE", "ZOMBIE"} /\ chan \in 0..DiskChan
  /\ sched(c, st, chan, P, T)
  /\ arg' = arg /\ nextpid' = nextpid /\ panicked' = panicked /\ ilock' = ilock
  /\ w \in Places \ {"create", "join_sleep"}
  /\ w = "thread_exit" => st = "THZOMBIE" /\ T[m].tid # MAINTH
  /\ w = "join" => T[m].tid = MAINTH /\ arg[m] \in 2..MaxTid
  /\ pc' = [pc EXCEPT ![m] = w] /\ lk' = IF lk = m THEN None ELSE lk

LEMMA SchedKeeps ==
  ASSUME NEW P, NEW T, NEW c, NEW m, NEW st, NEW chan, NEW w,
         SchedStep(P, T, c, m, st, chan, w)
  PROVE  /\ RunInv' /\ Parked(P, T, m, on[c], st, chan, th')
         /\ Moved(P, on, c, on[c], st, proc', th', on')
<1> USE DEF SchedStep
<1>1. /\ w \in Places \ {"create", "join_sleep"}
      /\ w = "thread_exit" => st = "THZOMBIE" /\ T[m].tid # MAINTH
      /\ w = "join" => T[m].tid = MAINTH /\ arg[m] \in 2..MaxTid
  OBVIOUS
<1>2. /\ Tables(proc', th', on') /\ Parked(P, T, m, on[c], st, chan, th')
      /\ Moved(P, on, c, on[c], st, proc', th', on') /\ scan' \in [CPU -> Slot]
  BY SchedTables DEF Rest
<1>3. PICK P1, T1, O1, C1, k1 : P1 = proc' /\ T1 = th' /\ O1 = on' /\ C1 = pc' /\ k1 = lk'
  OBVIOUS
<1>4. Running(P, T, on, pc, arg, lk, c, m)
  BY DEF Running
<1>5. Leaves(P, T, on, pc, arg, lk, c, m, on[c], st, chan, P1, T1, O1)
  BY <1>2, <1>3, <1>4 DEF Leaves
<1>6. pc \in [Entry -> Places] /\ m \in Entry
  BY <1>4, RunsOn DEF Positions, PlacesTyped
<1>7. C1 \in [Entry -> Places] /\ C1[m] = w /\ \A e \in Entry : e # m => C1[e] = pc[e]
  BY <1>3, <1>6
<1>8. k1 = IF lk = m THEN None ELSE lk
  BY <1>3
<1>9. Positions(P1, T1, O1, C1, arg, k1)
  BY <1>1, <1>5, <1>7, <1>8, PositionsSwitch
<1>10. GivenOut(P1, nextpid)
  <2>1. P[on[c]].state # "UNUSED"
    BY <1>4, RunsOn
  <2> QED BY <1>2, <1>3, <2>1, PidsMoved
<1>11. Positions(proc', th', on', pc', arg', lk')
  BY <1>3, <1>9
<1>12. Rest'
  BY <1>2, <1>3, <1>10 DEF Rest
<1> QED BY <1>2, <1>11, <1>12 DEF RunInv

LEMMA YieldIs ==
  ASSUME RunInv, NEW c \in CPU, yield(c)
  PROVE  \E m, w : /\ m = Me(c) /\ w = pc[m] /\ w \notin Holding /\ pages' = pages
                   /\ SchedStep(proc, th, c, m, "RUNNABLE", None, w)
<1>1. on[c] # None /\ lk # Me(c) /\ sched(c, "RUNNABLE", None, proc, th)
      /\ UNCHANGED <<lk, pc, arg, ilock, nextpid, pages, panicked>>
  BY DEF yield
<1>2. PICK m, w : m = proc[on[c]].idx /\ w = pc[m] /\ m = Me(c)
  BY DEF Me
<1>3. m \in Entry /\ th[m].tid = My(c).tid
  BY <1>1, <1>2, Mine
<1>4. pc' = [pc EXCEPT ![m] = w]
  BY <1>1, <1>2, <1>3, Now
<1>5. lk' = IF lk = m THEN None ELSE lk
  BY <1>1, <1>2
<1>6. w \in Places \ {"create", "join_sleep"} /\ w # "thread_exit" /\ w \notin Holding
  <2>1. w \in Places
    BY <1>2, <1>3, Now
  <2>2. ASSUME w \in Holding PROVE FALSE
    BY <1>1, <1>2, <1>3, <2>2, Now DEF Positions, LockOK, Holding
  <2> QED BY <2>1, <2>2 DEF Holding
<1>7. w = "join" => th[m].tid = MAINTH /\ arg[m] \in 2..MaxTid
  BY <1>2, <1>3, Now DEF Positions, Joiners
<1>8. None \in 0..DiskChan /\ arg' = arg /\ nextpid' = nextpid /\ panicked' = panicked /\ ilock' = ilock
  BY <1>1, Sizes
<1>9. SchedStep(proc, th, c, m, "RUNNABLE", None, w)
  BY <1>1, <1>2, <1>4, <1>5, <1>6, <1>7, <1>8, Now DEF SchedStep
<1> QED BY <1>1, <1>2, <1>6, <1>9

LEMMA YieldKeeps ==
  ASSUME RunInv, NEW c \in CPU, yield(c)
  PROVE  RunInv'
BY YieldIs, SchedKeeps

\* An action in which threads age, and the thread of c, if any, goes on in its call.
AgeStep(c, w) ==
  /\ RunInv /\ on' = on /\ scan' = scan /\ nextpid' = nextpid /\ lk' = lk
  /\ ilock' \in Ptr /\ panicked' \in BOOLEAN
  /\ proc' \in [Slot -> PRec] /\ SameDress(proc, proc') /\ GivenOut(proc', nextpid)
  /\ Ages(th, th')
  /\ \/ pc' = pc /\ arg' = arg
     \/ /\ c \in CPU /\ on[c] # None /\ pc[Me(c)] \notin Holding /\ w \in Places \ (Holding \cup {"join"})
        /\ pc' = [pc EXCEPT ![Me(c)] = w]
        /\ arg' = arg \/ arg' = [arg EXCEPT ![Me(c)] = None]

LEMMA AgeKeeps ==
  ASSUME NEW c, NEW w, AgeStep(c, w)
  PROVE  RunInv'
<1>1. PICK P1, T1, C1, A1 : P1 = proc' /\ T1 = th' /\ C1 = pc' /\ A1 = arg'
  OBVIOUS
<1>2. RunInv /\ P1 \in [Slot -> PRec] /\ SameDress(proc, P1) /\ GivenOut(P1, nextpid) /\ Ages(th, T1)
  BY <1>1 DEF AgeStep
<1>3. Tables(P1, T1, on) /\ Positions(P1, T1, on, pc, arg, lk)
  BY <1>2, Now, AgedTables, PositionsAge
<1>4. Positions(P1, T1, on, C1, A1, lk)
  <2>1. CASE pc' = pc /\ arg' = arg
    BY <1>1, <1>3, <2>1
  <2>2. CASE /\ c \in CPU /\ on[c] # None /\ pc[Me(c)] \notin Holding /\ w \in Places \ (Holding \cup {"join"})
             /\ pc' = [pc EXCEPT ![Me(c)] = w]
             /\ arg' = arg \/ arg' = [arg EXCEPT ![Me(c)] = None]
    <3>1. PICK m : m = P1[on[c]].idx
      OBVIOUS
    <3>2. m = Me(c) /\ m \in Entry
      <4>1. on[c] \in Slot /\ Me(c) \in Entry
        BY <1>2, <2>2, Mine
      <4> QED BY <1>2, <3>1, <4>1 DEF SameDress, Me
    <3>3. Running(P1, T1, on, pc, arg, lk, c, m)
      BY <1>3, <2>2, <3>1 DEF Running
    <3>4. C1 \in [Entry -> Places] /\ C1[m] = w /\ \A e \in Entry : e # m => C1[e] = pc[e]
      BY <1>1, <1>2, <2>2, <3>2, Now
    <3>5. A1 \in [Entry -> 0..MaxTid \cup Entry] /\ \A e \in Entry : e # m => A1[e] = arg[e]
      <4>1. None \in 0..MaxTid
        BY Sizes DEF None
      <4> QED BY <1>1, <1>2, <2>2, <3>2, <4>1, Now
    <3>6. pc[m] \notin Holding
      BY <2>2, <3>2
    <3> QED BY <2>2, <3>3, <3>4, <3>5, <3>6, PositionsStep
  <2> QED BY <2>1, <2>2 DEF AgeStep
<1>5. on' = on /\ lk' = lk /\ nextpid' = nextpid /\ scan' = scan /\ ilock' \in Ptr /\ panicked' \in BOOLEAN
  BY DEF AgeStep
<1>6. Tables(proc', th', on')
  BY <1>1, <1>3, <1>5
<1>7. Positions(proc', th', on', pc', arg', lk')
  BY <1>1, <1>4, <1>5
<1>8. Rest'
  BY <1>1, <1>2, <1>5, Now DEF Rest
<1> QED BY <1>6, <1>7, <1>8 DEF RunInv

LEMMA SameProc == ASSUME RunInv PROVE SameDress(proc, proc) /\ GivenOut(proc, nextpid) /\ proc \in [Slot -> PRec]
BY Now DEF SameDress

\* A process is marked killed.
Mark(P, p) == [P EXCEPT ![p].killed = TRUE]
LEMMA Marked ==
  ASSUME RunInv, NEW p \in Slot, NEW P1, P1 = Mark(proc, p)
  PROVE  /\ P1 \in [Slot -> PRec] /\ SameDress(proc, P1) /\ GivenOut(P1, nextpid)
         /\ \A q \in Slot : /\ q # p => P1[q] = proc[q]
                            /\ P1[q].state = proc[q].state /\ P1[q].pid = proc[q].pid
                            /\ P1[q].parent = proc[q].parent /\ P1[q].parent_proc = proc[q].parent_proc
                            /\ P1[q].idx = proc[q].idx /\ P1[q].killed = (proc[q].killed \/ q = p)
                            /\ P1[q].joiner = proc[q].joiner /\ P1[q].tid = proc[q].tid
<1>1. proc[p] \in PRec /\ DOMAIN P1 = Slot
  BY Now DEF Mark
<1>2. P1[p] = [proc[p] EXCEPT !.killed = TRUE] /\ \A q \in Slot : q # p => P1[q] = proc[q]
  BY <1>1, Now DEF Mark
<1>3. /\ P1[p] \in PRec /\ P1[p].killed /\ P1[p].state = proc[p].state /\ P1[p].pid = proc[p].pid
      /\ P1[p].idx = proc[p].idx /\ P1[p].tid = proc[p].tid /\ P1[p].assign = proc[p].assign
      /\ P1[p].parent = proc[p].parent /\ P1[p].parent_proc = proc[p].parent_proc
      /\ P1[p].joiner = proc[p].joiner /\ P1[p].killed = TRUE
  BY <1>1, <1>2 DEF PRec
<1>4. P1 \in [Slot -> PRec]
  <2>1. \A q \in Slot : P1[q] \in PRec
    BY <1>2, <1>3, Now
  <2>2. P1 = [q \in Slot |-> P1[q]]
    BY <1>1, Now DEF Mark
  <2> QED BY <2>1, <2>2
<1>5. SameDress(proc, P1)
  BY <1>2, <1>3 DEF SameDress
<1>6. GivenOut(P1, nextpid)
  <2>1. \A q \in Slot : P1[q].state = proc[q].state /\ P1[q].pid = proc[q].pid /\ P1[q].assign = proc[q].assign
    BY <1>2, <1>3
  <2>2. GivenOut(proc, nextpid)
    BY Now
  <2> QED BY <2>1, <2>2 DEF GivenOut
<1>7. \A q \in Slot : P1[q].killed = (proc[q].killed \/ q = p)
  <2>1. \A q \in Slot : proc[q].killed \in BOOLEAN
    BY Now DEF PRec
  <2> QED BY <1>2, <1>3, <2>1
<1> QED BY <1>2, <1>3, <1>4, <1>5, <1>6, <1>7

LEMMA KillKeeps ==
  ASSUME RunInv, NEW c \in CPU, kill(c)
  PROVE  RunInv'
<1>1. PICK p \in Slot : /\ proc[p].pid # 0 /\ proc' = Mark(proc, p)
                        /\ th' = killed(th, proc[p].pid)
  BY DEF kill, Mark
<1>2. PICK T1, pid : T1 = th' /\ pid = proc[p].pid
  OBVIOUS
<1>3. Ages(th, T1)
  BY <1>1, <1>2, Now, KillAges
<1>4. PICK P1 : P1 = proc'
  OBVIOUS
<1>5. P1 \in [Slot -> PRec] /\ SameDress(proc, P1) /\ GivenOut(P1, nextpid)
  BY <1>1, <1>4, Marked
<1>6. AgeStep(c, "user")
  BY <1>2, <1>3, <1>4, <1>5, Now DEF AgeStep, kill, Rest
<1> QED BY <1>6, AgeKeeps

LEMMA ExitMainKeeps ==
  ASSUME RunInv, NEW c \in CPU, thread_exit_main(c)
  PROVE  RunInv'
<1>1. on[c] # None /\ proc' = Mark(proc, on[c])
      /\ th' = wakeup1(killed(th, My(c).pid), My(c).joiner)
  BY DEF thread_exit_main, Calls, At, Mark
<1>2. on[c] \in Slot /\ My(c).pid # 0
  BY <1>1, Mine
<1>3. PICK P1, T1, T2, pid, chan : /\ P1 = proc' /\ pid = My(c).pid /\ chan = My(c).joiner
                                   /\ T1 = killed(th, pid) /\ T2 = wakeup1(T1, chan)
  OBVIOUS
<1>4. Ages(th, T1) /\ T1 \in [Entry -> TRec]
  BY <1>2, <1>3, Now, KillAges DEF Ages
<1>5. Stacks(T1)
  BY <1>4, Now, AgedStacks
<1>6. Ages(th, T2)
  BY <1>3, <1>4, <1>5, WakeAges, AgesAgain
<1>7. P1 \in [Slot -> PRec] /\ SameDress(proc, P1) /\ GivenOut(P1, nextpid)
  BY <1>1, <1>2, <1>3, Marked
<1>8. AgeStep(c, "user")
  BY <1>1, <1>3, <1>6, <1>7, Now DEF AgeStep, thread_exit_main, Rest
<1> QED BY <1>8, AgeKeeps

LEMMA IdeintrKeeps ==
  ASSUME RunInv, ideintr
  PROVE  RunInv'
<1>1. PICK T1 : T1 = wakeup1(th, DiskChan)
  OBVIOUS
<1>2. Ages(th, T1)
  BY <1>1, Now, WakeAges
<1>3. AgeStep(None, "user")
  BY <1>1, <1>2, Now, SameProc DEF AgeStep, ideintr, Rest
<1> QED BY <1>3, AgeKeeps

LEMMA ReleaseKeeps ==
  ASSUME RunInv, NEW c \in CPU, releasesleep(c)
  PROVE  RunInv'
<1>1. on[c] # None /\ pc[Me(c)] \in {"held", "exit_held"}
      /\ UNCHANGED <<proc, lk, on, scan, arg, nextpid, pages, panicked>>
      /\ ilock' = None /\ th' = wakeup1(th, LockChan)
      /\ pc' = [pc EXCEPT ![Me(c)] = IF @ = "held" THEN "user" ELSE "exit"]
  BY DEF releasesleep, At
<1>2. PICK T1, m, w : T1 = wakeup1(th, LockChan) /\ m = Me(c) /\ w = IF pc[m] = "held" THEN "user" ELSE "exit"
  OBVIOUS
<1>3. Ages(th, T1)
  BY <1>2, Now, WakeAges
<1>4. w \in Places \ (Holding \cup {"join"}) /\ pc[m] \notin Holding /\ m \in Entry
  BY <1>1, <1>2, Mine DEF Places, Holding
<1>5. pc' = [pc EXCEPT ![m] = w]
  BY <1>1, <1>2, <1>4, Now
<1>6. AgeStep(c, w)
  BY <1>1, <1>2, <1>3, <1>4, <1>5, Now, SameProc DEF AgeStep, Rest, Ptr
<1> QED BY <1>6, AgeKeeps

LEMMA ExitKeeps ==
  ASSUME RunInv, NEW c \in CPU, exit(c)
  PROVE  RunInv'
<1>1. on[c] # None /\ pc[Me(c)] = "user"
      /\ UNCHANGED <<proc, th, lk, on, scan, arg, ilock, nextpid, pages, panicked>>
      /\ pc' = [pc EXCEPT ![Me(c)] = IF on[c] \in FileUsers THEN "exit_lock" ELSE "exit"]
  BY DEF exit, At
<1>2. PICK w : w = IF on[c] \in FileUsers THEN "exit_lock" ELSE "exit"
  OBVIOUS
<1>3. w \in Places \ (Holding \cup {"join"}) /\ pc[Me(c)] \notin Holding
  BY <1>1, <1>2 DEF Places, Holding
<1>4. Ages(th, th)
  BY Now, AgesSelf
<1>5. AgeStep(c, w)
  BY <1>1, <1>2, <1>3, <1>4, Now, SameProc DEF AgeStep, Rest
<1> QED BY <1>5, AgeKeeps

\* A thread takes the sleep lock of the inode, or goes to sleep.
LEMMA AcquireIs ==
  ASSUME RunInv, NEW c \in CPU, acquiresleep(c)
  PROVE  \E m, w : /\ m = Me(c) /\ m \in Entry /\ w \in {"lock", "held", "exit_lock", "exit_held"}
                   /\ w \in Exiting => pc[m] \in Exiting
                   /\ pages' = pages
                   /\ \/ AgeStep(c, w) /\ pc' = [pc EXCEPT ![m] = w] /\ UNCHANGED <<proc, th, arg>>
                      \/ SchedStep(proc, th, c, m, "SLEEPING", LockChan, w)
<1>1. on[c] # None /\ pc[Me(c)] \in {"user", "lock", "exit_lock"}
      /\ UNCHANGED <<lk, arg, nextpid, pages, panicked>>
  BY DEF acquiresleep, Calls, At
<1>2. Me(c) \in Entry /\ pc[Me(c)] \notin Holding /\ lk # Me(c)
  <2>1. pc[Me(c)] \notin Holding /\ Me(c) \in Entry /\ Me(c) # None
    BY <1>1, Mine, Sizes DEF Holding
  <2> QED BY <2>1, Now DEF Positions, LockOK
<1>3. CASE /\ ilock' = Me(c)
           /\ pc' = [pc EXCEPT ![Me(c)] = IF pc[Me(c)] = "exit_lock" THEN "exit_held" ELSE "held"]
           /\ UNCHANGED <<proc, th, on, scan>>
  <2>1. PICK w : w = IF pc[Me(c)] = "exit_lock" THEN "exit_held" ELSE "held"
    OBVIOUS
  <2>2. w \in Places \ (Holding \cup {"join"}) /\ Ages(th, th) /\ Me(c) \in Ptr
    BY <1>2, <2>1, Now, AgesSelf DEF Places, Holding, Ptr
  <2>3. AgeStep(c, w)
    BY <1>1, <1>2, <1>3, <2>1, <2>2, Now, SameProc DEF AgeStep, Rest
  <2>4. w \in {"held", "exit_held"} /\ (w \in Exiting => pc[Me(c)] \in Exiting)
    BY <2>1 DEF Exiting
  <2> QED BY <1>1, <1>2, <1>3, <2>1, <2>3, <2>4
<1>4. CASE /\ pc' = [pc EXCEPT ![Me(c)] = IF pc[Me(c)] = "exit_lock" THEN "exit_lock" ELSE "lock"]
           /\ sched(c, "SLEEPING", LockChan, proc, th)
           /\ UNCHANGED ilock
  <2>1. PICK m, w : w = (IF pc[Me(c)] = "exit_lock" THEN "exit_lock" ELSE "lock") /\ m = Me(c)
    OBVIOUS
  <2>2. w \in Places \ {"create", "join_sleep"} /\ w # "thread_exit" /\ w # "join" /\ m = proc[on[c]].idx
        /\ LockChan \in 0..DiskChan /\ lk' = (IF lk = m THEN None ELSE lk)
    BY <1>1, <1>2, <2>1, Sizes DEF Places, Me
  <2>3. SchedStep(proc, th, c, m, "SLEEPING", LockChan, w)
    BY <1>1, <1>4, <2>1, <2>2, Now DEF SchedStep
  <2>4. w \in {"lock", "exit_lock"} /\ (w \in Exiting => pc[m] \in Exiting)
    BY <2>1 DEF Exiting
  <2> QED BY <1>1, <1>2, <2>1, <2>3, <2>4
<1> QED BY <1>3, <1>4 DEF acquiresleep

LEMMA AcquireKeeps ==
  ASSUME RunInv, NEW c \in CPU, acquiresleep(c)
  PROVE  RunInv'
BY AcquireIs, AgeKeeps, SchedKeeps

LEMMA IderwIs ==
  ASSUME RunInv, NEW c \in CPU, iderw(c)
  PROVE  \E m : m = Me(c) /\ pages' = pages /\ SchedStep(proc, th, c, m, "SLEEPING", DiskChan, "held")
<1>1. on[c] # None /\ pc[Me(c)] = "held" /\ sched(c, "SLEEPING", DiskChan, proc, th)
      /\ UNCHANGED <<lk, pc, arg, ilock, nextpid, pages, panicked>>
  BY DEF iderw, At
<1>2. PICK m : m = Me(c)
  OBVIOUS
<1>3. m \in Entry /\ lk # m /\ m = proc[on[c]].idx
  <2>1. m \in Entry /\ m # None /\ m = proc[on[c]].idx
    BY <1>1, <1>2, Mine, Sizes
  <2> QED BY <1>1, <1>2, <2>1, Now DEF Positions, LockOK, Holding
<1>4. pc' = [pc EXCEPT ![m] = "held"] /\ lk' = (IF lk = m THEN None ELSE lk)
      /\ "held" \in Places \ {"create", "join_sleep"} /\ DiskChan \in 0..DiskChan
  BY <1>1, <1>2, <1>3, Now, Sizes DEF Places
<1>5. SchedStep(proc, th, c, m, "SLEEPING", DiskChan, "held")
  BY <1>1, <1>3, <1>4, Now DEF SchedStep
<1> QED BY <1>1, <1>2, <1>5

LEMMA IderwKeeps ==
  ASSUME RunInv, NEW c \in CPU, iderw(c)
  PROVE  RunInv'
BY IderwIs, SchedKeeps

LEMMA SchedulerKeeps ==
  ASSUME RunInv, NEW c \in CPU, scheduler(c)
  PROVE  RunInv'
<1>1. PICK p : p = scan[c] /\ p \in Slot
  BY Now
<1>2. PICK ready : ready = Runnable(th, proc[p].pid)
  OBVIOUS
<1>3. on[c] = None /\ UNCHANGED <<th, lk, pc, arg, ilock, nextpid, pages, panicked>>
  BY DEF scheduler
<1>4. CASE /\ proc[p].state = "RUNNABLE" /\ ready # {}
           /\ proc' = mvThreadToProc(proc, th, p, Min(ready))
           /\ on' = [on EXCEPT ![c] = p] /\ UNCHANGED scan
  <2>1. PICK e : e = Min(ready)
    OBVIOUS
  <2>2. e \in Entry /\ e \in Runnable(th, proc[p].pid) /\ th[e].state = "RUNNABLE"
    <3>1. ready \subseteq Entry
      BY <1>2 DEF Runnable, ThreadsOf
    <3>2. e \in ready
      BY <1>4, <2>1, <3>1, LeastEntry
    <3> QED BY <1>2, <3>1, <3>2 DEF Runnable
  <2>3. PICK P1, O1 : P1 = proc' /\ O1 = on'
    OBVIOUS
  <2>4. P1 = mvThreadToProc(proc, th, p, e) /\ O1 = Runs(on, c, p)
    BY <1>4, <2>1, <2>3 DEF Runs
  <2>5. Tables(P1, th, O1)
    BY <1>1, <1>3, <1>4, <2>2, <2>4, Now, Dress
  <2>6. /\ \A q \in Slot : q # p => P1[q] = proc[q]
        /\ P1[p].state = "RUNNING" /\ P1[p].idx = e
        /\ P1[p].pid = proc[p].pid /\ P1[p].assign = proc[p].assign
    <3>1. proc \in [Slot -> PRec] /\ th \in [Entry -> TRec]
      BY Now
    <3> QED BY <1>1, <2>2, <2>4, <3>1, MvOn
  <2>7. O1[c] = p /\ \A d \in CPU : d # c => O1[d] = on[d]
    BY <2>4, Now DEF Runs
  <2>8. Positions(P1, th, O1, pc, arg, lk)
    BY <1>1, <1>3, <1>4, <2>2, <2>6, <2>7, Now, PositionsDress
  <2>9. GivenOut(P1, nextpid)
    BY <1>4, <2>6, Now DEF GivenOut
  <2>10. Rest'
    BY <1>3, <1>4, <2>3, <2>9, Now DEF Rest
  <2>11. Tables(proc', th', on') /\ Positions(proc', th', on', pc', arg', lk')
    BY <1>3, <2>3, <2>5, <2>8
  <2> QED BY <2>10, <2>11 DEF RunInv
<1>5. CASE scan' = [scan EXCEPT ![c] = NextSlot(p)] /\ UNCHANGED <<proc, on>>
  <2>1. scan' \in [CPU -> Slot]
    BY <1>1, <1>5, NextSlotIs, Now
  <2>2. Rest'
    BY <1>3, <1>5, <2>1, Now DEF Rest
  <2>3. Tables(proc', th', on') /\ Positions(proc', th', on', pc', arg', lk')
    BY <1>3, <1>5, Now
  <2> QED BY <2>2, <2>3 DEF RunInv
<1> QED BY <1>1, <1>2, <1>4, <1>5 DEF scheduler

\* The thread of a processor takes pthread_table.lock, which is free.
Takes(P, T, O, C, A, c, m, w, C1, A1) ==
  /\ Running(P, T, O, C, A, None, c, m)
  /\ w \in Holding /\ C1 = [C EXCEPT ![m] = w]
  /\ A1 \in [Entry -> 0..MaxTid \cup Entry] /\ \A e \in Entry : e # m => A1[e] = A[e]
  /\ w = "thread_exit" => T[m].tid # MAINTH
  /\ w = "join_sleep" => T[m].tid = MAINTH /\ A1[m] \in 2..MaxTid
  /\ w = "create" => /\ A1[m] \in Entry /\ A1[m] # m /\ C[A1[m]] = "user"
                     /\ T[A1[m]].state \in {"EMBRYO", "THZOMBIE"} /\ T[A1[m]].pid = T[m].pid
                     /\ T[A1[m]].tid # MAINTH

LEMMA PositionsTake ==
  ASSUME NEW P, NEW T, NEW O, NEW C, NEW A, NEW c, NEW m, NEW w, NEW C1, NEW A1,
         Takes(P, T, O, C, A, c, m, w, C1, A1)
  PROVE  Positions(P, T, O, C1, A1, m)
<1> USE DEF Takes
<1>1. m \in Entry /\ m # None /\ T[m].state \in {"RUNNABLE", "THZOMBIE"} /\ P[O[c]].idx = m
  BY RunsOn, Sizes
<1>2. /\ PlacesTyped(C, A, None) /\ LockOK(P, T, O, C, None)
      /\ Joiners(T, C, A) /\ Creating(T, C, A) /\ Newborn(T, C)
      /\ Typed(P, T, O) /\ AllDressed(P, T, O) /\ c \in CPU /\ O[c] # None
  BY DEF Running, Positions, Tables
<1>3. w \in {"create", "thread_exit", "join_sleep"} /\ w \in Places
  BY DEF Holding, Places
<1>4. C1 \in [Entry -> Places] /\ C1[m] = w /\ \A e \in Entry : e # m => C1[e] = C[e]
  BY <1>1, <1>2, <1>3 DEF PlacesTyped
<1>5. \A e \in Entry : C[e] \notin {"create", "join_sleep"}
  BY <1>2, Sizes DEF LockOK
<1>6. PlacesTyped(C1, A1, m)
  BY <1>1, <1>4 DEF PlacesTyped, Ptr
<1>7. LockOK(P, T, O, C1, m)
  <2>1. m # None => C1[m] \in Holding /\ \E d \in CPU : O[d] # None /\ P[O[d]].idx = m
    BY <1>1, <1>2, <1>4
  <2>2. ASSUME NEW d \in CPU, O[d] # None, C1[P[O[d]].idx] = "thread_exit" PROVE m = P[O[d]].idx
    <3>1. PICK i \in Entry : i = P[O[d]].idx
      BY <1>2, <2>2 DEF AllDressed, Dressed
    <3> QED BY <1>2, <1>4, <2>2, <3>1, Sizes DEF LockOK
  <2>3. \A e \in Entry : C1[e] \in {"create", "join_sleep"} => m = e
    BY <1>4, <1>5
  <2>4. \A e \in Entry : C1[e] = "thread_exit" =>
          T[e].tid # MAINTH /\ (m = e \/ T[e].state = "THZOMBIE")
    <3>1. ASSUME NEW e \in Entry, C1[e] = "thread_exit", e # m
          PROVE  T[e].tid # MAINTH /\ T[e].state = "THZOMBIE"
      BY <1>2, <1>4, <3>1, Sizes DEF LockOK
    <3> QED BY <1>4, <3>1
  <2> QED BY <2>1, <2>2, <2>3, <2>4 DEF LockOK
<1>8. Joiners(T, C1, A1)
  <2>1. ASSUME NEW e \in Entry, e # m, C1[e] \in {"join", "join_sleep"}
        PROVE  T[e].tid = MAINTH /\ A1[e] \in 2..MaxTid
    BY <1>2, <1>4, <2>1 DEF Joiners
  <2>2. C1[m] \in {"join", "join_sleep"} => T[m].tid = MAINTH /\ A1[m] \in 2..MaxTid
    BY <1>3, <1>4
  <2> QED BY <2>1, <2>2 DEF Joiners
<1>9. Creating(T, C1, A1)
  <2>1. ASSUME NEW e \in Entry, C1[e] = "create"
        PROVE  /\ A1[e] \in Entry /\ A1[e] # e /\ C1[A1[e]] = "user"
               /\ T[A1[e]].state \in {"EMBRYO", "THZOMBIE"} /\ T[A1[e]].pid = T[e].pid
               /\ T[A1[e]].tid # MAINTH
    <3>1. e = m /\ w = "create"
      BY <1>4, <1>5, <2>1
    <3> QED BY <1>4, <3>1
  <2> QED BY <2>1 DEF Creating
<1>10. Newborn(T, C1)
  BY <1>1, <1>2, <1>4 DEF Newborn
<1> QED BY <1>6, <1>7, <1>8, <1>9, <1>10 DEF Positions

\* ... and gives it back, in user space again.
Gives(P, T, O, C, A, c, m, C1, A1) ==
  /\ Running(P, T, O, C, A, m, c, m) /\ C1 = [C EXCEPT ![m] = "user"]
  /\ A1 \in [Entry -> 0..MaxTid \cup Entry] /\ \A e \in Entry : e # m => A1[e] = A[e]

LEMMA PositionsGive ==
  ASSUME NEW P, NEW T, NEW O, NEW C, NEW A, NEW c, NEW m, NEW C1, NEW A1,
         Gives(P, T, O, C, A, c, m, C1, A1)
  PROVE  Positions(P, T, O, C1, A1, None) /\ \A e \in Entry : C1[e] # "create"
<1> USE DEF Gives
<1>1. m \in Entry /\ m # None /\ P[O[c]].idx = m
  BY RunsOn, Sizes
<1>2. /\ PlacesTyped(C, A, m) /\ LockOK(P, T, O, C, m)
      /\ Joiners(T, C, A) /\ Newborn(T, C)
      /\ Typed(P, T, O) /\ AllDressed(P, T, O) /\ c \in CPU /\ O[c] # None
  BY DEF Running, Positions, Tables
<1>3. C1 \in [Entry -> Places] /\ C1[m] = "user" /\ \A e \in Entry : e # m => C1[e] = C[e]
  BY <1>1, <1>2 DEF PlacesTyped, Places
<1>4. \A e \in Entry : C1[e] \notin {"create", "join_sleep"}
  BY <1>2, <1>3 DEF LockOK
<1>5. PlacesTyped(C1, A1, None)
  BY <1>3 DEF PlacesTyped, Ptr
<1>6. LockOK(P, T, O, C1, None)
  <2>1. ASSUME NEW d \in CPU, O[d] # None, C1[P[O[d]].idx] = "thread_exit" PROVE FALSE
    <3>1. PICK i \in Entry : i = P[O[d]].idx
      BY <1>2, <2>1 DEF AllDressed, Dressed
    <3> QED BY <1>2, <1>3, <2>1, <3>1 DEF LockOK
  <2>2. \A e \in Entry : C1[e] = "thread_exit" => T[e].tid # MAINTH /\ T[e].state = "THZOMBIE"
    BY <1>2, <1>3 DEF LockOK
  <2> QED BY <1>4, <2>1, <2>2 DEF LockOK
<1>7. Joiners(T, C1, A1)
  BY <1>2, <1>3 DEF Joiners
<1>8. Creating(T, C1, A1) /\ Newborn(T, C1)
  BY <1>2, <1>3, <1>4 DEF Creating, Newborn
<1> QED BY <1>4, <1>5, <1>6, <1>7, <1>8 DEF Positions

\* The rest of an action that leaves the processors alone.
SameRest ==
  /\ on' = on /\ scan' = scan /\ ilock' = ilock /\ panicked' = panicked /\ nextpid' = nextpid

LEMMA ThreadExitKeeps ==
  ASSUME RunInv, NEW c \in CPU, thread_exit(c)
  PROVE  RunInv'
<1>1. /\ on[c] # None /\ lk = None /\ lk' = Me(c) /\ arg' = arg /\ SameRest /\ My(c).tid # MAINTH
      /\ th' = ExitTable(c) /\ proc' = InState(proc, on[c], "THZOMBIE")
      /\ pc' = [pc EXCEPT ![Me(c)] = "thread_exit"]
  BY DEF thread_exit, Calls, At, SameRest, InState
<1>2. PICK m, p, v : m = Me(c) /\ p = on[c] /\ v = Value(My(c).pid, My(c).tid)
  OBVIOUS
<1>3. /\ p \in Slot /\ m \in Entry /\ proc[p] \in PRec /\ th[m] \in TRec
      /\ proc[p].state \in {"RUNNING", "THZOMBIE"} /\ th[m].tid # MAINTH /\ proc[p].idx = m
      /\ v \in (0..MaxPid) \X (0..MaxTid)
  <2>1. /\ p \in Slot /\ m \in Entry /\ My(c) \in PRec /\ My(c) = proc[p] /\ th[m] \in TRec
        /\ My(c).state \in {"RUNNING", "THZOMBIE"} /\ th[m].tid = My(c).tid /\ proc[p].idx = m
    BY <1>1, <1>2, Mine DEF My
  <2> QED BY <1>1, <1>2, <2>1 DEF PRec, Value
<1>4. PICK P1, T1 : P1 = proc' /\ T1 = th'
  OBVIOUS
<1>5. T1 = [th EXCEPT ![m] = [th[m] EXCEPT !.retval = v]]
  BY <1>1, <1>2, <1>3, <1>4, Now DEF ExitTable, TRec
<1>6. Ages(th, T1)
  <2>1. [th[m] EXCEPT !.retval = v] \in TRec /\ SameThread(th[m], [th[m] EXCEPT !.retval = v])
        /\ Older(th[m], [th[m] EXCEPT !.retval = v])
    BY <1>3 DEF TRec, SameThread, Older
  <2>2. T1[m] = [th[m] EXCEPT !.retval = v] /\ \A e \in Entry : e # m => T1[e] = th[e]
    BY <1>3, <1>5, Now
  <2>3. T1 \in [Entry -> TRec]
    BY <1>5, <2>1, Now
  <2>4. \A e \in Entry : e # m => SameThread(th[e], T1[e]) /\ Older(th[e], T1[e])
    BY <2>2 DEF SameThread, Older
  <2> QED BY <2>1, <2>2, <2>3, <2>4 DEF Ages
<1>7. P1 \in [Slot -> PRec] /\ SameDress(proc, P1) /\ GivenOut(P1, nextpid)
  <2>1. P1[p] = [proc[p] EXCEPT !.state = "THZOMBIE"] /\ \A q \in Slot : q # p => P1[q] = proc[q]
    BY <1>1, <1>2, <1>3, <1>4, Now DEF InState
  <2>2. /\ P1[p] \in PRec /\ P1[p].pid = proc[p].pid /\ P1[p].idx = proc[p].idx /\ P1[p].tid = proc[p].tid
        /\ P1[p].state = "THZOMBIE" /\ P1[p].assign = proc[p].assign
    BY <1>3, <2>1 DEF PRec, States
  <2>3. P1 \in [Slot -> PRec]
    BY <1>1, <1>2, <1>3, <1>4, <2>1, <2>2, Now DEF InState
  <2>4. \A q \in Slot : q # p => P1[q] = proc[q]
    BY <2>1
  <2>5. SameDress(proc, P1)
    BY <1>3, <2>2, <2>4 DEF SameDress
  <2>6. GivenOut(P1, nextpid)
    <3>1. proc[p].state # "UNUSED" /\ GivenOut(proc, nextpid)
      BY <1>3, Now
    <3> QED BY <2>2, <2>4, <3>1 DEF GivenOut
  <2> QED BY <2>3, <2>5, <2>6
<1>8. Tables(P1, T1, on) /\ Positions(P1, T1, on, pc, arg, None)
  BY <1>1, <1>6, <1>7, Now, AgedTables, PositionsAge
<1>9. P1[p].idx = m /\ T1[m].tid # MAINTH
  BY <1>3, <1>6, <1>7 DEF Ages, SameThread, SameDress
<1>10. Running(P1, T1, on, pc, arg, None, c, m)
  BY <1>1, <1>2, <1>8, <1>9 DEF Running
<1>11. PICK C1 : C1 = [pc EXCEPT ![m] = "thread_exit"]
  OBVIOUS
<1>12. Positions(P1, T1, on, C1, arg, m)
  <2>1. "thread_exit" \in Holding /\ arg \in [Entry -> 0..MaxTid \cup Entry]
    BY Now DEF Holding
  <2>2. Takes(P1, T1, on, pc, arg, c, m, "thread_exit", C1, arg)
    BY <1>9, <1>10, <1>11, <2>1 DEF Takes
  <2> QED BY <2>2, PositionsTake
<1>13. Tables(proc', th', on') /\ Positions(proc', th', on', pc', arg', lk')
  BY <1>1, <1>2, <1>4, <1>8, <1>11, <1>12 DEF SameRest
<1>14. Rest'
  BY <1>1, <1>4, <1>7, Now DEF Rest, SameRest
<1> QED BY <1>13, <1>14 DEF RunInv

\* thread_exit() has woken the joiner, in tables T.
LEMMA ThreadExitEndIs ==
  ASSUME RunInv, NEW c \in CPU, thread_exit_end(c)
  PROVE  \E m, T : /\ m = Me(c) /\ T = wakeup1(th, My(c).joiner) /\ on[c] # None /\ lk = m /\ pages' = pages
                   /\ pc[m] = "thread_exit"
                   /\ SchedStep(proc, T, c, m, "THZOMBIE", None, "thread_exit")
<1>1. /\ on[c] # None /\ pc[Me(c)] = "thread_exit" /\ lk' = None
      /\ sched(c, "THZOMBIE", None, proc, wakeup1(th, ExitChan(c)))
      /\ UNCHANGED <<pc, arg, ilock, nextpid, pages, panicked>>
  BY DEF thread_exit_end, At
<1>2. PICK m, T : m = Me(c) /\ T = wakeup1(th, ExitChan(c))
  OBVIOUS
<1>3. m \in Entry /\ proc[on[c]].idx = m /\ lk = m /\ th[m].tid # MAINTH
  <2>1. m \in Entry /\ proc[on[c]].idx = m
    BY <1>1, <1>2, Mine
  <2>2. LockOK(proc, th, on, pc, lk)
    BY Now DEF Positions
  <2> QED BY <1>1, <1>2, <2>1, <2>2 DEF LockOK
<1>4. Ages(th, T)
  BY <1>2, Now, WakeAges
<1>5. Tables(proc, T, on) /\ Positions(proc, T, on, pc, arg, lk)
  BY <1>4, Now, SameProc, AgedTables, PositionsAge
<1>6. T[m].tid # MAINTH
  BY <1>3, <1>4 DEF Ages, SameThread
<1>7. pc' = [pc EXCEPT ![m] = "thread_exit"] /\ lk' = (IF lk = m THEN None ELSE lk)
      /\ "thread_exit" \in Places \ {"create", "join_sleep"} /\ None \in 0..DiskChan
  BY <1>1, <1>2, <1>3, Now, Sizes DEF Places
<1>8. SchedStep(proc, T, c, m, "THZOMBIE", None, "thread_exit")
  BY <1>1, <1>2, <1>3, <1>5, <1>6, <1>7, Now DEF SchedStep
<1> QED BY <1>1, <1>2, <1>3, <1>8 DEF ExitChan

LEMMA ThreadExitEndKeeps ==
  ASSUME RunInv, NEW c \in CPU, thread_exit_end(c)
  PROVE  RunInv'
BY ThreadExitEndIs, SchedKeeps

LEMMA JoinSleepIs ==
  ASSUME RunInv, NEW c \in CPU, thread_join_sleep(c)
  PROVE  \E m : /\ m = Me(c) /\ on[c] # None /\ pc[m] = "join_sleep" /\ pages' = pages
                /\ SchedStep(proc, th, c, m, "SLEEPING", My(c).joiner, "join")
<1>1. /\ on[c] # None /\ pc[Me(c)] = "join_sleep" /\ lk' = None
      /\ pc' = [pc EXCEPT ![Me(c)] = "join"]
      /\ sched(c, "SLEEPING", My(c).joiner, proc, th)
      /\ UNCHANGED <<arg, ilock, nextpid, pages, panicked>>
  BY DEF thread_join_sleep, At
<1>2. PICK m, chan : m = Me(c) /\ chan = My(c).joiner
  OBVIOUS
<1>3. m \in Entry /\ proc[on[c]].idx = m /\ chan \in 0..DiskChan
  <2>1. m \in Entry /\ proc[on[c]].idx = m /\ My(c) \in PRec
    BY <1>1, <1>2, Mine
  <2>2. chan \in Ptr
    BY <1>2, <2>1 DEF PRec
  <2> QED BY <2>1, <2>2, Sizes DEF Ptr
<1>4. lk = m /\ th[m].tid = MAINTH /\ arg[m] \in 2..MaxTid
  <2>1. LockOK(proc, th, on, pc, lk) /\ Joiners(th, pc, arg)
    BY Now DEF Positions
  <2> QED BY <1>1, <1>2, <1>3, <2>1 DEF LockOK, Joiners
<1>5. lk' = (IF lk = m THEN None ELSE lk) /\ "join" \in Places \ {"create", "join_sleep"}
  BY <1>1, <1>4 DEF Places
<1>6. SchedStep(proc, th, c, m, "SLEEPING", chan, "join")
  BY <1>1, <1>2, <1>3, <1>4, <1>5, Now DEF SchedStep
<1> QED BY <1>1, <1>2, <1>6

LEMMA JoinSleepKeeps ==
  ASSUME RunInv, NEW c \in CPU, thread_join_sleep(c)
  PROVE  RunInv'
BY JoinSleepIs, SchedKeeps

\* exit(): the children of the process are given to init.
Adopted(P, o) ==
  [q \in Slot |-> IF P[q].parent_proc = o
                  THEN [P[q] EXCEPT !.parent_proc = init, !.parent = P[init].parent]
                  ELSE P[q]]

LEMMA AdoptedIs ==
  ASSUME RunInv, NEW o \in Slot, NEW P1, P1 = Adopted(proc, o)
  PROVE  /\ P1 \in [Slot -> PRec] /\ SameDress(proc, P1) /\ GivenOut(P1, nextpid)
         /\ \A q \in Slot :
              /\ P1[q].pid = proc[q].pid /\ P1[q].state = proc[q].state /\ P1[q].killed = proc[q].killed
              /\ P1[q].idx = proc[q].idx /\ P1[q].joiner = proc[q].joiner
              /\ P1[q].parent_proc = IF proc[q].parent_proc = o THEN init ELSE proc[q].parent_proc
              /\ P1[q].parent = IF proc[q].parent_proc = o THEN proc[init].parent ELSE proc[q].parent
<1>1. init \in Slot /\ proc[init] \in PRec
  BY Now, Sizes
<1>2. PICK i : i = proc[init].parent /\ i \in Ptr
  BY <1>1 DEF PRec
<1>3. ASSUME NEW q \in Slot
      PROVE  /\ P1[q] \in PRec
             /\ P1[q].pid = proc[q].pid /\ P1[q].state = proc[q].state /\ P1[q].killed = proc[q].killed
             /\ P1[q].idx = proc[q].idx /\ P1[q].tid = proc[q].tid /\ P1[q].assign = proc[q].assign
             /\ P1[q].joiner = proc[q].joiner
             /\ P1[q].parent_proc = IF proc[q].parent_proc = o THEN init ELSE proc[q].parent_proc
             /\ P1[q].parent = IF proc[q].parent_proc = o THEN i ELSE proc[q].parent
  <2>1. proc[q] \in PRec
    BY Now
  <2>2. CASE proc[q].parent_proc = o
    <3>1. P1[q] = [proc[q] EXCEPT !.parent_proc = init, !.parent = i]
      BY <1>2, <2>2 DEF Adopted
    <3> QED BY <1>1, <1>2, <2>1, <2>2, <3>1 DEF PRec
  <2>3. CASE proc[q].parent_proc # o
    <3>1. P1[q] = proc[q]
      BY <2>3 DEF Adopted
    <3> QED BY <2>1, <2>3, <3>1
  <2> QED BY <2>2, <2>3
<1>4. P1 \in [Slot -> PRec]
  BY <1>3 DEF Adopted
<1>5. SameDress(proc, P1)
  BY <1>3 DEF SameDress
<1>6. GivenOut(P1, nextpid)
  BY <1>3, Now DEF GivenOut
<1> QED BY <1>2, <1>3, <1>4, <1>5, <1>6

\* What exit() hands to sched(): all threads of the process dead, its parent woken.
LEMMA ExitTables ==
  ASSUME RunInv, NEW c \in CPU, exit_end(c)
  PROVE  \E T2, T3, P1 :
           /\ on[c] # None /\ pc[Me(c)] = "exit" /\ lk = None
           /\ UNCHANGED <<lk, pc, arg, ilock, nextpid, pages, panicked>>
           /\ T2 = ExitWakes(c) /\ T3 = AllDead(T2, My(c).pid) /\ P1 = Adopted(proc, on[c])
           /\ Ages(th, T2) /\ SameValues(th, T2) /\ Ages(th, T3) /\ SameValues(th, T3)
           /\ My(c).pid # 0 /\ T2 \in [Entry -> TRec]
           /\ SchedStep(P1, T3, c, Me(c), "ZOMBIE", None, "exit")
<1>1. PICK T2, T3, P1, pid : T2 = ExitWakes(c) /\ T3 = AllDead(T2, pid) /\ P1 = Adopted(proc, on[c]) /\ pid = My(c).pid
  OBVIOUS
<1>2. /\ on[c] # None /\ pc[Me(c)] = "exit" /\ lk = None
      /\ UNCHANGED <<lk, pc, arg, ilock, nextpid, pages, panicked>>
      /\ sched(c, "ZOMBIE", None, P1, T3)
  <2>1. AllDead(T2, pid) = [e \in Entry |-> IF T2[e].pid = My(c).pid
                             THEN [T2[e] EXCEPT !.state = "THZOMBIE"] ELSE T2[e]]
    BY <1>1 DEF AllDead
  <2>2. Adopted(proc, on[c]) = [q \in Slot |-> IF q \in Orphans(c)
                            THEN [proc[q] EXCEPT !.parent_proc = init,
                                                 !.parent = proc[init].parent]
                            ELSE proc[q]]
    BY DEF Adopted, Orphans
  <2> QED BY <1>1, <2>1, <2>2 DEF exit_end, At
<1>3. PICK m : m = Me(c) /\ m \in Entry /\ m = proc[on[c]].idx
  BY <1>2, Mine
<1>4. pid # 0 /\ on[c] \in Slot
  BY <1>1, <1>2, Mine
<1>5. Ages(th, T2) /\ SameValues(th, T2) /\ T2 \in [Entry -> TRec]
  <2>1. PICK T, ch, ch2 : T = wakeup1(th, ch) /\ ch = My(c).parent /\ ch2 = proc[init].parent
    OBVIOUS
  <2>2. Ages(th, T) /\ SameValues(th, T) /\ T \in [Entry -> TRec]
    BY <2>1, Now, WakeAges DEF Ages
  <2>3. Stacks(T)
    BY <2>2, Now, AgedStacks
  <2>4. PICK T1 : T1 = wakeup1(T, ch2)
    OBVIOUS
  <2>5. Ages(T, T1) /\ SameValues(T, T1) /\ T1 \in [Entry -> TRec]
    BY <2>2, <2>3, <2>4, WakeAges DEF Ages
  <2>6. Ages(th, T1) /\ SameValues(th, T1)
    BY <2>2, <2>5, AgesAgain DEF SameValues
  <2>7. T2 = T \/ T2 = T1
    BY <1>1, <2>1, <2>4 DEF ExitWakes
  <2> QED BY <2>2, <2>5, <2>6, <2>7
<1>6. Ages(T2, T3) /\ SameValues(T2, T3)
  BY <1>1, <1>4, <1>5, DeadAges
<1>7. Ages(th, T3) /\ SameValues(th, T3)
  BY <1>5, <1>6, AgesAgain DEF SameValues
<1>8. P1 \in [Slot -> PRec] /\ SameDress(proc, P1) /\ GivenOut(P1, nextpid) /\ P1[on[c]].idx = m
  BY <1>1, <1>3, <1>4, AdoptedIs
<1>9. Tables(P1, T3, on) /\ Positions(P1, T3, on, pc, arg, lk)
  BY <1>7, <1>8, Now, AgedTables, PositionsAge
<1>10. pc' = [pc EXCEPT ![m] = "exit"] /\ lk' = (IF lk = m THEN None ELSE lk)
       /\ "exit" \in Places \ {"create", "join_sleep"} /\ None \in 0..DiskChan
  BY <1>2, <1>3, Now, Sizes DEF Places
<1>11. SchedStep(P1, T3, c, m, "ZOMBIE", None, "exit")
  BY <1>2, <1>8, <1>9, <1>10, Now DEF SchedStep
<1> QED BY <1>1, <1>2, <1>3, <1>4, <1>5, <1>7, <1>11

LEMMA ExitEndKeeps ==
  ASSUME RunInv, NEW c \in CPU, exit_end(c)
  PROVE  RunInv'
BY ExitTables, SchedKeeps

-----------------------------------------------------------------------------
(* Entries given out and back.                                             *)

\* Entries D that no processor runs change hands; the thread of c, if it moves at
\* all, goes on with w.
Hands(P, T, O, C, A, k, c, m, P1, T1, C1, A1, D, w) ==
  /\ Running(P, T, O, C, A, k, c, m) /\ Tables(P1, T1, O)
  /\ \A d \in CPU : O[d] # None => P1[O[d]].idx = P[O[d]].idx
  /\ k \notin D /\ m \notin D /\ \A e \in Entry : C[e] = "create" => A[e] \notin D
  /\ \A e \in Entry : e \notin D => T1[e] = T[e]
  /\ C[m] \notin Holding /\ w \in Places \ (Holding \cup {"join"})
  /\ C1 \in [Entry -> Places] /\ C1[m] = w
  /\ \A e \in Entry : e # m => C1[e] = IF e \in D THEN "user" ELSE C[e]
  /\ A1 \in [Entry -> 0..MaxTid \cup Entry] /\ \A e \in Entry : e # m => A1[e] = A[e]

LEMMA PositionsHands ==
  ASSUME NEW P, NEW T, NEW O, NEW C, NEW A, NEW k, NEW c, NEW m,
         NEW P1, NEW T1, NEW C1, NEW A1, NEW D, NEW w,
         Hands(P, T, O, C, A, k, c, m, P1, T1, C1, A1, D, w)
  PROVE  Positions(P1, T1, O, C1, A1, k)
<1> USE DEF Hands
<1>1. PICK C2 : C2 = [e \in Entry |-> IF e \in D THEN "user" ELSE C[e]]
  OBVIOUS
<1>2. Positions(P, T, O, C, A, k) /\ PlacesTyped(C, A, k) /\ Tables(P, T, O) /\ AllDressed(P, T, O)
  BY DEF Running, Positions, Tables
<1>3. C2 \in [Entry -> Places] /\ \A e \in Entry : C2[e] = IF e \in D THEN "user" ELSE C[e]
  BY <1>1, <1>2 DEF PlacesTyped, Places
<1>4. \A d \in CPU : O[d] # None => P1[O[d]].idx = P[O[d]].idx /\ P[O[d]].idx \in Entry
  BY <1>2 DEF AllDressed, Dressed
<1>5. Positions(P1, T1, O, C2, A, k)
  <2>1. Elsewhere(P, T, O, C, A, k, P1, T1, C2, D)
    BY <1>2, <1>3, <1>4 DEF Elsewhere
  <2> QED BY <2>1, PositionsElse
<1>6. m \in Entry /\ c \in CPU /\ O[c] # None /\ m = P1[O[c]].idx
  BY RunsOn, <1>4 DEF Running
<1>7. Running(P1, T1, O, C2, A, k, c, m)
  BY <1>5, <1>6 DEF Running
<1>8. C2[m] \notin Holding /\ \A e \in Entry : e # m => C1[e] = C2[e]
  BY <1>3, <1>6
<1> QED BY <1>7, <1>8, PositionsStep

\* An entry whose thread is of no process that runs is not worn.
LEMMA NotWorn ==
  ASSUME NEW P, NEW T, NEW O, NEW C, NEW A, NEW k, NEW c, NEW m, Running(P, T, O, C, A, k, c, m),
         NEW e \in Entry, e # m, T[e].pid = P[O[c]].pid, NEW d \in CPU, O[d] # None
  PROVE  P[O[d]].idx # e
<1>1. ASSUME P[O[d]].idx = e PROVE FALSE
  <2>1. T[P[O[c]].idx].pid = T[P[O[d]].idx].pid
    BY <1>1, RunsOn
  <2>2. c = d
    BY <2>1, OtherPid DEF Running
  <2> QED BY <1>1, <2>2 DEF Running
<1> QED BY <1>1

LEMMA CreateKeeps ==
  ASSUME RunInv, NEW c \in CPU, thread_create(c)
  PROVE  RunInv'
<1>1. PICK e, tid, m, p :
         /\ e = Min(UnusedEntries) /\ tid = My(c).assign + 1 /\ m = Me(c) /\ p = on[c]
         /\ on[c] # None /\ lk = None /\ My(c).assign < MaxTid /\ UnusedEntries # {}
         /\ th' = [th EXCEPT ![e] = [allocthread(e, My(c).pid) EXCEPT !.tid = tid]]
         /\ arg' = [arg EXCEPT ![m] = e]
         /\ proc' = [proc EXCEPT ![p].assign = tid]
         /\ lk' = m /\ pc' = [pc EXCEPT ![m] = "create"] /\ SameRest
  BY DEF thread_create, Calls, At, SameRest
<1>2. e \in Entry /\ th[e].state = "UNUSED" /\ th[e] \in TRec
  <2>1. UnusedEntries \subseteq Entry
    BY DEF UnusedEntries
  <2>2. e \in UnusedEntries
    BY <1>1, <2>1, LeastEntry
  <2> QED BY <2>1, <2>2, Now DEF UnusedEntries
<1>3. /\ p \in Slot /\ m \in Entry /\ My(c) \in PRec /\ My(c) = proc[p] /\ th[m].pid = My(c).pid /\ th[m].pid # 0
      /\ My(c).state # "UNUSED" /\ proc[p].idx = m /\ Running(proc, th, on, pc, arg, lk, c, m) /\ e # m
  BY <1>1, <1>2, Mine DEF My
<1>4. tid \in 0..MaxTid /\ tid # MAINTH /\ tid # 0
  <2>1. My(c).assign \in 0..MaxTid /\ My(c).assign # 0
    BY <1>3, Now DEF PRec, GivenOut
  <2> QED BY <1>1, <2>1, Sizes DEF MAINTH
<1>5. PICK r : r = [allocthread(e, My(c).pid) EXCEPT !.tid = tid]
  OBVIOUS
<1>6. r \in TRec /\ r.state = "EMBRYO" /\ r.pid = My(c).pid /\ r.tid = tid /\ r.kstack
  <2>1. NoValue \in (0..MaxPid) \X (0..MaxTid) /\ My(c).pid \in 0..MaxPid
    BY <1>3, Sizes DEF NoValue, PRec
  <2>2. "EMBRYO" \in States
    BY DEF States
  <2> QED BY <1>2, <1>4, <1>5, <2>1, <2>2 DEF allocthread, TRec
<1>7. PICK P1, T1 : P1 = proc' /\ T1 = th'
  OBVIOUS
<1>8. T1 \in [Entry -> TRec] /\ T1[e] = r /\ \A f \in Entry : f # e => T1[f] = th[f]
  BY <1>1, <1>2, <1>5, <1>6, <1>7, Now
<1>9. /\ P1 \in [Slot -> PRec] /\ SameDress(proc, P1) /\ GivenOut(P1, nextpid)
  <2>1. P1[p] = [proc[p] EXCEPT !.assign = tid] /\ \A q \in Slot : q # p => P1[q] = proc[q]
    BY <1>1, <1>3, <1>7, Now
  <2>2. P1[p] \in PRec /\ P1[p].pid = proc[p].pid /\ P1[p].idx = proc[p].idx /\ P1[p].tid = proc[p].tid
        /\ P1[p].state = proc[p].state /\ P1[p].assign = tid
    BY <1>3, <1>4, <2>1 DEF PRec
  <2>3. P1 \in [Slot -> PRec]
    BY <1>1, <1>3, <1>7, <2>1, <2>2, Now
  <2>4. SameDress(proc, P1)
    BY <2>1, <2>2 DEF SameDress
  <2>5. GivenOut(P1, nextpid)
    BY <1>4, <2>1, <2>2, Now DEF GivenOut
  <2> QED BY <2>3, <2>4, <2>5
<1>10. /\ pc[e] = "user" /\ lk # e /\ \A f \in Entry : pc[f] = "create" => arg[f] # e
       /\ \A d \in CPU : on[d] # None => proc[on[d]].idx # e
  BY <1>2, Now, Idle
<1>11. Tables(P1, T1, on)
  <2>1. \A f \in Entry : (T1[f].state # "UNUSED" => T1[f].pid # 0) /\ (T1[f].pid # 0 => T1[f].kstack)
    BY <1>3, <1>6, <1>8, Now DEF Stacks
  <2>2. ASSUME NEW d \in CPU, on[d] # None
        PROVE  /\ T1[proc[on[d]].idx].state \in {"RUNNABLE", "THZOMBIE"}
               /\ T1[proc[on[d]].idx].pid = th[proc[on[d]].idx].pid
               /\ T1[proc[on[d]].idx].tid = th[proc[on[d]].idx].tid
    <3>1. proc[on[d]].idx \in Entry /\ proc[on[d]].idx # e
          /\ th[proc[on[d]].idx].state \in {"RUNNABLE", "THZOMBIE"}
      BY <1>10, <2>2, Mine DEF Me
    <3> QED BY <1>8, <3>1
  <2>3. Kept(proc, th, on, P1, T1)
    BY <1>8, <1>9, <2>1, <2>2, Now DEF Kept, SameDress
  <2> QED BY <2>3, TablesKept
<1>12. Positions(P1, T1, on, pc, arg, None)
  <2>1. PICK D : D = {e}
    OBVIOUS
  <2>2. None \notin D /\ \A f \in Entry : pc[f] = "create" => arg[f] \notin D
    BY <1>1, <1>2, <1>10, <2>1, Sizes
  <2>3. \A f \in Entry : pc[f] = IF f \in D THEN "user" ELSE pc[f]
    BY <1>10, <2>1
  <2>4. \A d \in CPU : on[d] # None => P1[on[d]].idx = proc[on[d]].idx /\ proc[on[d]].idx \in Entry
    BY <1>9, Mine, Now DEF SameDress, Me
  <2>5. \A f \in Entry : f \notin D => T1[f] = th[f]
    BY <1>8, <2>1
  <2>6. Positions(proc, th, on, pc, arg, None)
    BY <1>1, Now
  <2>7. Elsewhere(proc, th, on, pc, arg, None, P1, T1, pc, D)
    BY <2>2, <2>3, <2>4, <2>5, <2>6, Now DEF Elsewhere
  <2> QED BY <2>7, PositionsElse
<1>13. P1[p].idx = m /\ Running(P1, T1, on, pc, arg, None, c, m)
  BY <1>1, <1>3, <1>9, <1>11, <1>12 DEF Running, SameDress
<1>14. PICK C1, A1 : C1 = [pc EXCEPT ![m] = "create"] /\ A1 = arg'
  OBVIOUS
<1>15. /\ A1 \in [Entry -> 0..MaxTid \cup Entry] /\ A1[m] = e /\ \A f \in Entry : f # m => A1[f] = arg[f]
  BY <1>1, <1>2, <1>3, <1>14, Now
<1>16. Positions(P1, T1, on, C1, A1, m)
  <2>1. "create" \in Holding /\ T1[e].state = "EMBRYO" /\ T1[e].pid = T1[m].pid /\ T1[e].tid # MAINTH
    BY <1>3, <1>4, <1>6, <1>8 DEF Holding
  <2>2. /\ A1[m] \in Entry /\ A1[m] # m /\ pc[A1[m]] = "user"
        /\ T1[A1[m]].state \in {"EMBRYO", "THZOMBIE"} /\ T1[A1[m]].pid = T1[m].pid
        /\ T1[A1[m]].tid # MAINTH
    BY <1>2, <1>3, <1>10, <1>15, <2>1, <1>8
  <2>3. Takes(P1, T1, on, pc, arg, c, m, "create", C1, A1)
    BY <1>13, <1>14, <1>15, <2>1, <2>2 DEF Takes
  <2> QED BY <2>3, PositionsTake
<1>17. Tables(proc', th', on') /\ Positions(proc', th', on', pc', arg', lk')
  BY <1>1, <1>7, <1>11, <1>14, <1>16 DEF SameRest
<1>18. Rest'
  BY <1>1, <1>7, <1>9, Now DEF Rest, SameRest
<1> QED BY <1>17, <1>18 DEF RunInv

LEMMA CreateEndKeeps ==
  ASSUME RunInv, NEW c \in CPU, thread_create_end(c)
  PROVE  RunInv'
<1>1. PICK m, e :
         /\ m = Me(c) /\ e = arg[m] /\ on[c] # None /\ pc[m] = "create" /\ SameRest /\ proc' = proc
         /\ lk' = None /\ arg' = [arg EXCEPT ![m] = None]
         /\ \/ /\ th' = [th EXCEPT ![e].state = "RUNNABLE", ![e].joiner = m]
               /\ pc' = [pc EXCEPT ![m] = "user", ![e] = "user"]
            \/ /\ th' = [th EXCEPT ![e].state = "UNUSED"]
               /\ pc' = [pc EXCEPT ![m] = "user"]
  BY DEF thread_create_end, At, SameRest
<1>2. m \in Entry /\ proc[on[c]].idx = m /\ Running(proc, th, on, pc, arg, lk, c, m) /\ th[m].pid = proc[on[c]].pid
  BY <1>1, Mine DEF My
<1>3. /\ lk = m /\ e \in Entry /\ e # m /\ pc[e] = "user" /\ th[e] \in TRec /\ th[e].pid = th[m].pid
      /\ th[e].tid # MAINTH /\ th[e].state \in {"EMBRYO", "THZOMBIE"}
  <2>1. LockOK(proc, th, on, pc, lk) /\ Creating(th, pc, arg)
    BY Now DEF Positions
  <2> QED BY <1>1, <1>2, <2>1, Now DEF LockOK, Creating
<1>4. PICK T1, C1, A1 : T1 = th' /\ C1 = pc' /\ A1 = arg'
  OBVIOUS
<1>5. C1 = [pc EXCEPT ![m] = "user"]
  BY <1>1, <1>2, <1>3, <1>4, Now
<1>6. A1 \in [Entry -> 0..MaxTid \cup Entry] /\ \A f \in Entry : f # m => A1[f] = arg[f]
  <2>1. None \in 0..MaxTid
    BY Sizes DEF None
  <2> QED BY <1>1, <1>2, <1>4, <2>1, Now
<1>7. Positions(proc, th, on, C1, A1, None) /\ \A f \in Entry : C1[f] # "create"
  <2>1. Running(proc, th, on, pc, arg, m, c, m)
    BY <1>2, <1>3
  <2>2. Gives(proc, th, on, pc, arg, c, m, C1, A1)
    BY <1>5, <1>6, <2>1 DEF Gives
  <2> QED BY <2>2, PositionsGive
<1>8. /\ T1 \in [Entry -> TRec] /\ T1[e].pid = th[e].pid /\ T1[e].kstack = th[e].kstack
      /\ \A f \in Entry : f # e => T1[f] = th[f]
  <2>1. CASE th' = [th EXCEPT ![e].state = "RUNNABLE", ![e].joiner = m]
    <3>1. PICK r : r = [th[e] EXCEPT !.state = "RUNNABLE", !.joiner = m]
      OBVIOUS
    <3>2. r \in TRec /\ r.pid = th[e].pid /\ r.kstack = th[e].kstack
      BY <1>2, <1>3, <3>1 DEF TRec, States, Ptr
    <3>3. T1 = [th EXCEPT ![e] = r]
      BY <1>3, <1>4, <2>1, <3>1, Now DEF TRec
    <3> QED BY <1>3, <3>2, <3>3, Now
  <2>2. CASE th' = [th EXCEPT ![e].state = "UNUSED"]
    <3>1. PICK r : r = [th[e] EXCEPT !.state = "UNUSED"]
      OBVIOUS
    <3>2. r \in TRec /\ r.pid = th[e].pid /\ r.kstack = th[e].kstack
      BY <1>3, <3>1 DEF TRec, States
    <3>3. T1 = [th EXCEPT ![e] = r]
      BY <1>3, <1>4, <2>2, <3>1, Now DEF TRec
    <3> QED BY <1>3, <3>2, <3>3, Now
  <2> QED BY <1>1, <2>1, <2>2
<1>9. ASSUME NEW d \in CPU, on[d] # None
      PROVE  /\ proc[on[d]].idx \in Entry /\ proc[on[d]].idx # e
             /\ th[proc[on[d]].idx].state \in {"RUNNABLE", "THZOMBIE"}
  <2>1. proc[on[d]].idx # e
    BY <1>2, <1>3, <1>9, NotWorn
  <2> QED BY <1>9, <2>1, Mine DEF Me
<1>10. Tables(proc, T1, on)
  <2>1. \A f \in Entry : (T1[f].state # "UNUSED" => T1[f].pid # 0) /\ (T1[f].pid # 0 => T1[f].kstack)
    <3>1. Stacks(th) /\ th[e].state # "UNUSED"
      BY <1>3, Now
    <3> QED BY <1>3, <1>8, <3>1 DEF Stacks
  <2>2. Kept(proc, th, on, proc, T1)
    BY <1>8, <1>9, <2>1, Now DEF Kept
  <2> QED BY <2>2, TablesKept
<1>11. Positions(proc, T1, on, C1, A1, None)
  <2>1. PICK D : D = {e}
    OBVIOUS
  <2>2. C1 \in [Entry -> Places] /\ \A f \in Entry : C1[f] = IF f \in D THEN "user" ELSE C1[f]
    BY <1>2, <1>3, <1>5, <2>1, Now DEF Places
  <2>3. None \notin D /\ \A f \in Entry : f \notin D => T1[f] = th[f]
    BY <1>3, <1>8, <2>1, Sizes
  <2>4. Elsewhere(proc, th, on, C1, A1, None, proc, T1, C1, D)
    BY <1>7, <1>9, <2>2, <2>3 DEF Elsewhere
  <2> QED BY <2>4, PositionsElse
<1>12. Tables(proc', th', on') /\ Positions(proc', th', on', pc', arg', lk')
  BY <1>1, <1>4, <1>10, <1>11 DEF SameRest
<1>13. Rest'
  BY <1>1, Now DEF Rest, SameRest
<1> QED BY <1>12, <1>13 DEF RunInv

\* The thread that thread_join() gives back is not the caller, and does not run.
LEMMA JoinKeeps ==
  ASSUME RunInv, MainOnly, NEW c \in CPU, thread_join(c)
  PROVE  RunInv'
<1>1. PICK m : m = Me(c)
  OBVIOUS
<1>2. /\ on[c] # None /\ pc[m] \in {"user", "join"} /\ lk = None /\ proc' = proc /\ SameRest
  BY <1>1 DEF thread_join, Calls, At, SameRest
<1>3. m \in Entry /\ Running(proc, th, on, pc, arg, lk, c, m) /\ My(c) = proc[on[c]] /\ My(c) \in PRec
      /\ th[m].tid = My(c).tid /\ th[m].pid = My(c).pid
  BY <1>1, <1>2, Mine DEF My
<1>4. PICK tid \in 2..MaxTid : th[m].tid = MAINTH /\ thread_join_scan(c, tid)
  <2>1. CASE /\ Calls(c) /\ My(c).tid = MAINTH
             /\ \E tid \in 2..My(c).assign : thread_join_scan(c, tid)
    <3>1. My(c).assign \in 0..MaxTid
      BY <1>3 DEF PRec
    <3>2. \A tid \in 2..My(c).assign : tid \in 2..MaxTid
      BY <3>1, Sizes
    <3> QED BY <1>3, <2>1, <3>2
  <2>2. CASE At(c, "join") /\ thread_join_scan(c, arg[Me(c)])
    <3>1. pc[m] = "join"
      BY <1>1, <2>2 DEF At
    <3>2. th[m].tid = MAINTH /\ arg[m] \in 2..MaxTid
      BY <1>3, <3>1, Now DEF Positions, Joiners
    <3> QED BY <1>1, <2>2, <3>2
  <2> QED BY <2>1, <2>2 DEF thread_join, MainOnly
<1>5. pc[m] \notin Holding /\ "user" \in Places \ (Holding \cup {"join"}) /\ None \in 0..MaxTid
  BY <1>2, Sizes DEF Holding, Places, None
<1>6. CASE /\ UNCHANGED <<th, lk, pages>> /\ pc' = [pc EXCEPT ![m] = "user"]
           /\ arg' = [arg EXCEPT ![m] = None]
  <2>1. Ages(th, th)
    BY Now, AgesSelf
  <2>2. AgeStep(c, "user")
    BY <1>1, <1>2, <1>5, <1>6, <2>1, Now, SameProc DEF AgeStep, SameRest, Rest
  <2> QED BY <2>2, AgeKeeps
<1>7. CASE /\ UNCHANGED <<th, pages>> /\ pc' = [pc EXCEPT ![m] = "join_sleep"]
           /\ arg' = [arg EXCEPT ![m] = tid] /\ lk' = m
  <2>1. PICK C1, A1 : C1 = [pc EXCEPT ![m] = "join_sleep"] /\ A1 = [arg EXCEPT ![m] = tid]
    OBVIOUS
  <2>2. A1 \in [Entry -> 0..MaxTid \cup Entry] /\ A1[m] = tid /\ \A f \in Entry : f # m => A1[f] = arg[f]
    <3>1. tid \in 0..MaxTid
      BY Sizes
    <3> QED BY <1>3, <2>1, <3>1, Now
  <2>3. Takes(proc, th, on, pc, arg, c, m, "join_sleep", C1, A1)
    BY <1>2, <1>3, <1>4, <2>1, <2>2 DEF Takes, Holding
  <2>4. Positions(proc, th, on, C1, A1, m)
    BY <2>3, PositionsTake
  <2>5. Tables(proc', th', on') /\ Positions(proc', th', on', pc', arg', lk')
    BY <1>2, <1>7, <2>1, <2>4, Now DEF SameRest
  <2>6. Rest'
    BY <1>2, Now DEF Rest, SameRest
  <2> QED BY <2>5, <2>6 DEF RunInv
<1>8. ASSUME NEW d \in Entry, th[d].pid = My(c).pid, th[d].tid = tid,
             th' = [th EXCEPT ![d] = [UnusedThread EXCEPT !.retval = th[d].retval]],
             pc' = atStart({d, m}), arg' = [arg EXCEPT ![m] = None], lk' = lk
      PROVE  RunInv'
  <2>1. d # m
    BY <1>4, <1>8 DEF MAINTH
  <2>2. ASSUME NEW b \in CPU, on[b] # None
        PROVE  /\ proc[on[b]].idx \in Entry /\ proc[on[b]].idx # d
               /\ th[proc[on[b]].idx].state \in {"RUNNABLE", "THZOMBIE"}
    <3>1. proc[on[b]].idx # d
      BY <1>3, <1>8, <2>1, <2>2, NotWorn
    <3> QED BY <2>2, <3>1, Mine DEF Me
  <2>3. PICK T1, C1, A1, r : /\ T1 = th' /\ C1 = pc' /\ A1 = arg'
                             /\ r = [UnusedThread EXCEPT !.retval = th[d].retval]
    OBVIOUS
  <2>4. r \in TRec /\ r.state = "UNUSED" /\ r.pid = 0
    <3>1. th[d].retval \in (0..MaxPid) \X (0..MaxTid) /\ 0 \in 0..MaxPid /\ 0 \in 0..MaxTid
      BY Now, Sizes DEF TRec
    <3> QED BY <2>3, <3>1, Sizes DEF UnusedThread, TRec, States, Ptr, None
  <2>5. T1 \in [Entry -> TRec] /\ T1[d] = r /\ \A f \in Entry : f # d => T1[f] = th[f]
    BY <1>8, <2>3, <2>4, Now
  <2>6. Tables(proc, T1, on)
    <3>1. \A f \in Entry : (T1[f].state # "UNUSED" => T1[f].pid # 0) /\ (T1[f].pid # 0 => T1[f].kstack)
      <4>1. Stacks(th)
        BY Now
      <4> QED BY <2>4, <2>5, <4>1 DEF Stacks
    <3>2. Kept(proc, th, on, proc, T1)
      BY <2>2, <2>5, <3>1, Now DEF Kept
    <3> QED BY <3>2, TablesKept
  <2>7. PICK D : D = {d}
    OBVIOUS
  <2>8. lk \notin D /\ m \notin D /\ \A e \in Entry : pc[e] = "create" => arg[e] \notin D
    <3>1. \A e \in Entry : pc[e] # "create"
      BY <1>2, Now, Sizes DEF Positions, LockOK
    <3> QED BY <1>2, <2>1, <2>7, <3>1, Sizes
  <2>9. /\ C1 \in [Entry -> Places] /\ C1[m] = "user"
        /\ \A e \in Entry : e # m => C1[e] = IF e \in D THEN "user" ELSE pc[e]
    BY <1>3, <1>5, <1>8, <2>3, <2>7, Now DEF atStart
  <2>10. A1 \in [Entry -> 0..MaxTid \cup Entry] /\ \A e \in Entry : e # m => A1[e] = arg[e]
    BY <1>3, <1>5, <1>8, <2>3, Now
  <2>11. \A e \in Entry : e \notin D => T1[e] = th[e]
    BY <2>5, <2>7
  <2>12. Hands(proc, th, on, pc, arg, lk, c, m, proc, T1, C1, A1, D, "user")
    BY <1>3, <1>5, <2>6, <2>8, <2>9, <2>10, <2>11 DEF Hands
  <2>13. Positions(proc, T1, on, C1, A1, lk)
    BY <2>12, PositionsHands
  <2>14. Tables(proc', th', on') /\ Positions(proc', th', on', pc', arg', lk')
    BY <1>2, <1>8, <2>3, <2>6, <2>13 DEF SameRest
  <2>15. Rest'
    BY <1>2, Now DEF Rest, SameRest
  <2> QED BY <2>14, <2>15 DEF RunInv
<1>9. PICK found, dead : found = Joined(c, tid) /\ dead = {e \in found : th[e].state = "THZOMBIE"}
  OBVIOUS
<1>10. CASE /\ dead # {}
            /\ th' = [th EXCEPT ![Min(dead)] = [UnusedThread EXCEPT !.retval = th[Min(dead)].retval]]
            /\ pc' = atStart({Min(dead), m})
            /\ arg' = [arg EXCEPT ![m] = None]
            /\ UNCHANGED lk
  <2>1. PICK d : d = Min(dead)
    OBVIOUS
  <2>2. d \in Entry /\ th[d].pid = My(c).pid /\ th[d].tid = tid
    <3>1. dead \subseteq Entry
      BY <1>9 DEF Joined, ThreadsOf
    <3>2. d \in dead
      BY <1>10, <2>1, <3>1, LeastEntry
    <3> QED BY <1>9, <3>1, <3>2 DEF Joined, ThreadsOf
  <2> QED BY <1>8, <1>10, <2>1, <2>2
<1> QED BY <1>1, <1>4, <1>6, <1>7, <1>9, <1>10 DEF thread_join_scan

\* The entries of D are given back.
LEMMA DeletedIs ==
  ASSUME NEW T \in [Entry -> TRec], Stacks(T), NEW D, NEW T1, T1 = deleted(T, D)
  PROVE  /\ T1 \in [Entry -> TRec] /\ Stacks(T1)
         /\ \A e \in Entry : T1[e] = IF e \in D THEN UnusedThread ELSE T[e]
<1>1. UnusedThread \in TRec /\ UnusedThread.state = "UNUSED" /\ UnusedThread.pid = 0
  <2>1. 0 \in 0..MaxPid /\ 0 \in 0..MaxTid
    BY Sizes
  <2> QED BY <2>1, Sizes DEF UnusedThread, TRec, States, Ptr, None, NoValue
<1>2. \A e \in Entry : T1[e] = IF e \in D THEN UnusedThread ELSE T[e]
  BY DEF deleted
<1>3. T1 \in [Entry -> TRec]
  <2>1. \A e \in Entry : T1[e] \in TRec
    BY <1>1, <1>2
  <2> QED BY <2>1 DEF deleted
<1>4. Stacks(T1)
  BY <1>1, <1>2 DEF Stacks
<1> QED BY <1>2, <1>3, <1>4

LEMMA AtStartIs ==
  ASSUME RunInv, NEW D
  PROVE  /\ atStart(D) \in [Entry -> Places]
         /\ \A e \in Entry : atStart(D)[e] = IF e \in D THEN "user" ELSE pc[e]
<1>1. "user" \in Places /\ pc \in [Entry -> Places]
  BY Now DEF Places
<1> QED BY <1>1 DEF atStart

ExecProc(P, p, m, others) ==
  [q \in Slot |->
     LET r == [P[q] EXCEPT !.parent = IF @ \in others THEN m ELSE @]
     IN  IF q # p THEN r
         ELSE [r EXCEPT !.joiner = m, !.tid = MAINTH, !.assign = 1, !.main = m]]

LEMMA ExecProcIs ==
  ASSUME RunInv, NEW p \in Slot, proc[p].tid = MAINTH, proc[p].state # "UNUSED",
         NEW m \in Entry, NEW others, NEW P1, P1 = ExecProc(proc, p, m, others)
  PROVE  /\ P1 \in [Slot -> PRec] /\ SameDress(proc, P1) /\ GivenOut(P1, nextpid)
         /\ \A q \in Slot :
              /\ P1[q].pid = proc[q].pid /\ P1[q].state = proc[q].state /\ P1[q].killed = proc[q].killed
              /\ P1[q].idx = proc[q].idx /\ P1[q].parent_proc = proc[q].parent_proc
              /\ P1[q].parent = IF proc[q].parent \in others THEN m ELSE proc[q].parent
<1>1. ASSUME NEW q \in Slot
      PROVE  /\ P1[q] \in PRec
             /\ P1[q].pid = proc[q].pid /\ P1[q].state = proc[q].state /\ P1[q].killed = proc[q].killed
             /\ P1[q].idx = proc[q].idx /\ P1[q].parent_proc = proc[q].parent_proc
             /\ P1[q].tid = proc[q].tid
             /\ P1[q].parent = IF proc[q].parent \in others THEN m ELSE proc[q].parent
             /\ P1[q].assign = IF q = p THEN 1 ELSE proc[q].assign
  <2>1. proc[q] \in PRec /\ m \in Ptr /\ 1 \in 0..MaxTid
    BY Now, Sizes DEF Ptr
  <2>2. PICK par : par = IF proc[q].parent \in others THEN m ELSE proc[q].parent
    OBVIOUS
  <2>3. par \in Ptr
    BY <2>1, <2>2 DEF PRec
  <2>4. PICK r : r = [proc[q] EXCEPT !.parent = par]
    OBVIOUS
  <2>5. /\ r \in PRec /\ r.pid = proc[q].pid /\ r.state = proc[q].state /\ r.killed = proc[q].killed
        /\ r.idx = proc[q].idx /\ r.parent_proc = proc[q].parent_proc /\ r.tid = proc[q].tid
        /\ r.parent = par /\ r.assign = proc[q].assign
    BY <2>1, <2>3, <2>4 DEF PRec
  <2>6. CASE q # p
    <3>1. P1[q] = r
      BY <2>2, <2>4, <2>6 DEF ExecProc
    <3> QED BY <2>2, <2>5, <2>6, <3>1
  <2>7. CASE q = p
    <3>1. P1[q] = [r EXCEPT !.joiner = m, !.tid = MAINTH, !.assign = 1, !.main = m]
      BY <2>2, <2>4, <2>7 DEF ExecProc
    <3>2. MAINTH \in 0..MaxTid
      BY Sizes
    <3>3. /\ P1[q] \in PRec
          /\ P1[q].pid = r.pid /\ P1[q].state = r.state /\ P1[q].killed = r.killed
          /\ P1[q].idx = r.idx /\ P1[q].parent_proc = r.parent_proc
          /\ P1[q].tid = MAINTH /\ P1[q].parent = r.parent /\ P1[q].assign = 1
      BY <2>1, <2>5, <3>1, <3>2 DEF PRec
    <3> QED BY <2>2, <2>5, <2>7, <3>3
  <2> QED BY <2>6, <2>7
<1>2. P1 \in [Slot -> PRec]
  BY <1>1 DEF ExecProc
<1>3. SameDress(proc, P1)
  BY <1>1 DEF SameDress
<1>4. GivenOut(P1, nextpid)
  <2>1. \A q \in Slot : P1[q].state # "UNUSED" => P1[q].assign # 0
    BY <1>1, Now DEF GivenOut
  <2> QED BY <1>1, <2>1, Now DEF GivenOut
<1> QED BY <1>1, <1>2, <1>3, <1>4

\* The threads of a process that exec() of its main thread deletes.
Others(c) == {e \in ThreadsOf(th, My(c).pid) : th[e].tid # MAINTH}

\* What exec() of a main thread does, said with the names above.
Execs(c, m, p, others) ==
  /\ m = Me(c) /\ p = on[c] /\ on[c] # None /\ lk = None /\ lk' = lk /\ arg' = arg /\ SameRest
  /\ pc[m] = "user" /\ My(c).tid = MAINTH /\ p # init
  /\ others = Others(c)
  /\ th' = deleted(th, others) /\ proc' = ExecProc(proc, p, m, others) /\ pc' = atStart(others)
  /\ pages' = pages - Cardinality({e \in others : th[e].kstack})

LEMMA ExecIs ==
  ASSUME RunInv, MainOnly, NEW c \in CPU, exec(c)
  PROVE  \E m, p, others : Execs(c, m, p, others)
<1>1. PICK m, p, others : m = Me(c) /\ p = on[c] /\ others = {e \in ThreadsOf(th, My(c).pid) : th[e].tid # My(c).tid}
  OBVIOUS
<1>2. /\ on[c] # None /\ lk = None /\ lk' = lk /\ arg' = arg /\ SameRest
      /\ pc[m] = "user" /\ My(c).tid = MAINTH /\ p # init
      /\ th' = deleted(th, others) /\ pc' = atStart(others)
      /\ pages' = pages - Cardinality({e \in others : th[e].kstack})
  BY <1>1 DEF exec, MainOnly, SameRest, Calls, At
<1>3. proc' = ExecProc(proc, p, m, others)
  BY <1>1 DEF exec, ExecProc
<1>4. others = Others(c)
  BY <1>1, <1>2 DEF Others
<1>5. Execs(c, m, p, others)
  BY <1>1, <1>2, <1>3, <1>4 DEF Execs
<1> QED BY <1>5

LEMMA ExecKeeps ==
  ASSUME RunInv, MainOnly, NEW c \in CPU, exec(c)
  PROVE  RunInv'
<1>0. PICK m, p, others : Execs(c, m, p, others)
  BY ExecIs
<1>1. /\ m = Me(c) /\ p = on[c] /\ on[c] # None /\ lk = None /\ lk' = lk /\ arg' = arg /\ SameRest
      /\ pc[m] = "user" /\ My(c).tid = MAINTH /\ p # init
      /\ others = Others(c)
      /\ th' = deleted(th, others) /\ proc' = ExecProc(proc, p, m, others) /\ pc' = atStart(others)
  BY <1>0 DEF Execs
<1>2. /\ m \in Entry /\ Running(proc, th, on, pc, arg, lk, c, m) /\ My(c) = proc[p] /\ p \in Slot
      /\ th[m].tid = MAINTH /\ proc[p].state # "UNUSED" /\ proc[p].tid = MAINTH
  BY <1>1, Mine DEF My
<1>3. PICK P1, T1, C1 : P1 = proc' /\ T1 = th' /\ C1 = pc'
  OBVIOUS
<1>4. P1 \in [Slot -> PRec] /\ SameDress(proc, P1) /\ GivenOut(P1, nextpid)
  BY <1>1, <1>2, <1>3, ExecProcIs
<1>5. /\ T1 \in [Entry -> TRec] /\ Stacks(T1)
      /\ \A e \in Entry : T1[e] = IF e \in others THEN UnusedThread ELSE th[e]
  BY <1>1, <1>3, Now, DeletedIs
<1>6. others \subseteq Entry /\ m \notin others /\ \A e \in others : th[e].pid = proc[p].pid
  BY <1>1, <1>2 DEF ThreadsOf, Others
<1>7. ASSUME NEW b \in CPU, on[b] # None
      PROVE  /\ proc[on[b]].idx \in Entry /\ proc[on[b]].idx \notin others
             /\ th[proc[on[b]].idx].state \in {"RUNNABLE", "THZOMBIE"}
  <2>1. proc[on[b]].idx \notin others
    <3>1. ASSUME NEW e \in others PROVE proc[on[b]].idx # e
      BY <1>1, <1>2, <1>6, <1>7, NotWorn
    <3> QED BY <3>1
  <2> QED BY <1>7, <2>1, Mine DEF Me
<1>8. Tables(P1, T1, on)
  <2>1. Kept(proc, th, on, P1, T1)
    BY <1>4, <1>5, <1>7, Now DEF Kept, SameDress, Stacks
  <2> QED BY <2>1, TablesKept
<1>9. lk \notin others /\ \A e \in Entry : pc[e] = "create" => arg[e] \notin others
  <2>1. \A e \in Entry : pc[e] # "create"
    BY <1>1, Now, Sizes DEF Positions, LockOK
  <2> QED BY <1>1, <1>6, <2>1, Sizes
<1>10. C1 \in [Entry -> Places] /\ \A e \in Entry : C1[e] = IF e \in others THEN "user" ELSE pc[e]
  BY <1>1, <1>3, AtStartIs
<1>11. Positions(P1, T1, on, C1, arg, lk)
  <2>1. pc[m] \notin Holding /\ "user" \in Places \ (Holding \cup {"join"}) /\ C1[m] = "user"
    BY <1>1, <1>2, <1>6, <1>10 DEF Holding, Places
  <2>2. \A d \in CPU : on[d] # None => P1[on[d]].idx = proc[on[d]].idx
    BY <1>4, Now DEF SameDress
  <2>3. Hands(proc, th, on, pc, arg, lk, c, m, P1, T1, C1, arg, others, "user")
    BY <1>2, <1>5, <1>6, <1>8, <1>9, <1>10, <2>1, <2>2, Now DEF Hands
  <2> QED BY <2>3, PositionsHands
<1>12. Tables(proc', th', on') /\ Positions(proc', th', on', pc', arg', lk')
  BY <1>1, <1>3, <1>8, <1>11 DEF SameRest
<1>13. Rest'
  BY <1>1, <1>3, <1>4, Now DEF Rest, SameRest
<1> QED BY <1>12, <1>13 DEF RunInv

\* wait() finds a dead child in slot p, and gives back its threads D.
Reaps(c, m, p, D) ==
  /\ p \in Slot /\ proc[p].parent = m /\ proc[p].state = "ZOMBIE" /\ D = ThreadsOf(th, proc[p].pid)
  /\ th' = deleted(th, D) /\ pages' = pages - Cardinality({e \in D : th[e].kstack})
  /\ proc' = [proc EXCEPT ![p] = UnusedProc] /\ pc' = atStart(D \cup {m})
  /\ UNCHANGED <<on, scan>>

LEMMA WaitIs ==
  ASSUME RunInv, NEW c \in CPU, wait(c)
  PROVE  \E m : 
           /\ m = Me(c) /\ on[c] # None /\ pc[m] \in {"user", "wait"}
           /\ UNCHANGED <<lk, arg, ilock, nextpid, panicked>>
           /\ \/ \E p, D : Reaps(c, m, p, D)
              \/ pc' = [pc EXCEPT ![m] = "user"] /\ UNCHANGED <<proc, th, on, scan, pages>>
              \/ /\ \A p \in Slot : proc[p].parent = m => proc[p].state # "ZOMBIE"
                 /\ SchedStep(proc, th, c, m, "SLEEPING", m, "wait") /\ pages' = pages
<1>1. PICK m, kids, dead : /\ m = Me(c) /\ kids = {p \in Slot : proc[p].parent = m}
                           /\ dead = {p \in kids : proc[p].state = "ZOMBIE"}
  OBVIOUS
<1>2. on[c] # None /\ pc[m] \in {"user", "wait"} /\ UNCHANGED <<lk, arg, ilock, nextpid, panicked>>
  BY <1>1 DEF wait, Calls, At
<1>3. dead = {} => \A p \in Slot : proc[p].parent = m => proc[p].state # "ZOMBIE"
  BY <1>1
<1>4. dead # {} => Min(dead) \in Slot /\ proc[Min(dead)].parent = m /\ proc[Min(dead)].state = "ZOMBIE"
  <2>1. ASSUME dead # {} PROVE Min(dead) \in dead /\ dead \subseteq Slot
    <3>1. dead \subseteq Slot
      BY <1>1
    <3> QED BY <2>1, <3>1, LeastSlot
  <2> QED BY <1>1, <2>1
<1>5. \/ /\ dead # {} /\ Reaps(c, m, Min(dead), ThreadsOf(th, proc[Min(dead)].pid))
      \/ pc' = [pc EXCEPT ![m] = "user"] /\ UNCHANGED <<proc, th, on, scan, pages>>
      \/ /\ dead = {} /\ pc' = [pc EXCEPT ![m] = "wait"] /\ sched(c, "SLEEPING", m, proc, th) /\ pages' = pages
  BY <1>1, <1>4 DEF wait, Reaps
<1>6. ASSUME pc' = [pc EXCEPT ![m] = "wait"], sched(c, "SLEEPING", m, proc, th)
      PROVE  SchedStep(proc, th, c, m, "SLEEPING", m, "wait")
  <2>1. m \in Entry /\ m # None /\ m = proc[on[c]].idx /\ pc[m] \notin Holding
    BY <1>1, <1>2, Mine, Sizes DEF Holding
  <2>2. lk # m
    BY <2>1, Now DEF Positions, LockOK
  <2>3. m \in 0..DiskChan /\ "wait" \in Places \ {"create", "join_sleep"}
    BY <2>1, Sizes DEF Places
  <2> QED BY <1>2, <1>6, <2>1, <2>2, <2>3, Now DEF SchedStep
<1> QED BY <1>1, <1>2, <1>3, <1>5, <1>6

LEMMA WaitKeeps ==
  ASSUME RunInv, NEW c \in CPU, wait(c)
  PROVE  RunInv'
<1>1. PICK m : 
           /\ m = Me(c) /\ on[c] # None /\ pc[m] \in {"user", "wait"}
           /\ UNCHANGED <<lk, arg, ilock, nextpid, panicked>>
           /\ \/ \E p, D : Reaps(c, m, p, D)
              \/ /\ pc' = [pc EXCEPT ![m] = "user"] /\ UNCHANGED <<proc, th, on, scan, pages>>
              \/ SchedStep(proc, th, c, m, "SLEEPING", m, "wait")
  BY WaitIs
<1>2. /\ m \in Entry /\ Running(proc, th, on, pc, arg, lk, c, m) /\ on[c] \in Slot
      /\ th[m].pid = proc[on[c]].pid /\ proc[on[c]].state \in {"RUNNING", "THZOMBIE"} /\ proc[on[c]].idx = m
  BY <1>1, Mine DEF My
<1>3. pc[m] \notin Holding /\ lk # m /\ "user" \in Places \ (Holding \cup {"join"})
  <2>1. pc[m] \notin Holding /\ m # None /\ "user" \in Places \ (Holding \cup {"join"})
    BY <1>1, <1>2, Sizes DEF Holding, Places
  <2> QED BY <2>1, Now DEF Positions, LockOK
<1>4. CASE pc' = [pc EXCEPT ![m] = "user"] /\ UNCHANGED <<proc, th, on, scan, pages>>
  <2>1. Ages(th, th)
    BY Now, AgesSelf
  <2>2. AgeStep(c, "user")
    BY <1>1, <1>3, <1>4, <2>1, Now, SameProc DEF AgeStep, Rest
  <2> QED BY <2>2, AgeKeeps
<1>5. CASE SchedStep(proc, th, c, m, "SLEEPING", m, "wait")
  BY <1>5, SchedKeeps
<1>6. ASSUME NEW p, NEW D, Reaps(c, m, p, D) PROVE RunInv'
  <2>1. /\ p \in Slot /\ proc[p].state = "ZOMBIE" /\ D = ThreadsOf(th, proc[p].pid)
        /\ th' = deleted(th, D) /\ proc' = [proc EXCEPT ![p] = UnusedProc] /\ pc' = atStart(D \cup {m})
        /\ on' = on /\ scan' = scan
    BY <1>6 DEF Reaps
  <2>2. PICK P1, T1, C1 : P1 = proc' /\ T1 = th' /\ C1 = pc'
    OBVIOUS
  <2>3. /\ UnusedProc \in PRec /\ UnusedProc.state = "UNUSED" /\ UnusedProc.pid = 0
    <3>1. 0 \in 0..MaxPid /\ 0 \in 0..MaxTid
      BY Sizes
    <3> QED BY <3>1 DEF UnusedProc, PRec, States, Ptr, None
  <2>4. P1 \in [Slot -> PRec] /\ P1[p] = UnusedProc /\ \A q \in Slot : q # p => P1[q] = proc[q]
    BY <2>1, <2>2, <2>3, Now
  <2>5. /\ T1 \in [Entry -> TRec] /\ Stacks(T1)
        /\ \A e \in Entry : T1[e] = IF e \in D THEN UnusedThread ELSE th[e]
    BY <2>1, <2>2, Now, DeletedIs
  <2>6. ASSUME NEW b \in CPU, on[b] # None
        PROVE  on[b] # p /\ on[b] \in Slot /\ proc[on[b]].idx \in Entry /\ proc[on[b]].idx \notin D
    <3>1. /\ on[b] \in Slot /\ proc[on[b]].idx \in Entry /\ proc[on[b]].state \in {"RUNNING", "THZOMBIE"}
          /\ th[proc[on[b]].idx].pid = proc[on[b]].pid
      BY <2>6, Mine DEF Me, My
    <3>2. on[b] # p
      BY <2>1, <3>1
    <3>3. proc[on[b]].pid # proc[p].pid
      <4>1. proc[p].pid # 0
        BY <2>1, Now DEF Pids
      <4> QED BY <2>1, <3>1, <3>2, <4>1, Now DEF Pids
    <3> QED BY <2>1, <3>1, <3>2, <3>3 DEF ThreadsOf
  <2>7. Tables(P1, T1, on)
    <3>1. /\ P1[p].state # "UNUSED" => P1[p].pid # 0
          /\ \A q \in Slot : q # p => P1[p].pid # proc[q].pid \/ P1[p].pid = 0
      BY <2>3, <2>4
    <3>2. \A b \in CPU : on[b] # None => T1[proc[on[b]].idx] = th[proc[on[b]].idx]
      BY <2>5, <2>6
    <3>3. proc[p].state \notin {"RUNNING", "THZOMBIE"}
      BY <2>1
    <3> QED BY <2>1, <2>4, <2>5, <3>1, <3>2, <3>3, Now, TablesSlot
  <2>8. \A b \in CPU : on[b] # None => P1[on[b]].idx = proc[on[b]].idx
    BY <2>4, <2>6
  <2>9. m \notin D /\ lk \notin D /\ \A e \in Entry : pc[e] = "create" => arg[e] \notin D
    <3>1. m \notin D
      BY <1>1, <1>2, <2>6
    <3>2. ASSUME lk \in D PROVE FALSE
      <4>1. lk # None
        BY <2>1, <3>2, Sizes DEF ThreadsOf
      <4>2. PICK b \in CPU : on[b] # None /\ proc[on[b]].idx = lk
        BY <4>1, Now DEF Positions, LockOK
      <4> QED BY <2>6, <3>2, <4>2
    <3>3. ASSUME NEW e \in Entry, pc[e] = "create", arg[e] \in D PROVE FALSE
      <4>1. lk = e /\ th[arg[e]].pid = th[e].pid
        BY <3>3, Now DEF Positions, LockOK, Creating
      <4> QED BY <2>1, <3>2, <3>3, <4>1 DEF ThreadsOf
    <3> QED BY <3>1, <3>2, <3>3
  <2>10. C1 \in [Entry -> Places] /\ \A e \in Entry : C1[e] = IF e \in D \cup {m} THEN "user" ELSE pc[e]
    BY <2>1, <2>2, AtStartIs
  <2>11. C1[m] = "user" /\ \A e \in Entry : e # m => C1[e] = IF e \in D THEN "user" ELSE pc[e]
    BY <1>2, <2>10
  <2>12. Hands(proc, th, on, pc, arg, lk, c, m, P1, T1, C1, arg, D, "user")
    BY <1>2, <1>3, <2>5, <2>7, <2>8, <2>9, <2>10, <2>11, Now DEF Hands
  <2>13. Positions(P1, T1, on, C1, arg, lk)
    BY <2>12, PositionsHands
  <2>14. Tables(proc', th', on') /\ Positions(proc', th', on', pc', arg', lk')
    BY <1>1, <2>1, <2>2, <2>7, <2>13
  <2>15. GivenOut(P1, nextpid)
    <3>1. 0 < nextpid
      <4>1. nextpid \in 2..(MaxPid + 1)
        BY Now DEF Rest
      <4> QED BY <4>1, Sizes
    <3> QED BY <2>3, <2>4, <3>1, Now DEF GivenOut
  <2>16. Rest'
    BY <1>1, <2>1, <2>2, <2>15, Now DEF Rest
  <2> QED BY <2>14, <2>16 DEF RunInv
<1> QED BY <1>1, <1>4, <1>5, <1>6

\* fork(): the entries p and e are given to a child s of thread m and to its thread r.
Forks(c, m, p, e, s, r) ==
  /\ m = Me(c) /\ on[c] # None /\ lk = None /\ pc[m] = "user" /\ nextpid <= MaxPid
  /\ p \in Slot /\ proc[p].state = "UNUSED" /\ e \in Entry /\ th[e].state = "UNUSED"
  /\ proc' = [proc EXCEPT ![p] = s] /\ th' = [th EXCEPT ![e] = r]
  /\ s \in PRec /\ s.pid = nextpid /\ s.assign # 0 /\ s.state \in {"UNUSED", "RUNNABLE"}
  /\ s.parent_proc \in {on[c], None}
  /\ r \in TRec /\ r.pid = nextpid /\ r.kstack /\ r.state \in {"EMBRYO", "RUNNABLE"}
  /\ pc' = pc /\ lk' = lk /\ arg' = arg /\ nextpid' = nextpid + 1
  /\ UNCHANGED <<on, scan, ilock, panicked>>
  /\ \/ s.state = "RUNNABLE" /\ r.state = "RUNNABLE" /\ r.tid = MAINTH /\ pages' = pages + 1
     \/ s.state = "UNUSED" /\ r.state = "EMBRYO" /\ pages' = pages /\ Lost < Failures

LEMMA ForkIs ==
  ASSUME RunInv, NEW c \in CPU, fork(c)
  PROVE  \E m, p, e, s, r : Forks(c, m, p, e, s, r)
<1>1. PICK m, p, e, isMain, joiner :
        /\ m = Me(c) /\ p = Min(UnusedSlots) /\ e = Min(UnusedEntries) /\ isMain = (My(c).tid = MAINTH)
        /\ joiner = IF isMain THEN e ELSE m
  OBVIOUS
<1>2. PICK child : child = [UnusedProc EXCEPT !.pid = nextpid, !.main = e, !.idx = e,
                     !.tid = MAINTH, !.parent = m, !.parent_proc = on[c]]
  OBVIOUS
<1>3. /\ on[c] # None /\ lk = None /\ pc[m] = "user" /\ nextpid <= MaxPid /\ UnusedSlots # {} /\ UnusedEntries # {}
      /\ nextpid' = nextpid + 1 /\ UNCHANGED <<lk, on, scan, arg, ilock, panicked>>
      /\ \/ /\ proc' = [proc EXCEPT ![p] =
                [child EXCEPT !.state = "RUNNABLE", !.killed = My(c).killed,
                   !.assign = IF isMain THEN My(c).assign ELSE 1, !.joiner = joiner]]
            /\ th' = [th EXCEPT ![e] = [allocthread(e, nextpid) EXCEPT
                        !.state = "RUNNABLE", !.tid = MAINTH, !.joiner = joiner, !.chan = None]]
            /\ pc' = [pc EXCEPT ![e] = "user"]
            /\ pages' = pages + 1
         \/ /\ Lost < Failures
            /\ proc' = [proc EXCEPT ![p] =
                 [child EXCEPT !.parent = None, !.parent_proc = None, !.assign = 1, !.joiner = e]]
            /\ th' = [th EXCEPT ![e] = allocthread(e, nextpid)]
            /\ UNCHANGED <<pc, pages>>
  BY <1>1, <1>2 DEF fork, Calls, At
<1>4. e \in Entry /\ th[e].state = "UNUSED" /\ th[e] \in TRec
  <2>1. UnusedEntries \subseteq Entry
    BY DEF UnusedEntries
  <2>2. e \in UnusedEntries
    BY <1>1, <1>3, <2>1, LeastEntry
  <2> QED BY <2>1, <2>2, Now DEF UnusedEntries
<1>5. p \in Slot /\ proc[p].state = "UNUSED"
  <2>1. UnusedSlots \subseteq Slot
    BY DEF UnusedSlots
  <2>2. p \in UnusedSlots
    BY <1>1, <1>3, <2>1, LeastSlot
  <2> QED BY <2>1, <2>2 DEF UnusedSlots
<1>6. m \in Entry /\ on[c] \in Slot /\ My(c) \in PRec /\ My(c).state # "UNUSED" /\ My(c) = proc[on[c]]
  BY <1>1, <1>3, Mine DEF My
<1>7. /\ nextpid \in 0..MaxPid /\ MAINTH \in 0..MaxTid /\ 0 \in 0..MaxTid /\ 1 \in 0..MaxTid /\ 0 \in 0..MaxPid
      /\ joiner \in Ptr /\ None \in Ptr /\ m \in Ptr /\ e \in Ptr /\ NoValue \in (0..MaxPid) \X (0..MaxTid)
      /\ None \in 0..DiskChan
  <2>1. nextpid \in 2..(MaxPid + 1)
    BY Now DEF Rest
  <2> QED BY <1>1, <1>3, <1>4, <1>6, <2>1, Sizes DEF Ptr, NoValue
<1>8. pc[e] = "user"
  BY <1>4, Now, Idle
<1>9. PICK asg : asg = IF isMain THEN My(c).assign ELSE 1
  OBVIOUS
<1>10. asg \in 0..MaxTid /\ asg # 0 /\ My(c).killed \in BOOLEAN
  BY <1>6, <1>7, <1>9, Now DEF PRec, GivenOut
<1>11. PICK a : a = allocthread(e, nextpid)
  OBVIOUS
<1>12. a \in TRec /\ a.pid = nextpid /\ a.kstack /\ a.state = "EMBRYO"
  <2>1. "EMBRYO" \in States
    BY DEF States
  <2> QED BY <1>4, <1>7, <1>11, <2>1 DEF allocthread, TRec
<1>13. child \in PRec /\ child.pid = nextpid /\ child.state = "UNUSED"
  <2>1. "UNUSED" \in States \ {"EMBRYO", "SLEEPING"}
    BY DEF States
  <2> QED BY <1>2, <1>6, <1>7, <2>1 DEF UnusedProc, PRec
<1>14. CASE /\ proc' = [proc EXCEPT ![p] =
                [child EXCEPT !.state = "RUNNABLE", !.killed = My(c).killed,
                   !.assign = IF isMain THEN My(c).assign ELSE 1, !.joiner = joiner]]
            /\ th' = [th EXCEPT ![e] = [allocthread(e, nextpid) EXCEPT
                        !.state = "RUNNABLE", !.tid = MAINTH, !.joiner = joiner, !.chan = None]]
            /\ pc' = [pc EXCEPT ![e] = "user"]
            /\ pages' = pages + 1
  <2>1. PICK s : s = [child EXCEPT !.state = "RUNNABLE", !.killed = My(c).killed, !.assign = asg, !.joiner = joiner]
    OBVIOUS
  <2>2. PICK r : r = [a EXCEPT !.state = "RUNNABLE", !.tid = MAINTH, !.joiner = joiner, !.chan = None]
    OBVIOUS
  <2>3. s \in PRec /\ s.pid = nextpid /\ s.assign # 0 /\ s.state = "RUNNABLE" /\ s.parent_proc = on[c]
    <3>1. "RUNNABLE" \in States \ {"EMBRYO", "SLEEPING"} /\ child.parent_proc = on[c]
      BY <1>2 DEF States, UnusedProc
    <3> QED BY <1>7, <1>10, <1>13, <2>1, <3>1 DEF PRec
  <2>4. r \in TRec /\ r.pid = nextpid /\ r.kstack /\ r.state = "RUNNABLE" /\ r.tid = MAINTH
    <3>1. "RUNNABLE" \in States
      BY DEF States
    <3> QED BY <1>7, <1>12, <2>2, <3>1 DEF TRec
  <2>5. proc' = [proc EXCEPT ![p] = s] /\ th' = [th EXCEPT ![e] = r] /\ pc' = pc
    BY <1>4, <1>8, <1>9, <1>11, <1>14, <2>1, <2>2, Now
  <2>6. Forks(c, m, p, e, s, r)
    BY <1>1, <1>3, <1>4, <1>5, <1>14, <2>3, <2>4, <2>5 DEF Forks
  <2> QED BY <2>6
<1>15. CASE /\ Lost < Failures
            /\ proc' = [proc EXCEPT ![p] =
                 [child EXCEPT !.parent = None, !.parent_proc = None, !.assign = 1, !.joiner = e]]
            /\ th' = [th EXCEPT ![e] = allocthread(e, nextpid)]
            /\ UNCHANGED <<pc, pages>>
  <2>1. PICK s : s = [child EXCEPT !.parent = None, !.parent_proc = None, !.assign = 1, !.joiner = e]
    OBVIOUS
  <2>2. s \in PRec /\ s.pid = nextpid /\ s.assign # 0 /\ s.state = "UNUSED" /\ s.parent_proc = None
    <3>1. PICK z : z = None
      OBVIOUS
    <3>2. s = [child EXCEPT !.parent = z, !.parent_proc = z, !.assign = 1, !.joiner = e]
      BY <2>1, <3>1
    <3>3. z \in Ptr /\ z \in Slot \cup {None} /\ e \in Ptr /\ 1 \in 0..MaxTid /\ 1 # 0
      BY <1>7, <3>1
    <3>4. s \in PRec
      BY <1>13, <3>2, <3>3 DEF PRec
    <3>5. s.pid = child.pid /\ s.assign = 1 /\ s.state = child.state /\ s.parent_proc = z
      BY <1>13, <3>2 DEF PRec
    <3> QED BY <1>13, <3>1, <3>3, <3>4, <3>5
  <2>3. Forks(c, m, p, e, s, a)
    BY <1>1, <1>3, <1>4, <1>5, <1>11, <1>12, <1>15, <2>1, <2>2 DEF Forks
  <2> QED BY <2>3
<1> QED BY <1>3, <1>14, <1>15

LEMMA ForkKeeps ==
  ASSUME RunInv, NEW c \in CPU, fork(c)
  PROVE  RunInv'
<1>1. PICK m, p, e, s, r : Forks(c, m, p, e, s, r)
  BY ForkIs
<1>2. PICK P1, T1 : P1 = proc' /\ T1 = th'
  OBVIOUS
<1> USE DEF Forks
<1>3. /\ P1 \in [Slot -> PRec] /\ P1[p] = s /\ \A q \in Slot : q # p => P1[q] = proc[q]
      /\ T1 \in [Entry -> TRec] /\ T1[e] = r /\ \A f \in Entry : f # e => T1[f] = th[f]
  BY <1>1, <1>2, Now
<1>4. /\ pc[e] = "user" /\ lk # e /\ \A f \in Entry : pc[f] = "create" => arg[f] # e
      /\ \A d \in CPU : on[d] # None => proc[on[d]].idx # e
  BY <1>1, Now, Idle
<1>5. nextpid \in 2..(MaxPid + 1) /\ nextpid <= MaxPid /\ GivenOut(proc, nextpid)
      /\ \A q \in Slot : proc[q].pid \in 0..MaxPid
  BY <1>1, Now DEF Rest, PRec
<1>6. Tables(P1, T1, on)
  <2>1. P1[p].pid # 0 /\ \A q \in Slot : q # p => P1[p].pid # proc[q].pid
    BY <1>1, <1>3, <1>5, Sizes DEF GivenOut
  <2>2. Stacks(T1)
    <3>1. Stacks(th) /\ r.pid # 0 /\ r.kstack
      BY <1>1, <1>5, Now
    <3> QED BY <1>3, <3>1 DEF Stacks
  <2>3. \A d \in CPU : on[d] # None => T1[proc[on[d]].idx] = th[proc[on[d]].idx]
    BY <1>3, <1>4, Mine DEF Me
  <2>4. proc[p].state \notin {"RUNNING", "THZOMBIE"} /\ p \in Slot
    BY <1>1
  <2> QED BY <1>3, <2>1, <2>2, <2>3, <2>4, Now, TablesSlot
<1>7. Positions(P1, T1, on, pc, arg, lk)
  <2>1. PICK D : D = {e}
    OBVIOUS
  <2>2. \A d \in CPU : on[d] # None => P1[on[d]].idx = proc[on[d]].idx /\ proc[on[d]].idx \in Entry
    <3>1. ASSUME NEW d \in CPU, on[d] # None
          PROVE  P1[on[d]].idx = proc[on[d]].idx /\ proc[on[d]].idx \in Entry
      <4>1. on[d] \in Slot /\ proc[on[d]].idx \in Entry /\ proc[on[d]].state \in {"RUNNING", "THZOMBIE"}
        BY <3>1, Mine DEF Me, My
      <4> QED BY <1>1, <1>3, <4>1
    <3> QED BY <3>1
  <2>3. /\ lk \notin D /\ \A f \in Entry : pc[f] = "create" => arg[f] \notin D
        /\ \A f \in Entry : f \notin D => T1[f] = th[f]
        /\ \A f \in Entry : pc[f] = IF f \in D THEN "user" ELSE pc[f]
    BY <1>3, <1>4, <2>1
  <2>4. Elsewhere(proc, th, on, pc, arg, lk, P1, T1, pc, D)
    BY <2>2, <2>3, Now DEF Elsewhere
  <2> QED BY <2>4, PositionsElse
<1>8. Tables(proc', th', on') /\ Positions(proc', th', on', pc', arg', lk')
  BY <1>1, <1>2, <1>6, <1>7
<1>9. GivenOut(P1, nextpid + 1) /\ nextpid + 1 \in 2..(MaxPid + 1)
  <2>1. \A q \in Slot : P1[q].pid < nextpid + 1
    BY <1>1, <1>3, <1>5, Sizes DEF GivenOut
  <2>2. \A q \in Slot : P1[q].state # "UNUSED" => P1[q].assign # 0
    BY <1>1, <1>3, <1>5 DEF GivenOut
  <2> QED BY <1>5, <2>1, <2>2, Sizes DEF GivenOut
<1>10. Rest'
  BY <1>1, <1>2, <1>9, Now DEF Rest
<1> QED BY <1>8, <1>10 DEF RunInv

LEMMA InitRun == Init => RunInv
<1> SUFFICES ASSUME Init PROVE RunInv
  OBVIOUS
<1>1. PICK s, r : /\ s = [state |-> "RUNNABLE", pid |-> 1, killed |-> FALSE, parent |-> 1,
                          parent_proc |-> init, assign |-> 1, main |-> 1, idx |-> 1,
                          tid |-> MAINTH, joiner |-> 1]
                  /\ r = [UnusedThread EXCEPT !.state = "RUNNABLE", !.pid = 1, !.tid = MAINTH,
                                              !.joiner = 1, !.kstack = TRUE]
  OBVIOUS
<1>2. /\ 0 \in 0..MaxPid /\ 0 \in 0..MaxTid /\ 1 \in 0..MaxPid /\ 1 \in 0..MaxTid /\ None \in Ptr /\ 1 \in Ptr
      /\ MAINTH \in 0..MaxTid /\ None \in 0..DiskChan /\ init \in Slot
  BY Sizes DEF Ptr
<1>3. s \in PRec /\ UnusedProc \in PRec /\ s.pid = 1 /\ s.assign = 1 /\ s.state = "RUNNABLE"
      /\ UnusedProc.pid = 0 /\ UnusedProc.state = "UNUSED"
  BY <1>1, <1>2 DEF PRec, UnusedProc, States
<1>4. r \in TRec /\ UnusedThread \in TRec /\ r.pid = 1 /\ r.kstack /\ r.state = "RUNNABLE"
      /\ UnusedThread.pid = 0 /\ UnusedThread.state = "UNUSED"
  BY <1>1, <1>2 DEF TRec, UnusedThread, States, NoValue
<1>5. /\ proc \in [Slot -> PRec] /\ \A p \in Slot : proc[p] = IF p # init THEN UnusedProc ELSE s
  BY <1>1, <1>3 DEF Init
<1>6. /\ th \in [Entry -> TRec] /\ \A e \in Entry : th[e] = IF e # 1 THEN UnusedThread ELSE r
  BY <1>1, <1>4 DEF Init
<1>7. on \in [CPU -> Slot \cup {None}] /\ \A c \in CPU : on[c] = None
  BY DEF Init
<1>8. Tables(proc, th, on)
  <2>1. Pids(proc)
    BY <1>3, <1>5 DEF Pids
  <2>2. Stacks(th)
    BY <1>4, <1>6 DEF Stacks
  <2> QED BY <1>5, <1>6, <1>7, <2>1, <2>2 DEF Tables, Typed, Alone, AllDressed
<1>9. pc \in [Entry -> Places] /\ arg \in [Entry -> 0..MaxTid \cup Entry] /\ lk = None /\ \A e \in Entry : pc[e] = "user"
  BY <1>2 DEF Init, Places, None
<1>10. Positions(proc, th, on, pc, arg, lk)
  BY <1>2, <1>7, <1>9 DEF Positions, PlacesTyped, LockOK, Joiners, Creating, Newborn
<1>11. scan \in [CPU -> Slot]
  BY <1>2 DEF Init, init
<1>12. nextpid \in 2..(MaxPid + 1)
  BY Sizes DEF Init
<1>13. GivenOut(proc, nextpid)
  BY <1>3, <1>5 DEF GivenOut, Init
<1>14. Rest
  BY <1>2, <1>11, <1>12, <1>13 DEF Rest, Init
<1> QED BY <1>8, <1>10, <1>14 DEF RunInv

LEMMA NextRun ==
  ASSUME RunInv, MainOnly, [Next]_vars
  PROVE  RunInv'
<1>1. CASE UNCHANGED vars
  BY <1>1 DEF vars, RunInv, Rest
<1>2. CASE ideintr
  BY <1>2, IdeintrKeeps
<1>3. ASSUME NEW c \in CPU, scheduler(c) \/ yield(c) \/ (on[c] # None /\ (Kernel(c) \/ User(c)))
      PROVE  RunInv'
  <2>1. \/ scheduler(c) \/ yield(c) \/ thread_create(c) \/ thread_create_end(c) \/ thread_exit(c)
        \/ thread_exit_end(c) \/ thread_exit_main(c) \/ thread_join(c) \/ thread_join_sleep(c)
        \/ kill(c) \/ fork(c) \/ exec(c) \/ exit(c) \/ exit_end(c) \/ wait(c)
        \/ acquiresleep(c) \/ iderw(c) \/ releasesleep(c)
    BY <1>3 DEF Kernel, User
  <2> QED BY <2>1, SchedulerKeeps, YieldKeeps, CreateKeeps, CreateEndKeeps, ThreadExitKeeps,
             ThreadExitEndKeeps, ExitMainKeeps, JoinKeeps, JoinSleepKeeps, KillKeeps, ForkKeeps,
             ExecKeeps, ExitKeeps, ExitEndKeeps, WaitKeeps, AcquireKeeps, IderwKeeps, ReleaseKeeps
<1> QED BY <1>1, <1>2, <1>3 DEF Next

\* What sched() and scheduler() of proc.c rest on: a processor runs a process of
\* its own, dressed as a thread of that process that is in use, no two processes
\* have one pid, whoever is between the two halves of thread_create(),
\* thread_exit() or the sleep of thread_join() holds pthread_table.lock and runs,
\* and nobody is about to finish the creation of an entry that was given back.
THEOREM RunsCorrectly == ASSUME MainOnly PROVE Spec => []RunInv
<1>1. Init => RunInv
  BY InitRun
<1>2. RunInv /\ [Next]_vars => RunInv'
  BY NextRun
<1> QED BY <1>1, <1>2, PTL DEF Spec

\* thread_join(), wait() and exec() never free the kernel stack of a thread that
\* runs, and no process runs on two processors (proc.c, deleteThread and the
\* loops of scheduler, wait and thread_join).
THEOREM OwnStack == ASSUME MainOnly PROVE Spec => []RunsOnItsStack
<1>1. RunInv => RunsOnItsStack
  <2> SUFFICES ASSUME RunInv, NEW c \in CPU, on[c] # None
               PROVE  /\ \A d \in CPU \ {c} : on[d] # on[c]
                      /\ My(c).state \in {"RUNNING", "THZOMBIE"}
                      /\ th[Me(c)].kstack /\ th[Me(c)].state # "UNUSED" /\ th[Me(c)].pid = My(c).pid
    BY DEF RunsOnItsStack
  <2>1. Alone(on)
    BY Now DEF Tables
  <2> QED BY <2>1, Mine DEF Alone
<1> QED BY <1>1, RunsCorrectly, PTL

-----------------------------------------------------------------------------
(* What the actions change, field by field.                                *)

\* sched(): thread m of processor c is left with st, and is at w when it goes on.
LEMMA SchedIs ==
  ASSUME NEW P, NEW T, NEW c, NEW m, NEW st, NEW chan, NEW w,
         SchedStep(P, T, c, m, st, chan, w)
  PROVE  /\ m \in Entry /\ on[c] \in Slot /\ P[on[c]].idx = m
         /\ T[m].state \in {"RUNNABLE", "THZOMBIE"} /\ T[m].pid # 0 /\ T[m].pid = P[on[c]].pid
         /\ P[on[c]].state \in {"RUNNING", "THZOMBIE"}
         /\ \A e \in Entry : e # m => th'[e] = T[e]
         /\ th'[m].state = st /\ th'[m].chan = chan /\ th'[m].joiner = P[on[c]].joiner
         /\ th'[m].pid = T[m].pid /\ th'[m].tid = T[m].tid
         /\ th'[m].retval = T[m].retval /\ th'[m].kstack = T[m].kstack
         /\ \A q \in Slot : q # on[c] => proc'[q] = P[q]
         /\ proc'[on[c]].pid = P[on[c]].pid /\ proc'[on[c]].killed = P[on[c]].killed
         /\ proc'[on[c]].parent = P[on[c]].parent /\ proc'[on[c]].parent_proc = P[on[c]].parent_proc
         /\ proc'[on[c]].state # "UNUSED" /\ (proc'[on[c]].state = "ZOMBIE" <=> st = "ZOMBIE")
         /\ pc'[m] = w /\ (\A e \in Entry : e # m => pc'[e] = pc[e]) /\ arg' = arg
         /\ w \notin {"create", "join_sleep"}
<1>1. Parked(P, T, m, on[c], st, chan, th') /\ Moved(P, on, c, on[c], st, proc', th', on')
  BY SchedKeeps
<1>2. Running(P, T, on, pc, arg, lk, c, m)
  BY DEF SchedStep, Running
<1>3. /\ on[c] \in Slot /\ m \in Entry /\ P[on[c]].idx = m
      /\ T[m].state \in {"RUNNABLE", "THZOMBIE"} /\ T[m].pid # 0 /\ T[m].pid = P[on[c]].pid
      /\ P[on[c]].state \in {"RUNNING", "THZOMBIE"}
  BY <1>2, RunsOn
<1>4. pc \in [Entry -> Places] /\ pc' = [pc EXCEPT ![m] = w] /\ arg' = arg /\ w \notin {"create", "join_sleep"}
  BY DEF SchedStep, Positions, PlacesTyped
<1>5. /\ proc'[on[c]].state \in IF st = "ZOMBIE" THEN {"ZOMBIE"} ELSE {"RUNNABLE", "RUNNING"}
      /\ \A q \in Slot : q # on[c] => proc'[q] = P[q]
      /\ proc'[on[c]].pid = P[on[c]].pid /\ proc'[on[c]].killed = P[on[c]].killed
      /\ proc'[on[c]].parent = P[on[c]].parent /\ proc'[on[c]].parent_proc = P[on[c]].parent_proc
  BY <1>1 DEF Moved
<1>6. proc'[on[c]].state # "UNUSED" /\ (proc'[on[c]].state = "ZOMBIE" <=> st = "ZOMBIE")
  BY <1>5
<1>7. pc'[m] = w /\ \A e \in Entry : e # m => pc'[e] = pc[e]
  BY <1>3, <1>4
<1> QED BY <1>1, <1>3, <1>4, <1>5, <1>6, <1>7 DEF Parked

\* thread_exit(): the value is kept, and the process is a zombie for now.
LEMMA ThreadExitIs ==
  ASSUME RunInv, NEW c \in CPU, thread_exit(c)
  PROVE  \E m, p, v :
           /\ m = Me(c) /\ p = on[c] /\ m \in Entry /\ p \in Slot /\ pages' = pages /\ arg' = arg
           /\ v = Value(th[m].pid, th[m].tid) /\ v \in (0..MaxPid) \X (0..MaxTid)
           /\ proc[p].state \in {"RUNNING", "THZOMBIE"}
           /\ th' = [th EXCEPT ![m] = [th[m] EXCEPT !.retval = v]]
           /\ proc' = InState(proc, p, "THZOMBIE")
           /\ pc' = [pc EXCEPT ![m] = "thread_exit"]
<1>1. /\ on[c] # None /\ th' = ExitTable(c) /\ proc' = InState(proc, on[c], "THZOMBIE")
      /\ pc' = [pc EXCEPT ![Me(c)] = "thread_exit"] /\ pages' = pages /\ arg' = arg
  BY DEF thread_exit, Calls, At, InState
<1>2. PICK m, p, v : m = Me(c) /\ p = on[c] /\ v = Value(My(c).pid, My(c).tid)
  OBVIOUS
<1>3. /\ p \in Slot /\ m \in Entry /\ My(c) \in PRec /\ th[m] \in TRec
      /\ proc[p].state \in {"RUNNING", "THZOMBIE"}
      /\ th[m].pid = My(c).pid /\ th[m].tid = My(c).tid
  BY <1>1, <1>2, Mine DEF My
<1>4. v = Value(th[m].pid, th[m].tid) /\ v \in (0..MaxPid) \X (0..MaxTid)
  BY <1>2, <1>3 DEF PRec, Value
<1>5. th' = [th EXCEPT ![m] = [th[m] EXCEPT !.retval = v]]
  BY <1>1, <1>2, <1>3, Now DEF ExitTable, TRec
<1> QED BY <1>1, <1>2, <1>3, <1>4, <1>5

\* thread_create() takes entry e for a thread tid of process p.
LEMMA CreateIs ==
  ASSUME RunInv, NEW c \in CPU, thread_create(c)
  PROVE  \E m, p, e, tid :
           /\ m = Me(c) /\ p = on[c] /\ m \in Entry /\ p \in Slot /\ e \in Entry /\ e # m
           /\ th[e].state = "UNUSED" /\ pc[e] = "user" /\ pages' = pages + 1
           /\ tid \in 0..MaxTid
           /\ proc[p].state \in {"RUNNING", "THZOMBIE"} /\ proc[p].pid = th[m].pid /\ th[m].pid # 0
           /\ th'[e].state = "EMBRYO" /\ th'[e].pid = th[m].pid /\ th'[e].kstack
           /\ \A f \in Entry : f # e => th'[f] = th[f]
           /\ proc' = [proc EXCEPT ![p].assign = tid]
           /\ pc' = [pc EXCEPT ![m] = "create"] /\ arg' = [arg EXCEPT ![m] = e]
<1>1. PICK e, tid, m, p :
         /\ e = Min(UnusedEntries) /\ tid = My(c).assign + 1 /\ m = Me(c) /\ p = on[c]
         /\ on[c] # None /\ lk = None /\ My(c).assign < MaxTid /\ UnusedEntries # {}
         /\ th' = [th EXCEPT ![e] = [allocthread(e, My(c).pid) EXCEPT !.tid = tid]]
         /\ arg' = [arg EXCEPT ![m] = e]
         /\ proc' = [proc EXCEPT ![p].assign = tid] /\ pages' = pages + 1
         /\ pc' = [pc EXCEPT ![m] = "create"]
  BY DEF thread_create, Calls, At
<1>2. e \in Entry /\ th[e].state = "UNUSED" /\ th[e] \in TRec
  <2>1. UnusedEntries \subseteq Entry
    BY DEF UnusedEntries
  <2>2. e \in UnusedEntries
    BY <1>1, <2>1, LeastEntry
  <2> QED BY <2>1, <2>2, Now DEF UnusedEntries
<1>3. /\ p \in Slot /\ m \in Entry /\ My(c) \in PRec /\ My(c) = proc[p] /\ th[m].pid = My(c).pid /\ th[m].pid # 0
      /\ My(c).state \in {"RUNNING", "THZOMBIE"} /\ e # m
  BY <1>1, <1>2, Mine DEF My
<1>4. tid \in 0..MaxTid
  <2>1. My(c).assign \in 0..MaxTid
    BY <1>3 DEF PRec
  <2> QED BY <1>1, <2>1, Sizes
<1>5. PICK r : r = [allocthread(e, My(c).pid) EXCEPT !.tid = tid]
  OBVIOUS
<1>6. r.state = "EMBRYO" /\ r.pid = My(c).pid /\ r.kstack
  BY <1>2, <1>5 DEF allocthread, TRec
<1>7. th'[e] = r /\ \A f \in Entry : f # e => th'[f] = th[f]
  BY <1>1, <1>2, <1>5, Now
<1>8. pc[e] = "user"
  BY <1>2, Now, Idle
<1>9. /\ th'[e].state = "EMBRYO" /\ th'[e].pid = th[m].pid /\ th'[e].kstack
      /\ proc[p].state \in {"RUNNING", "THZOMBIE"} /\ proc[p].pid = th[m].pid
  BY <1>3, <1>6, <1>7
<1> QED BY <1>1, <1>2, <1>3, <1>4, <1>7, <1>8, <1>9

\* thread_create() ends: entry e is to run, or is out of use again.
Created(m, e) ==
  /\ m \in Entry /\ e \in Entry /\ e # m /\ th[e].state \in {"EMBRYO", "THZOMBIE"}
  /\ pc[m] = "create" /\ pc[e] = "user"
  /\ proc' = proc /\ pages' = pages /\ pc' = [pc EXCEPT ![m] = "user"] /\ arg' = [arg EXCEPT ![m] = None]
  /\ \A f \in Entry : f # e => th'[f] = th[f]
  /\ th'[e].pid = th[e].pid /\ th'[e].kstack = th[e].kstack
  /\ th'[e].state = "RUNNABLE" \/ (th'[e].state = "UNUSED" /\ Lost < Failures)

LEMMA CreateEndIs ==
  ASSUME RunInv, NEW c \in CPU, thread_create_end(c)
  PROVE  \E m, e : Created(m, e)
<1>1. PICK m, e :
         /\ m = Me(c) /\ e = arg[m] /\ on[c] # None /\ pc[m] = "create" /\ proc' = proc /\ pages' = pages
         /\ arg' = [arg EXCEPT ![m] = None]
         /\ \/ /\ th' = [th EXCEPT ![e].state = "RUNNABLE", ![e].joiner = m]
               /\ pc' = [pc EXCEPT ![m] = "user", ![e] = "user"]
            \/ /\ th' = [th EXCEPT ![e].state = "UNUSED"] /\ Lost < Failures
               /\ pc' = [pc EXCEPT ![m] = "user"]
  BY DEF thread_create_end, At
<1>2. m \in Entry
  BY <1>1, Mine
<1>3. e \in Entry /\ e # m /\ pc[e] = "user" /\ th[e] \in TRec /\ th[e].state \in {"EMBRYO", "THZOMBIE"}
  BY <1>1, <1>2, Now DEF Positions, Creating
<1>4. pc' = [pc EXCEPT ![m] = "user"]
  BY <1>1, <1>2, <1>3, Now
<1>5. CASE th' = [th EXCEPT ![e].state = "RUNNABLE", ![e].joiner = m]
  <2>1. th'[e].state = "RUNNABLE" /\ th'[e].pid = th[e].pid /\ th'[e].kstack = th[e].kstack
    BY <1>3, <1>5, Now DEF TRec
  <2>2. \A f \in Entry : f # e => th'[f] = th[f]
    BY <1>5, Now
  <2>3. Created(m, e)
    BY <1>1, <1>2, <1>3, <1>4, <2>1, <2>2 DEF Created
  <2> QED BY <2>3
<1>6. CASE th' = [th EXCEPT ![e].state = "UNUSED"] /\ Lost < Failures
  <2>1. th'[e].state = "UNUSED" /\ th'[e].pid = th[e].pid /\ th'[e].kstack = th[e].kstack
    BY <1>3, <1>6, Now DEF TRec
  <2>2. \A f \in Entry : f # e => th'[f] = th[f]
    BY <1>6, Now
  <2>3. Created(m, e)
    BY <1>1, <1>2, <1>3, <1>4, <1>6, <2>1, <2>2 DEF Created
  <2> QED BY <2>3
<1> QED BY <1>1, <1>5, <1>6

\* thread_join() gives thread d back, gives up, or is about to sleep.
JoinReaps(m, d) ==
  /\ d \in Entry /\ d # m /\ th[d].state = "THZOMBIE" /\ pages' = pages - 1
  /\ th' = [th EXCEPT ![d] = [UnusedThread EXCEPT !.retval = th[d].retval]]
  /\ pc' = atStart({d, m}) /\ arg' = [arg EXCEPT ![m] = None]
JoinWaits(m) ==
  /\ UNCHANGED <<th, pages>> /\ pc' = [pc EXCEPT ![m] = "join_sleep"]
  /\ \A e \in Entry : e # m => arg'[e] = arg[e]
  /\ \A d \in Entry : th[d].pid = th[m].pid /\ th[d].tid = arg'[m] /\ th[d].joiner = m
                      => th[d].state # "THZOMBIE"
LEMMA JoinIs ==
  ASSUME RunInv, MainOnly, NEW c \in CPU, thread_join(c)
  PROVE  \E m :
    /\ m = Me(c) /\ m \in Entry /\ on[c] # None /\ lk = None /\ proc' = proc /\ pc[m] \in {"user", "join"}
    /\ \/ \E d : JoinReaps(m, d)
       \/ UNCHANGED <<th, pages>> /\ pc' = [pc EXCEPT ![m] = "user"] /\ arg' = [arg EXCEPT ![m] = None]
       \/ JoinWaits(m)
<1>1. PICK m : m = Me(c)
  OBVIOUS
<1>2. /\ on[c] # None /\ lk = None /\ proc' = proc /\ pc[m] \in {"user", "join"}
  BY <1>1 DEF thread_join, Calls, At
<1>3. m \in Entry /\ My(c) \in PRec /\ th[m].tid = My(c).tid /\ th[m].pid = My(c).pid
  BY <1>1, <1>2, Mine
<1>4. PICK tid \in 2..MaxTid : th[m].tid = MAINTH /\ thread_join_scan(c, tid)
  <2>1. CASE /\ Calls(c) /\ My(c).tid = MAINTH
             /\ \E tid \in 2..My(c).assign : thread_join_scan(c, tid)
    <3>1. My(c).assign \in 0..MaxTid
      BY <1>3 DEF PRec
    <3>2. \A tid \in 2..My(c).assign : tid \in 2..MaxTid
      BY <3>1, Sizes
    <3> QED BY <1>3, <2>1, <3>2
  <2>2. CASE At(c, "join") /\ thread_join_scan(c, arg[Me(c)])
    <3>1. pc[m] = "join"
      BY <1>1, <2>2 DEF At
    <3>2. th[m].tid = MAINTH /\ arg[m] \in 2..MaxTid
      BY <1>3, <3>1, Now DEF Positions, Joiners
    <3> QED BY <1>1, <2>2, <3>2
  <2> QED BY <2>1, <2>2 DEF thread_join, MainOnly
<1>5. PICK found, dead : found = Joined(c, tid) /\ dead = {e \in found : th[e].state = "THZOMBIE"}
  OBVIOUS
<1>6. CASE /\ dead # {}
           /\ th' = [th EXCEPT ![Min(dead)] = [UnusedThread EXCEPT !.retval = th[Min(dead)].retval]]
           /\ pages' = pages - 1 /\ pc' = atStart({Min(dead), m})
           /\ arg' = [arg EXCEPT ![m] = None]
  <2>1. PICK d : d = Min(dead)
    OBVIOUS
  <2>2. d \in Entry /\ th[d].tid = tid /\ th[d].state = "THZOMBIE"
    <3>1. dead \subseteq Entry
      BY <1>5 DEF Joined, ThreadsOf
    <3>2. d \in dead
      BY <1>6, <2>1, <3>1, LeastEntry
    <3> QED BY <1>5, <3>1, <3>2 DEF Joined, ThreadsOf
  <2>3. d # m
    BY <1>4, <2>2 DEF MAINTH
  <2>4. JoinReaps(m, d)
    BY <1>6, <2>1, <2>2, <2>3 DEF JoinReaps
  <2> QED BY <1>1, <1>2, <1>3, <2>4
<1>7. CASE UNCHANGED <<th, pages>> /\ pc' = [pc EXCEPT ![m] = "user"] /\ arg' = [arg EXCEPT ![m] = None]
  BY <1>1, <1>2, <1>3, <1>7
<1>8. CASE /\ dead = {} /\ UNCHANGED <<th, pages>> /\ pc' = [pc EXCEPT ![m] = "join_sleep"]
           /\ arg' = [arg EXCEPT ![m] = tid]
  <2>1. ASSUME NEW d \in Entry, th[d].pid = th[m].pid, th[d].tid = tid, th[d].joiner = m, th[d].state = "THZOMBIE"
        PROVE  FALSE
    <3>1. th[d].joiner # None /\ th[th[d].joiner].tid = My(c).tid
      BY <1>3, <2>1, Sizes
    <3>2. d \in found
      BY <1>3, <1>5, <2>1, <3>1 DEF Joined, ThreadsOf
    <3> QED BY <1>5, <1>8, <2>1, <3>2
  <2>2. arg'[m] = tid /\ \A e \in Entry : e # m => arg'[e] = arg[e]
    BY <1>3, <1>8, Now
  <2>3. \A d \in Entry : th[d].pid = th[m].pid /\ th[d].tid = arg'[m] /\ th[d].joiner = m => th[d].state # "THZOMBIE"
    BY <2>1, <2>2
  <2>4. JoinWaits(m)
    BY <1>8, <2>2, <2>3 DEF JoinWaits
  <2> QED BY <1>1, <1>2, <1>3, <2>4
<1> QED BY <1>1, <1>4, <1>5, <1>6, <1>7, <1>8 DEF thread_join_scan

-----------------------------------------------------------------------------
(* The kernel stacks, when no creation fails.                              *)

Stacked(T) == {e \in Entry : T[e].kstack}

\* Nothing is given out or back.
SameStacks ==
  /\ pages' = pages
  /\ \A e \in Entry : /\ th'[e].pid = th[e].pid /\ th'[e].kstack = th[e].kstack
                      /\ th'[e].state = "UNUSED" <=> th[e].state = "UNUSED"
  /\ \A p \in Slot : /\ proc'[p].pid = proc[p].pid
                     /\ proc[p].state # "UNUSED" => proc'[p].state # "UNUSED"

LEMMA StacksSame ==
  ASSUME StackInv, SameStacks
  PROVE  StackInv'
<1>1. {e \in Entry : th'[e].kstack} = {e \in Entry : th[e].kstack}
  BY DEF SameStacks
<1>2. pages' = Cardinality({e \in Entry : th'[e].kstack})
  BY <1>1 DEF StackInv, SameStacks
<1>3. ASSUME NEW e \in Entry
      PROVE  /\ (th'[e].kstack <=> th'[e].state # "UNUSED") /\ (th'[e].state = "UNUSED" => th'[e].pid = 0)
             /\ th'[e].state # "UNUSED" => \E p \in Slot : proc'[p].state # "UNUSED" /\ proc'[p].pid = th'[e].pid
  <2>1. /\ th'[e].pid = th[e].pid /\ th'[e].kstack = th[e].kstack
        /\ th'[e].state = "UNUSED" <=> th[e].state = "UNUSED"
    BY <1>3 DEF SameStacks
  <2>2. /\ (th[e].kstack <=> th[e].state # "UNUSED") /\ (th[e].state = "UNUSED" => th[e].pid = 0)
        /\ th[e].state # "UNUSED" => \E p \in Slot : proc[p].state # "UNUSED" /\ proc[p].pid = th[e].pid
    BY <1>3 DEF StackInv
  <2>3. th'[e].state # "UNUSED" => \E p \in Slot : proc'[p].state # "UNUSED" /\ proc'[p].pid = th'[e].pid
    BY <2>1, <2>2 DEF SameStacks
  <2> QED BY <2>1, <2>2, <2>3
<1> QED BY <1>2, <1>3 DEF StackInv

\* Entry e is given out, with a stack, to a process in use.
NewStack(e) ==
  /\ e \in Entry /\ th[e].state = "UNUSED" /\ pages' = pages + 1
  /\ th'[e].state # "UNUSED" /\ th'[e].kstack = TRUE
  /\ \A f \in Entry : f # e => th'[f] = th[f]
  /\ \E p \in Slot : proc'[p].state # "UNUSED" /\ proc'[p].pid = th'[e].pid
  /\ \A p \in Slot : proc[p].state # "UNUSED" => proc'[p].state # "UNUSED" /\ proc'[p].pid = proc[p].pid

LEMMA StacksNew ==
  ASSUME StackInv, NEW e, NewStack(e)
  PROVE  StackInv'
<1> USE DEF NewStack
<1>1. Stacked(th') = Stacked(th) \cup {e} /\ e \notin Stacked(th)
  <2>1. ~th[e].kstack
    BY DEF StackInv
  <2> QED BY <2>1 DEF Stacked
<1>2. IsFiniteSet(Stacked(th)) /\ Cardinality(Stacked(th)) = pages
  <2>1. Stacked(th) \subseteq Entry
    BY DEF Stacked
  <2> QED BY <2>1, FiniteTables, FS_Subset DEF StackInv, Stacked
<1>3. Cardinality(Stacked(th')) = pages + 1
  BY <1>1, <1>2, FS_AddElement
<1>4. ASSUME NEW f \in Entry
      PROVE  /\ (th'[f].kstack <=> th'[f].state # "UNUSED") /\ (th'[f].state = "UNUSED" => th'[f].pid = 0)
             /\ th'[f].state # "UNUSED" => \E p \in Slot : proc'[p].state # "UNUSED" /\ proc'[p].pid = th'[f].pid
  <2>1. CASE f = e
    BY <2>1
  <2>2. CASE f # e
    <3>1. /\ (th[f].kstack <=> th[f].state # "UNUSED") /\ (th[f].state = "UNUSED" => th[f].pid = 0)
          /\ th[f].state # "UNUSED" => \E p \in Slot : proc[p].state # "UNUSED" /\ proc[p].pid = th[f].pid
      BY <1>4 DEF StackInv
    <3>2. th'[f] = th[f]
      BY <1>4, <2>2
    <3>3. th[f].state # "UNUSED" => \E p \in Slot : proc'[p].state # "UNUSED" /\ proc'[p].pid = th[f].pid
      BY <3>1
    <3> QED BY <3>1, <3>2, <3>3
  <2> QED BY <2>1, <2>2
<1> QED BY <1>3, <1>4 DEF StackInv, Stacked

\* The entries of D are given back, and their stacks freed.
OldStacks(D) ==
  /\ D \subseteq Entry /\ pages' = pages - Cardinality({e \in D : th[e].kstack})
  /\ \A e \in D : th'[e].state = "UNUSED" /\ th'[e].kstack = FALSE /\ th'[e].pid = 0
  /\ \A e \in Entry : e \notin D => th'[e] = th[e]
  /\ \A e \in Entry, p \in Slot :
       e \notin D /\ th[e].state # "UNUSED" /\ proc[p].state # "UNUSED" /\ proc[p].pid = th[e].pid
       => proc'[p].state # "UNUSED" /\ proc'[p].pid = proc[p].pid

LEMMA StacksOld ==
  ASSUME StackInv, NEW D, OldStacks(D)
  PROVE  StackInv'
<1> USE DEF OldStacks
<1>1. PICK F : F = {e \in D : th[e].kstack}
  OBVIOUS
<1>2. Stacked(th') = Stacked(th) \ F /\ F \subseteq Stacked(th)
  BY <1>1 DEF Stacked
<1>3. IsFiniteSet(Stacked(th)) /\ Cardinality(Stacked(th)) = pages
  <2>1. Stacked(th) \subseteq Entry
    BY DEF Stacked
  <2> QED BY <2>1, FiniteTables, FS_Subset DEF StackInv, Stacked
<1>4. Cardinality(Stacked(th')) = pages - Cardinality(F)
  <2>1. PICK S, R : S = Stacked(th) /\ R = S \cap F
    OBVIOUS
  <2>2. R = F /\ Stacked(th') = S \ F
    BY <1>2, <2>1
  <2>3. Cardinality(S \ F) = Cardinality(S) - Cardinality(S \cap F)
    BY <1>3, <2>1, FS_Difference
  <2>4. Cardinality(S \ F) = Cardinality(S) - Cardinality(F)
    BY <2>1, <2>2, <2>3
  <2> QED BY <1>3, <2>1, <2>2, <2>4
<1>5. ASSUME NEW f \in Entry
      PROVE  /\ (th'[f].kstack <=> th'[f].state # "UNUSED") /\ (th'[f].state = "UNUSED" => th'[f].pid = 0)
             /\ th'[f].state # "UNUSED" => \E p \in Slot : proc'[p].state # "UNUSED" /\ proc'[p].pid = th'[f].pid
  <2>1. CASE f \in D
    BY <2>1
  <2>2. CASE f \notin D
    <3>1. /\ (th[f].kstack <=> th[f].state # "UNUSED") /\ (th[f].state = "UNUSED" => th[f].pid = 0)
          /\ th[f].state # "UNUSED" => \E p \in Slot : proc[p].state # "UNUSED" /\ proc[p].pid = th[f].pid
      BY <1>5 DEF StackInv
    <3>2. th'[f] = th[f]
      BY <1>5, <2>2
    <3>3. th[f].state # "UNUSED" => \E p \in Slot : proc'[p].state # "UNUSED" /\ proc'[p].pid = th[f].pid
      BY <1>5, <2>2, <3>1
    <3> QED BY <3>1, <3>2, <3>3
  <2> QED BY <2>1, <2>2
<1> QED BY <1>1, <1>4, <1>5 DEF StackInv, Stacked

LEMMA AgedStacksSame ==
  ASSUME RunInv, pages' = pages, Ages(th, th'),
         \A p \in Slot : proc'[p].pid = proc[p].pid /\ (proc[p].state # "UNUSED" => proc'[p].state # "UNUSED"),
         \A e \in Entry : th[e].state = "UNUSED" => th[e].pid = 0
  PROVE  SameStacks
<1>1. ASSUME NEW e \in Entry
      PROVE  /\ th'[e].pid = th[e].pid /\ th'[e].kstack = th[e].kstack
             /\ th'[e].state = "UNUSED" <=> th[e].state = "UNUSED"
  <2>1. SameThread(th[e], th'[e]) /\ Older(th[e], th'[e]) /\ (th[e].state = "UNUSED" => th[e].pid = 0)
    BY <1>1 DEF Ages
  <2> QED BY <2>1 DEF SameThread, Older
<1> QED BY <1>1 DEF SameStacks

LEMMA SwitchedStacks ==
  ASSUME RunInv, NEW P, NEW T, NEW c, NEW m, NEW st, NEW chan, NEW w,
         SchedStep(P, T, c, m, st, chan, w), Ages(th, T), pages' = pages,
         \A p \in Slot : P[p].pid = proc[p].pid /\ P[p].state = proc[p].state,
         \A e \in Entry : th[e].state = "UNUSED" => th[e].pid = 0
  PROVE  SameStacks
<1>1. ASSUME NEW e \in Entry
      PROVE  /\ th'[e].pid = th[e].pid /\ th'[e].kstack = th[e].kstack
             /\ th'[e].state = "UNUSED" <=> th[e].state = "UNUSED"
  <2>1. /\ T[e].pid = th[e].pid /\ T[e].kstack = th[e].kstack
        /\ T[e].state = "UNUSED" <=> th[e].state = "UNUSED"
    <3>1. SameThread(th[e], T[e]) /\ Older(th[e], T[e]) /\ (th[e].state = "UNUSED" => th[e].pid = 0)
      BY <1>1 DEF Ages
    <3> QED BY <3>1 DEF SameThread, Older
  <2>2. /\ th'[e].pid = T[e].pid /\ th'[e].kstack = T[e].kstack
        /\ th'[e].state = "UNUSED" <=> T[e].state = "UNUSED"
    <3>1. st # "UNUSED"
      BY DEF SchedStep
    <3> QED BY <1>1, <3>1, SchedIs
  <2> QED BY <2>1, <2>2
<1>2. ASSUME NEW p \in Slot
      PROVE  proc'[p].pid = proc[p].pid /\ (proc[p].state # "UNUSED" => proc'[p].state # "UNUSED")
  <2>1. P[p].pid = proc[p].pid /\ P[p].state = proc[p].state
    BY <1>2
  <2> QED BY <1>2, <2>1, SchedIs
<1> QED BY <1>1, <1>2 DEF SameStacks

-----------------------------------------------------------------------------
(* The plain actions: no thread comes or goes, none begins to wait in      *)
(* wait() or thread_join(), and no zombie is made but by kill().           *)

\* Where the threads are: a call goes on, or it is not one that is waited in.
Onward ==
  \A e \in Entry :
    \/ pc'[e] = pc[e] /\ arg'[e] = arg[e]
    \/ /\ pc'[e] \notin {"thread_exit", "join_sleep", "join", "wait"}
       /\ pc'[e] \in Exiting => pc[e] \in Exiting \/ th[e].pid # proc[init].pid
PlainProcs ==
  \A p \in Slot : /\ proc'[p].pid = proc[p].pid /\ proc'[p].parent = proc[p].parent
                  /\ proc'[p].parent_proc = proc[p].parent_proc
                  /\ proc[p].killed => proc'[p].killed
                  /\ proc'[p].state = "UNUSED" <=> proc[p].state = "UNUSED"
                  /\ proc'[p].state = "ZOMBIE" <=> proc[p].state = "ZOMBIE"
PlainThreads ==
  \A e \in Entry :
    /\ th'[e].pid = th[e].pid /\ th'[e].tid = th[e].tid
    /\ th'[e].kstack = th[e].kstack /\ th'[e].retval = th[e].retval
    /\ th[e].state # "UNUSED" => th'[e].state # "UNUSED"
    /\ th[e].pid = 0 => th'[e].state = th[e].state
    /\ th'[e].state = "THZOMBIE" =>
         (th[e].state = "THZOMBIE" /\ th'[e].joiner = th[e].joiner) \/ KilledIn(proc', th[e].pid)
    /\ th'[e].state = "SLEEPING" /\ pc'[e] \in {"join", "wait"} =>
         th[e].state = "SLEEPING" /\ th'[e].joiner = th[e].joiner /\ th'[e].chan = th[e].chan
Plain == pages' = pages /\ Onward /\ PlainProcs /\ PlainThreads

LEMMA PlainSched ==
  ASSUME RunInv, pages' = pages, NEW c, NEW m, NEW st, NEW chan, NEW w,
         SchedStep(proc, th, c, m, st, chan, w),
         st = "RUNNABLE" \/ (st = "SLEEPING" /\ w \notin {"join", "wait"}),
         w = pc[m] \/ (w \notin {"thread_exit", "join", "wait"} /\ (w \in Exiting => pc[m] \in Exiting))
  PROVE  Plain
<1>1. PICK p : p = on[c]
  OBVIOUS
<1>2. PICK P1, T1 : P1 = proc' /\ T1 = th'
  OBVIOUS
<1>3. /\ m \in Entry /\ p \in Slot
      /\ th[m].state \in {"RUNNABLE", "THZOMBIE"} /\ th[m].pid # 0 /\ proc[p].state \in {"RUNNING", "THZOMBIE"}
      /\ \A e \in Entry : e # m => T1[e] = th[e]
      /\ T1[m].state = st /\ T1[m].pid = th[m].pid /\ T1[m].tid = th[m].tid
      /\ T1[m].retval = th[m].retval /\ T1[m].kstack = th[m].kstack
      /\ \A q \in Slot : q # p => P1[q] = proc[q]
      /\ P1[p].pid = proc[p].pid /\ P1[p].killed = proc[p].killed
      /\ P1[p].parent = proc[p].parent /\ P1[p].parent_proc = proc[p].parent_proc
      /\ P1[p].state # "UNUSED" /\ (P1[p].state = "ZOMBIE" <=> st = "ZOMBIE")
      /\ pc'[m] = w /\ (\A e \in Entry : e # m => pc'[e] = pc[e]) /\ arg' = arg
      /\ w \notin {"create", "join_sleep"}
  BY <1>1, <1>2, SchedIs
<1>4. PlainProcs
  BY <1>2, <1>3 DEF PlainProcs
<1>5. Onward
  BY <1>3 DEF Onward
<1>6. ASSUME NEW e \in Entry
      PROVE  /\ T1[e].pid = th[e].pid /\ T1[e].tid = th[e].tid
             /\ T1[e].kstack = th[e].kstack /\ T1[e].retval = th[e].retval
             /\ th[e].state # "UNUSED" => T1[e].state # "UNUSED"
             /\ th[e].pid = 0 => T1[e].state = th[e].state
             /\ T1[e].state = "THZOMBIE" => th[e].state = "THZOMBIE" /\ T1[e].joiner = th[e].joiner
             /\ T1[e].state = "SLEEPING" /\ pc'[e] \in {"join", "wait"} =>
                  th[e].state = "SLEEPING" /\ T1[e].joiner = th[e].joiner /\ T1[e].chan = th[e].chan
  BY <1>3
<1>7. PlainThreads
  BY <1>2, <1>6 DEF PlainThreads
<1> QED BY <1>4, <1>5, <1>7 DEF Plain

LEMMA PlainAges ==
  ASSUME pages' = pages, Onward, PlainProcs, Ages(th, th'), SameValues(th, th'),
         \A e \in Entry : th'[e].state = "THZOMBIE" => th[e].state = "THZOMBIE" \/ KilledIn(proc', th[e].pid)
  PROVE  Plain
<1>1. ASSUME NEW e \in Entry
      PROVE  /\ th'[e].pid = th[e].pid /\ th'[e].tid = th[e].tid
             /\ th'[e].kstack = th[e].kstack /\ th'[e].retval = th[e].retval
             /\ th[e].state # "UNUSED" => th'[e].state # "UNUSED"
             /\ th[e].pid = 0 => th'[e].state = th[e].state
             /\ th'[e].state = "SLEEPING" => th[e].state = "SLEEPING"
             /\ th'[e].joiner = th[e].joiner /\ th'[e].chan = th[e].chan
  BY <1>1 DEF Ages, SameThread, Older, SameValues
<1>2. PlainThreads
  BY <1>1 DEF PlainThreads
<1> QED BY <1>2 DEF Plain

LEMMA SameProcs == ASSUME proc' = proc PROVE PlainProcs
BY DEF PlainProcs
LEMMA MarkedProcs ==
  ASSUME RunInv, NEW p \in Slot, proc' = Mark(proc, p)
  PROVE  PlainProcs /\ KilledIn(proc', proc[p].pid)
<1>1. PICK P1 : P1 = proc'
  OBVIOUS
<1>2. \A q \in Slot : /\ P1[q].state = proc[q].state /\ P1[q].pid = proc[q].pid
                      /\ P1[q].parent = proc[q].parent /\ P1[q].parent_proc = proc[q].parent_proc
                      /\ P1[q].killed = (proc[q].killed \/ q = p)
  BY <1>1, Marked
<1>3. P1[p].killed /\ P1[p].pid = proc[p].pid
  BY <1>2
<1> QED BY <1>1, <1>2, <1>3 DEF PlainProcs, KilledIn

\* A thread goes on in a call that nobody waits in.
LEMMA OneOnward ==
  ASSUME RunInv, NEW m \in Entry, NEW w, pc' = [pc EXCEPT ![m] = w],
         w \notin {"thread_exit", "join_sleep", "join", "wait"},
         w \in Exiting => pc[m] \in Exiting \/ th[m].pid # proc[init].pid,
         arg' = arg \/ arg' = [arg EXCEPT ![m] = None]
  PROVE  Onward
<1>1. pc'[m] = w /\ \A e \in Entry : e # m => pc'[e] = pc[e] /\ arg'[e] = arg[e]
  BY Now
<1> QED BY <1>1 DEF Onward

LEMMA YieldPlain == ASSUME RunInv, NEW c \in CPU, yield(c) PROVE Plain
BY YieldIs, PlainSched

LEMMA IderwPlain == ASSUME RunInv, NEW c \in CPU, iderw(c) PROVE Plain
<1>1. "held" \notin {"thread_exit", "join", "wait"} /\ "held" \notin Exiting
  BY DEF Exiting
<1> QED BY <1>1, IderwIs, PlainSched

LEMMA AcquirePlain == ASSUME RunInv, NEW c \in CPU, acquiresleep(c) PROVE Plain
<1>1. PICK m, w : /\ m = Me(c) /\ m \in Entry /\ w \in {"lock", "held", "exit_lock", "exit_held"}
                  /\ w \in Exiting => pc[m] \in Exiting
                  /\ pages' = pages
                  /\ \/ AgeStep(c, w) /\ pc' = [pc EXCEPT ![m] = w] /\ UNCHANGED <<proc, th, arg>>
                     \/ SchedStep(proc, th, c, m, "SLEEPING", LockChan, w)
  BY AcquireIs
<1>2. w \notin {"thread_exit", "join_sleep", "join", "wait"}
  BY <1>1
<1>3. CASE pc' = [pc EXCEPT ![m] = w] /\ UNCHANGED <<proc, th, arg>>
  <2>1. Onward
    BY <1>1, <1>2, <1>3, OneOnward
  <2>2. Ages(th, th') /\ SameValues(th, th')
    BY <1>3, Now, AgesSelf
  <2> QED BY <1>1, <1>3, <2>1, <2>2, SameProcs, PlainAges
<1>4. CASE SchedStep(proc, th, c, m, "SLEEPING", LockChan, w)
  BY <1>1, <1>2, <1>4, PlainSched
<1> QED BY <1>1, <1>3, <1>4

LEMMA KillPlain == ASSUME RunInv, NEW c \in CPU, kill(c) PROVE Plain
<1>1. PICK p \in Slot : /\ proc[p].pid # 0 /\ proc' = Mark(proc, p)
                        /\ th' = killed(th, proc[p].pid)
  BY DEF kill, Mark
<1>2. PICK pid : pid = proc[p].pid
  OBVIOUS
<1>3. /\ Ages(th, th') /\ SameValues(th, th')
      /\ \A e \in Entry : th'[e].state = IF th[e].pid # pid THEN th[e].state
                            ELSE IF th[e].tid = MAINTH THEN "RUNNABLE" ELSE "THZOMBIE"
  BY <1>1, <1>2, Now, KillAges
<1>4. PlainProcs /\ KilledIn(proc', pid)
  BY <1>1, <1>2, MarkedProcs
<1>5. Onward /\ pages' = pages
  BY DEF kill, Onward
<1>6. \A e \in Entry : th'[e].state = "THZOMBIE" => th[e].state = "THZOMBIE" \/ KilledIn(proc', th[e].pid)
  BY <1>3, <1>4
<1> QED BY <1>3, <1>4, <1>5, <1>6, PlainAges

LEMMA ExitMainPlain == ASSUME RunInv, NEW c \in CPU, thread_exit_main(c) PROVE Plain
<1>1. on[c] # None /\ proc' = Mark(proc, on[c])
      /\ th' = wakeup1(killed(th, My(c).pid), My(c).joiner) /\ pages' = pages /\ pc' = pc /\ arg' = arg
  BY DEF thread_exit_main, Calls, At, Mark
<1>2. on[c] \in Slot /\ My(c).pid # 0 /\ My(c).pid = proc[on[c]].pid
  BY <1>1, Mine DEF My
<1>3. PICK T1, pid, chan : pid = My(c).pid /\ chan = My(c).joiner /\ T1 = killed(th, pid)
  OBVIOUS
<1>4. /\ Ages(th, T1) /\ SameValues(th, T1) /\ T1 \in [Entry -> TRec]
      /\ \A e \in Entry : T1[e].state = IF th[e].pid # pid THEN th[e].state
                            ELSE IF th[e].tid = MAINTH THEN "RUNNABLE" ELSE "THZOMBIE"
  BY <1>2, <1>3, Now, KillAges DEF Ages
<1>5. Stacks(T1)
  BY <1>4, Now, AgedStacks
<1>6. /\ Ages(T1, th') /\ SameValues(T1, th')
      /\ \A e \in Entry : th'[e].state = IF T1[e].state = "SLEEPING" /\ T1[e].chan = chan
                                         THEN "RUNNABLE" ELSE T1[e].state
  BY <1>1, <1>3, <1>4, <1>5, WakeAges
<1>7. Ages(th, th') /\ SameValues(th, th')
  <2>1. PICK T2 : T2 = th'
    OBVIOUS
  <2> QED BY <1>4, <1>6, <2>1, AgesAgain DEF SameValues
<1>8. PlainProcs /\ KilledIn(proc', pid)
  BY <1>1, <1>2, <1>3, MarkedProcs
<1>9. \A e \in Entry : th'[e].state = "THZOMBIE" => th[e].state = "THZOMBIE" \/ KilledIn(proc', th[e].pid)
  BY <1>4, <1>6, <1>8
<1>10. Onward
  BY <1>1 DEF Onward
<1> QED BY <1>1, <1>7, <1>8, <1>9, <1>10, PlainAges

LEMMA IdeintrPlain == ASSUME RunInv, ideintr PROVE Plain
<1>1. /\ Ages(th, th') /\ SameValues(th, th')
      /\ \A e \in Entry : th'[e].state = "THZOMBIE" => th[e].state = "THZOMBIE"
  <2>1. PICK T1, chan : chan = DiskChan /\ T1 = wakeup1(th, chan)
    OBVIOUS
  <2>2. /\ Ages(th, T1) /\ SameValues(th, T1)
        /\ \A e \in Entry : T1[e].state = IF th[e].state = "SLEEPING" /\ th[e].chan = chan
                                          THEN "RUNNABLE" ELSE th[e].state
    BY <2>1, Now, WakeAges
  <2>3. th' = T1
    BY <2>1 DEF ideintr
  <2> QED BY <2>2, <2>3
<1>2. Onward /\ PlainProcs /\ pages' = pages
  BY SameProcs DEF ideintr, Onward
<1> QED BY <1>1, <1>2, PlainAges

LEMMA ReleasePlain == ASSUME RunInv, NEW c \in CPU, releasesleep(c) PROVE Plain
<1>1. on[c] # None /\ pc[Me(c)] \in {"held", "exit_held"} /\ pages' = pages /\ arg' = arg /\ proc' = proc
      /\ th' = wakeup1(th, LockChan)
      /\ pc' = [pc EXCEPT ![Me(c)] = IF @ = "held" THEN "user" ELSE "exit"]
  BY DEF releasesleep, At
<1>2. PICK T1, m, w, chan : /\ chan = LockChan /\ T1 = wakeup1(th, chan) /\ m = Me(c)
                            /\ w = IF pc[m] = "held" THEN "user" ELSE "exit"
  OBVIOUS
<1>3. /\ Ages(th, T1) /\ SameValues(th, T1)
      /\ \A e \in Entry : T1[e].state = IF th[e].state = "SLEEPING" /\ th[e].chan = chan
                                        THEN "RUNNABLE" ELSE th[e].state
  BY <1>2, Now, WakeAges
<1>4. /\ Ages(th, th') /\ SameValues(th, th')
      /\ \A e \in Entry : th'[e].state = "THZOMBIE" => th[e].state = "THZOMBIE"
  <2>1. th' = T1
    BY <1>1, <1>2
  <2> QED BY <1>3, <2>1
<1>5. m \in Entry /\ w \in {"user", "exit"} /\ (w \in Exiting => pc[m] \in Exiting)
  BY <1>1, <1>2, Mine DEF Exiting
<1>6. pc' = [pc EXCEPT ![m] = w]
  BY <1>1, <1>2, <1>5, Now
<1>7. Onward
  <2>1. w \notin {"thread_exit", "join_sleep", "join", "wait"}
    BY <1>5
  <2> QED BY <1>1, <1>5, <1>6, <2>1, OneOnward
<1> QED BY <1>1, <1>4, <1>7, SameProcs, PlainAges

LEMMA ExitPlain == ASSUME RunInv, NEW c \in CPU, exit(c) PROVE Plain
<1>1. on[c] # None /\ on[c] # init /\ pages' = pages /\ th' = th /\ arg' = arg /\ proc' = proc
      /\ pc' = [pc EXCEPT ![Me(c)] = IF on[c] \in FileUsers THEN "exit_lock" ELSE "exit"]
  BY DEF exit, At
<1>2. PICK m, w : m = Me(c) /\ w = IF on[c] \in FileUsers THEN "exit_lock" ELSE "exit"
  OBVIOUS
<1>3. m \in Entry /\ on[c] \in Slot /\ th[m].pid = proc[on[c]].pid /\ th[m].pid # 0
  BY <1>1, <1>2, Mine DEF My
<1>4. th[m].pid # proc[init].pid
  BY <1>1, <1>3, Now, Sizes DEF Pids
<1>5. Onward
  <2>1. w \notin {"thread_exit", "join_sleep", "join", "wait"} /\ pc' = [pc EXCEPT ![m] = w]
    BY <1>1, <1>2
  <2> QED BY <1>1, <1>3, <1>4, <2>1, OneOnward
<1>6. Ages(th, th') /\ SameValues(th, th')
  BY <1>1, Now, AgesSelf
<1> QED BY <1>1, <1>5, <1>6, SameProcs, PlainAges

LEMMA SchedulerPlain == ASSUME RunInv, NEW c \in CPU, scheduler(c) PROVE Plain
<1>1. pages' = pages /\ th' = th /\ pc' = pc /\ arg' = arg
  BY DEF scheduler
<1>2. Ages(th, th') /\ SameValues(th, th')
  BY <1>1, Now, AgesSelf
<1>3. PlainProcs
  <2>1. PICK p, e : p = scan[c] /\ e = Min(Runnable(th, proc[p].pid))
    OBVIOUS
  <2>2. CASE proc[p].state = "RUNNABLE" /\ Runnable(th, proc[p].pid) # {} /\ proc' = mvThreadToProc(proc, th, p, e)
    <3>1. Runnable(th, proc[p].pid) \subseteq Entry
      BY DEF Runnable, ThreadsOf
    <3>2. e \in Entry /\ p \in Slot
      BY <2>1, <2>2, <3>1, LeastEntry, Now
    <3>3. PICK P1 : P1 = mvThreadToProc(proc, th, p, e)
      OBVIOUS
    <3>4. /\ \A q \in Slot : q # p => P1[q] = proc[q]
          /\ P1[p].state = "RUNNING" /\ P1[p].pid = proc[p].pid /\ P1[p].killed = proc[p].killed
          /\ P1[p].parent = proc[p].parent /\ P1[p].parent_proc = proc[p].parent_proc
      <4>1. proc \in [Slot -> PRec] /\ th \in [Entry -> TRec]
        BY Now
      <4> QED BY <3>2, <3>3, <4>1, MvOn
    <3> QED BY <2>2, <3>3, <3>4 DEF PlainProcs
  <2>3. CASE proc' = proc
    BY <2>3, SameProcs
  <2> QED BY <2>1, <2>2, <2>3 DEF scheduler
<1>4. Onward
  BY <1>1 DEF Onward
<1> QED BY <1>1, <1>2, <1>3, <1>4, PlainAges

\* thread_join() or wait() has no point.
LEMMA QuietPlain ==
  ASSUME RunInv, NEW m \in Entry, th' = th, proc' = proc, pages' = pages, pc' = [pc EXCEPT ![m] = "user"],
         arg' = arg \/ arg' = [arg EXCEPT ![m] = None]
  PROVE  Plain
<1>1. "user" \notin {"thread_exit", "join_sleep", "join", "wait"} /\ "user" \notin Exiting
  BY DEF Exiting
<1>2. Onward
  BY <1>1, OneOnward
<1>3. Ages(th, th') /\ SameValues(th, th')
  BY Now, AgesSelf
<1> QED BY <1>2, <1>3, SameProcs, PlainAges

-----------------------------------------------------------------------------
(* Every action keeps the account of the kernel stacks.                    *)

LEMMA NoneLost ==
  ASSUME StackInv, Failures = 0
  PROVE  ~(Lost < Failures) /\ pages \in Nat
<1>1. {e \in Entry : th[e].kstack /\ th[e].state # "UNUSED"} = {e \in Entry : th[e].kstack}
  BY DEF StackInv
<1>2. PICK S : S = {e \in Entry : th[e].kstack}
  OBVIOUS
<1>3. pages = Cardinality(S) /\ Lost = pages - Cardinality(S)
  BY <1>1, <1>2 DEF StackInv, Lost
<1>4. Cardinality(S) \in Nat
  <2>1. S \subseteq Entry
    BY <1>2
  <2> QED BY <2>1, FiniteTables, FS_Subset, FS_CardinalityType
<1> QED BY <1>3, <1>4

LEMMA PlainStacks ==
  ASSUME RunInv, StackInv, Plain
  PROVE  StackInv'
<1>1. ASSUME NEW e \in Entry
      PROVE  /\ th'[e].pid = th[e].pid /\ th'[e].kstack = th[e].kstack
             /\ th'[e].state = "UNUSED" <=> th[e].state = "UNUSED"
  <2>1. th[e].state = "UNUSED" => th[e].pid = 0
    BY <1>1 DEF StackInv
  <2> QED BY <1>1, <2>1 DEF Plain, PlainThreads
<1>2. ASSUME NEW p \in Slot
      PROVE  proc'[p].pid = proc[p].pid /\ (proc[p].state # "UNUSED" => proc'[p].state # "UNUSED")
  BY <1>2 DEF Plain, PlainProcs
<1>3. SameStacks
  BY <1>1, <1>2 DEF SameStacks, Plain
<1> QED BY <1>3, StacksSame

\* The process of the thread that runs is in use.
LEMMA MyProcess ==
  ASSUME RunInv, NEW c \in CPU, on[c] # None
  PROVE  /\ on[c] \in Slot /\ proc[on[c]].state \notin {"UNUSED", "ZOMBIE"} /\ proc[on[c]].pid # 0
         /\ proc[on[c]].pid = th[Me(c)].pid
  BY Mine DEF My

LEMMA CreateStacks ==
  ASSUME RunInv, StackInv, NEW c \in CPU, thread_create(c)
  PROVE  StackInv'
<1>1. PICK m, p, e, tid :
           /\ m = Me(c) /\ p = on[c] /\ m \in Entry /\ p \in Slot /\ e \in Entry /\ e # m
           /\ th[e].state = "UNUSED" /\ pc[e] = "user" /\ pages' = pages + 1
           /\ tid \in 0..MaxTid
           /\ proc[p].state \in {"RUNNING", "THZOMBIE"} /\ proc[p].pid = th[m].pid /\ th[m].pid # 0
           /\ th'[e].state = "EMBRYO" /\ th'[e].pid = th[m].pid /\ th'[e].kstack
           /\ \A f \in Entry : f # e => th'[f] = th[f]
           /\ proc' = [proc EXCEPT ![p].assign = tid]
           /\ pc' = [pc EXCEPT ![m] = "create"] /\ arg' = [arg EXCEPT ![m] = e]
  BY CreateIs
<1>2. PICK P1 : P1 = proc'
  OBVIOUS
<1>3. \A q \in Slot : P1[q].state = proc[q].state /\ P1[q].pid = proc[q].pid
  <2>1. proc \in [Slot -> PRec] /\ proc[p] \in PRec
    BY <1>1, Now
  <2> QED BY <1>1, <1>2, <2>1 DEF PRec
<1>4. P1[p].state # "UNUSED" /\ P1[p].pid = th'[e].pid
  BY <1>1, <1>3
<1>5. th'[e].kstack = TRUE
  BY <1>1
<1>6. NewStack(e)
  BY <1>1, <1>2, <1>3, <1>4, <1>5 DEF NewStack
<1> QED BY <1>6, StacksNew

LEMMA CreateEndStacks ==
  ASSUME RunInv, StackInv, Failures = 0, NEW c \in CPU, thread_create_end(c)
  PROVE  StackInv'
<1>1. PICK m, e : Created(m, e)
  BY CreateEndIs
<1>2. /\ e \in Entry /\ th[e].state # "UNUSED" /\ proc' = proc /\ pages' = pages
      /\ \A f \in Entry : f # e => th'[f] = th[f]
      /\ th'[e].pid = th[e].pid /\ th'[e].kstack = th[e].kstack /\ th'[e].state = "RUNNABLE"
  BY <1>1, NoneLost DEF Created
<1>3. SameStacks
  BY <1>2 DEF SameStacks
<1> QED BY <1>3, StacksSame

LEMMA ThreadExitStacks ==
  ASSUME RunInv, StackInv, NEW c \in CPU, thread_exit(c)
  PROVE  StackInv'
<1>1. PICK m, p, v :
           /\ m = Me(c) /\ p = on[c] /\ m \in Entry /\ p \in Slot /\ pages' = pages /\ arg' = arg
           /\ v = Value(th[m].pid, th[m].tid) /\ v \in (0..MaxPid) \X (0..MaxTid)
           /\ proc[p].state \in {"RUNNING", "THZOMBIE"}
           /\ th' = [th EXCEPT ![m] = [th[m] EXCEPT !.retval = v]]
           /\ proc' = InState(proc, p, "THZOMBIE")
           /\ pc' = [pc EXCEPT ![m] = "thread_exit"]
  BY ThreadExitIs
<1>2. PICK P1, T1 : P1 = proc' /\ T1 = th'
  OBVIOUS
<1>3. \A q \in Slot : P1[q].pid = proc[q].pid /\ (proc[q].state # "UNUSED" => P1[q].state # "UNUSED")
  <2>1. proc \in [Slot -> PRec] /\ proc[p] \in PRec
    BY <1>1, Now
  <2> QED BY <1>1, <1>2, <2>1 DEF PRec, InState
<1>4. \A e \in Entry : T1[e].pid = th[e].pid /\ T1[e].kstack = th[e].kstack /\ T1[e].state = th[e].state
  <2>1. th \in [Entry -> TRec] /\ th[m] \in TRec
    BY <1>1, Now
  <2> QED BY <1>1, <1>2, <2>1 DEF TRec
<1>5. SameStacks
  BY <1>1, <1>2, <1>3, <1>4 DEF SameStacks
<1> QED BY <1>5, StacksSame

LEMMA UnusedPids == StackInv => \A e \in Entry : th[e].state = "UNUSED" => th[e].pid = 0
BY DEF StackInv

LEMMA ThreadExitEndStacks ==
  ASSUME RunInv, StackInv, NEW c \in CPU, thread_exit_end(c)
  PROVE  StackInv'
<1>1. PICK m, T : /\ m = Me(c) /\ T = wakeup1(th, My(c).joiner) /\ on[c] # None /\ lk = m /\ pages' = pages
                  /\ pc[m] = "thread_exit"
                  /\ SchedStep(proc, T, c, m, "THZOMBIE", None, "thread_exit")
  BY ThreadExitEndIs
<1>2. Ages(th, T)
  BY <1>1, Now, WakeAges
<1>3. SameStacks
  BY <1>1, <1>2, UnusedPids, SwitchedStacks
<1> QED BY <1>3, StacksSame

LEMMA SleepStacks ==
  ASSUME RunInv, StackInv, pages' = pages, NEW c, NEW m, NEW chan, NEW w,
         SchedStep(proc, th, c, m, "SLEEPING", chan, w)
  PROVE  StackInv'
<1>1. Ages(th, th)
  BY Now, AgesSelf
<1>2. SameStacks
  BY <1>1, UnusedPids, SwitchedStacks
<1> QED BY <1>2, StacksSame

LEMMA ExitEndStacks ==
  ASSUME RunInv, StackInv, NEW c \in CPU, exit_end(c)
  PROVE  StackInv'
<1>1. PICK T2, T3, P1 :
           /\ on[c] # None /\ pages' = pages /\ P1 = Adopted(proc, on[c])
           /\ Ages(th, T3) /\ SchedStep(P1, T3, c, Me(c), "ZOMBIE", None, "exit")
  BY ExitTables
<1>2. \A p \in Slot : P1[p].pid = proc[p].pid /\ P1[p].state = proc[p].state
  BY <1>1, MyProcess, AdoptedIs
<1>3. SameStacks
  BY <1>1, <1>2, UnusedPids, SwitchedStacks
<1> QED BY <1>3, StacksSame

LEMMA JoinReapsStacks ==
  ASSUME RunInv, StackInv, NEW m, NEW d, JoinReaps(m, d), proc' = proc
  PROVE  StackInv'
<1>1. d \in Entry /\ th[d].state = "THZOMBIE" /\ pages' = pages - 1
      /\ th' = [th EXCEPT ![d] = [UnusedThread EXCEPT !.retval = th[d].retval]]
  BY DEF JoinReaps
<1>2. {e \in {d} : th[e].kstack} = {d}
  BY <1>1 DEF StackInv
<1>3. Cardinality({e \in {d} : th[e].kstack}) = 1
  BY <1>2, FS_Singleton
<1>4. /\ th'[d].state = "UNUSED" /\ th'[d].kstack = FALSE /\ th'[d].pid = 0
      /\ \A e \in Entry : e # d => th'[e] = th[e]
  BY <1>1, Now DEF UnusedThread
<1>5. PICK D : D = {d}
  OBVIOUS
<1>6. OldStacks(D)
  BY <1>1, <1>3, <1>4, <1>5 DEF OldStacks
<1> QED BY <1>6, StacksOld

LEMMA JoinStacks ==
  ASSUME RunInv, MainOnly, StackInv, NEW c \in CPU, thread_join(c)
  PROVE  StackInv'
<1>1. PICK m :
    /\ m = Me(c) /\ m \in Entry /\ on[c] # None /\ lk = None /\ proc' = proc /\ pc[m] \in {"user", "join"}
    /\ \/ \E d : JoinReaps(m, d)
       \/ UNCHANGED <<th, pages>> /\ pc' = [pc EXCEPT ![m] = "user"] /\ arg' = [arg EXCEPT ![m] = None]
       \/ JoinWaits(m)
  BY JoinIs
<1>2. CASE \E d : JoinReaps(m, d)
  BY <1>1, <1>2, JoinReapsStacks
<1>3. CASE UNCHANGED <<th, pages>>
  <2>1. SameStacks
    BY <1>1, <1>3 DEF SameStacks
  <2> QED BY <2>1, StacksSame
<1> QED BY <1>1, <1>2, <1>3 DEF JoinWaits

LEMMA ForkStacks ==
  ASSUME RunInv, StackInv, Failures = 0, NEW c \in CPU, fork(c)
  PROVE  StackInv'
<1>1. PICK m, p, e, s, r : Forks(c, m, p, e, s, r)
  BY ForkIs
<1>2. /\ p \in Slot /\ proc[p].state = "UNUSED" /\ e \in Entry /\ th[e].state = "UNUSED"
      /\ proc' = [proc EXCEPT ![p] = s] /\ th' = [th EXCEPT ![e] = r]
      /\ s.pid = r.pid /\ s.state = "RUNNABLE" /\ r.kstack /\ r.state = "RUNNABLE" /\ pages' = pages + 1
  BY <1>1, NoneLost DEF Forks
<1>3. th'[e] = r /\ proc'[p] = s /\ (\A f \in Entry : f # e => th'[f] = th[f]) /\ \A q \in Slot : q # p => proc'[q] = proc[q]
  BY <1>2, Now
<1>4. proc'[p].state # "UNUSED" /\ proc'[p].pid = th'[e].pid /\ th'[e].state # "UNUSED" /\ th'[e].kstack
  BY <1>2, <1>3
<1>5. th'[e].kstack = TRUE
  BY <1>4
<1>6. \A q \in Slot : proc[q].state # "UNUSED" => proc'[q].state # "UNUSED" /\ proc'[q].pid = proc[q].pid
  BY <1>2, <1>3
<1>7. NewStack(e)
  BY <1>2, <1>3, <1>4, <1>5, <1>6 DEF NewStack
<1> QED BY <1>7, StacksNew

\* The entries that exec() and wait() give back.
LEMMA DeletedOld ==
  ASSUME RunInv, NEW D, D \subseteq Entry, th' = deleted(th, D),
         pages' = pages - Cardinality({e \in D : th[e].kstack}),
         \A e \in Entry, p \in Slot :
           e \notin D /\ th[e].state # "UNUSED" /\ proc[p].state # "UNUSED" /\ proc[p].pid = th[e].pid
           => proc'[p].state # "UNUSED" /\ proc'[p].pid = proc[p].pid
  PROVE  OldStacks(D)
<1>1. \A e \in Entry : th'[e] = IF e \in D THEN UnusedThread ELSE th[e]
  <2>1. PICK T1 : T1 = deleted(th, D)
    OBVIOUS
  <2>2. \A e \in Entry : T1[e] = IF e \in D THEN UnusedThread ELSE th[e]
    BY <2>1, Now, DeletedIs
  <2> QED BY <2>1, <2>2
<1>2. UnusedThread.state = "UNUSED" /\ UnusedThread.kstack = FALSE /\ UnusedThread.pid = 0
  BY DEF UnusedThread
<1>3. /\ \A e \in D : th'[e].state = "UNUSED" /\ th'[e].kstack = FALSE /\ th'[e].pid = 0
      /\ \A e \in Entry : e \notin D => th'[e] = th[e]
  BY <1>1, <1>2
<1> QED BY <1>3 DEF OldStacks

LEMMA ExecStacks ==
  ASSUME RunInv, MainOnly, StackInv, NEW c \in CPU, exec(c)
  PROVE  StackInv'
<1>0. PICK m, p, others : Execs(c, m, p, others)
  BY ExecIs
<1>1. /\ m = Me(c) /\ p = on[c] /\ on[c] # None /\ My(c).tid = MAINTH /\ others = Others(c)
      /\ th' = deleted(th, others) /\ proc' = ExecProc(proc, p, m, others)
      /\ pages' = pages - Cardinality({e \in others : th[e].kstack})
  BY <1>0 DEF Execs
<1>2. PICK P1 : P1 = proc'
  OBVIOUS
<1>3. p \in Slot /\ m \in Entry /\ proc[p].tid = MAINTH /\ proc[p].state # "UNUSED"
  BY <1>1, Mine DEF My
<1>4. \A q \in Slot : P1[q].pid = proc[q].pid /\ P1[q].state = proc[q].state
  BY <1>1, <1>2, <1>3, ExecProcIs
<1>5. others \subseteq Entry
  BY <1>1 DEF Others, ThreadsOf
<1>6. OldStacks(others)
  BY <1>1, <1>2, <1>4, <1>5, DeletedOld
<1> QED BY <1>6, StacksOld

LEMMA ReapsStacks ==
  ASSUME RunInv, StackInv, NEW c, NEW m, NEW p, NEW D, Reaps(c, m, p, D)
  PROVE  StackInv'
<1>1. /\ p \in Slot /\ D = ThreadsOf(th, proc[p].pid) /\ th' = deleted(th, D)
      /\ pages' = pages - Cardinality({e \in D : th[e].kstack})
      /\ proc' = [proc EXCEPT ![p] = UnusedProc]
  BY DEF Reaps
<1>2. D \subseteq Entry /\ \A e \in Entry : e \notin D => th[e].pid # proc[p].pid
  BY <1>1 DEF ThreadsOf
<1>3. \A q \in Slot : q # p => proc'[q] = proc[q]
  BY <1>1, Now
<1>4. \A e \in Entry, q \in Slot :
        e \notin D /\ th[e].state # "UNUSED" /\ proc[q].state # "UNUSED" /\ proc[q].pid = th[e].pid
        => proc'[q].state # "UNUSED" /\ proc'[q].pid = proc[q].pid
  BY <1>2, <1>3
<1>5. OldStacks(D)
  BY <1>1, <1>2, <1>4, DeletedOld
<1> QED BY <1>5, StacksOld

LEMMA WaitStacks ==
  ASSUME RunInv, StackInv, NEW c \in CPU, wait(c)
  PROVE  StackInv'
<1>1. PICK m :
           /\ m = Me(c) /\ on[c] # None
           /\ \/ \E p, D : Reaps(c, m, p, D)
              \/ UNCHANGED <<proc, th, pages>>
              \/ SchedStep(proc, th, c, m, "SLEEPING", m, "wait") /\ pages' = pages
  BY WaitIs
<1>2. CASE UNCHANGED <<proc, th, pages>>
  <2>1. SameStacks
    BY <1>2 DEF SameStacks
  <2> QED BY <2>1, StacksSame
<1> QED BY <1>1, <1>2, ReapsStacks, SleepStacks

LEMMA JoinSleepStacks ==
  ASSUME RunInv, StackInv, NEW c \in CPU, thread_join_sleep(c)
  PROVE  StackInv'
BY JoinSleepIs, SleepStacks

LEMMA InitStacks == Init => StackInv
<1> SUFFICES ASSUME Init PROVE StackInv
  OBVIOUS
<1>1. PICK r, s : /\ r = [UnusedThread EXCEPT !.state = "RUNNABLE", !.pid = 1, !.tid = MAINTH,
                                              !.joiner = 1, !.kstack = TRUE]
                  /\ s = [state |-> "RUNNABLE", pid |-> 1, killed |-> FALSE, parent |-> 1,
                          parent_proc |-> init, assign |-> 1, main |-> 1, idx |-> 1,
                          tid |-> MAINTH, joiner |-> 1]
  OBVIOUS
<1>2. r.state = "RUNNABLE" /\ r.pid = 1 /\ r.kstack = TRUE
  BY <1>1 DEF UnusedThread
<1>3. UnusedThread.state = "UNUSED" /\ UnusedThread.pid = 0 /\ UnusedThread.kstack = FALSE
  BY DEF UnusedThread
<1>4. \A e \in Entry : th[e] = IF e # 1 THEN UnusedThread ELSE r
  BY <1>1 DEF Init
<1>5. {e \in Entry : th[e].kstack} = {1}
  BY <1>2, <1>3, <1>4, Sizes
<1>6. pages = Cardinality({e \in Entry : th[e].kstack})
  BY <1>5, FS_Singleton DEF Init
<1>7. init \in Slot /\ proc[init].state # "UNUSED" /\ proc[init].pid = 1
  BY <1>1, Sizes DEF Init
<1>8. ASSUME NEW e \in Entry
      PROVE  /\ (th[e].kstack <=> th[e].state # "UNUSED") /\ (th[e].state = "UNUSED" => th[e].pid = 0)
             /\ th[e].state # "UNUSED" => \E p \in Slot : proc[p].state # "UNUSED" /\ proc[p].pid = th[e].pid
  <2>1. CASE e = 1
    <3>1. th[e].state = "RUNNABLE" /\ th[e].pid = 1 /\ th[e].kstack = TRUE
      BY <1>2, <1>4, <2>1
    <3> QED BY <1>7, <3>1
  <2>2. CASE e # 1
    <3>1. th[e].state = "UNUSED" /\ th[e].pid = 0 /\ th[e].kstack = FALSE
      BY <1>3, <1>4, <2>2
    <3> QED BY <3>1
  <2> QED BY <2>1, <2>2
<1> QED BY <1>6, <1>8 DEF StackInv

\* The actions of one processor, the plain ones first.
PlainOf(c) ==
  \/ scheduler(c) \/ yield(c) \/ thread_exit_main(c) \/ kill(c) \/ exit(c)
  \/ acquiresleep(c) \/ iderw(c) \/ releasesleep(c)
ThreadsOn(c) ==
  \/ thread_create(c) \/ thread_create_end(c) \/ thread_exit(c) \/ thread_exit_end(c)
  \/ thread_join(c) \/ thread_join_sleep(c)
ProcsOn(c) == fork(c) \/ exec(c) \/ exit_end(c) \/ wait(c)

LEMMA Actions ==
  Next => ideintr \/ \E c \in CPU : PlainOf(c) \/ ThreadsOn(c) \/ ProcsOn(c)
<1>1. ASSUME NEW c \in CPU, Kernel(c) \/ User(c)
      PROVE  PlainOf(c) \/ ThreadsOn(c) \/ ProcsOn(c)
  BY <1>1 DEF Kernel, User, PlainOf, ThreadsOn, ProcsOn
<1>2. ASSUME NEW c \in CPU, scheduler(c) \/ yield(c)
      PROVE  PlainOf(c)
  BY <1>2 DEF PlainOf
<1> QED BY <1>1, <1>2 DEF Next

LEMMA PlainIs ==
  ASSUME RunInv, ideintr \/ \E c \in CPU : PlainOf(c)
  PROVE  Plain
BY SchedulerPlain, YieldPlain, ExitMainPlain, KillPlain, ExitPlain, AcquirePlain, IderwPlain,
   ReleasePlain, IdeintrPlain DEF PlainOf

LEMMA NextStacks ==
  ASSUME RunInv, MainOnly, Failures = 0, StackInv, [Next]_vars
  PROVE  StackInv'
<1>1. CASE UNCHANGED vars
  BY <1>1 DEF vars, StackInv
<1>2. CASE ideintr
  BY <1>2, PlainIs, PlainStacks
<1>3. ASSUME NEW c \in CPU, PlainOf(c)
      PROVE  StackInv'
  BY <1>3, PlainIs, PlainStacks
<1>4. ASSUME NEW c \in CPU, ThreadsOn(c)
      PROVE  StackInv'
  BY <1>4, CreateStacks, CreateEndStacks, ThreadExitStacks, ThreadExitEndStacks, JoinStacks,
     JoinSleepStacks DEF ThreadsOn
<1>5. ASSUME NEW c \in CPU, ProcsOn(c)
      PROVE  StackInv'
  BY <1>5, ForkStacks, ExecStacks, ExitEndStacks, WaitStacks DEF ProcsOn
<1> QED BY <1>1, <1>2, <1>3, <1>4, <1>5, Actions

LEMMA SpecStacks == ASSUME MainOnly, Failures = 0 PROVE Spec => []StackInv
<1>1. Init => StackInv
  BY InitStacks
<1>2. RunInv /\ StackInv /\ [Next]_vars => StackInv'
  BY NextStacks
<1> QED BY <1>1, <1>2, RunsCorrectly, PTL DEF Spec

\* While no creation fails, thread_join(), wait() and exec() give back each kernel
\* stack that allocthread() took once and forget none (proc.c, deleteThread and
\* the loops of wait and thread_join), and no entry outlives its process.
THEOREM StacksCounted == ASSUME MainOnly, Failures = 0 PROVE Spec => []StacksAccounted
<1>1. StackInv => StacksAccounted
  BY DEF StackInv, StacksAccounted
<1> QED BY <1>1, SpecStacks, PTL

\* The fields of both tables keep to their types, the number of kernel stacks
\* among them: none is freed that was not allocated.
THEOREM TypesCorrect == ASSUME MainOnly, Failures = 0 PROVE Spec => []TypeOK
<1>1. ASSUME RunInv, StackInv
      PROVE  TypeOK
  <2>1. ASSUME NEW p \in Slot
        PROVE  /\ proc[p].state \in States \ {"EMBRYO", "SLEEPING"}
               /\ proc[p].pid \in 0..MaxPid /\ proc[p].killed \in BOOLEAN
               /\ proc[p].parent_proc \in Slot \cup {None}
               /\ proc[p].assign \in 0..MaxTid /\ proc[p].tid \in 0..MaxTid
               /\ {proc[p].parent, proc[p].main, proc[p].idx, proc[p].joiner} \subseteq Entry \cup {None}
    <3>1. proc[p] \in PRec
      BY <1>1, Now
    <3> QED BY <3>1 DEF PRec, Ptr
  <2>2. ASSUME NEW e \in Entry
        PROVE  /\ th[e].state \in States /\ th[e].pid \in 0..MaxPid /\ th[e].tid \in 0..MaxTid
               /\ th[e].joiner \in Entry \cup {None} /\ th[e].chan \in 0..DiskChan
               /\ th[e].retval \in (0..MaxPid) \X (0..MaxTid) /\ th[e].kstack \in BOOLEAN
               /\ pc[e] \in Places /\ arg[e] \in 0..MaxTid \cup Entry
    <3>1. th[e] \in TRec /\ pc[e] \in Places /\ arg[e] \in 0..MaxTid \cup Entry
      BY <1>1, Now
    <3> QED BY <3>1 DEF TRec, Ptr
  <2>3. {lk, ilock} \subseteq Entry \cup {None} /\ on \in [CPU -> Slot \cup {None}] /\ scan \in [CPU -> Slot]
        /\ nextpid \in 2..(MaxPid + 1) /\ panicked \in BOOLEAN
    BY <1>1, Now DEF Rest, Ptr
  <2>4. pages \in Nat
    <3>1. Stacked(th) \subseteq Entry /\ pages = Cardinality(Stacked(th))
      BY <1>1 DEF StackInv, Stacked
    <3> QED BY <3>1, FiniteTables, FS_Subset, FS_CardinalityType
  <2> QED BY <2>1, <2>2, <2>3, <2>4 DEF TypeOK
<1> QED BY <1>1, SpecStacks, RunsCorrectly, PTL

-----------------------------------------------------------------------------
(* Nobody sleeps in wait() with a dead child.                              *)

AsleepInWait(e) == th[e].state = "SLEEPING" /\ pc[e] = "wait"

\* Nobody begins to sleep in wait(), and a zombie is new only to those awake.
WaitersStay ==
  /\ \A e \in Entry : AsleepInWait(e)' => AsleepInWait(e) /\ th'[e].chan = th[e].chan
  /\ \A e \in Entry : pc'[e] \in Exiting =>
       (pc[e] \in Exiting /\ th'[e].pid = th[e].pid) \/ th'[e].pid # proc[init].pid
  /\ \A p \in Slot : proc'[p].parent_proc \in {proc[p].parent_proc, init} \/ proc'[p].parent_proc # p
  /\ proc'[init].pid = proc[init].pid /\ proc'[init].state \notin {"UNUSED", "ZOMBIE"}
  /\ \A p \in Slot : proc'[p].state = "ZOMBIE" =>
       \/ proc[p].state = "ZOMBIE" /\ proc'[p].parent = proc[p].parent
       \/ \A e \in Entry : proc'[p].parent = e => ~AsleepInWait(e)'

LEMMA WaitersKept ==
  ASSUME WaitInv, WaitersStay
  PROVE  WaitInv'
<1>1. /\ \A e \in Entry : AsleepInWait(e) => th[e].chan = e
      /\ \A p \in Slot : p # init => proc[p].parent_proc # p
      /\ proc[init].pid = 1 /\ proc[init].state \notin {"UNUSED", "ZOMBIE"}
      /\ \A e \in Entry : pc[e] \in Exiting => th[e].pid # 1
      /\ \A e \in Entry : AsleepInWait(e) => \A p \in Slot : proc[p].state = "ZOMBIE" => proc[p].parent # e
  BY DEF WaitInv, AsleepInWait, NoLostWait
<1>2. \A e \in Entry : AsleepInWait(e)' => th'[e].chan = e
  BY <1>1 DEF WaitersStay
<1>3. \A p \in Slot : p # init => proc'[p].parent_proc # p
  BY <1>1 DEF WaitersStay
<1>4. proc'[init].pid = 1 /\ proc'[init].state \notin {"UNUSED", "ZOMBIE"}
  BY <1>1 DEF WaitersStay
<1>5. \A e \in Entry : pc'[e] \in Exiting => th'[e].pid # 1
  BY <1>1 DEF WaitersStay
<1>6. ASSUME NEW e \in Entry, AsleepInWait(e)', NEW p \in Slot, proc'[p].state = "ZOMBIE"
      PROVE  proc'[p].parent # e
  <2>1. AsleepInWait(e)
    BY <1>6 DEF WaitersStay
  <2>2. \/ proc[p].state = "ZOMBIE" /\ proc'[p].parent = proc[p].parent
        \/ proc'[p].parent # e
    BY <1>6 DEF WaitersStay
  <2> QED BY <1>1, <2>1, <2>2
<1>7. NoLostWait'
  BY <1>6 DEF NoLostWait, AsleepInWait
<1> QED BY <1>2, <1>3, <1>4, <1>5, <1>7 DEF WaitInv, AsleepInWait

LEMMA PlainWaiters ==
  ASSUME RunInv, WaitInv, Plain
  PROVE  WaitersStay
<1>1. \A e \in Entry : AsleepInWait(e)' => AsleepInWait(e) /\ th'[e].chan = th[e].chan
  BY DEF Plain, PlainThreads, Onward, AsleepInWait
<1>2. \A e \in Entry : pc'[e] \in Exiting =>
        (pc[e] \in Exiting /\ th'[e].pid = th[e].pid) \/ th'[e].pid # proc[init].pid
  BY DEF Plain, PlainThreads, Onward
<1>3. \A p \in Slot : /\ proc'[p].parent_proc = proc[p].parent_proc
                      /\ proc'[p].state = "ZOMBIE" => proc[p].state = "ZOMBIE" /\ proc'[p].parent = proc[p].parent
  BY DEF Plain, PlainProcs
<1>4. proc'[init].pid = proc[init].pid /\ proc'[init].state \notin {"UNUSED", "ZOMBIE"}
  BY Sizes DEF Plain, PlainProcs, WaitInv
<1> QED BY <1>1, <1>2, <1>3, <1>4 DEF WaitersStay

\* The table of processes is as it was but for fields that wait() does not read.
SameKin ==
  \A p \in Slot : /\ proc'[p].pid = proc[p].pid /\ proc'[p].parent_proc = proc[p].parent_proc
                  /\ proc'[p].parent = proc[p].parent
                  /\ proc'[p].state = "ZOMBIE" => proc[p].state = "ZOMBIE"
                  /\ proc[p].state # "UNUSED" => proc'[p].state # "UNUSED"
LEMMA KinWaiters ==
  ASSUME WaitInv, SameKin,
         \A e \in Entry : AsleepInWait(e)' => AsleepInWait(e) /\ th'[e].chan = th[e].chan,
         \A e \in Entry : pc'[e] \in Exiting => pc[e] \in Exiting /\ th'[e].pid = th[e].pid
  PROVE  WaitersStay
BY Sizes DEF WaitersStay, SameKin, WaitInv

LEMMA SwitchedWaiters ==
  ASSUME RunInv, WaitInv, NEW T, NEW c, NEW m, NEW st, NEW chan, NEW w,
         SchedStep(proc, T, c, m, st, chan, w), Ages(th, T),
         st # "ZOMBIE", w # "wait", w \notin Exiting
  PROVE  WaitersStay
<1>1. PICK p, P1, T1 : p = on[c] /\ P1 = proc' /\ T1 = th'
  OBVIOUS
<1>2. /\ m \in Entry /\ p \in Slot /\ proc[p].state \in {"RUNNING", "THZOMBIE"}
      /\ \A e \in Entry : e # m => T1[e] = T[e]
      /\ \A q \in Slot : q # p => P1[q] = proc[q]
      /\ P1[p].pid = proc[p].pid /\ P1[p].parent = proc[p].parent /\ P1[p].parent_proc = proc[p].parent_proc
      /\ P1[p].state # "UNUSED" /\ P1[p].state # "ZOMBIE"
      /\ pc'[m] = w /\ (\A e \in Entry : e # m => pc'[e] = pc[e])
  BY <1>1, SchedIs
<1>3. SameKin
  BY <1>1, <1>2 DEF SameKin
<1>4. ASSUME NEW e \in Entry, e # m
      PROVE  /\ th'[e].pid = th[e].pid /\ th'[e].chan = th[e].chan /\ pc'[e] = pc[e]
             /\ th'[e].state = "SLEEPING" => th[e].state = "SLEEPING"
  <2>1. SameThread(th[e], T[e]) /\ Older(th[e], T[e])
    BY <1>4 DEF Ages
  <2> QED BY <1>1, <1>2, <1>4, <2>1 DEF SameThread, Older
<1>5. \A e \in Entry : AsleepInWait(e)' => AsleepInWait(e) /\ th'[e].chan = th[e].chan
  BY <1>2, <1>4 DEF AsleepInWait
<1>6. \A e \in Entry : pc'[e] \in Exiting => pc[e] \in Exiting /\ th'[e].pid = th[e].pid
  BY <1>2, <1>4
<1> QED BY <1>3, <1>5, <1>6, KinWaiters

\* Entries that no call waits in change; a thread m goes on elsewhere.
LEMMA ElseWaiters ==
  ASSUME WaitInv, SameKin,
         \A e \in Entry : pc'[e] \in {"user", "create", "thread_exit", "join_sleep"}
                          \/ (th'[e] = th[e] /\ pc'[e] = pc[e])
  PROVE  WaitersStay
<1>1. \A e \in Entry : AsleepInWait(e)' => AsleepInWait(e) /\ th'[e].chan = th[e].chan
  BY DEF AsleepInWait
<1>2. \A e \in Entry : pc'[e] \in Exiting => pc[e] \in Exiting /\ th'[e].pid = th[e].pid
  BY DEF Exiting
<1> QED BY <1>1, <1>2, KinWaiters

LEMMA CreateWaiters ==
  ASSUME RunInv, WaitInv, NEW c \in CPU, thread_create(c)
  PROVE  WaitersStay
<1>1. PICK m, p, e, tid :
           /\ m = Me(c) /\ p = on[c] /\ m \in Entry /\ p \in Slot /\ e \in Entry /\ e # m
           /\ th[e].state = "UNUSED" /\ pc[e] = "user" /\ pages' = pages + 1
           /\ tid \in 0..MaxTid
           /\ proc[p].state \in {"RUNNING", "THZOMBIE"} /\ proc[p].pid = th[m].pid /\ th[m].pid # 0
           /\ th'[e].state = "EMBRYO" /\ th'[e].pid = th[m].pid /\ th'[e].kstack
           /\ \A f \in Entry : f # e => th'[f] = th[f]
           /\ proc' = [proc EXCEPT ![p].assign = tid]
           /\ pc' = [pc EXCEPT ![m] = "create"] /\ arg' = [arg EXCEPT ![m] = e]
  BY CreateIs
<1>2. PICK P1 : P1 = proc'
  OBVIOUS
<1>3. \A q \in Slot : /\ P1[q].state = proc[q].state /\ P1[q].pid = proc[q].pid
                      /\ P1[q].parent = proc[q].parent /\ P1[q].parent_proc = proc[q].parent_proc
  <2>1. proc \in [Slot -> PRec] /\ proc[p] \in PRec
    BY <1>1, Now
  <2> QED BY <1>1, <1>2, <2>1 DEF PRec
<1>4. SameKin
  BY <1>2, <1>3 DEF SameKin
<1>5. pc'[m] = "create" /\ \A f \in Entry : f # m => pc'[f] = pc[f]
  BY <1>1, Now
<1> QED BY <1>1, <1>4, <1>5, ElseWaiters

LEMMA SameKinProc == ASSUME proc' = proc PROVE SameKin
BY DEF SameKin

LEMMA CreateEndWaiters ==
  ASSUME RunInv, WaitInv, NEW c \in CPU, thread_create_end(c)
  PROVE  WaitersStay
<1>1. PICK m, e : Created(m, e)
  BY CreateEndIs
<1>2. /\ m \in Entry /\ e \in Entry /\ e # m /\ pc[e] = "user" /\ proc' = proc /\ pc' = [pc EXCEPT ![m] = "user"]
      /\ \A f \in Entry : f # e => th'[f] = th[f]
  BY <1>1 DEF Created
<1>3. pc'[m] = "user" /\ \A f \in Entry : f # m => pc'[f] = pc[f]
  BY <1>2, Now
<1> QED BY <1>2, <1>3, SameKinProc, ElseWaiters

LEMMA ThreadExitWaiters ==
  ASSUME RunInv, WaitInv, NEW c \in CPU, thread_exit(c)
  PROVE  WaitersStay
<1>1. PICK m, p, v :
           /\ m = Me(c) /\ p = on[c] /\ m \in Entry /\ p \in Slot /\ pages' = pages /\ arg' = arg
           /\ v = Value(th[m].pid, th[m].tid) /\ v \in (0..MaxPid) \X (0..MaxTid)
           /\ proc[p].state \in {"RUNNING", "THZOMBIE"}
           /\ th' = [th EXCEPT ![m] = [th[m] EXCEPT !.retval = v]]
           /\ proc' = InState(proc, p, "THZOMBIE")
           /\ pc' = [pc EXCEPT ![m] = "thread_exit"]
  BY ThreadExitIs
<1>2. PICK P1 : P1 = proc'
  OBVIOUS
<1>3. \A q \in Slot : /\ P1[q].pid = proc[q].pid /\ P1[q].parent = proc[q].parent
                      /\ P1[q].parent_proc = proc[q].parent_proc
                      /\ P1[q].state = proc[q].state \/ (P1[q].state = "THZOMBIE")
  <2>1. proc \in [Slot -> PRec] /\ proc[p] \in PRec
    BY <1>1, Now
  <2> QED BY <1>1, <1>2, <2>1 DEF PRec, InState
<1>4. SameKin
  BY <1>2, <1>3 DEF SameKin
<1>5. pc'[m] = "thread_exit" /\ \A f \in Entry : f # m => pc'[f] = pc[f] /\ th'[f] = th[f]
  BY <1>1, Now
<1> QED BY <1>4, <1>5, ElseWaiters

LEMMA ThreadExitEndWaiters ==
  ASSUME RunInv, WaitInv, NEW c \in CPU, thread_exit_end(c)
  PROVE  WaitersStay
<1>1. PICK m, T : /\ T = wakeup1(th, My(c).joiner)
                  /\ SchedStep(proc, T, c, m, "THZOMBIE", None, "thread_exit")
  BY ThreadExitEndIs
<1>2. Ages(th, T)
  BY <1>1, Now, WakeAges
<1>3. "thread_exit" \notin Exiting
  BY DEF Exiting
<1> QED BY <1>1, <1>2, <1>3, SwitchedWaiters

LEMMA JoinSleepWaiters ==
  ASSUME RunInv, WaitInv, NEW c \in CPU, thread_join_sleep(c)
  PROVE  WaitersStay
<1>1. PICK m : SchedStep(proc, th, c, m, "SLEEPING", My(c).joiner, "join")
  BY JoinSleepIs
<1>2. Ages(th, th) /\ "join" \notin Exiting
  BY Now, AgesSelf DEF Exiting
<1> QED BY <1>1, <1>2, SwitchedWaiters

LEMMA JoinWaiters ==
  ASSUME RunInv, MainOnly, WaitInv, NEW c \in CPU, thread_join(c)
  PROVE  WaitersStay
<1>1. PICK m :
    /\ m = Me(c) /\ m \in Entry /\ on[c] # None /\ lk = None /\ proc' = proc /\ pc[m] \in {"user", "join"}
    /\ \/ \E d : JoinReaps(m, d)
       \/ UNCHANGED <<th, pages>> /\ pc' = [pc EXCEPT ![m] = "user"] /\ arg' = [arg EXCEPT ![m] = None]
       \/ JoinWaits(m)
  BY JoinIs
<1>2. ASSUME NEW d, JoinReaps(m, d)
      PROVE  WaitersStay
  <2>1. /\ d \in Entry /\ pc' = atStart({d, m})
        /\ th' = [th EXCEPT ![d] = [UnusedThread EXCEPT !.retval = th[d].retval]]
    BY <1>2 DEF JoinReaps
  <2>2. \A e \in Entry : pc'[e] = (IF e \in {d, m} THEN "user" ELSE pc[e]) /\ (e # d => th'[e] = th[e])
    BY <2>1, Now, AtStartIs
  <2> QED BY <1>1, <2>2, SameKinProc, ElseWaiters
<1>3. ASSUME NEW w \in {"user", "join_sleep"}, th' = th, pc' = [pc EXCEPT ![m] = w]
      PROVE  WaitersStay
  <2>1. pc'[m] = w /\ \A e \in Entry : e # m => pc'[e] = pc[e]
    BY <1>1, <1>3, Now
  <2> QED BY <1>1, <1>3, <2>1, SameKinProc, ElseWaiters
<1> QED BY <1>1, <1>2, <1>3 DEF JoinWaits

LEMMA ForkWaiters ==
  ASSUME RunInv, WaitInv, NEW c \in CPU, fork(c)
  PROVE  WaitersStay
<1>1. PICK m, p, e, s, r : Forks(c, m, p, e, s, r)
  BY ForkIs
<1>2. /\ p \in Slot /\ proc[p].state = "UNUSED" /\ e \in Entry /\ th[e].state = "UNUSED"
      /\ proc' = [proc EXCEPT ![p] = s] /\ th' = [th EXCEPT ![e] = r] /\ on[c] # None
      /\ s.state \in {"UNUSED", "RUNNABLE"} /\ s.parent_proc \in {on[c], None} /\ pc' = pc
  BY <1>1 DEF Forks
<1>3. proc'[p] = s /\ (\A f \in Entry : f # e => th'[f] = th[f]) /\ \A q \in Slot : q # p => proc'[q] = proc[q]
  BY <1>2, Now
<1>4. pc[e] = "user"
  BY <1>2, Now, Idle
<1>5. s.parent_proc # p /\ init # p
  <2>1. on[c] \in Slot /\ proc[on[c]].state # "UNUSED"
    BY <1>2, MyProcess
  <2> QED BY <1>2, <2>1, Sizes DEF WaitInv
<1>6. \A f \in Entry : AsleepInWait(f)' => AsleepInWait(f) /\ th'[f].chan = th[f].chan
  BY <1>2, <1>3, <1>4 DEF AsleepInWait
<1>7. \A f \in Entry : pc'[f] \in Exiting => pc[f] \in Exiting /\ th'[f].pid = th[f].pid
  BY <1>2, <1>3, <1>4 DEF Exiting
<1>8. proc'[init] = proc[init] /\ proc[init].state \notin {"UNUSED", "ZOMBIE"}
  BY <1>3, <1>5, Sizes DEF WaitInv
<1>9. ASSUME NEW q \in Slot
      PROVE  /\ proc'[q].parent_proc \in {proc[q].parent_proc, init} \/ proc'[q].parent_proc # q
             /\ proc'[q].state = "ZOMBIE" => proc[q].state = "ZOMBIE" /\ proc'[q].parent = proc[q].parent
  BY <1>2, <1>3, <1>5
<1> QED BY <1>6, <1>7, <1>8, <1>9 DEF WaitersStay

\* exec() leaves the children of the threads it deletes to the one that runs.
LEMMA ExecWaiters ==
  ASSUME RunInv, MainOnly, WaitInv, NEW c \in CPU, exec(c)
  PROVE  WaitersStay
<1>0. PICK m, p, others : Execs(c, m, p, others)
  BY ExecIs
<1>1. /\ m = Me(c) /\ p = on[c] /\ on[c] # None /\ pc[m] = "user" /\ My(c).tid = MAINTH /\ others = Others(c)
      /\ th' = deleted(th, others) /\ proc' = ExecProc(proc, p, m, others) /\ pc' = atStart(others)
  BY <1>0 DEF Execs
<1>2. PICK P1 : P1 = proc'
  OBVIOUS
<1>3. p \in Slot /\ m \in Entry /\ proc[p].tid = MAINTH /\ proc[p].state # "UNUSED"
  BY <1>1, Mine DEF My
<1>4. \A q \in Slot : /\ P1[q].pid = proc[q].pid /\ P1[q].state = proc[q].state
                      /\ P1[q].parent_proc = proc[q].parent_proc
                      /\ P1[q].parent = IF proc[q].parent \in others THEN m ELSE proc[q].parent
  BY <1>1, <1>2, <1>3, ExecProcIs
<1>5. \A e \in Entry : /\ th'[e] = IF e \in others THEN UnusedThread ELSE th[e]
                       /\ pc'[e] = IF e \in others THEN "user" ELSE pc[e]
  <2>1. PICK T1, C1 : T1 = deleted(th, others) /\ C1 = atStart(others)
    OBVIOUS
  <2>2. \A e \in Entry : T1[e] = IF e \in others THEN UnusedThread ELSE th[e]
    BY <2>1, Now, DeletedIs
  <2>3. \A e \in Entry : C1[e] = IF e \in others THEN "user" ELSE pc[e]
    BY <2>1, AtStartIs
  <2> QED BY <1>1, <2>1, <2>2, <2>3
<1>6. \A e \in Entry : pc'[e] = "user" \/ (th'[e] = th[e] /\ pc'[e] = pc[e])
  BY <1>5
<1>7. pc'[m] = "user"
  BY <1>1, <1>3, <1>5
<1>8. \A e \in Entry : AsleepInWait(e)' => AsleepInWait(e) /\ th'[e].chan = th[e].chan
  BY <1>6 DEF AsleepInWait
<1>9. \A e \in Entry : pc'[e] \in Exiting => pc[e] \in Exiting /\ th'[e].pid = th[e].pid
  BY <1>6 DEF Exiting
<1>10. proc'[init].pid = proc[init].pid /\ proc'[init].state \notin {"UNUSED", "ZOMBIE"}
  BY <1>2, <1>4, Sizes DEF WaitInv
<1>11. ASSUME NEW q \in Slot
       PROVE  /\ proc'[q].parent_proc = proc[q].parent_proc
              /\ proc'[q].state = "ZOMBIE" =>
                   \/ proc[q].state = "ZOMBIE" /\ proc'[q].parent = proc[q].parent
                   \/ \A e \in Entry : proc'[q].parent = e => ~AsleepInWait(e)'
  <2>1. ~AsleepInWait(m)'
    BY <1>7 DEF AsleepInWait
  <2> QED BY <1>2, <1>4, <2>1
<1> QED BY <1>8, <1>9, <1>10, <1>11 DEF WaitersStay

\* exit() wakes the one who waits for it, and init if it leaves it a dead child.
LEMMA ExitEndWaiters ==
  ASSUME RunInv, WaitInv, NEW c \in CPU, exit_end(c)
  PROVE  WaitersStay
<1>1. PICK T2, T3, P1, m, p :
           /\ m = Me(c) /\ p = on[c] /\ on[c] # None /\ pc[m] = "exit"
           /\ T2 = ExitWakes(c) /\ T3 = AllDead(T2, My(c).pid) /\ P1 = Adopted(proc, p)
           /\ Ages(th, T2) /\ Ages(th, T3) /\ My(c).pid # 0 /\ T2 \in [Entry -> TRec]
           /\ SchedStep(P1, T3, c, m, "ZOMBIE", None, "exit")
  BY ExitTables
<1>2. m \in Entry /\ p \in Slot /\ th[m].pid = proc[p].pid /\ My(c) = proc[p]
  BY <1>1, Mine DEF My
<1>3. p # init /\ proc[p].parent_proc # p /\ proc[init].state \notin {"UNUSED", "ZOMBIE"} /\ init \in Slot
  BY <1>1, <1>2, Sizes DEF WaitInv, Exiting
<1>4. \A q \in Slot :
        /\ P1[q].pid = proc[q].pid /\ P1[q].state = proc[q].state
        /\ P1[q].parent_proc = IF proc[q].parent_proc = p THEN init ELSE proc[q].parent_proc
        /\ P1[q].parent = IF proc[q].parent_proc = p THEN proc[init].parent ELSE proc[q].parent
  BY <1>1, <1>2, AdoptedIs
<1>5. PICK P2, T4 : P2 = proc' /\ T4 = th'
  OBVIOUS
<1>6. /\ \A e \in Entry : e # m => T4[e] = T3[e] /\ pc'[e] = pc[e]
      /\ T4[m].pid = T3[m].pid /\ pc'[m] = "exit"
      /\ \A q \in Slot : q # p => P2[q] = P1[q]
      /\ P2[p].pid = P1[p].pid /\ P2[p].parent = P1[p].parent /\ P2[p].parent_proc = P1[p].parent_proc
  BY <1>1, <1>5, SchedIs
<1>7. ASSUME NEW e \in Entry, e # m, T4[e].state = "SLEEPING"
      PROVE  T2[e].state = "SLEEPING" /\ th[e].state = "SLEEPING" /\ T4[e].chan = th[e].chan
  <2>1. T4[e] = T3[e] /\ T3[e].state = IF T2[e].pid = My(c).pid THEN "THZOMBIE" ELSE T2[e].state
    BY <1>1, <1>6, <1>7, DeadAges
  <2>2. T2[e].state = "SLEEPING"
    BY <1>7, <2>1
  <2>3. SameThread(th[e], T2[e]) /\ Older(th[e], T2[e]) /\ SameThread(th[e], T3[e])
    BY <1>1 DEF Ages
  <2> QED BY <2>1, <2>2, <2>3 DEF SameThread, Older
<1>8. \A e \in Entry : AsleepInWait(e)' => e # m /\ AsleepInWait(e) /\ th'[e].chan = th[e].chan /\ th[e].chan = e
  BY <1>5, <1>6, <1>7 DEF AsleepInWait, WaitInv
<1>9. \A e \in Entry : pc'[e] \in Exiting => pc[e] \in Exiting /\ th'[e].pid = th[e].pid
  <2>1. \A e \in Entry : T3[e].pid = th[e].pid
    BY <1>1 DEF Ages, SameThread
  <2>2. pc[m] \in Exiting
    BY <1>1 DEF Exiting
  <2> QED BY <1>2, <1>5, <1>6, <2>1, <2>2
<1>10. proc'[init].pid = proc[init].pid /\ proc'[init].state \notin {"UNUSED", "ZOMBIE"}
  BY <1>3, <1>4, <1>5, <1>6
<1>11. \A q \in Slot : proc'[q].parent_proc \in {proc[q].parent_proc, init}
  BY <1>2, <1>4, <1>5, <1>6
<1>12. ASSUME NEW e \in Entry, AsleepInWait(e)'
       PROVE  /\ e # My(c).parent
              /\ (\E q \in Orphans(c) : proc[q].state = "ZOMBIE") => e # proc[init].parent
  <2>1. PICK T, ch, ch2 : ch = My(c).parent /\ ch2 = proc[init].parent /\ T = wakeup1(th, ch)
    OBVIOUS
  <2>2. /\ Ages(th, T)
        /\ \A f \in Entry : T[f].state = IF th[f].state = "SLEEPING" /\ th[f].chan = ch
                                         THEN "RUNNABLE" ELSE th[f].state
    BY <2>1, Now, WakeAges
  <2>3. e # m /\ th[e].chan = e /\ th[e].state = "SLEEPING" /\ T2[e].state = "SLEEPING"
    BY <1>5, <1>7, <1>8, <1>12 DEF AsleepInWait
  <2>4. T[e].chan = e /\ T[e].state = IF e = ch THEN "RUNNABLE" ELSE "SLEEPING"
    BY <2>2, <2>3 DEF Ages, SameThread
  <2>5. CASE \E q \in Orphans(c) : proc[q].state = "ZOMBIE"
    <3>1. PICK T5 : T5 = wakeup1(T, ch2)
      OBVIOUS
    <3>2. T \in [Entry -> TRec] /\ Stacks(T)
      BY <2>2, Now, AgedStacks DEF Ages
    <3>3. \A f \in Entry : T5[f].state = IF T[f].state = "SLEEPING" /\ T[f].chan = ch2
                                         THEN "RUNNABLE" ELSE T[f].state
      BY <3>1, <3>2, WakeAges
    <3>4. T2 = T5
      BY <1>1, <2>1, <2>5, <3>1 DEF ExitWakes
    <3> QED BY <2>1, <2>3, <2>4, <3>3, <3>4
  <2>6. CASE ~\E q \in Orphans(c) : proc[q].state = "ZOMBIE"
    <3>1. T2 = T
      BY <1>1, <2>1, <2>6 DEF ExitWakes
    <3> QED BY <2>1, <2>3, <2>4, <2>6, <3>1
  <2> QED BY <2>5, <2>6
<1>13. ASSUME NEW q \in Slot, proc'[q].state = "ZOMBIE"
       PROVE  \/ proc[q].state = "ZOMBIE" /\ proc'[q].parent = proc[q].parent
              \/ \A e \in Entry : proc'[q].parent = e => ~AsleepInWait(e)'
  <2>1. CASE q = p
    <3>1. proc'[q].parent = My(c).parent
      BY <1>2, <1>3, <1>4, <1>5, <1>6, <2>1
    <3> QED BY <1>12, <3>1
  <2>2. CASE q # p
    <3>1. proc'[q] = P1[q] /\ proc[q].state = "ZOMBIE"
      BY <1>4, <1>5, <1>6, <1>13, <2>2
    <3>2. CASE proc[q].parent_proc = p
      <4>1. q \in Orphans(c)
        BY <1>1, <3>2 DEF Orphans
      <4>2. proc'[q].parent = proc[init].parent
        BY <1>4, <3>1, <3>2
      <4> QED BY <1>12, <3>1, <4>1, <4>2
    <3>3. CASE proc[q].parent_proc # p
      BY <1>4, <3>1, <3>3
    <3> QED BY <3>2, <3>3
  <2> QED BY <2>1, <2>2
<1>14. \A e \in Entry : AsleepInWait(e)' => AsleepInWait(e) /\ th'[e].chan = th[e].chan
  BY <1>8
<1>15. \A q \in Slot : proc'[q].parent_proc \in {proc[q].parent_proc, init} \/ proc'[q].parent_proc # q
  BY <1>11
<1> QED BY <1>9, <1>10, <1>13, <1>14, <1>15 DEF WaitersStay

LEMMA ReapsWaiters ==
  ASSUME RunInv, WaitInv, NEW c, NEW m, NEW p, NEW D, Reaps(c, m, p, D)
  PROVE  WaitersStay
<1>1. /\ p \in Slot /\ proc[p].state = "ZOMBIE" /\ th' = deleted(th, D)
      /\ proc' = [proc EXCEPT ![p] = UnusedProc] /\ pc' = atStart(D \cup {m})
  BY DEF Reaps
<1>2. \A e \in Entry : /\ th'[e] = IF e \in D THEN UnusedThread ELSE th[e]
                       /\ pc'[e] = IF e \in D \/ e = m THEN "user" ELSE pc[e]
  <2>1. PICK T1, C1 : T1 = deleted(th, D) /\ C1 = atStart(D \cup {m})
    OBVIOUS
  <2>2. \A e \in Entry : T1[e] = IF e \in D THEN UnusedThread ELSE th[e]
    BY <2>1, Now, DeletedIs
  <2>3. \A e \in Entry : C1[e] = IF e \in D \cup {m} THEN "user" ELSE pc[e]
    BY <2>1, AtStartIs
  <2> QED BY <1>1, <2>1, <2>2, <2>3
<1>3. \A e \in Entry : pc'[e] = "user" \/ (th'[e] = th[e] /\ pc'[e] = pc[e])
  BY <1>2
<1>4. \A e \in Entry : AsleepInWait(e)' => AsleepInWait(e) /\ th'[e].chan = th[e].chan
  BY <1>3 DEF AsleepInWait
<1>5. \A e \in Entry : pc'[e] \in Exiting => pc[e] \in Exiting /\ th'[e].pid = th[e].pid
  BY <1>3 DEF Exiting
<1>6. proc'[p] = UnusedProc /\ \A q \in Slot : q # p => proc'[q] = proc[q]
  BY <1>1, Now
<1>7. UnusedProc.state = "UNUSED" /\ UnusedProc.parent_proc = None /\ p # None
  BY <1>1, Sizes DEF UnusedProc
<1>8. proc'[init] = proc[init] /\ proc[init].state \notin {"UNUSED", "ZOMBIE"}
  BY <1>1, <1>6, Sizes DEF WaitInv
<1>9. ASSUME NEW q \in Slot
      PROVE  /\ proc'[q].parent_proc \in {proc[q].parent_proc, init} \/ proc'[q].parent_proc # q
             /\ proc'[q].state = "ZOMBIE" => proc[q].state = "ZOMBIE" /\ proc'[q].parent = proc[q].parent
  BY <1>6, <1>7
<1> QED BY <1>4, <1>5, <1>8, <1>9 DEF WaitersStay

\* A thread sleeps in wait() on its own entry, and none of its children is dead.
LEMMA SleepWaiters ==
  ASSUME RunInv, WaitInv, NEW c, NEW m, SchedStep(proc, th, c, m, "SLEEPING", m, "wait"),
         \A p \in Slot : proc[p].parent = m => proc[p].state # "ZOMBIE"
  PROVE  WaitInv'
<1>1. PICK p, P1, T1 : p = on[c] /\ P1 = proc' /\ T1 = th'
  OBVIOUS
<1>2. /\ m \in Entry /\ p \in Slot /\ proc[p].state \in {"RUNNING", "THZOMBIE"}
      /\ \A e \in Entry : e # m => T1[e] = th[e]
      /\ T1[m].chan = m /\ T1[m].pid = th[m].pid
      /\ \A q \in Slot : q # p => P1[q] = proc[q]
      /\ P1[p].pid = proc[p].pid /\ P1[p].parent = proc[p].parent /\ P1[p].parent_proc = proc[p].parent_proc
      /\ P1[p].state # "UNUSED" /\ P1[p].state # "ZOMBIE"
      /\ pc'[m] = "wait" /\ (\A e \in Entry : e # m => pc'[e] = pc[e])
  BY <1>1, SchedIs
<1>3. \A e \in Entry : th'[e].state = "SLEEPING" /\ pc'[e] = "wait" => th'[e].chan = e
  BY <1>1, <1>2 DEF WaitInv
<1>4. \A q \in Slot : q # init => proc'[q].parent_proc # q
  BY <1>1, <1>2 DEF WaitInv
<1>5. proc'[init].pid = 1 /\ proc'[init].state \notin {"UNUSED", "ZOMBIE"}
  BY <1>1, <1>2, Sizes DEF WaitInv
<1>6. \A e \in Entry : pc'[e] \in Exiting => th'[e].pid # 1
  <2>1. "wait" \notin Exiting
    BY DEF Exiting
  <2> QED BY <1>1, <1>2, <2>1 DEF WaitInv
<1>7. ASSUME NEW e \in Entry, th'[e].state = "SLEEPING", pc'[e] = "wait",
             NEW q \in Slot, proc'[q].state = "ZOMBIE"
      PROVE  proc'[q].parent # e
  <2>1. proc[q].state = "ZOMBIE" /\ proc'[q].parent = proc[q].parent
    BY <1>1, <1>2, <1>7
  <2>2. CASE e = m
    BY <2>1, <2>2
  <2>3. CASE e # m
    BY <1>1, <1>2, <1>7, <2>1, <2>3 DEF WaitInv, NoLostWait
  <2> QED BY <2>2, <2>3
<1>8. NoLostWait'
  BY <1>7 DEF NoLostWait
<1> QED BY <1>3, <1>4, <1>5, <1>6, <1>8 DEF WaitInv

LEMMA WaitWaiters ==
  ASSUME RunInv, WaitInv, NEW c \in CPU, wait(c)
  PROVE  WaitInv'
<1>1. PICK m :
           /\ m = Me(c) /\ on[c] # None
           /\ UNCHANGED <<lk, arg, ilock, nextpid, panicked>>
           /\ \/ \E p, D : Reaps(c, m, p, D)
              \/ pc' = [pc EXCEPT ![m] = "user"] /\ UNCHANGED <<proc, th, on, scan, pages>>
              \/ /\ \A p \in Slot : proc[p].parent = m => proc[p].state # "ZOMBIE"
                 /\ SchedStep(proc, th, c, m, "SLEEPING", m, "wait") /\ pages' = pages
  BY WaitIs
<1>2. m \in Entry
  BY <1>1, Mine
<1>3. ASSUME NEW p, NEW D, Reaps(c, m, p, D)
      PROVE  WaitInv'
  BY <1>3, ReapsWaiters, WaitersKept
<1>4. CASE pc' = [pc EXCEPT ![m] = "user"] /\ UNCHANGED <<proc, th, on, scan, pages>>
  BY <1>1, <1>2, <1>4, QuietPlain, PlainWaiters, WaitersKept
<1>5. CASE /\ \A p \in Slot : proc[p].parent = m => proc[p].state # "ZOMBIE"
           /\ SchedStep(proc, th, c, m, "SLEEPING", m, "wait")
  BY <1>5, SleepWaiters
<1> QED BY <1>1, <1>3, <1>4, <1>5

LEMMA InitWaiters == Init => WaitInv
<1> SUFFICES ASSUME Init PROVE WaitInv
  OBVIOUS
<1>1. PICK s : s = [state |-> "RUNNABLE", pid |-> 1, killed |-> FALSE, parent |-> 1,
                    parent_proc |-> init, assign |-> 1, main |-> 1, idx |-> 1,
                    tid |-> MAINTH, joiner |-> 1]
  OBVIOUS
<1>2. proc[init] = s /\ s.pid = 1 /\ s.state = "RUNNABLE"
  BY <1>1, Sizes DEF Init
<1>3. \A p \in Slot : p # init => proc[p] = UnusedProc
  BY DEF Init
<1>4. UnusedProc.parent_proc = None /\ UnusedProc.state = "UNUSED"
  BY DEF UnusedProc
<1>5. \A e \in Entry : pc[e] = "user"
  BY DEF Init
<1> QED BY <1>2, <1>3, <1>4, <1>5, Sizes DEF WaitInv, NoLostWait, Exiting

LEMMA NextWaiters ==
  ASSUME RunInv, MainOnly, WaitInv, [Next]_vars
  PROVE  WaitInv'
<1>1. CASE UNCHANGED vars
  BY <1>1 DEF vars, WaitInv, NoLostWait
<1>2. CASE ideintr \/ \E c \in CPU : PlainOf(c)
  BY <1>2, PlainIs, PlainWaiters, WaitersKept
<1>3. ASSUME NEW c \in CPU, ThreadsOn(c)
      PROVE  WaitInv'
  BY <1>3, CreateWaiters, CreateEndWaiters, ThreadExitWaiters, ThreadExitEndWaiters, JoinWaiters,
     JoinSleepWaiters, WaitersKept DEF ThreadsOn
<1>4. ASSUME NEW c \in CPU, ProcsOn(c)
      PROVE  WaitInv'
  BY <1>4, ForkWaiters, ExecWaiters, ExitEndWaiters, WaitWaiters, WaitersKept DEF ProcsOn
<1> QED BY <1>1, <1>2, <1>3, <1>4, Actions

\* exit() wakes whoever sleeps in wait() for the process that ends, and init when
\* it inherits a dead child; exec() leaves the children of the threads it deletes
\* to the one that runs: no thread sleeps in wait() with a dead child (proc.c, exit
\* and wait; exec.c).
THEOREM WaitersWoken == ASSUME MainOnly PROVE Spec => []NoLostWait
<1>1. Init => WaitInv
  BY InitWaiters
<1>2. RunInv /\ WaitInv /\ [Next]_vars => WaitInv'
  BY NextWaiters
<1>3. WaitInv => NoLostWait
  BY DEF WaitInv
<1> QED BY <1>1, <1>2, <1>3, RunsCorrectly, PTL DEF Spec

-----------------------------------------------------------------------------
(* thread_join() and the value of a thread.                                *)

\* e is about to sleep, or sleeps, until a thread it created exits.
Joining(e) == pc[e] = "join_sleep" \/ (AsleepInJoin(e) /\ th[e].joiner = e)

\* What is known of the end of the process of e is not forgotten.
Remembered(e) ==
  /\ KilledIn(proc, th[e].pid) => KilledIn(proc', th[e].pid)
  /\ GoneIn(proc, th[e].pid) => GoneIn(proc', th[e].pid)

\* Nobody begins to join, and a thread dies only of kill() or unawaited.
JoinersStay ==
  /\ \A e \in Entry : AsleepInJoin(e)' =>
       AsleepInJoin(e) /\ th'[e].chan = th[e].chan /\ th'[e].joiner = th[e].joiner
  /\ \A e \in Entry : Joining(e)' =>
       Joining(e) /\ th'[e].pid = th[e].pid /\ arg'[e] = arg[e] /\ Remembered(e)
  /\ \A f \in Entry : th'[f].state = "THZOMBIE" =>
       \/ /\ th[f].state = "THZOMBIE" /\ th'[f].pid = th[f].pid /\ th'[f].tid = th[f].tid
          /\ th'[f].joiner = th[f].joiner
       \/ KilledIn(proc', th'[f].pid)
       \/ \A e \in Entry : th'[f].pid = th'[e].pid /\ th'[f].joiner = e => ~Joining(e)'

LEMMA JoinersKept ==
  ASSUME JoinInv, JoinersStay
  PROVE  JoinInv'
<1>1. \A e \in Entry : AsleepInJoin(e)' => th'[e].chan = th'[e].joiner
  BY DEF JoinInv, JoinersStay
<1>2. ASSUME NEW e \in Entry, NEW f \in Entry, Joining(e)',
             th'[f].state = "THZOMBIE", th'[f].pid = th'[e].pid, th'[f].tid = arg'[e], th'[f].joiner = e
      PROVE  KilledIn(proc', th'[e].pid)
  <2>1. Joining(e) /\ th'[e].pid = th[e].pid /\ arg'[e] = arg[e] /\ Remembered(e)
    BY <1>2 DEF JoinersStay
  <2>2. CASE /\ th[f].state = "THZOMBIE" /\ th'[f].pid = th[f].pid /\ th'[f].tid = th[f].tid
             /\ th'[f].joiner = th[f].joiner
    <3>1. KilledIn(proc, th[e].pid)
      BY <1>2, <2>1, <2>2 DEF JoinInv, Joining
    <3> QED BY <2>1, <3>1 DEF Remembered
  <2>3. CASE KilledIn(proc', th'[f].pid)
    BY <1>2, <2>3
  <2> QED BY <1>2, <2>2, <2>3 DEF JoinersStay
<1> QED BY <1>1, <1>2 DEF JoinInv, Joining

SameValue(e) == th'[e].pid = th[e].pid /\ th'[e].tid = th[e].tid /\ th'[e].retval = th[e].retval
Named(T, e) == T[e].retval = Value(T[e].pid, T[e].tid)

\* No value is overwritten, and whoever dies without one is of a process that ends.
ValuesStay ==
  /\ \A e \in Entry : pc'[e] = "thread_exit" => (pc[e] = "thread_exit" /\ SameValue(e)) \/ Named(th', e)
  /\ \A e \in Entry : th'[e].state = "THZOMBIE" =>
       \/ th[e].state = "THZOMBIE" /\ SameValue(e) /\ Remembered(e)
       \/ pc[e] = "thread_exit" /\ SameValue(e)
       \/ Named(th', e) \/ GoneIn(proc', th'[e].pid)

LEMMA ValuesStayed ==
  ASSUME RetInv, ValuesStay
  PROVE  RetInv'
<1>1. /\ \A e \in Entry : pc[e] = "thread_exit" => Named(th, e)
      /\ \A e \in Entry : th[e].state = "THZOMBIE" => Named(th, e) \/ GoneIn(proc, th[e].pid)
  BY DEF RetInv, Named
<1>2. \A e \in Entry : SameValue(e) /\ Named(th, e) => Named(th', e)
  BY DEF SameValue, Named
<1>3. ASSUME NEW e \in Entry, pc'[e] = "thread_exit"
      PROVE  Named(th', e)
  BY <1>1, <1>2, <1>3 DEF ValuesStay
<1>4. ASSUME NEW e \in Entry, th'[e].state = "THZOMBIE"
      PROVE  Named(th', e) \/ GoneIn(proc', th'[e].pid)
  <2>1. CASE th[e].state = "THZOMBIE" /\ SameValue(e) /\ Remembered(e)
    <3>1. th'[e].pid = th[e].pid
      BY <2>1 DEF SameValue
    <3>2. Named(th, e) \/ GoneIn(proc, th[e].pid)
      BY <1>1, <2>1
    <3> QED BY <1>2, <2>1, <3>1, <3>2 DEF Remembered
  <2>2. CASE pc[e] = "thread_exit" /\ SameValue(e)
    BY <1>1, <1>2, <2>2
  <2> QED BY <1>4, <2>1, <2>2 DEF ValuesStay
<1> QED BY <1>3, <1>4 DEF RetInv, Named

\* Processes in use keep their pids and go on to their end.
LaterProcs ==
  \A p \in Slot : /\ proc'[p].pid = proc[p].pid
                  /\ proc[p].killed => proc'[p].killed
                  /\ proc[p].state = "ZOMBIE" => proc'[p].state = "ZOMBIE"
LEMMA LaterRemembered ==
  ASSUME LaterProcs
  PROVE  \A e \in Entry : Remembered(e)
<1>1. ASSUME NEW pid
      PROVE  /\ KilledIn(proc, pid) => KilledIn(proc', pid)
             /\ GoneIn(proc, pid) => GoneIn(proc', pid)
  BY DEF LaterProcs, KilledIn, GoneIn
<1> QED BY <1>1 DEF Remembered

LEMMA PlainJoiners ==
  ASSUME Plain
  PROVE  JoinersStay /\ ValuesStay
<1>1. \A e \in Entry : Remembered(e)
  <2>1. LaterProcs
    BY DEF LaterProcs, Plain, PlainProcs
  <2> QED BY <2>1, LaterRemembered
<1>2. ASSUME NEW e \in Entry
      PROVE  /\ th'[e].pid = th[e].pid /\ th'[e].tid = th[e].tid /\ th'[e].retval = th[e].retval
             /\ th'[e].state = "THZOMBIE" =>
                  (th[e].state = "THZOMBIE" /\ th'[e].joiner = th[e].joiner) \/ KilledIn(proc', th[e].pid)
             /\ th'[e].state = "SLEEPING" /\ pc'[e] = "join" =>
                  th[e].state = "SLEEPING" /\ th'[e].joiner = th[e].joiner /\ th'[e].chan = th[e].chan
             /\ pc'[e] \in {"thread_exit", "join_sleep", "join"} => pc'[e] = pc[e] /\ arg'[e] = arg[e]
  BY <1>2 DEF Plain, PlainThreads, Onward
<1>3. \A e \in Entry : AsleepInJoin(e)' =>
        AsleepInJoin(e) /\ th'[e].chan = th[e].chan /\ th'[e].joiner = th[e].joiner
  BY <1>2 DEF AsleepInJoin
<1>4. \A e \in Entry : Joining(e)' =>
        Joining(e) /\ th'[e].pid = th[e].pid /\ arg'[e] = arg[e] /\ Remembered(e)
  BY <1>1, <1>2, <1>3 DEF Joining, AsleepInJoin
<1>5. JoinersStay
  BY <1>2, <1>3, <1>4 DEF JoinersStay
<1>6. \A e \in Entry : SameValue(e)
  BY <1>2 DEF SameValue
<1>7. \A e \in Entry : KilledIn(proc', th[e].pid) => GoneIn(proc', th'[e].pid)
  BY <1>2 DEF KilledIn, GoneIn
<1>8. ValuesStay
  BY <1>1, <1>2, <1>6, <1>7 DEF ValuesStay
<1> QED BY <1>5, <1>8

\* Entries change that no call joins or exits in.
LEMMA ElseJoiners ==
  ASSUME RunInv,
         \A e \in Entry : pc'[e] \in {"user", "create"}
                          \/ (th'[e] = th[e] /\ pc'[e] = pc[e] /\ arg'[e] = arg[e]),
         \A e \in Entry : th'[e].state = "THZOMBIE" => th'[e] = th[e],
         \A e \in Entry : th[e].state # "UNUSED" /\ th'[e] = th[e] => Remembered(e)
  PROVE  JoinersStay /\ ValuesStay
<1>1. \A e \in Entry : AsleepInJoin(e)' =>
        AsleepInJoin(e) /\ th'[e].chan = th[e].chan /\ th'[e].joiner = th[e].joiner
  BY DEF AsleepInJoin
<1>2. \A e \in Entry : Joining(e)' =>
        Joining(e) /\ th'[e] = th[e] /\ arg'[e] = arg[e]
  BY DEF Joining, AsleepInJoin
<1>3. \A e \in Entry : Joining(e) => th[e].state # "UNUSED"
  BY Now DEF Joining, AsleepInJoin, Positions, Newborn
<1>4. JoinersStay
  BY <1>1, <1>2, <1>3 DEF JoinersStay
<1>5. \A e \in Entry : th'[e] = th[e] => SameValue(e)
  BY DEF SameValue
<1>6. ValuesStay
  BY <1>5 DEF ValuesStay
<1> QED BY <1>4, <1>6

LEMMA SameLater == ASSUME proc' = proc PROVE LaterProcs
BY DEF LaterProcs

LEMMA CreateJoiners ==
  ASSUME RunInv, NEW c \in CPU, thread_create(c)
  PROVE  JoinersStay /\ ValuesStay
<1>1. PICK m, p, e, tid :
           /\ m = Me(c) /\ p = on[c] /\ m \in Entry /\ p \in Slot /\ e \in Entry /\ e # m
           /\ th[e].state = "UNUSED" /\ pc[e] = "user" /\ pages' = pages + 1
           /\ tid \in 0..MaxTid
           /\ proc[p].state \in {"RUNNING", "THZOMBIE"} /\ proc[p].pid = th[m].pid /\ th[m].pid # 0
           /\ th'[e].state = "EMBRYO" /\ th'[e].pid = th[m].pid /\ th'[e].kstack
           /\ \A f \in Entry : f # e => th'[f] = th[f]
           /\ proc' = [proc EXCEPT ![p].assign = tid]
           /\ pc' = [pc EXCEPT ![m] = "create"] /\ arg' = [arg EXCEPT ![m] = e]
  BY CreateIs
<1>2. PICK P1 : P1 = proc'
  OBVIOUS
<1>3. \A q \in Slot : P1[q].state = proc[q].state /\ P1[q].pid = proc[q].pid /\ P1[q].killed = proc[q].killed
  <2>1. proc \in [Slot -> PRec] /\ proc[p] \in PRec
    BY <1>1, Now
  <2> QED BY <1>1, <1>2, <2>1 DEF PRec
<1>4. LaterProcs
  BY <1>2, <1>3 DEF LaterProcs
<1>5. pc'[m] = "create" /\ \A f \in Entry : f # m => pc'[f] = pc[f] /\ arg'[f] = arg[f]
  BY <1>1, Now
<1>6. \A f \in Entry : pc'[f] \in {"user", "create"} \/ (th'[f] = th[f] /\ pc'[f] = pc[f] /\ arg'[f] = arg[f])
  BY <1>1, <1>5
<1>7. \A f \in Entry : th'[f].state = "THZOMBIE" => th'[f] = th[f]
  BY <1>1
<1> QED BY <1>4, <1>6, <1>7, LaterRemembered, ElseJoiners

LEMMA CreateEndJoiners ==
  ASSUME RunInv, NEW c \in CPU, thread_create_end(c)
  PROVE  JoinersStay /\ ValuesStay
<1>1. PICK m, e : Created(m, e)
  BY CreateEndIs
<1>2. /\ m \in Entry /\ e \in Entry /\ e # m /\ pc[e] = "user" /\ proc' = proc /\ pc' = [pc EXCEPT ![m] = "user"]
      /\ \A f \in Entry : f # e => th'[f] = th[f]
      /\ arg' = [arg EXCEPT ![m] = None] /\ th'[e].state \in {"RUNNABLE", "UNUSED"}
  BY <1>1 DEF Created
<1>3. pc'[m] = "user" /\ \A f \in Entry : f # m => pc'[f] = pc[f] /\ arg'[f] = arg[f]
  BY <1>2, Now
<1>4. \A f \in Entry : pc'[f] \in {"user", "create"} \/ (th'[f] = th[f] /\ pc'[f] = pc[f] /\ arg'[f] = arg[f])
  BY <1>2, <1>3
<1>5. \A f \in Entry : th'[f].state = "THZOMBIE" => th'[f] = th[f]
  BY <1>2
<1> QED BY <1>2, <1>4, <1>5, SameLater, LaterRemembered, ElseJoiners

LEMMA JoinReapsJoiners ==
  ASSUME RunInv, NEW m \in Entry, NEW d, JoinReaps(m, d), proc' = proc
  PROVE  JoinersStay /\ ValuesStay
<1>1. /\ d \in Entry /\ pc' = atStart({d, m}) /\ arg' = [arg EXCEPT ![m] = None]
      /\ th' = [th EXCEPT ![d] = [UnusedThread EXCEPT !.retval = th[d].retval]]
  BY DEF JoinReaps
<1>2. \A e \in Entry : /\ pc'[e] = (IF e \in {d, m} THEN "user" ELSE pc[e])
                       /\ e # d => th'[e] = th[e]
                       /\ e # m => arg'[e] = arg[e]
  BY <1>1, Now, AtStartIs
<1>3. th'[d].state = "UNUSED"
  BY <1>1, Now DEF UnusedThread
<1>4. \A f \in Entry : pc'[f] \in {"user", "create"} \/ (th'[f] = th[f] /\ pc'[f] = pc[f] /\ arg'[f] = arg[f])
  BY <1>2
<1>5. \A f \in Entry : th'[f].state = "THZOMBIE" => th'[f] = th[f]
  BY <1>2, <1>3
<1> QED BY <1>4, <1>5, SameLater, LaterRemembered, ElseJoiners

\* The process of every thread in use is in use, so fork() takes no slot of one.
LEMMA ForkJoiners ==
  ASSUME RunInv, StackInv, NEW c \in CPU, fork(c)
  PROVE  JoinersStay /\ ValuesStay
<1>1. PICK m, p, e, s, r : Forks(c, m, p, e, s, r)
  BY ForkIs
<1>2. /\ p \in Slot /\ proc[p].state = "UNUSED" /\ e \in Entry /\ th[e].state = "UNUSED"
      /\ proc' = [proc EXCEPT ![p] = s] /\ th' = [th EXCEPT ![e] = r]
      /\ r.state \in {"EMBRYO", "RUNNABLE"} /\ pc' = pc /\ arg' = arg
  BY <1>1 DEF Forks
<1>3. th'[e] = r /\ (\A f \in Entry : f # e => th'[f] = th[f]) /\ \A q \in Slot : q # p => proc'[q] = proc[q]
  BY <1>2, Now
<1>4. pc[e] = "user"
  BY <1>2, Now, Idle
<1>5. \A f \in Entry : pc'[f] \in {"user", "create"} \/ (th'[f] = th[f] /\ pc'[f] = pc[f] /\ arg'[f] = arg[f])
  BY <1>2, <1>3, <1>4
<1>6. \A f \in Entry : th'[f].state = "THZOMBIE" => th'[f] = th[f]
  BY <1>2, <1>3
<1>7. ASSUME NEW f \in Entry, th[f].state # "UNUSED"
      PROVE  Remembered(f)
  <2>1. PICK q \in Slot : proc[q].state # "UNUSED" /\ proc[q].pid = th[f].pid
    BY <1>7 DEF StackInv
  <2>2. proc[q].pid # 0 /\ \A x \in Slot : proc[x].pid = proc[q].pid => x = q
    BY <2>1, Now DEF Pids
  <2>3. \A x \in Slot : proc[x].pid = th[f].pid => proc'[x] = proc[x]
    BY <1>2, <1>3, <2>1, <2>2
  <2> QED BY <2>3 DEF Remembered, KilledIn, GoneIn
<1> QED BY <1>5, <1>6, <1>7, ElseJoiners

\* Entries D are given back; the thread m goes on in user space.
LEMMA DeletedJoiners ==
  ASSUME RunInv, NEW D, NEW E, th' = deleted(th, D), pc' = atStart(E), D \subseteq E, arg' = arg,
         \A e \in Entry : e \notin D => Remembered(e)
  PROVE  JoinersStay /\ ValuesStay
<1>1. \A e \in Entry : /\ th'[e] = IF e \in D THEN UnusedThread ELSE th[e]
                       /\ pc'[e] = IF e \in E THEN "user" ELSE pc[e]
  <2>1. PICK T1, C1 : T1 = deleted(th, D) /\ C1 = atStart(E)
    OBVIOUS
  <2>2. \A e \in Entry : T1[e] = IF e \in D THEN UnusedThread ELSE th[e]
    BY <2>1, Now, DeletedIs
  <2>3. \A e \in Entry : C1[e] = IF e \in E THEN "user" ELSE pc[e]
    BY <2>1, AtStartIs
  <2> QED BY <2>1, <2>2, <2>3
<1>2. UnusedThread.state = "UNUSED"
  BY DEF UnusedThread
<1>3. \A f \in Entry : pc'[f] \in {"user", "create"} \/ (th'[f] = th[f] /\ pc'[f] = pc[f] /\ arg'[f] = arg[f])
  BY <1>1
<1>4. \A f \in Entry : th'[f].state = "THZOMBIE" => th'[f] = th[f]
  BY <1>1, <1>2
<1>5. \A f \in Entry : th[f].state # "UNUSED" /\ th'[f] = th[f] => Remembered(f)
  BY <1>1, <1>2
<1> QED BY <1>3, <1>4, <1>5, ElseJoiners

LEMMA ExecJoiners ==
  ASSUME RunInv, MainOnly, NEW c \in CPU, exec(c)
  PROVE  JoinersStay /\ ValuesStay
<1>0. PICK m, p, others : Execs(c, m, p, others)
  BY ExecIs
<1>1. /\ m = Me(c) /\ p = on[c] /\ on[c] # None /\ My(c).tid = MAINTH /\ arg' = arg
      /\ th' = deleted(th, others) /\ proc' = ExecProc(proc, p, m, others) /\ pc' = atStart(others)
  BY <1>0 DEF Execs
<1>2. PICK P1 : P1 = proc'
  OBVIOUS
<1>3. p \in Slot /\ m \in Entry /\ proc[p].tid = MAINTH /\ proc[p].state # "UNUSED"
  BY <1>1, Mine DEF My
<1>4. \A q \in Slot : P1[q].pid = proc[q].pid /\ P1[q].state = proc[q].state /\ P1[q].killed = proc[q].killed
  BY <1>1, <1>2, <1>3, ExecProcIs
<1>5. LaterProcs
  BY <1>2, <1>4 DEF LaterProcs
<1> QED BY <1>1, <1>5, LaterRemembered, DeletedJoiners

LEMMA ReapsJoiners ==
  ASSUME RunInv, NEW c, NEW m, NEW p, NEW D, Reaps(c, m, p, D), arg' = arg
  PROVE  JoinersStay /\ ValuesStay
<1>1. /\ p \in Slot /\ D = ThreadsOf(th, proc[p].pid) /\ th' = deleted(th, D)
      /\ proc' = [proc EXCEPT ![p] = UnusedProc] /\ pc' = atStart(D \cup {m})
  BY DEF Reaps
<1>2. \A q \in Slot : q # p => proc'[q] = proc[q]
  BY <1>1, Now
<1>3. ASSUME NEW e \in Entry, e \notin D
      PROVE  Remembered(e)
  <2>1. th[e].pid # proc[p].pid
    BY <1>1, <1>3 DEF ThreadsOf
  <2>2. \A x \in Slot : proc[x].pid = th[e].pid => proc'[x] = proc[x]
    BY <1>2, <2>1
  <2> QED BY <2>2 DEF Remembered, KilledIn, GoneIn
<1>4. PICK E : E = D \cup {m}
  OBVIOUS
<1>5. pc' = atStart(E) /\ D \subseteq E
  BY <1>1, <1>4
<1> QED BY <1>1, <1>3, <1>5, DeletedJoiners

LEMMA ThreadExitJoiners ==
  ASSUME RunInv, NEW c \in CPU, thread_exit(c)
  PROVE  JoinersStay /\ ValuesStay
<1>1. PICK m, p, v :
           /\ m = Me(c) /\ p = on[c] /\ m \in Entry /\ p \in Slot /\ pages' = pages /\ arg' = arg
           /\ v = Value(th[m].pid, th[m].tid) /\ v \in (0..MaxPid) \X (0..MaxTid)
           /\ proc[p].state \in {"RUNNING", "THZOMBIE"}
           /\ th' = [th EXCEPT ![m] = [th[m] EXCEPT !.retval = v]]
           /\ proc' = InState(proc, p, "THZOMBIE")
           /\ pc' = [pc EXCEPT ![m] = "thread_exit"]
  BY ThreadExitIs
<1>2. PICK P1, T1 : P1 = proc' /\ T1 = th'
  OBVIOUS
<1>3. \A q \in Slot : /\ P1[q].pid = proc[q].pid /\ P1[q].killed = proc[q].killed
                      /\ proc[q].state = "ZOMBIE" => P1[q].state = "ZOMBIE"
  <2>1. proc \in [Slot -> PRec] /\ proc[p] \in PRec
    BY <1>1, Now
  <2> QED BY <1>1, <1>2, <2>1 DEF PRec, InState
<1>4. LaterProcs
  BY <1>2, <1>3 DEF LaterProcs
<1>5. /\ T1[m].pid = th[m].pid /\ T1[m].tid = th[m].tid /\ T1[m].state = th[m].state
      /\ T1[m].joiner = th[m].joiner /\ T1[m].retval = v
      /\ \A e \in Entry : e # m => T1[e] = th[e]
  <2>1. th \in [Entry -> TRec] /\ th[m] \in TRec
    BY <1>1, Now
  <2> QED BY <1>1, <1>2, <2>1 DEF TRec
<1>6. pc'[m] = "thread_exit" /\ \A e \in Entry : e # m => pc'[e] = pc[e]
  BY <1>1, Now
<1>7. \A e \in Entry : Remembered(e)
  BY <1>4, LaterRemembered
<1>8. \A e \in Entry : AsleepInJoin(e)' =>
        AsleepInJoin(e) /\ th'[e].chan = th[e].chan /\ th'[e].joiner = th[e].joiner
  BY <1>2, <1>5, <1>6 DEF AsleepInJoin
<1>9. \A e \in Entry : Joining(e)' => Joining(e) /\ th'[e].pid = th[e].pid /\ arg'[e] = arg[e]
  BY <1>1, <1>2, <1>5, <1>6, <1>8 DEF Joining, AsleepInJoin
<1>10. \A f \in Entry : th'[f].state = "THZOMBIE" =>
          /\ th[f].state = "THZOMBIE" /\ th'[f].pid = th[f].pid /\ th'[f].tid = th[f].tid
          /\ th'[f].joiner = th[f].joiner
  BY <1>2, <1>5
<1>11. JoinersStay
  BY <1>7, <1>8, <1>9, <1>10 DEF JoinersStay
<1>12. Named(th', m)
  BY <1>1, <1>2, <1>5 DEF Named
<1>13. \A e \in Entry : e # m => SameValue(e)
  BY <1>2, <1>5 DEF SameValue
<1>14. ValuesStay
  BY <1>6, <1>7, <1>10, <1>12, <1>13 DEF ValuesStay
<1> QED BY <1>11, <1>14

\* What sched() does to threads and processes that joining is about.
Scheduled(T, m, st, w) ==
  /\ m \in Entry /\ LaterProcs /\ arg' = arg
  /\ th'[m].state = st /\ th'[m].pid = th[m].pid /\ th'[m].tid = th[m].tid /\ th'[m].retval = th[m].retval
  /\ pc'[m] = w /\ \A e \in Entry : e # m => pc'[e] = pc[e]
  /\ \A e \in Entry : e # m => th'[e] = T[e]
  /\ \A e \in Entry : e # m =>
       /\ th'[e].pid = th[e].pid /\ th'[e].tid = th[e].tid /\ th'[e].retval = th[e].retval
       /\ th'[e].joiner = th[e].joiner /\ th'[e].chan = th[e].chan
       /\ th'[e].state = "SLEEPING" => th[e].state = "SLEEPING"

LEMMA ScheduledIs ==
  ASSUME RunInv, NEW P, NEW T, NEW c, NEW m, NEW st, NEW chan, NEW w,
         SchedStep(P, T, c, m, st, chan, w), Ages(th, T), SameValues(th, T),
         \A q \in Slot : P[q].pid = proc[q].pid /\ P[q].state = proc[q].state /\ P[q].killed = proc[q].killed
  PROVE  Scheduled(T, m, st, w)
<1>1. PICK p, P1, T1 : p = on[c] /\ P1 = proc' /\ T1 = th'
  OBVIOUS
<1>2. /\ m \in Entry /\ p \in Slot /\ P[p].state \in {"RUNNING", "THZOMBIE"}
      /\ \A e \in Entry : e # m => T1[e] = T[e]
      /\ T1[m].state = st /\ T1[m].pid = T[m].pid /\ T1[m].tid = T[m].tid /\ T1[m].retval = T[m].retval
      /\ \A q \in Slot : q # p => P1[q] = P[q]
      /\ P1[p].pid = P[p].pid /\ P1[p].killed = P[p].killed
      /\ pc'[m] = w /\ (\A e \in Entry : e # m => pc'[e] = pc[e]) /\ arg' = arg
  BY <1>1, SchedIs
<1>3. LaterProcs
  BY <1>1, <1>2 DEF LaterProcs
<1>4. ASSUME NEW e \in Entry
      PROVE  /\ T[e].pid = th[e].pid /\ T[e].tid = th[e].tid /\ T[e].retval = th[e].retval
             /\ T[e].joiner = th[e].joiner /\ T[e].chan = th[e].chan
             /\ T[e].state = "SLEEPING" => th[e].state = "SLEEPING"
  BY DEF Ages, SameThread, Older, SameValues
<1>5. /\ th'[m].state = st /\ th'[m].pid = th[m].pid /\ th'[m].tid = th[m].tid /\ th'[m].retval = th[m].retval
      /\ \A e \in Entry : e # m => th'[e] = T[e]
  BY <1>1, <1>2, <1>4
<1>6. \A e \in Entry : e # m =>
       /\ th'[e].pid = th[e].pid /\ th'[e].tid = th[e].tid /\ th'[e].retval = th[e].retval
       /\ th'[e].joiner = th[e].joiner /\ th'[e].chan = th[e].chan
       /\ th'[e].state = "SLEEPING" => th[e].state = "SLEEPING"
  BY <1>4, <1>5
<1> QED BY <1>2, <1>3, <1>5, <1>6 DEF Scheduled

LEMMA ScheduledValues ==
  ASSUME RunInv, NEW T, NEW m, NEW st, NEW w, Scheduled(T, m, st, w),
         \A e \in Entry : e # m /\ T[e].state = "THZOMBIE" => th[e].state = "THZOMBIE" \/ GoneIn(proc', th[e].pid),
         w = "thread_exit" \/ st = "THZOMBIE" => pc[m] = "thread_exit"
  PROVE  ValuesStay
<1>1. \A e \in Entry : Remembered(e)
  BY LaterRemembered DEF Scheduled
<1>2. \A e \in Entry : SameValue(e)
  BY DEF Scheduled, SameValue
<1>3. \A e \in Entry : pc'[e] = "thread_exit" => pc[e] = "thread_exit"
  BY DEF Scheduled
<1>4. ASSUME NEW e \in Entry, th'[e].state = "THZOMBIE"
      PROVE  th[e].state = "THZOMBIE" \/ pc[e] = "thread_exit" \/ GoneIn(proc', th'[e].pid)
  BY <1>4 DEF Scheduled
<1> QED BY <1>1, <1>2, <1>3, <1>4 DEF ValuesStay

\* A thread m that is not about to join leaves the processor.
LEMMA ScheduledJoiners ==
  ASSUME RunInv, NEW T, NEW m, NEW st, NEW w, Scheduled(T, m, st, w), w \notin {"join", "join_sleep"},
         \A f \in Entry : th'[f].state = "THZOMBIE" =>
           \/ f # m /\ th[f].state = "THZOMBIE"
           \/ \A e \in Entry : th'[f].pid = th'[e].pid /\ th'[f].joiner = e => ~Joining(e)'
  PROVE  JoinersStay
<1>1. \A e \in Entry : Remembered(e)
  BY LaterRemembered DEF Scheduled
<1>2. \A e \in Entry : AsleepInJoin(e)' =>
        AsleepInJoin(e) /\ th'[e].chan = th[e].chan /\ th'[e].joiner = th[e].joiner
  BY DEF Scheduled, AsleepInJoin
<1>3. \A e \in Entry : Joining(e)' => Joining(e) /\ th'[e].pid = th[e].pid /\ arg'[e] = arg[e]
  BY <1>2 DEF Scheduled, Joining, AsleepInJoin
<1>4. \A f \in Entry : f # m /\ th[f].state = "THZOMBIE" =>
        th'[f].pid = th[f].pid /\ th'[f].tid = th[f].tid /\ th'[f].joiner = th[f].joiner
  BY DEF Scheduled
<1> QED BY <1>1, <1>2, <1>3, <1>4 DEF JoinersStay

\* A thread that exits wakes the one that joins it: the channel is its joiner.
LEMMA ThreadExitEndJoiners ==
  ASSUME RunInv, JoinInv, NEW c \in CPU, thread_exit_end(c)
  PROVE  JoinersStay /\ ValuesStay
<1>1. PICK m, T, j : /\ m = Me(c) /\ j = My(c).joiner /\ T = wakeup1(th, j) /\ lk = m
                     /\ pc[m] = "thread_exit" /\ on[c] # None
                     /\ SchedStep(proc, T, c, m, "THZOMBIE", None, "thread_exit")
  BY ThreadExitEndIs
<1>2. /\ Ages(th, T) /\ SameValues(th, T)
      /\ \A e \in Entry : T[e].state = IF th[e].state = "SLEEPING" /\ th[e].chan = j
                                       THEN "RUNNABLE" ELSE th[e].state
  BY <1>1, Now, WakeAges
<1>3. Scheduled(T, m, "THZOMBIE", "thread_exit")
  BY <1>1, <1>2, ScheduledIs
<1>4. \A e \in Entry : T[e].state = "THZOMBIE" => th[e].state = "THZOMBIE"
  BY <1>2
<1>5. ValuesStay
  BY <1>1, <1>3, <1>4, ScheduledValues
<1>6. th'[m].joiner = j
  <2>1. th'[m].joiner = proc[on[c]].joiner
    BY <1>1, SchedIs
  <2> QED BY <1>1, <2>1 DEF My
<1>7. \A e \in Entry : pc[e] = "join_sleep" => e = m
  BY <1>1, Now DEF Positions, LockOK
<1>8. ASSUME NEW e \in Entry, th'[m].joiner = e, Joining(e)'
      PROVE  FALSE
  <2>1. e # m /\ pc'[e] = pc[e] /\ th'[e] = T[e] /\ th'[e].joiner = th[e].joiner
    BY <1>3, <1>8 DEF Scheduled, Joining, AsleepInJoin
  <2>2. AsleepInJoin(e)' /\ th'[e].joiner = e
    BY <1>1, <1>7, <1>8, <2>1 DEF Joining
  <2>3. T[e].state = "SLEEPING" /\ pc[e] = "join"
    BY <2>1, <2>2 DEF AsleepInJoin
  <2>4. AsleepInJoin(e) /\ th[e].chan # j
    BY <1>2, <2>3 DEF AsleepInJoin
  <2>5. th[e].chan = th[e].joiner
    BY <2>4 DEF JoinInv
  <2> QED BY <1>6, <1>8, <2>1, <2>2, <2>4, <2>5
<1>9. ASSUME NEW f \in Entry, th'[f].state = "THZOMBIE"
      PROVE  \/ f # m /\ th[f].state = "THZOMBIE"
             \/ \A e \in Entry : th'[f].pid = th'[e].pid /\ th'[f].joiner = e => ~Joining(e)'
  <2>1. CASE f = m
    BY <1>8, <2>1
  <2>2. CASE f # m
    BY <1>3, <1>4, <1>9, <2>2 DEF Scheduled
  <2> QED BY <2>1, <2>2
<1>10. JoinersStay
  BY <1>3, <1>9, ScheduledJoiners
<1> QED BY <1>5, <1>10

\* With a process all its threads die: none is left to join another.
LEMMA ExitEndJoiners ==
  ASSUME RunInv, NEW c \in CPU, exit_end(c)
  PROVE  JoinersStay /\ ValuesStay
<1>1. PICK T2, T3, P1, m, p, pid :
           /\ m = Me(c) /\ p = on[c] /\ on[c] # None /\ pc[m] = "exit" /\ lk = None /\ pid = My(c).pid
           /\ T2 = ExitWakes(c) /\ T3 = AllDead(T2, pid) /\ P1 = Adopted(proc, p)
           /\ Ages(th, T2) /\ Ages(th, T3) /\ SameValues(th, T3) /\ pid # 0 /\ T2 \in [Entry -> TRec]
           /\ SchedStep(P1, T3, c, m, "ZOMBIE", None, "exit")
  BY ExitTables
<1>2. m \in Entry /\ p \in Slot /\ th[m].pid = pid /\ proc[p].pid = pid
  BY <1>1, Mine DEF My
<1>3. \A q \in Slot : P1[q].pid = proc[q].pid /\ P1[q].state = proc[q].state /\ P1[q].killed = proc[q].killed
  BY <1>1, <1>2, AdoptedIs
<1>4. Scheduled(T3, m, "ZOMBIE", "exit")
  BY <1>1, <1>3, ScheduledIs
<1>5. proc'[p].state = "ZOMBIE" /\ proc'[p].pid = pid
  <2>1. proc'[p].state = "ZOMBIE"
    BY <1>1, SchedIs
  <2>2. LaterProcs
    BY <1>4 DEF Scheduled
  <2> QED BY <1>2, <2>1, <2>2 DEF LaterProcs
<1>6. \A e \in Entry : T3[e].state = IF T2[e].pid = pid THEN "THZOMBIE" ELSE T2[e].state
  BY <1>1, DeadAges
<1>7. ASSUME NEW e \in Entry
      PROVE  /\ T2[e].pid = th[e].pid /\ T3[e].pid = th[e].pid
             /\ th[e].pid # pid => T3[e].state = th[e].state \/ T3[e].state = "RUNNABLE"
  <2>1. SameThread(th[e], T2[e]) /\ SameThread(th[e], T3[e]) /\ Older(th[e], T2[e])
    BY <1>1 DEF Ages
  <2>2. T2[e].state = "THZOMBIE" => th[e].state = "THZOMBIE"
    <3>1. PICK T, ch, ch2 : ch = My(c).parent /\ ch2 = proc[init].parent /\ T = wakeup1(th, ch)
      OBVIOUS
    <3>2. Ages(th, T) /\ (T[e].state = "THZOMBIE" => th[e].state = "THZOMBIE")
      BY <3>1, Now, WakeAges
    <3>3. T \in [Entry -> TRec] /\ Stacks(T)
      BY <3>2, Now, AgedStacks DEF Ages
    <3>4. PICK T5 : T5 = wakeup1(T, ch2)
      OBVIOUS
    <3>5. T5[e].state = "THZOMBIE" => T[e].state = "THZOMBIE"
      BY <3>3, <3>4, WakeAges
    <3>6. T2 = T \/ T2 = T5
      BY <1>1, <3>1, <3>4 DEF ExitWakes
    <3> QED BY <3>2, <3>5, <3>6
  <2> QED BY <1>6, <2>1, <2>2 DEF SameThread, Older
<1>8. GoneIn(proc', pid)
  BY <1>2, <1>5 DEF GoneIn
<1>9. \A e \in Entry : e # m /\ T3[e].state = "THZOMBIE" => th[e].state = "THZOMBIE" \/ GoneIn(proc', th[e].pid)
  BY <1>7, <1>8
<1>10. ValuesStay
  BY <1>1, <1>4, <1>9, ScheduledValues
<1>11. ASSUME NEW e \in Entry, th'[e].pid = pid, Joining(e)'
       PROVE  FALSE
  <2>1. pc[e] # "join_sleep"
    BY <1>1, <1>11, Now, Sizes DEF Positions, LockOK
  <2>2. e # m /\ pc'[e] = pc[e] /\ th'[e] = T3[e]
    BY <1>4, <1>11 DEF Scheduled, Joining, AsleepInJoin
  <2>3. T3[e].state = "SLEEPING"
    BY <1>11, <2>1, <2>2 DEF Joining, AsleepInJoin
  <2> QED BY <1>6, <1>7, <1>11, <2>2, <2>3
<1>12. ASSUME NEW f \in Entry, th'[f].state = "THZOMBIE"
       PROVE  \/ f # m /\ th[f].state = "THZOMBIE"
              \/ \A e \in Entry : th'[f].pid = th'[e].pid /\ th'[f].joiner = e => ~Joining(e)'
  <2>1. f # m /\ th'[f] = T3[f]
    BY <1>4, <1>12 DEF Scheduled
  <2>2. CASE th[f].pid = pid
    <3>1. th'[f].pid = pid
      BY <1>7, <2>1, <2>2
    <3> QED BY <1>11, <3>1
  <2>3. CASE th[f].pid # pid
    BY <1>7, <1>12, <2>1, <2>3
  <2> QED BY <2>2, <2>3
<1>13. JoinersStay
  BY <1>4, <1>12, ScheduledJoiners
<1> QED BY <1>10, <1>13

LEMMA WaitJoiners ==
  ASSUME RunInv, NEW c \in CPU, wait(c)
  PROVE  JoinersStay /\ ValuesStay
<1>1. PICK m :
           /\ m = Me(c) /\ on[c] # None /\ arg' = arg
           /\ \/ \E p, D : Reaps(c, m, p, D)
              \/ pc' = [pc EXCEPT ![m] = "user"] /\ UNCHANGED <<proc, th, on, scan, pages>>
              \/ SchedStep(proc, th, c, m, "SLEEPING", m, "wait") /\ pages' = pages
  BY WaitIs
<1>2. m \in Entry
  BY <1>1, Mine
<1>3. CASE \E p, D : Reaps(c, m, p, D)
  BY <1>1, <1>3, ReapsJoiners
<1>4. CASE pc' = [pc EXCEPT ![m] = "user"] /\ UNCHANGED <<proc, th, on, scan, pages>>
  BY <1>1, <1>2, <1>4, QuietPlain, PlainJoiners
<1>5. CASE SchedStep(proc, th, c, m, "SLEEPING", m, "wait")
  <2>1. Ages(th, th) /\ SameValues(th, th)
    BY Now, AgesSelf
  <2>2. Scheduled(th, m, "SLEEPING", "wait")
    BY <1>5, <2>1, ScheduledIs
  <2>3. ValuesStay
    BY <2>2, ScheduledValues
  <2>4. \A f \in Entry : th'[f].state = "THZOMBIE" => f # m /\ th[f].state = "THZOMBIE"
    BY <2>2 DEF Scheduled
  <2> QED BY <2>2, <2>3, <2>4, ScheduledJoiners
<1> QED BY <1>1, <1>3, <1>4, <1>5

\* The scan of thread_join() found the thread alive, and the lock is kept until
\* the caller sleeps.
LEMMA JoinWaitsJoins ==
  ASSUME RunInv, JoinInv, NEW m \in Entry, JoinWaits(m), proc' = proc
  PROVE  JoinInv' /\ ValuesStay
<1>1. /\ th' = th /\ pc'[m] = "join_sleep" /\ \A e \in Entry : e # m => pc'[e] = pc[e] /\ arg'[e] = arg[e]
      /\ \A d \in Entry : th[d].pid = th[m].pid /\ th[d].tid = arg'[m] /\ th[d].joiner = m
                          => th[d].state # "THZOMBIE"
  BY Now DEF JoinWaits
<1>2. \A e \in Entry : AsleepInJoin(e)' => AsleepInJoin(e) /\ e # m
  BY <1>1 DEF AsleepInJoin
<1>3. \A e \in Entry : AsleepInJoin(e)' => th'[e].chan = th'[e].joiner
  BY <1>1, <1>2 DEF JoinInv
<1>4. ASSUME NEW e \in Entry, NEW f \in Entry, Joining(e)',
             th'[f].state = "THZOMBIE", th'[f].pid = th'[e].pid, th'[f].tid = arg'[e], th'[f].joiner = e
      PROVE  KilledIn(proc', th'[e].pid)
  <2>1. CASE e = m
    BY <1>1, <1>4, <2>1
  <2>2. CASE e # m
    <3>1. Joining(e) /\ arg'[e] = arg[e]
      BY <1>1, <1>2, <1>4, <2>2 DEF Joining
    <3>2. KilledIn(proc, th[e].pid)
      BY <1>1, <1>4, <3>1 DEF JoinInv, Joining
    <3> QED BY <1>1, <3>2
  <2> QED BY <2>1, <2>2
<1>5. JoinInv'
  BY <1>3, <1>4 DEF JoinInv, Joining
<1>6. \A e \in Entry : SameValue(e) /\ Remembered(e)
  BY <1>1 DEF SameValue, Remembered
<1>7. ValuesStay
  BY <1>1, <1>6 DEF ValuesStay
<1> QED BY <1>5, <1>7

LEMMA JoinJoins ==
  ASSUME RunInv, MainOnly, JoinInv, NEW c \in CPU, thread_join(c)
  PROVE  JoinInv' /\ ValuesStay
<1>1. PICK m :
    /\ m = Me(c) /\ m \in Entry /\ on[c] # None /\ lk = None /\ proc' = proc /\ pc[m] \in {"user", "join"}
    /\ \/ \E d : JoinReaps(m, d)
       \/ UNCHANGED <<th, pages>> /\ pc' = [pc EXCEPT ![m] = "user"] /\ arg' = [arg EXCEPT ![m] = None]
       \/ JoinWaits(m)
  BY JoinIs
<1>2. CASE \E d : JoinReaps(m, d)
  BY <1>1, <1>2, JoinReapsJoiners, JoinersKept
<1>3. CASE UNCHANGED <<th, pages>> /\ pc' = [pc EXCEPT ![m] = "user"] /\ arg' = [arg EXCEPT ![m] = None]
  BY <1>1, <1>3, QuietPlain, PlainJoiners, JoinersKept
<1>4. CASE JoinWaits(m)
  BY <1>1, <1>4, JoinWaitsJoins
<1> QED BY <1>1, <1>2, <1>3, <1>4

LEMMA JoinSleepJoins ==
  ASSUME RunInv, JoinInv, NEW c \in CPU, thread_join_sleep(c)
  PROVE  JoinInv' /\ ValuesStay
<1>1. PICK m, j : /\ m = Me(c) /\ on[c] # None /\ pc[m] = "join_sleep" /\ j = My(c).joiner
                  /\ SchedStep(proc, th, c, m, "SLEEPING", j, "join")
  BY JoinSleepIs
<1>2. Ages(th, th) /\ SameValues(th, th)
  BY Now, AgesSelf
<1>3. Scheduled(th, m, "SLEEPING", "join")
  BY <1>1, <1>2, ScheduledIs
<1>4. ValuesStay
  BY <1>3, ScheduledValues
<1>5. th'[m].chan = th'[m].joiner
  <2>1. th'[m].chan = j /\ th'[m].joiner = proc[on[c]].joiner
    BY <1>1, SchedIs
  <2> QED BY <1>1, <2>1 DEF My
<1>6. \A e \in Entry : e # m => th'[e] = th[e] /\ pc'[e] = pc[e]
  BY <1>3 DEF Scheduled
<1>7. /\ m \in Entry /\ th'[m].state = "SLEEPING" /\ th'[m].pid = th[m].pid /\ arg' = arg
      /\ \A e \in Entry : Remembered(e)
  BY <1>3, LaterRemembered DEF Scheduled
<1>8. \A e \in Entry : AsleepInJoin(e)' => th'[e].chan = th'[e].joiner
  <2>1. \A e \in Entry : e # m /\ AsleepInJoin(e)' => AsleepInJoin(e)
    BY <1>6 DEF AsleepInJoin
  <2> QED BY <1>5, <1>6, <2>1 DEF JoinInv
<1>9. ASSUME NEW e \in Entry, NEW f \in Entry, Joining(e)',
             th'[f].state = "THZOMBIE", th'[f].pid = th'[e].pid, th'[f].tid = arg'[e], th'[f].joiner = e
      PROVE  KilledIn(proc', th'[e].pid)
  <2>1. f # m /\ th'[f] = th[f]
    BY <1>6, <1>7, <1>9
  <2>2. Joining(e) /\ th'[e].pid = th[e].pid
    <3>1. CASE e = m
      BY <1>1, <1>7, <3>1 DEF Joining
    <3>2. CASE e # m
      BY <1>6, <1>9, <3>2 DEF Joining, AsleepInJoin
    <3> QED BY <3>1, <3>2
  <2>3. KilledIn(proc, th[e].pid)
    BY <1>7, <1>9, <2>1, <2>2 DEF JoinInv, Joining
  <2> QED BY <1>7, <2>2, <2>3 DEF Remembered
<1>10. JoinInv'
  BY <1>8, <1>9 DEF JoinInv, Joining
<1> QED BY <1>4, <1>10

LEMMA InitJoins == Init => JoinInv /\ RetInv
<1> SUFFICES ASSUME Init PROVE JoinInv /\ RetInv
  OBVIOUS
<1>1. \A e \in Entry : pc[e] = "user"
  BY DEF Init
<1>2. \A e \in Entry : th[e].state # "THZOMBIE"
  <2>1. PICK r : r = [UnusedThread EXCEPT !.state = "RUNNABLE", !.pid = 1, !.tid = MAINTH,
                                          !.joiner = 1, !.kstack = TRUE]
    OBVIOUS
  <2>2. r.state = "RUNNABLE" /\ UnusedThread.state = "UNUSED"
    BY <2>1 DEF UnusedThread
  <2>3. \A e \in Entry : th[e] = IF e # 1 THEN UnusedThread ELSE r
    BY <2>1 DEF Init
  <2> QED BY <2>2, <2>3
<1> QED BY <1>1, <1>2 DEF JoinInv, RetInv, AsleepInJoin

LEMMA NextJoins ==
  ASSUME RunInv, MainOnly, StackInv, JoinInv, [Next]_vars
  PROVE  JoinInv' /\ (RetInv => RetInv')
<1>1. CASE UNCHANGED vars
  <2>1. JoinInv'
    BY <1>1 DEF vars, JoinInv, AsleepInJoin
  <2>2. RetInv => RetInv'
    BY <1>1 DEF vars, RetInv
  <2> QED BY <2>1, <2>2
<1>2. CASE ideintr \/ \E c \in CPU : PlainOf(c)
  BY <1>2, PlainIs, PlainJoiners, JoinersKept, ValuesStayed
<1>3. ASSUME NEW c \in CPU, ThreadsOn(c)
      PROVE  JoinInv' /\ ValuesStay
  BY <1>3, CreateJoiners, CreateEndJoiners, ThreadExitJoiners, ThreadExitEndJoiners, JoinJoins,
     JoinSleepJoins, JoinersKept DEF ThreadsOn
<1>4. ASSUME NEW c \in CPU, ProcsOn(c)
      PROVE  JoinInv' /\ ValuesStay
  BY <1>4, ForkJoiners, ExecJoiners, ExitEndJoiners, WaitJoiners, JoinersKept DEF ProcsOn
<1> QED BY <1>1, <1>2, <1>3, <1>4, Actions, ValuesStayed

LEMMA SpecJoins == ASSUME MainOnly, Failures = 0 PROVE Spec => []JoinInv /\ []RetInv
<1>1. Init => JoinInv /\ RetInv
  BY InitJoins
<1>2. RunInv /\ StackInv /\ JoinInv /\ RetInv /\ [Next]_vars => JoinInv' /\ RetInv'
  BY NextJoins
<1> QED BY <1>1, <1>2, RunsCorrectly, SpecStacks, PTL DEF Spec

\* While no creation fails, a main thread asleep in thread_join() for a thread it
\* created waits for one that is still to exit, unless its process was killed: the
\* wakeup of thread_exit() is on the channel its joiner sleeps on, and is not lost
\* between the scan and the sleep, because pthread_table.lock is kept (proc.c,
\* thread_join and thread_exit).
THEOREM JoinersWoken == ASSUME MainOnly, Failures = 0 PROVE Spec => []NoLostJoin
<1>1. JoinInv => NoLostJoin
  BY DEF JoinInv, NoLostJoin, Missed, KilledIn, AsleepInJoin
<1> QED BY <1>1, SpecJoins, PTL

\* While no creation fails, the value that thread_join() will hand over is what the
\* thread gave to thread_exit(), not what a thread left that had the entry before,
\* until its process is killed or ends (proc.c, thread_exit and thread_join).
THEOREM ValuesKept == ASSUME MainOnly, Failures = 0 PROVE Spec => []RetvalKept
<1>1. RetInv => RetvalKept
  <2>1. \A pid : GoneIn(proc, pid) => \E p \in Slot : proc[p].pid = pid /\ (proc[p].killed \/ proc[p].state = "ZOMBIE")
    BY DEF GoneIn
  <2> QED BY <2>1 DEF RetInv, RetvalKept
<1> QED BY <1>1, SpecJoins, PTL
=============================================================================
