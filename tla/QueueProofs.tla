---------------------------- MODULE QueueProofs -----------------------------
(***************************************************************************)
(* The queues, the process table and the processors of MLFQ agree, for     *)
(* every number of slots and processors.  On one processor, or without     *)
(* schedulerLock, no process is lost and a boost reaches all that wait:    *)
(* theorems EveryOneQueued, BoostReachesWaiting.  Without schedulerLock    *)
(* the queues are exact too, and a process has time left on its level:     *)
(* theorems QueuesExact, LevelsAgree; with it there are duplicates         *)
(* (section 5 of the README).                                              *)
(***************************************************************************)
EXTENDS MLFQProofs

All(q) == UNION {Members(q[lv]) : lv \in Levels}

-----------------------------------------------------------------------------
(* The operators of ReadyQueue: each adds or takes out the element it is   *)
(* meant to, keeps all the others, and makes no duplicate where there was  *)
(* none.                                                                   *)

Distinct(q) == \A i, j \in 1..Len(q) : q[i] = q[j] => i = j

\* enQ() adds one element, and keeps all others.
LEMMA EnQMembers ==
  ASSUME NEW S, NEW q \in Seq(S), NEW x \in S
  PROVE  enQ(q, x) \in Seq(S) /\ Members(enQ(q, x)) = Members(q) \cup {x}
<1>1. /\ enQ(q, x) \in Seq(S) /\ Len(enQ(q, x)) = Len(q) + 1
      /\ \A i \in 1..Len(q) : enQ(q, x)[i] = q[i]
      /\ enQ(q, x)[Len(q) + 1] = x
  BY DEF enQ
<1>2. Members(enQ(q, x)) \subseteq Members(q) \cup {x}
  BY <1>1 DEF Members
<1>3. Members(q) \subseteq Members(enQ(q, x))
  BY <1>1 DEF Members
<1>4. x \in Members(enQ(q, x))
  BY <1>1 DEF Members
<1> QED BY <1>1, <1>2, <1>3, <1>4

\* enQ() of a new element.
LEMMA EnQDistinct ==
  ASSUME NEW S, NEW q \in Seq(S), Distinct(q), NEW x \in S, x \notin Members(q)
  PROVE  /\ enQ(q, x) \in Seq(S) /\ Distinct(enQ(q, x))
         /\ Members(enQ(q, x)) = Members(q) \cup {x}
<1>1. /\ Len(enQ(q, x)) = Len(q) + 1
      /\ \A i \in 1..Len(q) : enQ(q, x)[i] = q[i]
      /\ enQ(q, x)[Len(q) + 1] = x
  BY DEF enQ
<1>2. Distinct(enQ(q, x))
  BY <1>1 DEF Distinct, Members
<1> QED BY <1>2, EnQMembers

\* Two queues, one behind the other.
LEMMA ConcatMembers ==
  ASSUME NEW S, NEW q \in Seq(S), NEW r \in Seq(S)
  PROVE  q \o r \in Seq(S) /\ Members(q \o r) = Members(q) \cup Members(r)
<1>1. /\ q \o r \in Seq(S) /\ Len(q \o r) = Len(q) + Len(r)
      /\ \A i \in 1..Len(q \o r) :
           (q \o r)[i] = IF i <= Len(q) THEN q[i] ELSE r[i - Len(q)]
  OBVIOUS
<1>2. Len(q) \in Nat /\ Len(r) \in Nat
  OBVIOUS
<1>3. Members(q \o r) \subseteq Members(q) \cup Members(r)
  <2>1. SUFFICES ASSUME NEW i \in 1..Len(q \o r)
                 PROVE  (q \o r)[i] \in Members(q) \cup Members(r)
    BY DEF Members
  <2>2. CASE i <= Len(q)
    BY <1>1, <1>2, <2>2 DEF Members
  <2>3. CASE i > Len(q)
    <3>1. i - Len(q) \in 1..Len(r) /\ (q \o r)[i] = r[i - Len(q)]
      BY <1>1, <1>2, <2>3
    <3> QED BY <3>1 DEF Members
  <2> QED BY <1>2, <2>2, <2>3
<1>4. Members(q) \subseteq Members(q \o r)
  <2>1. SUFFICES ASSUME NEW i \in 1..Len(q) PROVE q[i] \in Members(q \o r)
    BY DEF Members
  <2>2. i \in 1..Len(q \o r) /\ (q \o r)[i] = q[i]
    BY <1>1, <1>2
  <2> QED BY <2>2 DEF Members
<1>5. Members(r) \subseteq Members(q \o r)
  <2>1. SUFFICES ASSUME NEW i \in 1..Len(r) PROVE r[i] \in Members(q \o r)
    BY DEF Members
  <2>2. i + Len(q) \in 1..Len(q \o r) /\ (q \o r)[i + Len(q)] = r[i]
    BY <1>1, <1>2
  <2> QED BY <2>2 DEF Members
<1> QED BY <1>1, <1>3, <1>4, <1>5

\* Two queues with no element in common.
LEMMA ConcatDistinct ==
  ASSUME NEW S, NEW q \in Seq(S), NEW r \in Seq(S), Distinct(q), Distinct(r),
         Members(q) \cap Members(r) = {}
  PROVE  /\ q \o r \in Seq(S) /\ Distinct(q \o r)
         /\ Members(q \o r) = Members(q) \cup Members(r)
<1>1. /\ Len(q \o r) = Len(q) + Len(r)
      /\ \A i \in 1..Len(q \o r) :
           (q \o r)[i] = IF i <= Len(q) THEN q[i] ELSE r[i - Len(q)]
  OBVIOUS
<1>2. Len(q) \in Nat /\ Len(r) \in Nat
  OBVIOUS
<1>3. Distinct(q \o r)
  <2>1. SUFFICES ASSUME NEW i \in 1..Len(q \o r), NEW j \in 1..Len(q \o r),
                        (q \o r)[i] = (q \o r)[j]
                 PROVE  i = j
    BY DEF Distinct
  <2>2. CASE i <= Len(q) /\ j <= Len(q)
    BY <1>1, <1>2, <2>1, <2>2 DEF Distinct
  <2>3. CASE i > Len(q) /\ j > Len(q)
    <3>1. i - Len(q) \in 1..Len(r) /\ j - Len(q) \in 1..Len(r)
      BY <1>1, <1>2, <2>3
    <3>2. r[i - Len(q)] = r[j - Len(q)]
      BY <1>1, <1>2, <2>1, <2>3
    <3>3. i - Len(q) = j - Len(q)
      BY <3>1, <3>2 DEF Distinct
    <3> QED BY <3>3, <1>2
  <2>4. ASSUME NEW a \in 1..Len(q \o r), NEW b \in 1..Len(q \o r),
               a <= Len(q), b > Len(q)
        PROVE  (q \o r)[a] # (q \o r)[b]
    <3>1. (q \o r)[a] \in Members(q)
      BY <1>1, <1>2, <2>4 DEF Members
    <3>2. b - Len(q) \in 1..Len(r) /\ (q \o r)[b] = r[b - Len(q)]
      BY <1>1, <1>2, <2>4
    <3>3. (q \o r)[b] \in Members(r)
      BY <3>2 DEF Members
    <3> QED BY <3>1, <3>3
  <2> QED BY <1>1, <1>2, <2>1, <2>2, <2>3, <2>4
<1> QED BY <1>3, ConcatMembers

\* What enqueueing in front, for the lock or a boost, puts in the queue.
LEMMA PutFrontMembers ==
  ASSUME NEW S, NEW q \in Seq(S), NEW x \in S
  PROVE  /\ PutFront(q, x) \in Seq(S)
         /\ Members(PutFront(q, x)) = Members(<<x>>) \cup Members(q)
<1>1. PICK one : one = <<x>>
  OBVIOUS
<1>2. one \in Seq(S)
  BY <1>1
<1>3. one \o q \in Seq(S) /\ Members(one \o q) = Members(one) \cup Members(q)
  BY <1>2, ConcatMembers
<1> QED BY <1>1, <1>3 DEF PutFront

\* A part of a queue.
LEMMA SubSeqMembers ==
  ASSUME NEW S, NEW q \in Seq(S), NEW m \in 1..(Len(q) + 1), NEW n \in 0..Len(q)
  PROVE  /\ SubSeq(q, m, n) \in Seq(S)
         /\ Members(SubSeq(q, m, n)) = {q[i] : i \in m..n}
<1> DEFINE s == SubSeq(q, m, n)
<1>1. /\ s \in Seq(S) /\ Len(s) = IF m <= n THEN n - m + 1 ELSE 0
      /\ \A i \in 1..Len(s) : s[i] = q[i + m - 1]
  OBVIOUS
<1>2. Len(q) \in Nat
  OBVIOUS
<1> HIDE DEF s
<1>3. ASSUME NEW x \in Members(s) PROVE x \in {q[i] : i \in m..n}
  <2>1. PICK i \in 1..Len(s) : x = s[i]
    BY <1>3 DEF Members
  <2>2. i + m - 1 \in m..n
    BY <1>1, <1>2
  <2> QED BY <2>1, <2>2, <1>1
<1>4. ASSUME NEW i \in m..n PROVE q[i] \in Members(s)
  <2>1. i - m + 1 \in 1..Len(s) /\ s[i - m + 1] = q[i]
    BY <1>1, <1>2
  <2> QED BY <2>1 DEF Members
<1> QED BY <1>1, <1>3, <1>4 DEF s

\* A part of a queue without duplicates.
LEMMA SubSeqDistinct ==
  ASSUME NEW S, NEW q \in Seq(S), Distinct(q),
         NEW m \in 1..(Len(q) + 1), NEW n \in 0..Len(q)
  PROVE  /\ SubSeq(q, m, n) \in Seq(S) /\ Distinct(SubSeq(q, m, n))
         /\ Members(SubSeq(q, m, n)) = {q[i] : i \in m..n}
<1> DEFINE s == SubSeq(q, m, n)
<1>1. /\ Len(s) = IF m <= n THEN n - m + 1 ELSE 0
      /\ \A i \in 1..Len(s) : s[i] = q[i + m - 1]
  OBVIOUS
<1>2. Len(q) \in Nat
  OBVIOUS
<1> HIDE DEF s
<1>3. ASSUME NEW i \in 1..Len(s) PROVE i + m - 1 \in 1..Len(q)
  BY <1>1, <1>2, <1>3
<1>4. Distinct(s)
  <2>1. SUFFICES ASSUME NEW i \in 1..Len(s), NEW j \in 1..Len(s), s[i] = s[j]
                 PROVE  i = j
    BY DEF Distinct
  <2>2. i + m - 1 \in 1..Len(q) /\ j + m - 1 \in 1..Len(q)
    BY <1>3
  <2>3. q[i + m - 1] = q[j + m - 1]
    BY <1>1, <2>1
  <2>4. i + m - 1 = j + m - 1
    BY <2>2, <2>3 DEF Distinct
  <2> QED BY <2>4, <1>1, <1>2
<1> QED BY <1>4, SubSeqMembers DEF s

\* pickProc() loses at most the element it takes out.
LEMMA ExtractMembers ==
  ASSUME NEW S, NEW q \in Seq(S), NEW k \in 1..Len(q)
  PROVE  /\ Extract(q, k) \in Seq(S)
         /\ Members(q) \ {q[k]} \subseteq Members(Extract(q, k))
         /\ Members(Extract(q, k)) \subseteq Members(q)
<1> DEFINE a == SubSeq(q, k + 1, Len(q))
           b == SubSeq(q, 1, k - 1)
<1>1. /\ a \in Seq(S) /\ Members(a) = {q[i] : i \in (k + 1)..Len(q)}
      /\ b \in Seq(S) /\ Members(b) = {q[i] : i \in 1..(k - 1)}
  <2>1. k + 1 \in 1..(Len(q) + 1) /\ Len(q) \in 0..Len(q)
    OBVIOUS
  <2>2. 1 \in 1..(Len(q) + 1) /\ k - 1 \in 0..Len(q)
    OBVIOUS
  <2> QED BY <2>1, <2>2, SubSeqMembers
<1> HIDE DEF a, b
<1>2. ASSUME NEW i \in 1..Len(q), i # k PROVE q[i] \in Members(a) \cup Members(b)
  <2>1. i \in (k + 1)..Len(q) \/ i \in 1..(k - 1)
    BY <1>2
  <2> QED BY <2>1, <1>1
<1>3. ASSUME NEW x \in Members(a) \cup Members(b) PROVE \E i \in 1..Len(q) : x = q[i]
  <2>1. PICK i \in (k + 1)..Len(q) \cup 1..(k - 1) : x = q[i]
    BY <1>1, <1>3
  <2> QED BY <2>1
<1>4. Extract(q, k) \in Seq(S) /\ Members(Extract(q, k)) = Members(a) \cup Members(b)
  <2>1. a \o b \in Seq(S) /\ Members(a \o b) = Members(a) \cup Members(b)
    BY <1>1, ConcatMembers
  <2>2. Extract(q, k) = a \o b
    BY DEF Extract, a, b
  <2> QED BY <2>1, <2>2
<1>5. PICK all : all = Members(a) \cup Members(b)
  OBVIOUS
<1>6. Members(q) \ {q[k]} \subseteq all /\ all \subseteq Members(q)
  <2>1. \A i \in 1..Len(q) : i # k => q[i] \in all
    BY <1>2, <1>5
  <2>2. \A x \in all : \E i \in 1..Len(q) : x = q[i]
    BY <1>3, <1>5
  <2> QED BY <2>1, <2>2 DEF Members
<1> QED BY <1>4, <1>5, <1>6

\* The rotation of setPriority() keeps every element.
LEMMA RotateMembers ==
  ASSUME NEW S, NEW q \in Seq(S), NEW k \in 1..Len(q)
  PROVE  Rotate(q, k) \in Seq(S) /\ Members(Rotate(q, k)) = Members(q)
<1> DEFINE a == SubSeq(q, k + 1, Len(q))
           b == SubSeq(q, 1, k)
<1>1. /\ a \in Seq(S) /\ Members(a) = {q[i] : i \in (k + 1)..Len(q)}
      /\ b \in Seq(S) /\ Members(b) = {q[i] : i \in 1..k}
  <2>1. k + 1 \in 1..(Len(q) + 1) /\ Len(q) \in 0..Len(q)
    OBVIOUS
  <2>2. 1 \in 1..(Len(q) + 1) /\ k \in 0..Len(q)
    OBVIOUS
  <2> QED BY <2>1, <2>2, SubSeqMembers
<1> HIDE DEF a, b
<1>2. ASSUME NEW i \in 1..Len(q) PROVE q[i] \in Members(a) \cup Members(b)
  <2>1. i \in (k + 1)..Len(q) \/ i \in 1..k
    OBVIOUS
  <2> QED BY <2>1, <1>1
<1>3. ASSUME NEW x \in Members(a) \cup Members(b) PROVE \E i \in 1..Len(q) : x = q[i]
  <2>1. PICK i \in (k + 1)..Len(q) \cup 1..k : x = q[i]
    BY <1>1, <1>3
  <2> QED BY <2>1
<1>4. Rotate(q, k) \in Seq(S) /\ Members(Rotate(q, k)) = Members(a) \cup Members(b)
  <2>1. a \o b \in Seq(S) /\ Members(a \o b) = Members(a) \cup Members(b)
    BY <1>1, ConcatMembers
  <2>2. Rotate(q, k) = a \o b
    BY DEF Rotate, a, b
  <2> QED BY <2>1, <2>2
<1>5. PICK all : all = Members(a) \cup Members(b)
  OBVIOUS
<1>6. Members(q) = all
  <2>1. \A i \in 1..Len(q) : q[i] \in all
    BY <1>2, <1>5
  <2>2. \A x \in all : \E i \in 1..Len(q) : x = q[i]
    BY <1>3, <1>5
  <2> QED BY <2>1, <2>2 DEF Members
<1> QED BY <1>4, <1>5, <1>6

\* pickProc() takes out one element and no other.
LEMMA ExtractDistinct ==
  ASSUME NEW S, NEW q \in Seq(S), Distinct(q), NEW k \in 1..Len(q)
  PROVE  /\ Extract(q, k) \in Seq(S) /\ Distinct(Extract(q, k))
         /\ Members(Extract(q, k)) = Members(q) \ {q[k]}
<1> DEFINE a == SubSeq(q, k + 1, Len(q))
           b == SubSeq(q, 1, k - 1)
<1>1. /\ a \in Seq(S) /\ Distinct(a) /\ Members(a) = {q[i] : i \in (k + 1)..Len(q)}
      /\ b \in Seq(S) /\ Distinct(b) /\ Members(b) = {q[i] : i \in 1..(k - 1)}
  <2>1. k + 1 \in 1..(Len(q) + 1) /\ Len(q) \in 0..Len(q)
    OBVIOUS
  <2>2. 1 \in 1..(Len(q) + 1) /\ k - 1 \in 0..Len(q)
    OBVIOUS
  <2> QED BY <2>1, <2>2, SubSeqDistinct
<1> HIDE DEF a, b
<1>2. Members(a) \cap Members(b) = {}
  BY <1>1 DEF Distinct
<1>3. q[k] \notin Members(a) \cup Members(b)
  BY <1>1 DEF Distinct
<1>4. /\ Distinct(Extract(q, k))
      /\ Members(Extract(q, k)) = Members(a) \cup Members(b)
  <2>0. a \in Seq(S) /\ Distinct(a) /\ b \in Seq(S) /\ Distinct(b)
    BY <1>1
  <2>1. Distinct(a \o b) /\ Members(a \o b) = Members(a) \cup Members(b)
    BY <1>2, <2>0, ConcatDistinct
  <2>2. Extract(q, k) = a \o b
    BY DEF Extract, a, b
  <2> QED BY <2>1, <2>2
<1> QED BY <1>3, <1>4, ExtractMembers

\* The rotation of setPriority() makes no duplicate.
LEMMA RotateDistinct ==
  ASSUME NEW S, NEW q \in Seq(S), Distinct(q), NEW k \in 1..Len(q)
  PROVE  /\ Rotate(q, k) \in Seq(S) /\ Distinct(Rotate(q, k))
         /\ Members(Rotate(q, k)) = Members(q)
<1> DEFINE a == SubSeq(q, k + 1, Len(q))
           b == SubSeq(q, 1, k)
<1>1. /\ a \in Seq(S) /\ Distinct(a) /\ Members(a) = {q[i] : i \in (k + 1)..Len(q)}
      /\ b \in Seq(S) /\ Distinct(b) /\ Members(b) = {q[i] : i \in 1..k}
  <2>1. k + 1 \in 1..(Len(q) + 1) /\ Len(q) \in 0..Len(q)
    OBVIOUS
  <2>2. 1 \in 1..(Len(q) + 1) /\ k \in 0..Len(q)
    OBVIOUS
  <2> QED BY <2>1, <2>2, SubSeqDistinct
<1> HIDE DEF a, b
<1>2. Members(a) \cap Members(b) = {}
  BY <1>1 DEF Distinct
<1>3. Distinct(Rotate(q, k))
  BY <1>1, <1>2, ConcatDistinct DEF Rotate, a, b
<1> QED BY <1>3, RotateMembers

\* The three levels moved behind each other, as priorityBoost() leaves them.
LEMMA BoostDistinct ==
  ASSUME NEW S, NEW q \in Seq(S), NEW r \in Seq(S), NEW s \in Seq(S),
         Distinct(q), Distinct(r), Distinct(s),
         Members(q) \cap Members(r) = {}, Members(q) \cap Members(s) = {},
         Members(r) \cap Members(s) = {}
  PROVE  /\ q \o r \o s \in Seq(S) /\ Distinct(q \o r \o s)
         /\ Members(q \o r \o s) = Members(q) \cup Members(r) \cup Members(s)
<1> DEFINE t == q \o r
<1>1. t \in Seq(S) /\ Distinct(t) /\ Members(t) = Members(q) \cup Members(r)
  BY ConcatDistinct
<1> HIDE DEF t
<1>2. Members(t) \cap Members(s) = {}
  BY <1>1
<1>3. /\ t \o s \in Seq(S) /\ Distinct(t \o s)
      /\ Members(t \o s) = Members(t) \cup Members(s)
  BY <1>1, <1>2, ConcatDistinct
<1> QED BY <1>1, <1>3 DEF t

-----------------------------------------------------------------------------
(* No process is lost.                                                     *)

\* One level changes, the others stay.
LEMMA ChangeMembers ==
  ASSUME NEW q \in [Levels -> Seq(Slot)], NEW lv \in Levels, NEW f \in Seq(Slot)
  PROVE  /\ [q EXCEPT ![lv] = f] \in [Levels -> Seq(Slot)]
         /\ \A x : x \in Members(f) \/ (x \in All(q) /\ x \notin Members(q[lv])) =>
                     x \in All([q EXCEPT ![lv] = f])
<1> DEFINE r == [q EXCEPT ![lv] = f]
<1>1. /\ r \in [Levels -> Seq(Slot)] /\ r[lv] = f
      /\ \A l \in Levels : l # lv => r[l] = q[l]
  OBVIOUS
<1> HIDE DEF r
<1>2. ASSUME NEW x, x \in Members(f) PROVE x \in All(r)
  BY <1>1, <1>2 DEF All
<1>3. ASSUME NEW x, x \in All(q), x \notin Members(q[lv]) PROVE x \in All(r)
  <2>1. PICK l \in Levels : x \in Members(q[l])
    BY <1>3 DEF All
  <2> QED BY <1>1, <1>3, <2>1 DEF All
<1> QED BY <1>1, <1>2, <1>3 DEF r

\* priorityBoost() puts all processes, and the dictator d, in L0.
LEMMA BoostKeeps ==
  ASSUME NEW q \in [Levels -> Seq(Slot)], NEW d \in Slot \cup {None}
  PROVE  \A x : x \in All(q) \/ (x = d /\ d # None) => x \in All(Boosted(q, d))
<1>1. /\ 0 \in Levels /\ 1 \in Levels /\ 2 \in Levels
      /\ \A lv \in Levels : lv = 0 \/ lv = 1 \/ lv = 2
  BY DEF Levels
<1>2. q[0] \in Seq(Slot) /\ q[1] \in Seq(Slot) /\ q[2] \in Seq(Slot)
  BY <1>1
<1>3. ASSUME NEW a \in Seq(Slot)
      PROVE  Members(a \o q[1] \o q[2]) = Members(a) \cup Members(q[1]) \cup Members(q[2])
  <2> DEFINE b == a \o q[1]
  <2>1. b \in Seq(Slot) /\ Members(b) = Members(a) \cup Members(q[1])
    BY <1>2, ConcatMembers
  <2> HIDE DEF b
  <2>2. Members(b \o q[2]) = Members(b) \cup Members(q[2])
    BY <1>2, <2>1, ConcatMembers
  <2> QED BY <2>1, <2>2 DEF b
<1>4. \A x : x \in All(q) <=> x \in Members(q[0]) \cup Members(q[1]) \cup Members(q[2])
  BY <1>1 DEF All
<1>5. \A x : x \in Members(Boosted(q, d)[0]) => x \in All(Boosted(q, d))
  BY <1>1 DEF All
<1>6. CASE d = None
  <2>1. Boosted(q, d)[0] = q[0] \o q[1] \o q[2]
    BY <1>1, <1>6 DEF Boosted
  <2> QED BY <1>2, <1>3, <1>4, <1>5, <1>6, <2>1
<1>7. CASE d # None
  <2>1. Boosted(q, d)[0] = PutFront(q[0], d) \o q[1] \o q[2]
    BY <1>1, <1>7 DEF Boosted
  <2>2. d \in Slot
    BY <1>7
  <2>3. /\ PutFront(q[0], d) \in Seq(Slot)
        /\ Members(PutFront(q[0], d)) = Members(<<d>>) \cup Members(q[0])
    BY <1>2, <2>2, PutFrontMembers
  <2>4. d \in Members(<<d>>)
    BY DEF Members
  <2> QED BY <1>3, <1>4, <1>5, <2>1, <2>3, <2>4
<1> QED BY <1>6, <1>7

\* A process that leaves its processor under the dictator d, which is no other
\* process: nobody leaves a queue, it enters one unless it is dead or dictates,
\* and a boost reaches all of them.
LEMMA SwitchOutKeeps ==
  ASSUME ExecInv, NEW c \in CPU, cur[c] # None, NEW d \in {None, cur[c]}, SwitchOut(c, d)
  PROVE  LET here(s) == \/ s \in All(queue)
                        \/ s = d
                        \/ s = cur[c] /\ state'[s] # "ZOMBIE"
         IN  \A s \in Slot : here(s) =>
               /\ s \in All(queue') \cup {dictator'}
               /\ gticks' < gticks => qlv'[s] = 0 /\ tq'[s] = 0 /\ priority'[s] = TopPriority
<1> DEFINE p       == cur[c]
           used    == MinOf(tq[p] + 1, MaxQuantum)
           expired == Expired(c, d, used)
           lv      == IF expired THEN NextLevel(level[c]) ELSE level[c]
           q       == Requeued(p, lv, d)
<1>1. queue \in [Levels -> Seq(Slot)] /\ p \in Slot /\ lv \in Levels /\ gticks \in Nat
  <2>1. level[c] \in Levels /\ p \in Slot
    BY DEF ExecInv, TypeInv, TypeOK
  <2>2. lv \in Levels
    BY <2>1 DEF NextLevel, MinOf, Levels
  <2> QED BY <2>1, <2>2 DEF ExecInv, TypeInv, TypeOK
<1>2. /\ queue' = IF BoostDue(d) THEN Boosted(q, d) ELSE q
      /\ dictator' = IF BoostDue(d) THEN None ELSE d
      /\ gticks' = IF BoostDue(d) THEN 0 ELSE gticks
  BY DEF SwitchOut
<1>3. BoostDue(d) => \A s \in Lifted(q, d) :
        qlv'[s] = 0 /\ tq'[s] = 0 /\ priority'[s] = TopPriority
  BY DEF SwitchOut, Lifted
<1> HIDE DEF lv
<1>4. /\ q \in [Levels -> Seq(Slot)]
      /\ \A x : x \in All(queue) => x \in All(q)
      /\ d = None /\ state'[p] # "ZOMBIE" => p \in All(q)
  <2>1. CASE ~(d = None /\ state'[p] # "ZOMBIE")
    BY <1>1, <2>1 DEF Requeued
  <2>2. CASE d = None /\ state'[p] # "ZOMBIE"
    <3>1. q = [queue EXCEPT ![lv] = enQ(@, p)]
      BY <2>2 DEF Requeued
    <3>2. queue[lv] \in Seq(Slot)
      BY <1>1
    <3> HIDE DEF q, p
    <3>3. enQ(queue[lv], p) \in Seq(Slot)
          /\ Members(enQ(queue[lv], p)) = Members(queue[lv]) \cup {p}
      BY <1>1, <3>2, EnQMembers
    <3> QED BY <1>1, <3>1, <3>3, ChangeMembers
  <2> QED BY <2>1, <2>2
<1> HIDE DEF q, p
<1>5. \A x : x \in All(q) \/ (x = d /\ d # None) => x \in All(Boosted(q, d))
  BY <1>1, <1>4, BoostKeeps DEF p
<1>6. \A s \in Slot : s \in All(q) \/ s = d => s \in Lifted(q, d)
  BY DEF Lifted, All
<1>7. ASSUME NEW s \in Slot,
             s \in All(queue) \/ s = d \/ (s = p /\ state'[s] # "ZOMBIE")
      PROVE  s \in All(q) \/ (s = d /\ d # None)
  BY <1>1, <1>4, <1>7 DEF None, Slot, p
<1> QED BY <1>1, <1>2, <1>3, <1>5, <1>6, <1>7 DEF p

\* What a step does when it sets global_ticks back without a new dictator.
BoostReaches ==
  gticks' < gticks /\ dictator' = None =>
    \A p \in Slot : Live(p)' /\ (\A c \in CPU : cur'[c] # p) =>
      qlv'[p] = 0 /\ tq'[p] = 0 /\ priority'[p] = TopPriority

\* A step that sets the ticks back no further boosts nobody.
LEMMA NoBoost ==
  ASSUME gticks \in Nat, gticks' \in Nat, gticks <= gticks'
  PROVE  BoostReaches
BY DEF BoostReaches

\* Nobody leaves a queue, and whoever gets ready is in one.
LEMMA StayQueued ==
  ASSUME NoLostProcess, gticks \in Nat, gticks' = gticks, dictator' = dictator,
         \A s \in Slot : s \in All(queue) => s \in All(queue') \/ state'[s] = "RUNNING",
         \A s \in Slot : \/ Quiet(s)
                         \/ state'[s] \notin {"RUNNABLE", "SLEEPING"}
                         \/ s \in All(queue')
  PROVE  NoLostProcess' /\ BoostReaches
<1>1. NoLostProcess'
  BY DEF NoLostProcess, Queued, All, Quiet
<1> QED BY <1>1, NoBoost

\* A process leaves its processor, and a boost may follow.
LEMMA LeaveQueued ==
  ASSUME ExecInv, ExecInv', NoLostProcess, NEW c \in CPU, cur[c] # None,
         NEW d \in {None, dictator}, SwitchOut(c, d),
         d = None => dictator = None \/ state'[dictator] = "ZOMBIE",
         \A s \in Slot : s # cur[c] => Quiet(s)
  PROVE  /\ NoLostProcess'
         /\ BoostReaches
<1>1. d \in {None, cur[c]}
  BY DEF ExecInv, DictatorAlone
<1>2. ASSUME NEW s \in Slot, state'[s] \in {"RUNNABLE", "SLEEPING"}
      PROVE  /\ s \in All(queue') \cup {dictator'}
             /\ gticks' < gticks => qlv'[s] = 0 /\ tq'[s] = 0 /\ priority'[s] = TopPriority
  <2>1. CASE s = cur[c]
    BY <1>1, <1>2, <2>1, SwitchOutKeeps
  <2>2. CASE s # cur[c]
    <3>1. state[s] \in {"RUNNABLE", "SLEEPING"}
      BY <1>2, <2>2 DEF Quiet
    <3>2. s \in All(queue) \/ s = dictator
      BY <3>1 DEF NoLostProcess, Queued, All
    <3>3. s = dictator => s = d
      BY <1>2 DEF Slot, None
    <3> QED BY <1>1, <3>2, <3>3, SwitchOutKeeps
  <2> QED BY <2>1, <2>2
<1>3. NoLostProcess'
  BY <1>2 DEF NoLostProcess, Queued, All
<1>4. ASSUME NEW s \in Slot, Live(s)', \A e \in CPU : cur'[e] # s
      PROVE  state'[s] \in {"RUNNABLE", "SLEEPING"}
  BY <1>4 DEF Live, ExecInv, OneCPU
<1> QED BY <1>2, <1>3, <1>4 DEF BoostReaches

\* Every step of a processor, action by action.
LEMMA StepQueued ==
  ASSUME ExecInv, ExecInv', NoLostProcess, NEW c \in CPU, Step(c)
  PROVE  NoLostProcess' /\ BoostReaches
<1>0. gticks \in Nat
  <2>1. gticks \in 0..BoostTicks
    BY DEF ExecInv, TypeInv, TypeOK
  <2> QED BY <2>1, ConstantsAssumption
<1>1. /\ state \in [Slot -> PState] /\ cur \in [CPU -> Slot \cup {None}]
      /\ queue \in [Levels -> Seq(Slot)] /\ dictator \in Slot \cup {None}
      /\ gticks \in Nat
  BY <1>0 DEF ExecInv, TypeInv, TypeOK
<1>2. \A p \in Slot : cur[c] = p => state[p] = "RUNNING" /\ cur[c] # None
  BY DEF ExecInv, OneCPU, Slot, None
<1> USE DEF schedVars, procVars, tickVars, cpuVars
<1>3. CASE DispatchDictator(c)
  <2>1. /\ dictator \in Slot /\ state' = [state EXCEPT ![dictator] = "RUNNING"]
        /\ dictator' = dictator /\ queue' = queue /\ gticks' = gticks
    BY <1>1, <1>3 DEF DispatchDictator, Resume
  <2> QED BY <1>1, <2>1, StayQueued DEF Quiet
<1>4. CASE DispatchQueued(c)
  <2>1. PICK lv \in Levels : \E k \in Picks(queue[lv], lv, Ready, priority) :
          /\ Resume(c, queue[lv][k])
          /\ queue' = [queue EXCEPT ![lv] = Extract(@, k)]
    BY <1>4 DEF DispatchQueued
  <2>2. PICK k \in Picks(queue[lv], lv, Ready, priority) :
          /\ Resume(c, queue[lv][k])
          /\ queue' = [queue EXCEPT ![lv] = Extract(@, k)]
    BY <2>1
  <2> DEFINE p == queue[lv][k]
             f == Extract(queue[lv], k)
  <2>3. k \in 1..Len(queue[lv]) /\ queue[lv] \in Seq(Slot) /\ p \in Slot
    BY <1>1 DEF Picks, ReadyAt
  <2>4. f \in Seq(Slot) /\ Members(queue[lv]) \ {p} \subseteq Members(f)
    BY <2>3, ExtractMembers
  <2>5. /\ state' = [state EXCEPT ![p] = "RUNNING"] /\ queue' = [queue EXCEPT ![lv] = f]
        /\ dictator' = dictator /\ gticks' = gticks
    BY <2>2 DEF Resume
  <2> HIDE DEF p, f
  <2>6. \A s \in Slot : s \in All(queue) => s \in All(queue') \/ s = p
    BY <1>1, <2>4, <2>5, ChangeMembers
  <2>7. state'[p] = "RUNNING" /\ \A s \in Slot : s # p => state'[s] = state[s]
    BY <1>1, <2>3, <2>5
  <2> QED BY <1>1, <2>5, <2>6, <2>7, StayQueued DEF Quiet
<1>5. CASE Yield(c)
  <2>1. cur[c] # None /\ SwitchOut(c, dictator)
    BY <1>5 DEF Yield
  <2>2. state' = [state EXCEPT ![cur[c]] = "RUNNABLE"]
    BY <1>5 DEF Yield
  <2> QED BY <1>1, <2>1, <2>2, LeaveQueued DEF Quiet
<1>6. ASSUME NEW ch \in Sleeps, Sleep(c, ch) PROVE NoLostProcess' /\ BoostReaches
  <2>1. cur[c] # None /\ SwitchOut(c, dictator)
    BY <1>6 DEF Sleep
  <2>2. state' = [state EXCEPT ![cur[c]] = "SLEEPING"]
    BY <1>6 DEF Sleep
  <2> QED BY <1>1, <2>1, <2>2, LeaveQueued DEF Quiet
<1>7. ASSUME NEW p \in Slot, ForkFail(c, p) PROVE NoLostProcess' /\ BoostReaches
  <2>1. /\ state' = [state EXCEPT ![np[p]] = "UNUSED"]
        /\ queue' = queue /\ dictator' = dictator /\ gticks' = gticks
    BY <1>7 DEF ForkFail
  <2>2. \A s \in Slot : Quiet(s) \/ state'[s] \notin {"RUNNABLE", "SLEEPING"}
    BY <1>1, <2>1 DEF Quiet
  <2> QED BY <1>1, <2>1, <2>2, StayQueued
<1>8. ASSUME NEW p \in Slot, ForkFinish(c, p) PROVE NoLostProcess' /\ BoostReaches
  <2> DEFINE n == np[p]
  <2>1. /\ pc[p] = "fork" /\ state' = [state EXCEPT ![n] = "RUNNABLE"]
        /\ queue' = [queue EXCEPT ![0] = enQ(@, n)]
        /\ dictator' = dictator /\ gticks' = gticks
    BY <1>8 DEF ForkFinish, At
  <2>2. n \in Slot /\ 0 \in Levels /\ queue[0] \in Seq(Slot)
    BY <1>1, <2>1 DEF ExecInv, ForkOwns, Levels
  <2> DEFINE q == queue[0]
  <2> HIDE DEF n, q
  <2>3. enQ(q, n) \in Seq(Slot) /\ Members(enQ(q, n)) = Members(q) \cup {n}
    <3>1. q \in Seq(Slot) /\ n \in Slot
      BY <2>2 DEF q
    <3> QED BY <3>1, EnQMembers
  <2>4. n \in All(queue') /\ \A s : s \in All(queue) => s \in All(queue')
    BY <1>1, <2>1, <2>2, <2>3, ChangeMembers DEF q
  <2>5. \A s \in Slot : s # n => state'[s] = state[s]
    BY <1>1, <2>1
  <2> QED BY <1>1, <2>1, <2>4, <2>5, StayQueued DEF Quiet
<1>9. ASSUME NEW p \in Slot, ExitFinal(c, p) PROVE NoLostProcess' /\ BoostReaches
  <2>1. cur[c] = p /\ cur[c] # None /\ SwitchOut(c, StepDown(p))
    BY <1>2, <1>9 DEF ExitFinal, At
  <2>2. state' = [ExitWakes(p) EXCEPT ![p] = "ZOMBIE"]
    BY <1>9 DEF ExitFinal
  <2>3. /\ ExitWakes(p) \in [Slot -> PState]
        /\ \A s \in Slot : \/ ExitWakes(p)[s] = state[s]
                           \/ state[s] = "SLEEPING" /\ ExitWakes(p)[s] = "RUNNABLE"
    BY <1>1 DEF ExitWakes, Woken, PState
  <2>4. /\ state'[p] = "ZOMBIE"
        /\ \A s \in Slot : s # cur[c] => Quiet(s)
    BY <2>1, <2>2, <2>3 DEF Quiet
  <2>5. /\ StepDown(p) \in {None, dictator}
        /\ StepDown(p) = None => dictator = None \/ state'[dictator] = "ZOMBIE"
    BY <2>4 DEF StepDown
  <2> QED BY <2>1, <2>4, <2>5, LeaveQueued
<1>10. ASSUME NEW p \in Slot, WaitSleep(c, p) PROVE NoLostProcess' /\ BoostReaches
  <2>1. cur[c] = p /\ cur[c] # None /\ SwitchOut(c, dictator)
    BY <1>2, <1>10 DEF WaitSleep, InWait, At
  <2>2. state' = [state EXCEPT ![p] = "SLEEPING"]
    BY <1>10 DEF WaitSleep
  <2> QED BY <1>1, <2>1, <2>2, LeaveQueued DEF Quiet
<1>11. ASSUME NEW p \in Slot, ExitStart(c, p) \/ WaitNone(c, p)
       PROVE  NoLostProcess' /\ BoostReaches
  <2>1. state' = state /\ queue' = queue /\ dictator' = dictator /\ gticks' = gticks
    BY <1>11 DEF ExitStart, WaitNone
  <2> QED BY <1>1, <2>1, StayQueued DEF Quiet
<1>12. ASSUME NEW p \in Slot, LockRefused(c, p) PROVE NoLostProcess' /\ BoostReaches
  <2>1. /\ cur[c] = p /\ state' = state /\ queue' = queue /\ dictator' = None
        /\ gticks' = gticks
    BY <1>12 DEF LockRefused, At
  <2>2. dictator # None => state[dictator] = "RUNNING"
    BY <1>2, <2>1 DEF ExecInv, DictatorAlone
  <2>3. NoLostProcess'
    BY <1>1, <2>1, <2>2 DEF NoLostProcess, Queued, None, Slot
  <2> QED BY <1>1, <2>1, <2>3, NoBoost
<1>13. ASSUME NEW p \in Slot, Lock(c, p) PROVE NoLostProcess' /\ BoostReaches
  <2>1. state' = state /\ queue' = queue /\ dictator = None /\ dictator' = p
    BY <1>13 DEF Lock
  <2> QED BY <2>1 DEF NoLostProcess, Queued, BoostReaches, None, Slot
<1>14. ASSUME NEW p \in Slot, Unlock(c, p) PROVE NoLostProcess' /\ BoostReaches
  <2>1. /\ state' = state /\ dictator = p /\ dictator' = None /\ gticks' = gticks
        /\ queue' = [queue EXCEPT ![0] = PutFront(@, p)]
    BY <1>14 DEF Unlock
  <2>2. 0 \in Levels /\ queue[0] \in Seq(Slot)
    BY <1>1 DEF Levels
  <2>3. /\ PutFront(queue[0], p) \in Seq(Slot)
        /\ Members(PutFront(queue[0], p)) = Members(<<p>>) \cup Members(queue[0])
    BY <2>2, PutFrontMembers
  <2>4. p \in Members(<<p>>)
    BY DEF Members
  <2>5. p \in All(queue') /\ \A s : s \in All(queue) => s \in All(queue')
    BY <1>1, <2>1, <2>2, <2>3, <2>4, ChangeMembers
  <2>6. NoLostProcess'
    BY <2>1, <2>5 DEF NoLostProcess, Queued, All
  <2> QED BY <1>1, <2>1, <2>6, NoBoost
<1>15. ASSUME NEW p \in Slot, NEW n \in Slot, ForkAlloc(c, p, n) \/ WaitReap(c, p, n)
       PROVE  NoLostProcess' /\ BoostReaches
  <2>1. /\ state' = [state EXCEPT ![n] = "EMBRYO"] \/ state' = [state EXCEPT ![n] = "UNUSED"]
        /\ queue' = queue /\ dictator' = dictator /\ gticks' = gticks
    BY <1>15 DEF ForkAlloc, WaitReap
  <2>2. \A s \in Slot : Quiet(s) \/ state'[s] \notin {"RUNNABLE", "SLEEPING"}
    BY <1>1, <2>1 DEF Quiet
  <2> QED BY <1>1, <2>1, <2>2, StayQueued
<1>16. ASSUME NEW p \in Slot, NEW t \in Slot, Kill(c, p, t)
       PROVE  NoLostProcess' /\ BoostReaches
  <2>1. /\ state' = [state EXCEPT ![t] = IF @ = "SLEEPING" THEN "RUNNABLE" ELSE @]
        /\ queue' = queue /\ dictator' = dictator /\ gticks' = gticks
    BY <1>16 DEF Kill
  <2>2. \A s \in Slot : Quiet(s)
    BY <1>1, <2>1 DEF Quiet
  <2> QED BY <1>1, <2>1, <2>2, StayQueued
<1>17. ASSUME NEW p \in Slot, NEW t \in Slot, NEW pr \in -1..(TopPriority + 2),
              SetPriority(c, p, t, pr)
       PROVE  NoLostProcess' /\ BoostReaches
  <2>1. PICK lv \in Levels : \E k \in FirstAt(queue[lv], t) :
          queue' = [queue EXCEPT ![lv] = Rotate(@, k)]
    BY <1>17 DEF SetPriority
  <2>2. PICK k \in FirstAt(queue[lv], t) : queue' = [queue EXCEPT ![lv] = Rotate(@, k)]
    BY <2>1
  <2>3. k \in 1..Len(queue[lv]) /\ queue[lv] \in Seq(Slot)
    BY <1>1 DEF FirstAt
  <2>4. Rotate(queue[lv], k) \in Seq(Slot) /\ Members(Rotate(queue[lv], k)) = Members(queue[lv])
    BY <2>3, RotateMembers
  <2>5. \A s : s \in All(queue) => s \in All(queue')
    BY <1>1, <2>2, <2>4, ChangeMembers
  <2>6. state' = state /\ dictator' = dictator /\ gticks' = gticks
    BY <1>17 DEF SetPriority
  <2> QED BY <1>1, <2>5, <2>6, StayQueued DEF Quiet
<1> QED
  BY <1>3, <1>4, <1>5, <1>6, <1>7, <1>8, <1>9, <1>10, <1>11, <1>12, <1>13,
     <1>14, <1>15, <1>16, <1>17 DEF Step

\* The timer and the wakeups of others lose nobody either.
LEMMA NextQueued ==
  ASSUME ExecInv, ExecInv', NoLostProcess, TickInFlight, [Next]_vars
  PROVE  NoLostProcess' /\ BoostReaches
<1>1. ASSUME NEW c \in CPU, Step(c) PROVE NoLostProcess' /\ BoostReaches
  BY <1>1, StepQueued
<1>2. ASSUME TickLoad \/ TickStore \/ TickWakeup \/ WakeupIO \/ UNCHANGED vars
      PROVE  NoLostProcess' /\ BoostReaches
  <2>1. /\ dictator' = dictator /\ queue' = queue
        /\ state' = state \/ state' = Woken(state, TicksChan) \/ state' = Woken(state, IOChan)
    BY <1>2 DEF TickLoad, TickStore, TickWakeup, WakeupIO, vars,
                procVars, schedVars, cpuVars
  <2>2. \A s \in Slot : Quiet(s)
    BY <2>1 DEF Quiet, Woken, ExecInv, TypeInv, TypeOK
  <2>3. NoLostProcess'
    BY <2>1, <2>2 DEF NoLostProcess, Queued, Quiet
  <2>4. gticks \in Nat /\ gticks' \in Nat
    BY ConstantsAssumption DEF ExecInv, TypeInv, TypeOK
  <2>5. gticks <= gticks'
    <3>1. CASE TickStore
      BY <3>1, TickStep DEF ExecInv, TypeInv
    <3>2. CASE ~TickStore
      BY <1>2, <2>4, <3>2 DEF TickLoad, TickWakeup, WakeupIO, vars, tickVars
    <3> QED BY <3>1, <3>2
  <2> QED BY <2>3, <2>4, <2>5, NoBoost
<1> QED BY <1>1, <1>2 DEF Next

\* scheduler(), fork(), setPriority() and priorityBoost() lose no process.
THEOREM EveryOneQueued == ASSUME Undivided PROVE Spec => []NoLostProcess
<1>1. Init => NoLostProcess
  <2> SUFFICES ASSUME Init PROVE NoLostProcess
    OBVIOUS
  <2>1. init \in Members(queue[0])
    BY DEF Init, Levels, Members
  <2> QED BY <2>1 DEF Init, NoLostProcess, Queued, Levels
<1>2. /\ ExecInv /\ ExecInv' /\ TickInFlight /\ NoLostProcess /\ [Next]_vars
      => NoLostProcess'
  BY NextQueued
<1> QED BY <1>1, <1>2, ExecAlways, TickAlways, PTL DEF Spec

\* priorityBoost() brings every process that no processor executes to L0, with
\* all its time and the top priority, a dictator that ends so included.
THEOREM BoostReachesWaiting == ASSUME Undivided PROVE Spec => BoostLiftsWaiting
<1>1. /\ ExecInv /\ ExecInv' /\ TickInFlight /\ NoLostProcess /\ [Next]_vars
      => [gticks' < gticks /\ dictator' = None =>
            \A p \in Slot : Live(p)' /\ (\A c \in CPU : cur'[c] # p) =>
              qlv'[p] = 0 /\ tq'[p] = 0 /\ priority'[p] = TopPriority]_vars
  BY NextQueued DEF BoostReaches
<1> QED BY <1>1, ExecAlways, TickAlways, EveryOneQueued, PTL DEF Spec, BoostLiftsWaiting


-----------------------------------------------------------------------------
(* Three queues without a duplicate.                                       *)

Sound(q) ==
  /\ q \in [Levels -> Seq(Slot)]
  /\ \A lv \in Levels : Distinct(q[lv])
  /\ \A lv, l \in Levels : lv # l => Members(q[lv]) \cap Members(q[l]) = {}

\* One level changes, the members of the three by what it gains and loses.
LEMMA ChangeLevel ==
  ASSUME NEW q, Sound(q), NEW lv \in Levels, NEW f \in Seq(Slot), Distinct(f),
         \A l \in Levels : l # lv => Members(f) \cap Members(q[l]) = {}
  PROVE  /\ Sound([q EXCEPT ![lv] = f])
         /\ All([q EXCEPT ![lv] = f]) = (All(q) \ Members(q[lv])) \cup Members(f)
<1> DEFINE r == [q EXCEPT ![lv] = f]
<1>1. /\ r \in [Levels -> Seq(Slot)] /\ r[lv] = f
      /\ \A l \in Levels : l # lv => r[l] = q[l]
  BY DEF Sound
<1> HIDE DEF r
<1>2. Sound(r)
  BY <1>1 DEF Sound
<1>3. ASSUME NEW x PROVE x \in All(r) <=> x \in (All(q) \ Members(q[lv])) \cup Members(f)
  <2>1. x \in All(r) <=> \E l \in Levels : x \in Members(r[l])
    BY DEF All
  <2>2. x \in All(q) <=> \E l \in Levels : x \in Members(q[l])
    BY DEF All
  <2>3. \A l \in Levels : l # lv => ~(x \in Members(q[l]) /\ x \in Members(q[lv]))
    BY DEF Sound
  <2> QED BY <1>1, <2>1, <2>2, <2>3
<1> QED BY <1>2, <1>3 DEF r

\* A process in no queue enters one.
LEMMA EnterQueue ==
  ASSUME NEW q, Sound(q), NEW lv \in Levels, NEW x \in Slot, x \notin All(q)
  PROVE  /\ Sound([q EXCEPT ![lv] = enQ(@, x)])
         /\ All([q EXCEPT ![lv] = enQ(@, x)]) = All(q) \cup {x}
<1> DEFINE f == enQ(q[lv], x)
<1>1. q[lv] \in Seq(Slot) /\ Distinct(q[lv])
  BY DEF Sound
<1>2. \A l \in Levels : x \notin Members(q[l])
  BY DEF All
<1>3. f \in Seq(Slot) /\ Distinct(f) /\ Members(f) = Members(q[lv]) \cup {x}
  BY <1>1, <1>2, EnQDistinct
<1> HIDE DEF f
<1>4. \A l \in Levels : l # lv => Members(f) \cap Members(q[l]) = {}
  BY <1>2, <1>3 DEF Sound
<1>5. f \in Seq(Slot) /\ Distinct(f)
  BY <1>3
<1>6. /\ Sound([q EXCEPT ![lv] = f])
      /\ All([q EXCEPT ![lv] = f]) = (All(q) \ Members(q[lv])) \cup Members(f)
  BY <1>4, <1>5, ChangeLevel
<1>7. Members(q[lv]) \subseteq All(q)
  BY DEF All
<1> QED BY <1>3, <1>6, <1>7 DEF f

\* pickProc() takes a process out of its queue, and out of all of them.
LEMMA LeaveQueue ==
  ASSUME NEW q, Sound(q), NEW lv \in Levels, NEW k \in 1..Len(q[lv])
  PROVE  /\ Sound([q EXCEPT ![lv] = Extract(@, k)])
         /\ All([q EXCEPT ![lv] = Extract(@, k)]) = All(q) \ {q[lv][k]}
         /\ q[lv][k] \in All(q) /\ q[lv][k] \in Slot
<1> DEFINE f == Extract(q[lv], k)
           x == q[lv][k]
<1>1. q[lv] \in Seq(Slot) /\ Distinct(q[lv])
  BY DEF Sound
<1>2. f \in Seq(Slot) /\ Distinct(f) /\ Members(f) = Members(q[lv]) \ {x}
  BY <1>1, ExtractDistinct
<1>3. x \in Members(q[lv]) /\ x \in Slot
  BY <1>1 DEF Members
<1> HIDE DEF f, x
<1>4. \A l \in Levels : l # lv => Members(f) \cap Members(q[l]) = {}
  BY <1>2 DEF Sound
<1>5. /\ Sound([q EXCEPT ![lv] = f])
      /\ All([q EXCEPT ![lv] = f]) = (All(q) \ Members(q[lv])) \cup Members(f)
  BY <1>2, <1>4, ChangeLevel
<1>6. Members(q[lv]) \subseteq All(q)
  BY DEF All
<1> QED BY <1>2, <1>3, <1>5, <1>6 DEF f, x

\* The search of setPriority() keeps every process in its queue.
LEMMA RotateQueue ==
  ASSUME NEW q, Sound(q), NEW lv \in Levels, NEW k \in 1..Len(q[lv])
  PROVE  /\ Sound([q EXCEPT ![lv] = Rotate(@, k)])
         /\ All([q EXCEPT ![lv] = Rotate(@, k)]) = All(q)
<1> DEFINE f == Rotate(q[lv], k)
<1>1. q[lv] \in Seq(Slot) /\ Distinct(q[lv])
  BY DEF Sound
<1>2. f \in Seq(Slot) /\ Distinct(f) /\ Members(f) = Members(q[lv])
  BY <1>1, RotateDistinct
<1> HIDE DEF f
<1>3. \A l \in Levels : l # lv => Members(f) \cap Members(q[l]) = {}
  BY <1>2 DEF Sound
<1>4. /\ Sound([q EXCEPT ![lv] = f])
      /\ All([q EXCEPT ![lv] = f]) = (All(q) \ Members(q[lv])) \cup Members(f)
  <2>1. f \in Seq(Slot) /\ Distinct(f)
    BY <1>2
  <2> QED BY <1>3, <2>1, ChangeLevel
<1>5. Members(q[lv]) \subseteq All(q)
  BY DEF All
<1> QED BY <1>2, <1>4, <1>5 DEF f

\* priorityBoost() moves every process to L0 and loses none.
LEMMA BoostQueues ==
  ASSUME NEW q, Sound(q)
  PROVE  Sound(Boosted(q, None)) /\ All(Boosted(q, None)) = All(q)
<1> DEFINE f == q[0] \o q[1] \o q[2]
           r == Boosted(q, None)
<1>0. 0 \in Levels /\ 1 \in Levels /\ 2 \in Levels
      /\ \A lv \in Levels : lv = 0 \/ lv = 1 \/ lv = 2
  BY DEF Levels
<1>1. /\ f \in Seq(Slot) /\ Distinct(f)
      /\ Members(f) = Members(q[0]) \cup Members(q[1]) \cup Members(q[2])
  <2>1. q[0] \in Seq(Slot) /\ q[1] \in Seq(Slot) /\ q[2] \in Seq(Slot)
    BY <1>0 DEF Sound
  <2>2. Distinct(q[0]) /\ Distinct(q[1]) /\ Distinct(q[2])
    BY <1>0 DEF Sound
  <2>3. /\ Members(q[0]) \cap Members(q[1]) = {}
        /\ Members(q[0]) \cap Members(q[2]) = {}
        /\ Members(q[1]) \cap Members(q[2]) = {}
    BY <1>0 DEF Sound
  <2> QED BY <2>1, <2>2, <2>3, BoostDistinct
<1> HIDE DEF f
<1>2. r = [lv \in Levels |-> IF lv # 0 THEN <<>> ELSE f]
  BY DEF Boosted, f
<1>3. r[0] = f /\ r[1] = <<>> /\ r[2] = <<>>
  BY <1>0, <1>2
<1>4. Distinct(<<>>) /\ Members(<<>>) = {} /\ <<>> \in Seq(Slot)
  BY DEF Distinct, Members
<1>5. r \in [Levels -> Seq(Slot)]
  BY <1>1, <1>2, <1>4
<1> HIDE DEF r
<1>6. Sound(r)
  <2>1. \A lv \in Levels : lv # 0 => Members(r[lv]) = {}
    BY <1>0, <1>3, <1>4
  <2>2. \A lv \in Levels : Distinct(r[lv])
    BY <1>0, <1>1, <1>3, <1>4
  <2> QED BY <1>5, <2>1, <2>2 DEF Sound
<1>7. All(r) = Members(f)
  BY <1>0, <1>3, <1>4 DEF All
<1>8. All(q) = Members(q[0]) \cup Members(q[1]) \cup Members(q[2])
  BY <1>0 DEF All
<1> QED BY <1>1, <1>6, <1>7, <1>8 DEF r

-----------------------------------------------------------------------------
(* The invariant.                                                          *)

\* The queues hold the processes that wait for a processor or sleep, and no
\* other entry of the process table.
QueuesHoldWaiting ==
  \A p \in Slot : p \in All(queue) <=> state[p] \in {"RUNNABLE", "SLEEPING"}

SchedInv ==
  /\ ExecInv /\ dictator = None
  /\ Sound(queue) /\ QueuesHoldWaiting

\* main() leaves init alone, in L0.
LEMMA InitSched == Init => SchedInv
<1> SUFFICES ASSUME Init PROVE SchedInv
  OBVIOUS
<1>1. ExecInv /\ TypeInv
  BY InitExec, InitType
<1>2. init \in Slot
  BY ConstantsAssumption DEF init, Slot
<1>3. queue[0] = <<init>> /\ queue[1] = <<>> /\ queue[2] = <<>>
  BY DEF Init, Levels
<1>4. /\ Distinct(<<>>) /\ Members(<<>>) = {}
      /\ Distinct(<<init>>) /\ Members(<<init>>) = {init}
  BY DEF Distinct, Members
<1>5. \A lv \in Levels : lv = 0 \/ lv = 1 \/ lv = 2
  BY DEF Levels
<1>6. Sound(queue)
  <2>1. queue \in [Levels -> Seq(Slot)]
    BY <1>1 DEF TypeInv, TypeOK
  <2>2. \A lv \in Levels : lv # 0 => Members(queue[lv]) = {}
    BY <1>3, <1>4, <1>5
  <2>3. \A lv \in Levels : Distinct(queue[lv])
    BY <1>3, <1>4, <1>5
  <2> QED BY <2>1, <2>2, <2>3 DEF Sound
<1>7. All(queue) = {init}
  BY <1>3, <1>4, <1>5 DEF All, Levels
<1>8. QueuesHoldWaiting
  BY <1>7 DEF QueuesHoldWaiting, Init
<1> QED BY <1>1, <1>6, <1>8 DEF SchedInv, Init

\* A process that leaves its processor is put in a queue, unless it is dead,
\* and whether or not a boost follows no other process enters or leaves one.
LEMMA SwitchOutQueues ==
  ASSUME SchedInv, NEW c \in CPU, cur[c] # None, SwitchOut(c, None)
  PROVE  /\ cur[c] \in Slot /\ state[cur[c]] = "RUNNING"
         /\ Sound(queue')
         /\ All(queue') = IF state'[cur[c]] = "ZOMBIE" THEN All(queue)
                          ELSE All(queue) \cup {cur[c]}
<1> DEFINE p       == cur[c]
           used    == MinOf(tq[p] + 1, MaxQuantum)
           expired == Expired(c, None, used)
           lv      == IF expired THEN NextLevel(level[c]) ELSE level[c]
           q       == Requeued(p, lv, None)
<1>1. p \in Slot /\ state[p] = "RUNNING"
  BY DEF SchedInv, ExecInv, TypeInv, TypeOK, OneCPU
<1>2. p \notin All(queue) /\ Sound(queue)
  BY <1>1 DEF SchedInv, QueuesHoldWaiting
<1>3. lv \in Levels
  BY DEF SchedInv, ExecInv, TypeInv, TypeOK, NextLevel, MinOf, Levels
<1>4. queue' = IF BoostDue(None) THEN Boosted(q, None) ELSE q
  BY DEF SwitchOut
<1> HIDE DEF lv
<1>5. /\ Sound(q)
      /\ All(q) = IF state'[p] = "ZOMBIE" THEN All(queue) ELSE All(queue) \cup {p}
  <2>1. CASE state'[p] = "ZOMBIE"
    BY <1>2, <2>1 DEF Requeued
  <2>2. CASE state'[p] # "ZOMBIE"
    <3>1. q = [queue EXCEPT ![lv] = enQ(@, p)]
      BY <2>2 DEF Requeued
    <3> HIDE DEF q, p
    <3> QED BY <1>1, <1>2, <1>3, <2>2, <3>1, EnterQueue
  <2> QED BY <2>1, <2>2
<1> HIDE DEF q, p
<1>6. Sound(queue') /\ All(queue') = All(q)
  BY <1>4, <1>5, BoostQueues
<1> QED BY <1>1, <1>4, <1>5, <1>6 DEF p

\* A step that leaves the members of the queues alone, wakes processes and moves
\* slots between UNUSED, EMBRYO and ZOMBIE.
LEMMA StaySched ==
  ASSUME SchedInv, ExecInv', dictator' = None,
         Sound(queue'), All(queue') = All(queue),
         \A s \in Slot : Quiet(s) \/ {state[s], state'[s]} \subseteq {"UNUSED", "EMBRYO", "ZOMBIE"}
  PROVE  SchedInv'
<1>1. QueuesHoldWaiting'
  BY DEF SchedInv, QueuesHoldWaiting, Quiet
<1> QED BY <1>1 DEF SchedInv

\* A process leaves its processor.
LEMMA LeaveSched ==
  ASSUME SchedInv, ExecInv', dictator' = None,
         NEW c \in CPU, cur[c] # None, SwitchOut(c, None),
         state'[cur[c]] \in {"RUNNABLE", "SLEEPING", "ZOMBIE"},
         \A s \in Slot : s # cur[c] => Quiet(s)
  PROVE  SchedInv'
<1> DEFINE p == cur[c]
<1>1. /\ p \in Slot /\ state[p] = "RUNNING"
      /\ Sound(queue')
      /\ All(queue') = IF state'[p] = "ZOMBIE" THEN All(queue) ELSE All(queue) \cup {p}
  BY SwitchOutQueues
<1>2. QueuesHoldWaiting'
  BY <1>1 DEF SchedInv, QueuesHoldWaiting, Quiet
<1> QED BY <1>1, <1>2 DEF SchedInv

\* A process enters a processor from a queue.
LEMMA DispatchSched ==
  ASSUME SchedInv, ExecInv', NEW c \in CPU, DispatchQueued(c)
  PROVE  SchedInv'
<1>1. PICK lv \in Levels :
        \E k \in Picks(queue[lv], lv, Ready, priority) :
          /\ Resume(c, queue[lv][k])
          /\ queue' = [queue EXCEPT ![lv] = Extract(@, k)]
  BY DEF DispatchQueued
<1>2. PICK k \in Picks(queue[lv], lv, Ready, priority) :
        /\ Resume(c, queue[lv][k])
        /\ queue' = [queue EXCEPT ![lv] = Extract(@, k)]
  BY <1>1
<1> DEFINE p == queue[lv][k]
<1>3. k \in 1..Len(queue[lv]) /\ state[p] = "RUNNABLE"
  BY DEF Picks, ReadyAt, Ready
<1>4. /\ Sound(queue') /\ All(queue') = All(queue) \ {p}
      /\ p \in All(queue) /\ p \in Slot
  <2>1. Sound(queue)
    BY DEF SchedInv
  <2>2. /\ Sound([queue EXCEPT ![lv] = Extract(@, k)])
        /\ All([queue EXCEPT ![lv] = Extract(@, k)]) = All(queue) \ {p}
        /\ p \in All(queue) /\ p \in Slot
    BY <1>3, <2>1, LeaveQueue
  <2> QED BY <1>2, <2>2
<1>5. state' = [state EXCEPT ![p] = "RUNNING"] /\ dictator' = None
  BY <1>2 DEF Resume, DispatchQueued
<1> HIDE DEF p
<1>6. state \in [Slot -> PState]
  BY DEF SchedInv, ExecInv, TypeInv, TypeOK
<1>7. QueuesHoldWaiting'
  BY <1>3, <1>4, <1>5, <1>6 DEF SchedInv, QueuesHoldWaiting
<1> QED BY <1>4, <1>5, <1>7 DEF SchedInv

\* Every step of a processor, action by action.
LEMMA StepSched ==
  ASSUME SchedInv, ExecInv', Lockers = {}, NEW c \in CPU, Step(c)
  PROVE  SchedInv'
<1>0. /\ dictator = None /\ Sound(queue)
      /\ \A p \in Slot, d \in CPU : cur[d] = p => state[p] = "RUNNING" /\ cur[d] # None
  BY DEF SchedInv, ExecInv, OneCPU, Slot, None
<1>1. state \in [Slot -> PState] /\ cur \in [CPU -> Slot \cup {None}]
  BY DEF SchedInv, ExecInv, TypeInv, TypeOK
<1>2. dictator' = None
  BY <1>0 DEF SchedInv, ExecInv, OnlyLockersDictate
<1> USE DEF schedVars, procVars, tickVars, cpuVars
<1>3. CASE DispatchDictator(c) \/ DispatchQueued(c)
  BY <1>0, <1>3, DispatchSched DEF DispatchDictator
<1>4. CASE Yield(c)
  <2>1. cur[c] # None /\ SwitchOut(c, None)
    BY <1>0, <1>4 DEF Yield
  <2>2. state' = [state EXCEPT ![cur[c]] = "RUNNABLE"]
    BY <1>4 DEF Yield
  <2> QED BY <1>1, <1>2, <2>1, <2>2, LeaveSched DEF Quiet
<1>5. ASSUME NEW ch \in Sleeps, Sleep(c, ch) PROVE SchedInv'
  <2>1. cur[c] # None /\ SwitchOut(c, None)
    BY <1>0, <1>5 DEF Sleep
  <2>2. state' = [state EXCEPT ![cur[c]] = "SLEEPING"]
    BY <1>5 DEF Sleep
  <2> QED BY <1>1, <1>2, <2>1, <2>2, LeaveSched DEF Quiet
<1>6. ASSUME NEW p \in Slot, ForkFail(c, p) PROVE SchedInv'
  <2>1. /\ pc[p] = "fork" /\ state' = [state EXCEPT ![np[p]] = "UNUSED"] /\ queue' = queue
    BY <1>6 DEF ForkFail, At
  <2>2. np[p] \in Slot /\ state[np[p]] = "EMBRYO"
    BY <2>1 DEF SchedInv, ExecInv, ForkOwns
  <2> QED BY <1>0, <1>1, <1>2, <2>1, <2>2, StaySched DEF Quiet
<1>7. ASSUME NEW p \in Slot, ForkFinish(c, p) PROVE SchedInv'
  <2> DEFINE n == np[p]
  <2>1. /\ pc[p] = "fork" /\ state' = [state EXCEPT ![n] = "RUNNABLE"]
        /\ queue' = [queue EXCEPT ![0] = enQ(@, n)]
    BY <1>7 DEF ForkFinish, At
  <2>2. n \in Slot /\ state[n] = "EMBRYO"
    BY <2>1 DEF SchedInv, ExecInv, ForkOwns
  <2>3. n \notin All(queue) /\ 0 \in Levels
    BY <2>2 DEF SchedInv, QueuesHoldWaiting, Levels
  <2> HIDE DEF n
  <2>4. Sound(queue') /\ All(queue') = All(queue) \cup {n}
    <3>1. Sound(queue) /\ n \in Slot
      BY <1>0, <2>2
    <3>2. /\ Sound([queue EXCEPT ![0] = enQ(@, n)])
          /\ All([queue EXCEPT ![0] = enQ(@, n)]) = All(queue) \cup {n}
      BY <2>3, <3>1, EnterQueue
    <3> QED BY <2>1, <3>2
  <2>5. QueuesHoldWaiting'
    BY <1>1, <2>1, <2>2, <2>4 DEF SchedInv, QueuesHoldWaiting
  <2> QED BY <1>2, <2>4, <2>5 DEF SchedInv
<1>8. ASSUME NEW p \in Slot, ExitStart(c, p) \/ WaitNone(c, p) PROVE SchedInv'
  <2>1. state' = state /\ queue' = queue
    BY <1>8 DEF ExitStart, WaitNone
  <2> QED BY <1>0, <1>2, <2>1, StaySched DEF Quiet
<1>9. ASSUME NEW p \in Slot, ExitFinal(c, p) PROVE SchedInv'
  <2>1. cur[c] = p /\ cur[c] # None /\ SwitchOut(c, None)
    BY <1>0, <1>9 DEF ExitFinal, At, StepDown
  <2>2. state' = [ExitWakes(p) EXCEPT ![p] = "ZOMBIE"]
    BY <1>9 DEF ExitFinal
  <2>3. /\ ExitWakes(p) \in [Slot -> PState]
        /\ \A s \in Slot : \/ ExitWakes(p)[s] = state[s]
                           \/ state[s] = "SLEEPING" /\ ExitWakes(p)[s] = "RUNNABLE"
    BY <1>1 DEF ExitWakes, Woken, PState
  <2>4. /\ state'[cur[c]] = "ZOMBIE"
        /\ \A s \in Slot : s # cur[c] => Quiet(s)
    BY <2>1, <2>2, <2>3 DEF Quiet
  <2> QED BY <1>2, <2>1, <2>4, LeaveSched
<1>10. ASSUME NEW p \in Slot, WaitSleep(c, p) PROVE SchedInv'
  <2>1. cur[c] = p /\ cur[c] # None /\ SwitchOut(c, None)
    BY <1>0, <1>10 DEF WaitSleep, InWait, At
  <2>2. state' = [state EXCEPT ![p] = "SLEEPING"]
    BY <1>10 DEF WaitSleep
  <2> QED BY <1>1, <1>2, <2>1, <2>2, LeaveSched DEF Quiet
<1>11. ASSUME NEW p \in Slot, LockRefused(c, p) \/ Lock(c, p) \/ Unlock(c, p)
       PROVE  FALSE
  BY <1>11 DEF LockRefused, Lock, Unlock
<1>12. ASSUME NEW p \in Slot, NEW n \in Slot, ForkAlloc(c, p, n) PROVE SchedInv'
  <2>1. state[n] = "UNUSED" /\ state' = [state EXCEPT ![n] = "EMBRYO"] /\ queue' = queue
    BY <1>12 DEF ForkAlloc
  <2> QED BY <1>0, <1>1, <1>2, <2>1, StaySched DEF Quiet
<1>13. ASSUME NEW p \in Slot, NEW z \in Slot, WaitReap(c, p, z) PROVE SchedInv'
  <2>1. state[z] = "ZOMBIE" /\ state' = [state EXCEPT ![z] = "UNUSED"] /\ queue' = queue
    BY <1>13 DEF WaitReap, ZombieChild
  <2> QED BY <1>0, <1>1, <1>2, <2>1, StaySched DEF Quiet
<1>14. ASSUME NEW p \in Slot, NEW t \in Slot, Kill(c, p, t) PROVE SchedInv'
  <2>1. /\ state' = [state EXCEPT ![t] = IF @ = "SLEEPING" THEN "RUNNABLE" ELSE @]
        /\ queue' = queue
    BY <1>14 DEF Kill
  <2> QED BY <1>0, <1>1, <1>2, <2>1, StaySched DEF Quiet
<1>15. ASSUME NEW p \in Slot, NEW t \in Slot, NEW pr \in -1..(TopPriority + 2),
              SetPriority(c, p, t, pr)
       PROVE  SchedInv'
  <2>1. PICK lv \in Levels : \E k \in FirstAt(queue[lv], t) :
          queue' = [queue EXCEPT ![lv] = Rotate(@, k)]
    BY <1>15 DEF SetPriority
  <2>2. PICK k \in FirstAt(queue[lv], t) : queue' = [queue EXCEPT ![lv] = Rotate(@, k)]
    BY <2>1
  <2>3. k \in 1..Len(queue[lv])
    BY DEF FirstAt
  <2>4. Sound(queue') /\ All(queue') = All(queue)
    BY <1>0, <2>2, <2>3, RotateQueue
  <2>5. state' = state
    BY <1>15 DEF SetPriority
  <2> QED BY <1>0, <1>2, <2>4, <2>5, StaySched DEF Quiet
<1> QED
  BY <1>3, <1>4, <1>5, <1>6, <1>7, <1>8, <1>9, <1>10, <1>11, <1>12, <1>13,
     <1>14, <1>15 DEF Step

\* The timer and the wakeups of others keep the invariant too.
LEMMA NextSched ==
  ASSUME SchedInv, Lockers = {}, [Next]_vars
  PROVE  SchedInv'
<1>1. ExecInv' /\ dictator = None /\ Sound(queue)
  BY NextExec DEF SchedInv, Undivided
<1>2. state \in [Slot -> PState]
  BY DEF SchedInv, ExecInv, TypeInv, TypeOK
<1>3. ASSUME NEW c \in CPU, Step(c) PROVE SchedInv'
  BY <1>1, <1>3, StepSched
<1>4. ASSUME TickLoad \/ TickStore \/ TickWakeup \/ WakeupIO \/ UNCHANGED vars
      PROVE  SchedInv'
  <2>1. /\ dictator' = dictator /\ queue' = queue
        /\ state' = state \/ state' = Woken(state, TicksChan) \/ state' = Woken(state, IOChan)
    BY <1>4 DEF TickLoad, TickStore, TickWakeup, WakeupIO, vars,
                procVars, schedVars, cpuVars
  <2>2. \A s \in Slot : Quiet(s)
    BY <1>2, <2>1 DEF Quiet, Woken
  <2> QED BY <1>1, <2>1, <2>2, StaySched
<1> QED BY <1>3, <1>4 DEF Next

LEMMA SchedAlways == ASSUME Lockers = {} PROVE Spec => []SchedInv
<1>1. SchedInv /\ [Next]_vars => SchedInv'
  BY NextSched
<1> QED BY <1>1, InitSched, PTL DEF Spec

\* scheduler() leaves a waiting process in exactly one place of one queue and
\* nothing else in any.
THEOREM QueuesExact == ASSUME Lockers = {} PROVE Spec => []QueuedOnce
<1>1. SchedInv => QueuedOnce
  <2> SUFFICES ASSUME SchedInv,
                      NEW lv \in Levels, NEW l \in Levels,
                      NEW i \in 1..Len(queue[lv]), NEW j \in 1..Len(queue[l])
               PROVE  /\ state[queue[lv][i]] \in {"RUNNABLE", "SLEEPING"}
                      /\ queue[lv][i] = queue[l][j] => lv = l /\ i = j
    BY DEF QueuedOnce
  <2>1. Sound(queue) /\ QueuesHoldWaiting
    BY DEF SchedInv
  <2>2. queue[lv][i] \in Members(queue[lv]) /\ queue[l][j] \in Members(queue[l])
    BY DEF Members
  <2>3. queue[lv][i] \in All(queue) /\ queue[lv][i] \in Slot
    BY <2>1, <2>2 DEF All, Sound
  <2>4. ASSUME queue[lv][i] = queue[l][j] PROVE lv = l
    BY <2>1, <2>2, <2>4 DEF Sound
  <2>5. ASSUME queue[lv][i] = queue[l][j] PROVE i = j
    BY <2>1, <2>4, <2>5 DEF Sound, Distinct
  <2> QED BY <2>1, <2>3, <2>4, <2>5 DEF QueuesHoldWaiting
<1> QED BY <1>1, SchedAlways, PTL

-----------------------------------------------------------------------------
(* Levels.                                                                 *)

\* A process that runs has time left on the level that its processor took it
\* from, which is still its own.
RunningLevel ==
  \A c \in CPU : cur[c] # None => qlv[cur[c]] = level[c] /\ tq[cur[c]] < Quantum(level[c])

LevelInv == LevelMatches /\ RunningLevel

\* A step that moves nobody from level to level and gives nobody a processor.
LEMMA StayLevel ==
  ASSUME LevelInv, cur' = cur, level' = level, qlv' = qlv, tq' = tq,
         \A lv \in Levels : Members(queue'[lv]) \subseteq Members(queue[lv])
  PROVE  LevelInv'
BY DEF LevelInv, LevelMatches, RunningLevel

\* Feedback puts the process that leaves a processor on the level whose quantum
\* it has not used, a boost all that wait on L0.
LEMMA LeaveLevel ==
  ASSUME SchedInv, LevelInv, NEW c \in CPU, cur[c] # None, SwitchOut(c, None)
  PROVE  LevelInv'
<1> DEFINE p       == cur[c]
           used    == MinOf(tq[p] + 1, MaxQuantum)
           expired == Expired(c, None, used)
           lv      == IF expired THEN NextLevel(level[c]) ELSE level[c]
           q       == Requeued(p, lv, None)
           lifted  == IF BoostDue(None) THEN Lifted(q, None) ELSE {}
           qlv1    == [qlv EXCEPT ![p] = IF expired THEN lv ELSE @]
           tq1     == [tq EXCEPT ![p] = IF expired THEN 0 ELSE used]
<1>1. /\ qlv' = [s \in Slot |-> IF s \in lifted THEN 0 ELSE qlv1[s]]
      /\ tq' = [s \in Slot |-> IF s \in lifted THEN 0 ELSE tq1[s]]
      /\ queue' = IF BoostDue(None) THEN Boosted(q, None) ELSE q
      /\ cur' = [cur EXCEPT ![c] = None] /\ level' = level
  BY DEF SwitchOut
<1>2. /\ queue \in [Levels -> Seq(Slot)] /\ p \in Slot /\ level[c] \in Levels
      /\ tq \in [Slot -> 0..MaxQuantum] /\ qlv \in [Slot -> Levels \cup {-1}]
      /\ cur \in [CPU -> Slot \cup {None}]
  BY DEF SchedInv, ExecInv, TypeInv, TypeOK
<1>3. \A l \in Levels : Quantum(l) \in Nat /\ 0 < Quantum(l)
  BY ConstantsAssumption DEF Levels, Quantum
<1>4. /\ lv \in Levels /\ qlv1[p] = lv /\ tq1[p] < Quantum(lv)
      /\ \A s \in Slot : s # p => qlv1[s] = qlv[s] /\ tq1[s] = tq[s]
  <2>1. lv \in Levels
    BY <1>2 DEF NextLevel, MinOf, Levels
  <2>2. qlv[p] = level[c]
    BY DEF LevelInv, RunningLevel
  <2>3. tq[p] \in Nat /\ MaxQuantum \in Nat /\ used \in Nat
    BY <1>2, <1>3 DEF MaxQuantum, MinOf, Levels
  <2>4. ~expired => used < Quantum(level[c])
    BY <1>2, <1>3, <2>3 DEF Expired
  <2> QED BY <1>2, <1>3, <2>1, <2>2, <2>4
<1> HIDE DEF lv, qlv1, tq1
<1>5. /\ q \in [Levels -> Seq(Slot)]
      /\ \A l \in Levels, s \in Slot :
           s \in Members(q[l]) => s \in Members(queue[l]) \/ (s = p /\ l = lv)
  <2>1. CASE state'[p] = "ZOMBIE"
    BY <1>2, <2>1 DEF Requeued
  <2>2. CASE state'[p] # "ZOMBIE"
    <3>1. q = [queue EXCEPT ![lv] = enQ(@, p)]
      BY <2>2 DEF Requeued
    <3>2. queue[lv] \in Seq(Slot)
      BY <1>2, <1>4
    <3> HIDE DEF p, q
    <3>3. /\ enQ(queue[lv], p) \in Seq(Slot)
          /\ Members(enQ(queue[lv], p)) = Members(queue[lv]) \cup {p}
      <4>1. p \in Slot
        BY <1>2
      <4> QED BY <3>2, <4>1, EnQMembers
    <3> QED BY <1>2, <1>4, <3>1, <3>3
  <2> QED BY <2>1, <2>2
<1>6. \A s \in Slot : state[s] = "RUNNING" => s \notin All(queue)
  BY DEF SchedInv, QueuesHoldWaiting
<1>7. p \notin All(queue)
  BY <1>2, <1>6 DEF SchedInv, ExecInv, OneCPU
<1> HIDE DEF p, q, lifted
<1>8. ASSUME NEW l \in Levels, NEW s \in Slot, s \in Members(q[l])
      PROVE  qlv1[s] = l /\ tq1[s] < Quantum(l)
  <2>1. CASE s = p /\ l = lv
    BY <1>4, <2>1
  <2>2. CASE s \in Members(queue[l])
    <3>1. s # p
      BY <1>7, <2>2 DEF All
    <3> QED BY <1>4, <2>2, <3>1 DEF LevelInv, LevelMatches
  <2> QED BY <1>5, <1>8, <2>1, <2>2
<1>9. LevelMatches'
  <2>1. CASE ~BoostDue(None)
    <3> SUFFICES ASSUME NEW l \in Levels, NEW s \in Members(q[l])
                 PROVE  qlv'[s] = l /\ tq'[s] < Quantum(l)
      BY <1>1, <2>1 DEF LevelMatches
    <3>1. s \in Slot
      BY <1>5 DEF Members
    <3> QED BY <1>1, <1>8, <2>1, <3>1 DEF lifted
  <2>2. CASE BoostDue(None)
    <3> DEFINE b == Boosted(q, None)
    <3>1. /\ 0 \in Levels /\ b[0] = q[0] \o q[1] \o q[2]
          /\ \A l \in Levels : l # 0 => b[l] = <<>>
      <4>1. b = [l \in Levels |-> IF l # 0 THEN <<>> ELSE q[0] \o q[1] \o q[2]]
        BY DEF Boosted
      <4>2. 0 \in Levels
        BY DEF Levels
      <4> HIDE DEF b
      <4> QED BY <4>1, <4>2
    <3>2. \A s \in Members(b[0]) : s \in Slot /\ s \in lifted
      <4>1. q[0] \in Seq(Slot) /\ q[1] \in Seq(Slot) /\ q[2] \in Seq(Slot)
        BY <1>5 DEF Levels
      <4> DEFINE a == q[0] \o q[1]
      <4>2. a \in Seq(Slot) /\ Members(a) = Members(q[0]) \cup Members(q[1])
        BY <4>1, ConcatMembers
      <4> HIDE DEF a
      <4>3. Members(a \o q[2]) = Members(a) \cup Members(q[2])
        BY <4>1, <4>2, ConcatMembers
      <4>4. \A l \in Levels : \A s \in Members(q[l]) : s \in Slot
        BY <1>5 DEF Members
      <4> QED BY <2>2, <3>1, <4>2, <4>3, <4>4 DEF a, Lifted, Levels, lifted
    <3>3. \A l \in Levels : l # 0 => Members(b[l]) = {}
      BY <3>1 DEF Members
    <3>4. queue' = b
      BY <1>1, <2>2
    <3> HIDE DEF b
    <3> SUFFICES ASSUME NEW l \in Levels, NEW s \in Members(b[l])
                 PROVE  qlv'[s] = l /\ tq'[s] < Quantum(l)
      BY <3>4 DEF LevelMatches
    <3>5. l = 0 /\ s \in Slot /\ s \in lifted
      BY <3>2, <3>3
    <3> QED BY <1>1, <1>3, <3>5
  <2> QED BY <2>1, <2>2
<1>10. RunningLevel'
  <2> SUFFICES ASSUME NEW d \in CPU, cur'[d] # None
               PROVE  qlv'[cur'[d]] = level[d] /\ tq'[cur'[d]] < Quantum(level[d])
    BY <1>1 DEF RunningLevel
  <2>1. d # c /\ cur'[d] = cur[d]
    BY <1>1, <1>2
  <2>2. cur[d] \in Slot /\ cur[d] # p /\ state[cur[d]] = "RUNNING"
    BY <1>2, <2>1 DEF SchedInv, ExecInv, OneCPU, p
  <2>3. cur[d] \notin lifted
    BY <1>5, <1>6, <2>2 DEF lifted, Lifted, All, None, Slot
  <2>4. qlv[cur[d]] = level[d] /\ tq[cur[d]] < Quantum(level[d])
    BY <2>1 DEF LevelInv, RunningLevel
  <2> QED BY <1>1, <1>4, <2>1, <2>2, <2>3, <2>4
<1> QED BY <1>9, <1>10 DEF LevelInv

LEMMA StepLevel ==
  ASSUME SchedInv, LevelInv, Lockers = {}, NEW c \in CPU, Step(c)
  PROVE  LevelInv'
<1>1. /\ dictator = None
      /\ queue \in [Levels -> Seq(Slot)] /\ cur \in [CPU -> Slot \cup {None}]
      /\ level \in [CPU -> Levels] /\ qlv \in [Slot -> Levels \cup {-1}]
      /\ tq \in [Slot -> 0..MaxQuantum]
  BY DEF SchedInv, ExecInv, TypeInv, TypeOK
<1>2. \A p \in Slot : cur[c] = p => cur[c] # None
  BY DEF Slot, None
<1> USE DEF schedVars, procVars, tickVars, cpuVars
<1>3. CASE DispatchDictator(c)
  BY <1>1, <1>3 DEF DispatchDictator
<1>4. CASE DispatchQueued(c)
  <2>1. PICK lv \in Levels :
          /\ \E k \in Picks(queue[lv], lv, Ready, priority) :
               /\ Resume(c, queue[lv][k])
               /\ queue' = [queue EXCEPT ![lv] = Extract(@, k)]
          /\ level' = [level EXCEPT ![c] = lv]
    BY <1>4 DEF DispatchQueued
  <2>2. PICK k \in Picks(queue[lv], lv, Ready, priority) :
          /\ Resume(c, queue[lv][k])
          /\ queue' = [queue EXCEPT ![lv] = Extract(@, k)]
    BY <2>1
  <2> DEFINE p == queue[lv][k]
             f == Extract(queue[lv], k)
  <2>3. k \in 1..Len(queue[lv]) /\ queue[lv] \in Seq(Slot) /\ Distinct(queue[lv])
    BY <1>1 DEF Picks, ReadyAt, SchedInv, Sound
  <2>4. Members(f) = Members(queue[lv]) \ {p}
    BY <2>3, ExtractDistinct
  <2>5. p \in Members(queue[lv])
    BY <2>3 DEF Members
  <2>6. /\ cur' = [cur EXCEPT ![c] = p] /\ queue' = [queue EXCEPT ![lv] = f]
        /\ qlv' = qlv /\ tq' = tq
    BY <2>2 DEF Resume
  <2> HIDE DEF p, f
  <2>7. LevelMatches'
    BY <1>1, <2>4, <2>6 DEF LevelInv, LevelMatches
  <2>8. RunningLevel'
    BY <1>1, <2>1, <2>5, <2>6 DEF LevelInv, LevelMatches, RunningLevel
  <2> QED BY <2>7, <2>8 DEF LevelInv
<1>5. CASE Yield(c)
  BY <1>1, <1>5, LeaveLevel DEF Yield
<1>6. ASSUME NEW ch \in Sleeps, Sleep(c, ch) PROVE LevelInv'
  BY <1>1, <1>6, LeaveLevel DEF Sleep
<1>7. ASSUME NEW p \in Slot, ForkFinish(c, p) PROVE LevelInv'
  <2> DEFINE n == np[p]
             q == queue[0]
  <2>1. /\ pc[p] = "fork" /\ queue' = [queue EXCEPT ![0] = enQ(@, n)]
        /\ qlv' = [qlv EXCEPT ![n] = 0] /\ tq' = [tq EXCEPT ![n] = 0]
        /\ cur' = cur /\ level' = level
    BY <1>7 DEF ForkFinish, At
  <2>2. n \in Slot /\ state[n] = "EMBRYO" /\ q \in Seq(Slot) /\ 0 \in Levels
    BY <1>1, <2>1 DEF SchedInv, ExecInv, ForkOwns, Levels
  <2>3. n \notin All(queue)
    BY <2>2 DEF SchedInv, QueuesHoldWaiting
  <2>4. \A d \in CPU : cur[d] # n
    BY <2>2 DEF SchedInv, ExecInv, OneCPU
  <2>5. 0 < Quantum(0)
    BY ConstantsAssumption DEF Quantum
  <2> HIDE DEF n, q
  <2>6. Members(enQ(q, n)) = Members(q) \cup {n}
    BY <2>2, EnQMembers
  <2>7. LevelMatches'
    <3> SUFFICES ASSUME NEW l \in Levels, NEW s \in Members(queue'[l])
                 PROVE  qlv'[s] = l /\ tq'[s] < Quantum(l)
      BY DEF LevelMatches
    <3>1. (s = n /\ l = 0) \/ s \in Members(queue[l])
      BY <1>1, <2>1, <2>2, <2>6 DEF q
    <3>2. CASE s = n /\ l = 0
      BY <1>1, <2>1, <2>2, <2>5, <3>2
    <3>3. CASE s \in Members(queue[l])
      <4>1. s # n
        BY <2>3, <3>3 DEF All
      <4>2. qlv'[s] = qlv[s] /\ tq'[s] = tq[s]
        BY <1>1, <2>1, <4>1
      <4> QED BY <3>3, <4>2 DEF LevelInv, LevelMatches
    <3> QED BY <3>1, <3>2, <3>3
  <2>8. RunningLevel'
    BY <1>1, <2>1, <2>4 DEF LevelInv, RunningLevel
  <2> QED BY <2>7, <2>8 DEF LevelInv
<1>8. ASSUME NEW p \in Slot, ExitFinal(c, p) \/ WaitSleep(c, p) PROVE LevelInv'
  <2>1. cur[c] # None /\ SwitchOut(c, None)
    BY <1>1, <1>2, <1>8 DEF ExitFinal, StepDown, WaitSleep, InWait, At
  <2> QED BY <2>1, LeaveLevel
<1>9. ASSUME NEW p \in Slot, ExitStart(c, p) \/ WaitNone(c, p) \/ ForkFail(c, p)
      PROVE  LevelInv'
  <2>1. cur' = cur /\ level' = level /\ qlv' = qlv /\ tq' = tq /\ queue' = queue
    BY <1>9 DEF ExitStart, WaitNone, ForkFail
  <2> QED BY <2>1, StayLevel
<1>10. ASSUME NEW p \in Slot, LockRefused(c, p) \/ Lock(c, p) \/ Unlock(c, p)
       PROVE  FALSE
  BY <1>10 DEF LockRefused, Lock, Unlock
<1>11. ASSUME NEW p \in Slot, NEW t \in Slot,
              ForkAlloc(c, p, t) \/ WaitReap(c, p, t) \/ Kill(c, p, t)
       PROVE  LevelInv'
  <2>1. cur' = cur /\ level' = level /\ qlv' = qlv /\ tq' = tq /\ queue' = queue
    BY <1>11 DEF ForkAlloc, WaitReap, Kill
  <2> QED BY <2>1, StayLevel
<1>12. ASSUME NEW p \in Slot, NEW t \in Slot, NEW pr \in -1..(TopPriority + 2),
              SetPriority(c, p, t, pr)
       PROVE  LevelInv'
  <2>1. PICK lv \in Levels : \E k \in FirstAt(queue[lv], t) :
          queue' = [queue EXCEPT ![lv] = Rotate(@, k)]
    BY <1>12 DEF SetPriority
  <2>2. PICK k \in FirstAt(queue[lv], t) : queue' = [queue EXCEPT ![lv] = Rotate(@, k)]
    BY <2>1
  <2>3. k \in 1..Len(queue[lv]) /\ queue[lv] \in Seq(Slot)
    BY <1>1 DEF FirstAt
  <2>4. Members(Rotate(queue[lv], k)) = Members(queue[lv])
    BY <2>3, RotateMembers
  <2>5. cur' = cur /\ level' = level /\ qlv' = qlv /\ tq' = tq
    BY <1>12 DEF SetPriority
  <2>6. \A l \in Levels : Members(queue'[l]) = Members(queue[l])
    BY <1>1, <2>2, <2>4
  <2> QED BY <2>5, <2>6, StayLevel
<1> QED
  BY <1>3, <1>4, <1>5, <1>6, <1>7, <1>8, <1>9, <1>10, <1>11, <1>12 DEF Step

\* p->qlv is the queue that holds the process, and it has time left there: no
\* process overdraws its level, whatever order of yields, sleeps and boosts
\* (scheduler, fork, setPriority, priorityBoost).
THEOREM LevelsAgree == ASSUME Lockers = {} PROVE Spec => []LevelMatches
<1>1. Init => LevelInv
  <2> SUFFICES ASSUME Init PROVE LevelInv
    OBVIOUS
  <2>1. init \in Slot /\ 0 < Quantum(0)
    BY ConstantsAssumption DEF init, Slot, Quantum
  <2>2. /\ 0 \in Levels /\ Members(queue[0]) = {init}
        /\ \A lv \in Levels : lv # 0 => Members(queue[lv]) = {}
    BY DEF Init, Levels, Members
  <2> QED BY <2>1, <2>2 DEF Init, LevelInv, LevelMatches, RunningLevel
<1>2. SchedInv /\ LevelInv /\ [Next]_vars => LevelInv'
  <2> SUFFICES ASSUME SchedInv, LevelInv, [Next]_vars PROVE LevelInv'
    OBVIOUS
  <2>1. ASSUME NEW c \in CPU, Step(c) PROVE LevelInv'
    BY <2>1, StepLevel
  <2>2. ASSUME TickLoad \/ TickStore \/ TickWakeup \/ WakeupIO \/ UNCHANGED vars
        PROVE  LevelInv'
    <3>1. cur' = cur /\ level' = level /\ qlv' = qlv /\ tq' = tq /\ queue' = queue
      BY <2>2 DEF TickLoad, TickStore, TickWakeup, WakeupIO, vars, schedVars, cpuVars
    <3> QED BY <3>1, StayLevel
  <2> QED BY <2>1, <2>2 DEF Next
<1>3. LevelInv => LevelMatches
  BY DEF LevelInv
<1> QED BY <1>1, <1>2, <1>3, SchedAlways, PTL DEF Spec
=============================================================================
