----------------------------- MODULE PipeProofs -----------------------------
(***************************************************************************)
(* Theorems about Pipe for every number of processes, files, descriptors   *)
(* and pipes, every size of a pipe and every modulus that it divides.      *)
(***************************************************************************)
EXTENDS Pipe, FiniteSetTheorems, SequenceTheorems, TLAPS

-----------------------------------------------------------------------------
(* The inductive invariant.                                                *)

\* The descriptors that show file f, and the places of it in the lists of files
\* that calls are about to give back
Shown(f) == {x \in Proc \X FD : ofile[x[1]][x[2]] = f}
Pending(f) == {x \in Proc \X (1..NOFILE + 2) :
                 x[2] \in DOMAIN proc[x[1]].files /\ proc[x[1]].files[x[2]] = f}

Counted(f) == file[f].ref = Cardinality(Shown(f)) + Cardinality(Pending(f))
RefCounts == \A f \in File : Counted(f)

Record == [at : Places, pg : Pages \cup {None}, n : Nat, files : Seq(File),
           then : {"user", "exit"}, wr : BOOLEAN]

TypeInv ==
  /\ file \in [File -> [ref : Nat, pipe : Pages \cup {None}, writable : BOOLEAN]]
  /\ ofile \in [Proc -> [FD -> {0} \cup File]]
  /\ pipe \in [Pages -> [used : BOOLEAN, readopen : BOOLEAN, writeopen : BOOLEAN,
                         nread : 0..WRAP - 1, nwrite : 0..WRAP - 1,
                         data : [0..PIPESIZE - 1 -> Byte \cup {None}]]]
  /\ proc \in [Proc -> Record]
  /\ killed \in [Proc -> BOOLEAN] /\ cut \subseteq Pages

Reading == {"read", "dozeread", "sleepread"}
Writing == {"write", "dozewrite", "sleepwrite"}

\* Which files a process is about to give back, place by place
PlaceOK(p) ==
  /\ proc[p].at = "unused" => proc[p] = Unused
  /\ proc[p].at = "user" => proc[p] = User
  /\ proc[p].at \in Reading \cup Writing => proc[p].files = <<>>
  /\ proc[p].at = "close" => proc[p].files # <<>>
  /\ proc[p].at = "pipealloc" => Len(proc[p].files) \in 1..2
  /\ proc[p].at \in Reading \cup Writing \cup {"pipeclose"} => proc[p].pg \in Pages
  /\ proc[p].then = "exit" => proc[p].at \in {"close", "pipeclose"}
  /\ Len(proc[p].files) <= NOFILE + 2
  /\ proc[p].at = "unused" \/ proc[p].then = "exit" => \A d \in FD : ofile[p][d] = 0
PlaceInv == \A p \in Proc : PlaceOK(p)

\* Entries of the file table: one that is free is empty, one that pipealloc()
\* has taken says nothing yet.
Fresh == [NoFile EXCEPT !.ref = 1]
FilesFresh(p) == proc[p].at = "pipealloc" =>
  \A i \in DOMAIN proc[p].files : file[proc[p].files[i]] = Fresh
FileOK(f) == /\ file[f].ref = 0 => file[f] = NoFile
             /\ file[f].writable => file[f].pipe # None
FileInv ==
  /\ \A f \in File : FileOK(f)
  /\ \A p \in Proc : FilesFresh(p)

\* An end of a pipe is one file, or one close that is under way.
IsEnd(f, g, wr) == file[f].pipe = g /\ file[f].writable = wr
Closes(p, g, wr) == proc[p].at = "pipeclose" /\ proc[p].pg = g /\ proc[p].wr = wr
IsOpen(g, wr) == IF wr THEN pipe[g].writeopen ELSE pipe[g].readopen
EndInv == \A g \in Pages, wr \in BOOLEAN :
  /\ \A f, e \in File : IsEnd(f, g, wr) /\ IsEnd(e, g, wr) => f = e
  /\ \A p \in Proc, f \in File : ~(Closes(p, g, wr) /\ IsEnd(f, g, wr))
  /\ \A p, q \in Proc : Closes(p, g, wr) /\ Closes(q, g, wr) => p = q
  /\ IsOpen(g, wr) <=> \/ \E f \in File : IsEnd(f, g, wr)
                       \/ \E p \in Proc : Closes(p, g, wr)

\* EndInv, of one end.
LEMMA EndsAt ==
  ASSUME EndInv, NEW g \in Pages, NEW wr \in BOOLEAN
  PROVE  /\ \A f, e \in File : IsEnd(f, g, wr) /\ IsEnd(e, g, wr) => f = e
         /\ \A p \in Proc, f \in File : ~(Closes(p, g, wr) /\ IsEnd(f, g, wr))
         /\ \A p, q \in Proc : Closes(p, g, wr) /\ Closes(q, g, wr) => p = q
         /\ IsOpen(g, wr) <=> \/ \E f \in File : IsEnd(f, g, wr)
                              \/ \E p \in Proc : Closes(p, g, wr)
BY DEF EndInv

\* Who is at a pipe has a descriptor of its end.
Holds(p, wr) == \E d \in FD : ofile[p][d] # 0 /\ IsEnd(ofile[p][d], proc[p].pg, wr)
UserOK(p) ==
  /\ proc[p].at \in Reading => Holds(p, FALSE)
  /\ proc[p].at \in Writing => Holds(p, TRUE)
UserInv == \A p \in Proc : UserOK(p)

PageOK(g) ==
  /\ pipe[g].used <=> pipe[g].readopen \/ pipe[g].writeopen
  /\ ~pipe[g].used => pipe[g] = NoPipe
  /\ Held(g) <= PIPESIZE
PageInv == \A g \in Pages : PageOK(g)

\* Between the test and the sleep the pipe stays as it is.
SleepOK(p) == LET g == proc[p].pg IN
  /\ proc[p].at = "dozeread" => pipe[g].writeopen /\ Empty(g)
  /\ proc[p].at = "dozewrite" => pipe[g].readopen /\ Full(g)
  /\ proc[p].at = "sleepread" => pipe[g].writeopen /\ (Empty(g) \/ g \in cut)
  /\ proc[p].at = "sleepwrite" => pipe[g].readopen /\ Full(g)
SleepInv == \A p \in Proc : SleepOK(p)

TableInv == TypeInv /\ RefCounts /\ PlaceInv /\ FileInv /\ EndInv /\ UserInv
IInv == TableInv /\ PageInv /\ SleepInv

-----------------------------------------------------------------------------
(* Counters modulo WRAP, places modulo PIPESIZE.                           *)

LEMMA Remainder ==
  ASSUME NEW a \in Nat, NEW m \in Nat \ {0}
  PROVE  a % m \in 0..m - 1 /\ a \div m \in Nat /\ a = (a \div m) * m + (a % m)
<1>1. a = (a \div m) * m + (a % m)
  OBVIOUS
<1>2. a % m \in 0..m - 1
  OBVIOUS
<1>3. a \div m \in Nat
  OBVIOUS
<1> QED BY <1>1, <1>2, <1>3

LEMMA RemainderIs ==
  ASSUME NEW a \in Nat, NEW m \in Nat \ {0}, NEW k \in Nat, NEW r \in 0..m - 1, a = m * k + r
  PROVE  a % m = r
OBVIOUS

LEMMA Distribute ==
  ASSUME NEW k \in Nat, NEW t \in Nat, NEW m \in Nat
  PROVE  m * (k + t) = k * m + m * t
OBVIOUS

LEMMA Sizes ==
  /\ PIPESIZE \in Nat \ {0} /\ WRAP \in Nat \ {0} /\ PIPESIZE < WRAP
  /\ \E t \in Nat : WRAP = PIPESIZE * t
<1>1. PIPESIZE \in Nat \ {0} /\ WRAP \in Nat \ {0} /\ PIPESIZE < WRAP /\ WRAP % PIPESIZE = 0
  BY PipeAssumption
<1>2. WRAP \div PIPESIZE \in Nat /\ WRAP = (WRAP \div PIPESIZE) * PIPESIZE + (WRAP % PIPESIZE)
  BY <1>1, Remainder
<1> DEFINE t == WRAP \div PIPESIZE
<1>3. t \in Nat /\ WRAP = t * PIPESIZE
  BY <1>1, <1>2
<1> HIDE DEF t
<1> QED BY <1>1, <1>3

\* A place is the same after the counters have wrapped, and two counts less than
\* PIPESIZE apart have different places.
LEMMA PlaceWraps ==
  ASSUME NEW a \in Nat
  PROVE  (a + WRAP) % PIPESIZE = a % PIPESIZE
<1>1. PICK t \in Nat : WRAP = PIPESIZE * t
  BY Sizes
<1>2. PIPESIZE \in Nat \ {0} /\ WRAP \in Nat
  BY Sizes
<1> DEFINE k == a \div PIPESIZE
           r == a % PIPESIZE
<1>3. k \in Nat /\ r \in 0..PIPESIZE - 1 /\ a = k * PIPESIZE + r
  BY <1>2, Remainder
<1> HIDE DEF k, r
<1>4. a + WRAP = PIPESIZE * (k + t) + r
  <2>1. PIPESIZE * (k + t) = k * PIPESIZE + PIPESIZE * t
    BY <1>2, <1>3, Distribute
  <2> DEFINE u == k * PIPESIZE
  <2>2. u \in Nat /\ a = u + r
    BY <1>2, <1>3
  <2> HIDE DEF u
  <2> QED BY <1>1, <1>2, <1>3, <2>1, <2>2 DEF u
<1>5. (a + WRAP) % PIPESIZE = r
  <2>1. a + WRAP \in Nat /\ k + t \in Nat
    BY <1>1, <1>2, <1>3
  <2> DEFINE b == a + WRAP
             l == k + t
  <2>2. b \in Nat /\ l \in Nat /\ b = PIPESIZE * l + r
    BY <1>4, <2>1
  <2> HIDE DEF b, l
  <2>3. b % PIPESIZE = r
    BY <1>2, <1>3, <2>2, RemainderIs
  <2> QED BY <2>3 DEF b
<1> QED BY <1>5 DEF r

LEMMA PlacesDiffer ==
  ASSUME NEW a \in Nat, NEW b \in Nat, a < b, b - a < PIPESIZE
  PROVE  a % PIPESIZE # b % PIPESIZE
<1> DEFINE k == a \div PIPESIZE
           l == b \div PIPESIZE
           r == a % PIPESIZE
           s == b % PIPESIZE
<1>1. PIPESIZE \in Nat \ {0}
  BY Sizes
<1>2. /\ k \in Nat /\ r \in 0..PIPESIZE - 1 /\ a = k * PIPESIZE + r
      /\ l \in Nat /\ s \in 0..PIPESIZE - 1 /\ b = l * PIPESIZE + s
  BY <1>1, Remainder
<1> HIDE DEF k, l, r, s
<1>3. ASSUME r = s PROVE FALSE
  <2>1. (l - k) * PIPESIZE = b - a
    BY <1>1, <1>2, <1>3
  <2>2. (l - k) * PIPESIZE > 0 /\ (l - k) * PIPESIZE < PIPESIZE
    BY <1>1, <2>1
  <2>3. l - k >= 1 \/ l - k <= 0
    BY <1>2
  <2>4. l - k >= 1 => (l - k) * PIPESIZE >= PIPESIZE
    BY <1>1, <1>2
  <2>5. l - k <= 0 => (l - k) * PIPESIZE <= 0
    BY <1>1, <1>2
  <2> QED BY <1>1, <1>2, <2>2, <2>3, <2>4, <2>5
<1> QED BY <1>3 DEF r, s

LEMMA PlaceRange ==
  ASSUME NEW a \in Nat
  PROVE  a % PIPESIZE \in 0..PIPESIZE - 1
BY Sizes, Remainder

LEMMA AdvanceIs ==
  ASSUME NEW x \in 0..WRAP - 1, NEW k \in 0..PIPESIZE
  PROVE  /\ Advance(x, k) = IF x + k < WRAP THEN x + k ELSE x + k - WRAP
         /\ Advance(x, k) \in 0..WRAP - 1
<1>1. WRAP \in Nat \ {0} /\ PIPESIZE \in Nat /\ PIPESIZE < WRAP /\ x + k \in Nat
  BY Sizes
<1>2. CASE x + k < WRAP
  <2>1. x + k \in 0..WRAP - 1 /\ x + k = WRAP * 0 + (x + k)
    BY <1>1, <1>2
  <2>2. (x + k) % WRAP = x + k
    BY <1>1, <2>1, RemainderIs
  <2> QED BY <1>2, <2>1, <2>2 DEF Advance
<1>3. CASE ~(x + k < WRAP)
  <2>1. x + k - WRAP \in 0..WRAP - 1 /\ x + k = WRAP * 1 + (x + k - WRAP)
    BY <1>1, <1>3
  <2>2. (x + k) % WRAP = x + k - WRAP
    BY <1>1, <2>1, RemainderIs
  <2> QED BY <1>3, <2>1, <2>2 DEF Advance
<1> QED BY <1>2, <1>3

LEMMA Distance ==
  ASSUME NEW r \in 0..WRAP - 1, NEW w \in 0..WRAP - 1
  PROVE  /\ (w + WRAP - r) % WRAP = IF r <= w THEN w - r ELSE w + WRAP - r
         /\ (w + WRAP - r) % WRAP \in 0..WRAP - 1
<1>1. WRAP \in Nat \ {0} /\ w + WRAP - r \in Nat
  BY Sizes
<1>2. CASE r <= w
  <2>1. w - r \in 0..WRAP - 1 /\ w + WRAP - r = WRAP * 1 + (w - r)
    BY <1>1, <1>2
  <2>2. (w + WRAP - r) % WRAP = w - r
    BY <1>1, <2>1, RemainderIs
  <2> QED BY <1>2, <2>1, <2>2
<1>3. CASE ~(r <= w)
  <2>1. w + WRAP - r \in 0..WRAP - 1 /\ w + WRAP - r = WRAP * 0 + (w + WRAP - r)
    BY <1>1, <1>3
  <2>2. (w + WRAP - r) % WRAP = w + WRAP - r
    BY <1>1, <2>1, RemainderIs
  <2> QED BY <1>3, <2>1, <2>2
<1> QED BY <1>2, <1>3

LEMMA HeldIs ==
  ASSUME NEW g, pipe[g].nread \in 0..WRAP - 1, pipe[g].nwrite \in 0..WRAP - 1
  PROVE  /\ Held(g) = IF pipe[g].nread <= pipe[g].nwrite THEN pipe[g].nwrite - pipe[g].nread
                      ELSE pipe[g].nwrite + WRAP - pipe[g].nread
         /\ Held(g) \in 0..WRAP - 1
BY Distance DEF Held

\* The counters are equal when nothing is held, and differ by PIPESIZE when no
\* byte fits.
LEMMA Apart ==
  ASSUME NEW r \in 0..WRAP - 1, NEW w \in 0..WRAP - 1
  PROVE  /\ r = w <=> (w + WRAP - r) % WRAP = 0
         /\ w = Advance(r, PIPESIZE) <=> (w + WRAP - r) % WRAP = PIPESIZE
<1> DEFINE h == (w + WRAP - r) % WRAP
<1>1. /\ WRAP \in Nat /\ PIPESIZE \in 0..PIPESIZE /\ PIPESIZE \in Nat
      /\ 0 < PIPESIZE /\ PIPESIZE < WRAP
  BY Sizes
<1>2. h = IF r <= w THEN w - r ELSE w + WRAP - r
  BY Distance
<1>3. Advance(r, PIPESIZE) = IF r + PIPESIZE < WRAP THEN r + PIPESIZE ELSE r + PIPESIZE - WRAP
  BY <1>1, AdvanceIs
<1> HIDE DEF h
<1>4. r = w <=> h = 0
  BY <1>1, <1>2
<1>5. w = Advance(r, PIPESIZE) <=> h = PIPESIZE
  BY <1>1, <1>2, <1>3
<1> QED BY <1>4, <1>5 DEF h

LEMMA HeldTells ==
  ASSUME NEW g, pipe[g].nread \in 0..WRAP - 1, pipe[g].nwrite \in 0..WRAP - 1
  PROVE  (Empty(g) <=> Held(g) = 0) /\ (Full(g) <=> Held(g) = PIPESIZE)
BY Apart DEF Empty, Full, Held

LEMMA HeldTellsNext ==
  ASSUME NEW g, pipe'[g].nread \in 0..WRAP - 1, pipe'[g].nwrite \in 0..WRAP - 1
  PROVE  (Empty(g)' <=> Held(g)' = 0) /\ (Full(g)' <=> Held(g)' = PIPESIZE)
BY Apart DEF Empty, Full, Held


-----------------------------------------------------------------------------
(* References.                                                             *)

LEMMA Finite ==
  /\ IsFiniteSet(Proc \X FD) /\ IsFiniteSet(Proc \X (1..NOFILE + 2)) /\ IsFiniteSet(FD)
  /\ \A f : /\ IsFiniteSet(Shown(f)) /\ IsFiniteSet(Pending(f))
            /\ Cardinality(Shown(f)) \in Nat /\ Cardinality(Pending(f)) \in Nat
<1>1. IsFiniteSet(Proc) /\ NOFILE \in Nat
  BY PipeAssumption
<1>2. IsFiniteSet(FD) /\ IsFiniteSet(1..NOFILE + 2)
  BY <1>1, FS_Interval DEF FD
<1>3. IsFiniteSet(Proc \X FD) /\ IsFiniteSet(Proc \X (1..NOFILE + 2))
  BY <1>1, <1>2, FS_Product
<1>4. ASSUME NEW f PROVE IsFiniteSet(Shown(f)) /\ IsFiniteSet(Pending(f))
  <2>1. Shown(f) \subseteq Proc \X FD /\ Pending(f) \subseteq Proc \X (1..NOFILE + 2)
    BY DEF Shown, Pending
  <2> QED BY <1>3, <2>1, FS_Subset
<1> QED BY <1>2, <1>3, <1>4, FS_CardinalityType

\* A file that nobody has, and one that only the close of process p is left to have
LEMMA FreeRef ==
  ASSUME RefCounts, NEW f \in File, file[f].ref = 0
  PROVE  Shown(f) = {} /\ Pending(f) = {}
<1>1. Cardinality(Shown(f)) = 0 /\ Cardinality(Pending(f)) = 0
  BY Finite DEF RefCounts, Counted
<1> QED BY <1>1, Finite, FS_EmptySet

LEMMA LastRef ==
  ASSUME RefCounts, NEW f \in File, file[f].ref = 1, NEW x \in Pending(f)
  PROVE  Shown(f) = {} /\ Pending(f) = {x}
<1>1. Cardinality(Pending(f)) # 0
  BY Finite, FS_EmptySet
<1>2. Cardinality(Shown(f)) = 0 /\ Cardinality(Pending(f)) = 1
  BY <1>1, Finite DEF RefCounts, Counted
<1>3. Shown(f) = {}
  BY <1>2, Finite, FS_EmptySet
<1>4. PICK y : Pending(f) = {y}
  BY <1>2, Finite, FS_Singleton
<1> QED BY <1>3, <1>4

LEMMA HasRef ==
  ASSUME RefCounts, NEW f \in File, Shown(f) # {} \/ Pending(f) # {}
  PROVE  file[f].ref \in Nat /\ file[f].ref > 0
<1>1. Cardinality(Pending(f)) # 0 \/ Cardinality(Shown(f)) # 0
  BY Finite, FS_EmptySet
<1> QED BY <1>1, Finite DEF RefCounts, Counted

\* What a process shows or is about to give back is in use.
LEMMA OwnRef ==
  ASSUME TypeInv, RefCounts, PlaceInv, NEW p \in Proc
  PROVE  /\ \A d \in FD : ofile[p][d] # 0 =>
              /\ ofile[p][d] \in File /\ file[ofile[p][d]].ref > 0
              /\ <<p, d>> \in Shown(ofile[p][d])
         /\ \A i \in DOMAIN proc[p].files :
              /\ proc[p].files[i] \in File /\ file[proc[p].files[i]].ref > 0
              /\ <<p, i>> \in Pending(proc[p].files[i])
<1>1. ASSUME NEW d \in FD, ofile[p][d] # 0
      PROVE  ofile[p][d] \in File /\ <<p, d>> \in Shown(ofile[p][d])
  BY <1>1 DEF TypeInv, Shown
<1>2. ASSUME NEW i \in DOMAIN proc[p].files
      PROVE  proc[p].files[i] \in File /\ <<p, i>> \in Pending(proc[p].files[i])
  <2>1. /\ proc[p].files \in Seq(File) /\ Len(proc[p].files) <= NOFILE + 2 /\ NOFILE \in Nat
        /\ i \in 1..Len(proc[p].files)
    BY PipeAssumption DEF TypeInv, PlaceInv, PlaceOK, Record
  <2>2. i \in 1..NOFILE + 2
    BY <2>1
  <2> QED BY <2>1, <2>2 DEF Pending
<1> QED BY <1>1, <1>2, HasRef

\* Two sets with a bijection between them have as many elements.
LEMMA SameSize ==
  ASSUME NEW S, NEW T, IsFiniteSet(S), NEW h \in [S -> T],
         \A x, y \in S : h[x] = h[y] => x = y,
         \A t \in T : \E s \in S : h[s] = t
  PROVE  Cardinality(T) = Cardinality(S)
<1>1. h \in Bijection(S, T)
  BY DEF Bijection, Injection, Surjection, IsInjective
<1>2. ExistsBijection(S, T)
  BY <1>1 DEF ExistsBijection
<1> QED BY <1>2, FS_Bijection

\* One more place
LEMMA AddPlace ==
  ASSUME NEW S, IsFiniteSet(S), NEW x, x \notin S
  PROVE  Cardinality(S \cup {x}) = Cardinality(S) + 1
BY FS_AddElement

LEMMA DropPlace ==
  ASSUME NEW S, IsFiniteSet(S), NEW x, x \in S
  PROVE  Cardinality(S \ {x}) = Cardinality(S) - 1
BY FS_RemoveElement

-----------------------------------------------------------------------------
(* The ring.                                                               *)

Ring == [used : BOOLEAN, readopen : BOOLEAN, writeopen : BOOLEAN,
         nread : 0..WRAP - 1, nwrite : 0..WRAP - 1,
         data : [0..PIPESIZE - 1 -> Byte \cup {None}]]

Spot(g, j) == (pipe[g].nwrite + j - 1) % PIPESIZE

\* The spots of the bytes of one write, and of those that are held, differ.
LEMMA SpotsDiffer ==
  ASSUME NEW g, pipe[g].nread \in 0..WRAP - 1, pipe[g].nwrite \in 0..WRAP - 1,
         Held(g) <= PIPESIZE
  PROVE  /\ \A j \in Nat \ {0} : pipe[g].nwrite + j - 1 \in Nat /\ Spot(g, j) \in 0..PIPESIZE - 1
         /\ \A j \in 1..PIPESIZE, m \in 1..PIPESIZE : j < m => Spot(g, j) # Spot(g, m)
         /\ \A j \in Nat \ {0} : Spot(g, j) = (pipe[g].nread + Held(g) + j - 1) % PIPESIZE
<1> DEFINE r == pipe[g].nread
           w == pipe[g].nwrite
           h == Held(g)
<1>1. /\ r \in Nat /\ w \in Nat /\ WRAP \in Nat /\ PIPESIZE \in Nat
      /\ h \in Nat /\ (w = r + h \/ w + WRAP = r + h)
  BY Sizes, HeldIs
<1>2. \A j : Spot(g, j) = (w + j - 1) % PIPESIZE
  BY DEF Spot
<1> HIDE DEF r, w, h
<1>3. ASSUME NEW j \in Nat \ {0} PROVE w + j - 1 \in Nat /\ Spot(g, j) \in 0..PIPESIZE - 1
  <2>1. w + j - 1 \in Nat
    BY <1>1
  <2> QED BY <1>2, <2>1, PlaceRange
<1>4. ASSUME NEW j \in 1..PIPESIZE, NEW m \in 1..PIPESIZE, j < m
      PROVE  Spot(g, j) # Spot(g, m)
  <2> DEFINE a == w + j - 1
             b == w + m - 1
  <2>1. a \in Nat /\ b \in Nat /\ a < b /\ b - a < PIPESIZE
    BY <1>1, <1>4
  <2> HIDE DEF a, b
  <2>2. a % PIPESIZE # b % PIPESIZE
    BY <2>1, PlacesDiffer
  <2> QED BY <1>2, <2>2 DEF a, b
<1>5. ASSUME NEW j \in Nat \ {0} PROVE Spot(g, j) = (r + h + j - 1) % PIPESIZE
  <2> DEFINE a == w + j - 1
  <2>1. a \in Nat /\ (r + h + j - 1 = a \/ r + h + j - 1 = a + WRAP)
    BY <1>1
  <2> HIDE DEF a
  <2>2. (a + WRAP) % PIPESIZE = a % PIPESIZE
    BY <2>1, PlaceWraps
  <2>3. (r + h + j - 1) % PIPESIZE = a % PIPESIZE
    BY <2>1, <2>2
  <2> QED BY <1>2, <2>3 DEF a
<1> QED BY <1>3, <1>4, <1>5 DEF r, w, h

LEMMA BufferIs ==
  ASSUME NEW g, pipe[g].nwrite \in 0..WRAP - 1, NEW k \in 0..PIPESIZE
  PROVE  /\ Buffer(g, k) \in [1..k -> Byte] /\ Buffer(g, k) \in Seq(Byte) /\ Len(Buffer(g, k)) = k
<1>1. \A j \in 1..k : j - 1 \in 0..PIPESIZE
  BY Sizes
<1>2. \A j \in 1..k : Advance(pipe[g].nwrite, j - 1) \in Byte
  BY <1>1, AdvanceIs DEF Byte
<1>3. Buffer(g, k) \in [1..k -> Byte] /\ k \in Nat
  BY <1>2, Sizes DEF Buffer
<1>4. Buffer(g, k) \in Seq(Byte)
  BY <1>3
<1> QED BY <1>3, <1>4

\* A write changes the counter and the spots behind it.
LEMMA PutIs ==
  ASSUME NEW g, pipe[g] \in Ring, Held(g) <= PIPESIZE,
         NEW s \in Seq(Byte), Len(s) <= PIPESIZE - Held(g)
  PROVE  /\ Put(g, s) \in Ring
         /\ Put(g, s) = [pipe[g] EXCEPT !.nwrite = Advance(@, Len(s)), !.data = Put(g, s).data]
         /\ \A j \in 1..Len(s) : Put(g, s).data[Spot(g, j)] = s[j]
         /\ \A i \in 0..PIPESIZE - 1 :
              (\A j \in 1..Len(s) : Spot(g, j) # i) => Put(g, s).data[i] = pipe[g].data[i]
<1> DEFINE d == pipe[g]
           k == Len(s)
           C(i) == CHOOSE j \in 1..k : Spot(g, j) = i /\ \A m \in j+1..k : Spot(g, m) # i
           D == [i \in DOMAIN d.data |-> IF \E j \in 1..k : Spot(g, j) = i THEN s[C(i)] ELSE d.data[i]]
<1>0. d.data \in [0..PIPESIZE - 1 -> Byte \cup {None}] /\ DOMAIN d.data = 0..PIPESIZE - 1
  BY DEF Ring
<1>1. Held(g) \in Nat /\ k \in Nat /\ k <= PIPESIZE /\ PIPESIZE \in Nat
  BY HeldIs, Sizes DEF Ring
<1>2. Put(g, s) = [d EXCEPT !.nwrite = Advance(@, k), !.data = D]
  BY DEF Put, Spot
<1> HIDE DEF k
<1>3. ASSUME NEW j \in 1..k
      PROVE  /\ Spot(g, j) \in 0..PIPESIZE - 1 /\ C(Spot(g, j)) = j
  <2>1. j \in 1..PIPESIZE /\ \A m \in 1..k : m \in 1..PIPESIZE
    BY <1>1
  <2>2. \A m \in 1..k : m # j => Spot(g, m) # Spot(g, j)
    <3>1. ASSUME NEW m \in 1..k, m # j PROVE Spot(g, m) # Spot(g, j)
      <4>1. m \in 1..PIPESIZE /\ (m < j \/ j < m)
        BY <1>1, <3>1
      <4> QED BY <2>1, <4>1, SpotsDiffer DEF Ring
    <3> QED BY <3>1
  <2>3. Spot(g, j) \in 0..PIPESIZE - 1
    BY <2>1, SpotsDiffer DEF Ring
  <2>4. \A m \in j+1..k : m \in 1..k /\ m # j
    BY <1>1
  <2>5. C(Spot(g, j)) = j
    BY <2>2, <2>4
  <2> QED BY <2>3, <2>5
<1>4. \A j \in 1..k : D[Spot(g, j)] = s[j]
  BY <1>0, <1>3
<1>5. \A i \in 0..PIPESIZE - 1 : (\A j \in 1..k : Spot(g, j) # i) => D[i] = d.data[i]
  BY <1>0
<1>6. D \in [0..PIPESIZE - 1 -> Byte \cup {None}]
  <2>1. ASSUME NEW i \in 0..PIPESIZE - 1, NEW j \in 1..k, Spot(g, j) = i
        PROVE  s[C(i)] \in Byte
    <3> HIDE DEF C
    <3>1. C(i) = j
      BY <1>3, <2>1
    <3> QED BY <3>1 DEF k
  <2> QED BY <1>0, <2>1
<1> HIDE DEF C, D
<1>7. Advance(d.nwrite, k) \in 0..WRAP - 1
  <2>1. k \in 0..PIPESIZE
    BY <1>1
  <2> QED BY <2>1, AdvanceIs DEF Ring
<1>8. Put(g, s) \in Ring /\ Put(g, s).data = D
  BY <1>2, <1>6, <1>7 DEF Ring
<1> QED BY <1>2, <1>4, <1>5, <1>8 DEF k

\* What is held after a write, and after a read of k bytes
LEMMA WriteHeld ==
  ASSUME NEW g \in Pages, pipe \in [Pages -> Ring], Held(g) <= PIPESIZE,
         NEW s \in Seq(Byte), Len(s) <= PIPESIZE - Held(g),
         pipe' = [pipe EXCEPT ![g] = Put(g, s)]
  PROVE  /\ pipe' \in [Pages -> Ring]
         /\ Held(g)' = Held(g) + Len(s) /\ Held(g)' <= PIPESIZE
         /\ Unread(g)' = Unread(g) \o s
<1> DEFINE d == pipe[g]
           e == pipe'[g]
           h == Held(g)
           k == Len(s)
<1>1. /\ pipe' \in [Pages -> Ring] /\ d \in Ring /\ e \in Ring
      /\ e.nread = d.nread /\ e.nwrite = Advance(d.nwrite, k)
      /\ \A j \in 1..k : e.data[Spot(g, j)] = s[j]
      /\ \A i \in 0..PIPESIZE - 1 : (\A j \in 1..k : Spot(g, j) # i) => e.data[i] = d.data[i]
  <2>1. /\ Put(g, s) \in Ring
        /\ Put(g, s) = [d EXCEPT !.nwrite = Advance(@, k), !.data = Put(g, s).data]
        /\ \A j \in 1..k : Put(g, s).data[Spot(g, j)] = s[j]
        /\ \A i \in 0..PIPESIZE - 1 :
             (\A j \in 1..k : Spot(g, j) # i) => Put(g, s).data[i] = d.data[i]
    BY PutIs
  <2>2. e = Put(g, s)
    OBVIOUS
  <2> HIDE DEF k, d
  <2>3. d \in Ring
    BY DEF d
  <2>4. e.nread = d.nread /\ e.nwrite = Advance(d.nwrite, k)
    BY <2>1, <2>2, <2>3 DEF Ring
  <2> QED BY <2>1, <2>2, <2>3, <2>4
<1>2. /\ h \in Nat /\ k \in Nat /\ k <= PIPESIZE - h /\ PIPESIZE \in Nat /\ k \in 0..PIPESIZE
      /\ WRAP \in Nat /\ PIPESIZE < WRAP
  <2>1. h \in Nat /\ PIPESIZE \in Nat /\ WRAP \in Nat /\ PIPESIZE < WRAP
    BY <1>1, HeldIs, Sizes DEF Ring
  <2> QED BY <2>1
<1>3. /\ d.nread \in 0..WRAP - 1 /\ d.nwrite \in 0..WRAP - 1
      /\ e.nread \in 0..WRAP - 1 /\ e.nwrite \in 0..WRAP - 1
  BY <1>1 DEF Ring
<1>4. Held(g)' = h + k
  <2>1. h = IF d.nread <= d.nwrite THEN d.nwrite - d.nread ELSE d.nwrite + WRAP - d.nread
    BY <1>3, HeldIs
  <2>2. Held(g)' = IF e.nread <= e.nwrite THEN e.nwrite - e.nread ELSE e.nwrite + WRAP - e.nread
    <3>1. Held(g)' = (e.nwrite + WRAP - e.nread) % WRAP
      BY DEF Held
    <3> HIDE DEF e
    <3> QED BY <1>3, <3>1, Distance
  <2>3. e.nwrite = IF d.nwrite + k < WRAP THEN d.nwrite + k ELSE d.nwrite + k - WRAP
    BY <1>1, <1>2, <1>3, AdvanceIs
  <2>4. h + k <= PIPESIZE
    BY <1>2
  <2> DEFINE r == d.nread
             w == d.nwrite
             x == e.nwrite
             y == Held(g)'
  <2>5. /\ r \in 0..WRAP - 1 /\ w \in 0..WRAP - 1 /\ h = IF r <= w THEN w - r ELSE w + WRAP - r
        /\ y = IF r <= x THEN x - r ELSE x + WRAP - r
        /\ x = IF w + k < WRAP THEN w + k ELSE w + k - WRAP
    BY <1>1, <1>3, <2>1, <2>2, <2>3
  <2> HIDE DEF d, e, h, k, r, w, x, y
  <2>6. y = h + k
    BY <1>2, <2>4, <2>5
  <2> QED BY <2>6 DEF y
<1>5. \A i \in 1..h + k : /\ i <= h => /\ i \in 1..h
                                       /\ e.data[(e.nread + i - 1) % PIPESIZE]
                                            = d.data[(d.nread + i - 1) % PIPESIZE]
                          /\ i > h => /\ i - h \in 1..k
                                      /\ e.data[(e.nread + i - 1) % PIPESIZE] = s[i - h]
  <2> SUFFICES ASSUME NEW i \in 1..h + k
               PROVE  /\ i <= h => /\ i \in 1..h
                                   /\ e.data[(e.nread + i - 1) % PIPESIZE]
                                        = d.data[(d.nread + i - 1) % PIPESIZE]
                      /\ i > h => /\ i - h \in 1..k
                                  /\ e.data[(e.nread + i - 1) % PIPESIZE] = s[i - h]
    OBVIOUS
  <2>1. \A j \in Nat \ {0} : Spot(g, j) = (d.nread + h + j - 1) % PIPESIZE
    BY <1>1, <1>2, <1>3, SpotsDiffer
  <2> HIDE DEF d, e, h, k
  <2>2. CASE i > h
    <3> DEFINE j == i - h
    <3>1. j \in 1..k /\ j \in Nat \ {0} /\ d.nread + h + j - 1 = e.nread + i - 1
      <4>1. e.nread = d.nread /\ d.nread \in Nat
        BY <1>1, <1>3
      <4>2. j \in 1..k /\ j \in Nat \ {0} /\ h + j = i
        BY <1>2, <2>2
      <4> QED BY <1>2, <4>1, <4>2
    <3> HIDE DEF j
    <3>2. Spot(g, j) = (e.nread + i - 1) % PIPESIZE
      BY <2>1, <3>1
    <3> QED BY <1>1, <1>2, <2>2, <3>1, <3>2 DEF j
  <2>3. CASE i <= h
    <3>1. i \in 1..h /\ d.nread + i - 1 \in Nat
      BY <1>2, <1>3, <2>3
    <3> DEFINE a == d.nread + i - 1
    <3>2. a % PIPESIZE \in 0..PIPESIZE - 1
      BY <3>1, PlaceRange
    <3>3. ASSUME NEW j \in 1..k PROVE Spot(g, j) # a % PIPESIZE
      <4> DEFINE b == d.nread + h + j - 1
      <4>1. a \in Nat /\ b \in Nat /\ a < b /\ b - a < PIPESIZE /\ j \in Nat \ {0}
        <5>1. d.nread \in Nat /\ i \in 1..h /\ j \in 1..k /\ h \in Nat /\ k \in Nat
              /\ h + k <= PIPESIZE
          BY <1>2, <1>3, <3>1
        <5>2. PICK n \in Nat : n = d.nread
          BY <5>1
        <5>3. /\ n + i - 1 \in Nat /\ n + h + j - 1 \in Nat /\ n + i - 1 < n + h + j - 1
              /\ (n + h + j - 1) - (n + i - 1) < PIPESIZE /\ j \in Nat \ {0}
          BY ONLY <1>2, <5>1, n \in Nat
        <5> QED BY <5>2, <5>3
      <4> HIDE DEF a, b
      <4>2. a % PIPESIZE # b % PIPESIZE
        BY <4>1, PlacesDiffer
      <4>3. Spot(g, j) = b % PIPESIZE
        BY <2>1, <4>1 DEF b
      <4> QED BY <4>2, <4>3
    <3>4. e.data[a % PIPESIZE] = d.data[a % PIPESIZE]
      BY <1>1, <3>2, <3>3
    <3> QED BY <1>1, <1>2, <2>3, <3>1, <3>4
  <2> QED BY <1>2, <2>2, <2>3
<1>6. Unread(g) = [i \in 1..h |-> d.data[(d.nread + i - 1) % PIPESIZE]]
  BY DEF Unread
<1>7. Unread(g)' = [i \in 1..h + k |-> e.data[(e.nread + i - 1) % PIPESIZE]]
  BY <1>4 DEF Unread
<1>8. Unread(g) \in Seq(Byte \cup {None}) /\ Len(Unread(g)) = h
  <2>1. \A i \in 1..h : d.data[(d.nread + i - 1) % PIPESIZE] \in Byte \cup {None}
    <3> SUFFICES ASSUME NEW i \in 1..h
                 PROVE  d.data[(d.nread + i - 1) % PIPESIZE] \in Byte \cup {None}
      OBVIOUS
    <3>1. d.nread + i - 1 \in Nat
      BY <1>2, <1>3
    <3>2. (d.nread + i - 1) % PIPESIZE \in 0..PIPESIZE - 1
      BY <3>1, PlaceRange
    <3> QED BY <1>1, <3>2 DEF Ring
  <2> HIDE DEF d, h
  <2> QED BY <1>2, <1>6, <2>1
<1>9. Unread(g)' = Unread(g) \o s
  <2> DEFINE u == Unread(g)
             v == Unread(g)'
  <2>1. \A i \in 1..h + k :
          e.data[(e.nread + i - 1) % PIPESIZE] = IF i <= h THEN u[i] ELSE s[i - h]
    BY <1>2, <1>5, <1>6
  <2>2. DOMAIN v = 1..h + k /\ \A i \in 1..h + k : v[i] = IF i <= h THEN u[i] ELSE s[i - h]
    <3> HIDE DEF e
    <3> QED BY <1>7, <2>1
  <2>3. v = [i \in 1..h + k |-> v[i]]
    <3> HIDE DEF e
    <3> QED BY <1>7
  <2>4. u \in Seq(Byte \cup {None}) /\ Len(u) = h /\ s \in Seq(Byte \cup {None}) /\ Len(s) = k
    BY <1>8
  <2> HIDE DEF d, e, h, k, u, v
  <2> DEFINE T == Byte \cup {None}
  <2> HIDE DEF T
  <2>5. u \in Seq(T) /\ s \in Seq(T)
    BY <2>4 DEF T
  <2>6. \A i \in 1..h + k : v[i] \in T
    BY <1>2, <2>2, <2>4, <2>5
  <2>7. v \in Seq(T) /\ Len(v) = h + k
    <3> DEFINE n == h + k
    <3>1. n \in Nat
      BY <1>2
    <3>2. v = [i \in 1..n |-> v[i]] /\ \A i \in 1..n : v[i] \in T
      BY <2>3, <2>6
    <3> HIDE DEF n
    <3>3. v \in [1..n -> T]
      BY <3>2
    <3>4. v \in Seq(T) /\ Len(v) = n
      BY <3>1, <3>3
    <3> QED BY <3>4 DEF n
  <2>8. u \o s \in Seq(T) /\ Len(u \o s) = h + k
    BY <2>4, <2>5
  <2>9. \A i \in 1..h + k : (u \o s)[i] = IF i <= h THEN u[i] ELSE s[i - h]
    BY <1>2, <2>4, <2>5
  <2>10. v = u \o s
    BY <2>2, <2>7, <2>8, <2>9, SeqEqual
  <2> QED BY <2>10 DEF u, v
<1> QED BY <1>1, <1>2, <1>4, <1>9

\* What is unread is a sequence as long as the ring is filled.
LEMMA UnreadIs ==
  ASSUME NEW g \in Pages, pipe \in [Pages -> Ring], Held(g) <= PIPESIZE
  PROVE  Unread(g) \in Seq(Byte \cup {None}) /\ Len(Unread(g)) = Held(g)
<1> DEFINE d == pipe[g]
           h == Held(g)
<1>1. d \in Ring /\ h \in Nat
  BY HeldIs DEF Ring
<1>2. Unread(g) = [i \in 1..h |-> d.data[(d.nread + i - 1) % PIPESIZE]]
  BY DEF Unread
<1>3. \A i \in 1..h : d.data[(d.nread + i - 1) % PIPESIZE] \in Byte \cup {None}
  <2> SUFFICES ASSUME NEW i \in 1..h
               PROVE  d.data[(d.nread + i - 1) % PIPESIZE] \in Byte \cup {None}
    OBVIOUS
  <2>1. d.nread + i - 1 \in Nat
    BY <1>1 DEF Ring
  <2>2. (d.nread + i - 1) % PIPESIZE \in 0..PIPESIZE - 1
    BY <2>1, PlaceRange
  <2> QED BY <1>1, <2>2 DEF Ring
<1> HIDE DEF d, h
<1> QED BY <1>1, <1>2, <1>3 DEF h

LEMMA ReadHeld ==
  ASSUME NEW g \in Pages, pipe \in [Pages -> Ring], Held(g) <= PIPESIZE,
         NEW k \in 0..Held(g),
         pipe' = [pipe EXCEPT ![g].nread = Advance(@, k)]
  PROVE  /\ pipe' \in [Pages -> Ring]
         /\ Held(g)' = Held(g) - k /\ Held(g)' <= PIPESIZE
         /\ Unread(g) \in Seq(Byte \cup {None}) /\ Len(Unread(g)) = Held(g)
         /\ Unread(g)' = SubSeq(Unread(g), k + 1, Held(g))
<1> DEFINE d == pipe[g]
           e == pipe'[g]
           h == Held(g)
<1>1. d \in Ring /\ d.nread \in 0..WRAP - 1 /\ d.nwrite \in 0..WRAP - 1
  BY DEF Ring
<1>2. /\ h \in Nat /\ k \in Nat /\ k <= h /\ PIPESIZE \in Nat /\ k \in 0..PIPESIZE
      /\ WRAP \in Nat /\ PIPESIZE < WRAP /\ h <= PIPESIZE
  <2>1. h \in Nat /\ PIPESIZE \in Nat /\ WRAP \in Nat /\ PIPESIZE < WRAP
    BY <1>1, HeldIs, Sizes
  <2> HIDE DEF h
  <2>2. k \in 0..h /\ h <= PIPESIZE
    BY DEF h
  <2> QED BY <2>1, <2>2
<1>3. Advance(d.nread, k) \in 0..WRAP - 1
  BY <1>1, <1>2, AdvanceIs
<1>4. /\ pipe' \in [Pages -> Ring] /\ e.nread = Advance(d.nread, k) /\ e.nwrite = d.nwrite
      /\ e.data = d.data
  <2> DEFINE x == Advance(d.nread, k)
  <2>1. pipe' = [pipe EXCEPT ![g].nread = x] /\ x \in 0..WRAP - 1
    BY <1>3
  <2> HIDE DEF x
  <2>2. pipe' = [pipe EXCEPT ![g] = [d EXCEPT !.nread = x]]
    BY <2>1
  <2>3. [d EXCEPT !.nread = x] \in Ring
    BY <1>1, <2>1 DEF Ring
  <2>4. e = [d EXCEPT !.nread = x] /\ pipe' \in [Pages -> Ring]
    BY <2>2, <2>3
  <2>5. e.nread = x /\ e.nwrite = d.nwrite /\ e.data = d.data
    BY <1>1, <2>4 DEF Ring
  <2> QED BY <2>4, <2>5 DEF x
<1>5. Held(g)' = h - k
  <2>1. h = IF d.nread <= d.nwrite THEN d.nwrite - d.nread ELSE d.nwrite + WRAP - d.nread
    BY <1>1, HeldIs
  <2>2. Held(g)' = IF e.nread <= e.nwrite THEN e.nwrite - e.nread ELSE e.nwrite + WRAP - e.nread
    <3>1. Held(g)' = (e.nwrite + WRAP - e.nread) % WRAP
      BY DEF Held
    <3>2. e.nread \in 0..WRAP - 1 /\ e.nwrite \in 0..WRAP - 1
      BY <1>1, <1>3, <1>4
    <3> HIDE DEF e
    <3> QED BY <3>1, <3>2, Distance
  <2>3. e.nread = IF d.nread + k < WRAP THEN d.nread + k ELSE d.nread + k - WRAP
    BY <1>1, <1>2, <1>4, AdvanceIs
  <2> DEFINE r == d.nread
             w == d.nwrite
             x == e.nread
             y == Held(g)'
  <2>4. /\ r \in 0..WRAP - 1 /\ w \in 0..WRAP - 1 /\ h = IF r <= w THEN w - r ELSE w + WRAP - r
        /\ y = IF x <= w THEN w - x ELSE w + WRAP - x
        /\ x = IF r + k < WRAP THEN r + k ELSE r + k - WRAP
    BY <1>1, <1>4, <2>1, <2>2, <2>3
  <2> HIDE DEF d, e, h, r, w, x, y
  <2>5. y = h - k
    BY <1>2, <2>4
  <2> QED BY <2>5 DEF y
<1>6. \A i \in 1..h - k : /\ i + k \in 1..h
                          /\ e.data[(e.nread + i - 1) % PIPESIZE]
                               = d.data[(d.nread + (i + k) - 1) % PIPESIZE]
  <2> SUFFICES ASSUME NEW i \in 1..h - k
               PROVE  /\ i + k \in 1..h
                      /\ e.data[(e.nread + i - 1) % PIPESIZE]
                           = d.data[(d.nread + (i + k) - 1) % PIPESIZE]
    OBVIOUS
  <2>1. e.nread = IF d.nread + k < WRAP THEN d.nread + k ELSE d.nread + k - WRAP
    BY <1>1, <1>2, <1>4, AdvanceIs
  <2>2. i + k \in 1..h
    <3> HIDE DEF h
    <3> QED BY <1>2
  <2> DEFINE r == d.nread
             x == e.nread
             a == x + i - 1
             b == r + (i + k) - 1
  <2>3. r \in Nat /\ x \in Nat /\ x = IF r + k < WRAP THEN r + k ELSE r + k - WRAP
    BY <1>1, <1>3, <1>4, <2>1
  <2>4. a \in Nat /\ (b = a \/ b = a + WRAP)
    <3> HIDE DEF d, e, h, r, x
    <3> QED BY <1>2, <2>3
  <2> HIDE DEF a, b
  <2>5. (a + WRAP) % PIPESIZE = a % PIPESIZE
    BY <2>4, PlaceWraps
  <2>6. b % PIPESIZE = a % PIPESIZE
    BY <2>4, <2>5
  <2>7. (x + i - 1) % PIPESIZE = (r + (i + k) - 1) % PIPESIZE
    BY <2>6 DEF a, b
  <2> QED BY <1>4, <2>2, <2>7
<1>7. Unread(g) = [i \in 1..h |-> d.data[(d.nread + i - 1) % PIPESIZE]]
  BY DEF Unread
<1>8. Unread(g)' = [i \in 1..h - k |-> e.data[(e.nread + i - 1) % PIPESIZE]]
  BY <1>5 DEF Unread
<1>9. Unread(g) \in Seq(Byte \cup {None}) /\ Len(Unread(g)) = h
  BY UnreadIs
<1>10. Unread(g)' = SubSeq(Unread(g), k + 1, h)
  <2> DEFINE u == Unread(g)
             v == Unread(g)'
             T == Byte \cup {None}
             n == h - k
  <2>1. DOMAIN v = 1..n /\ \A i \in 1..n : v[i] = u[k + i]
    <3>1. \A i \in 1..h - k : i + k = k + i /\ u[i + k] = d.data[(d.nread + (i + k) - 1) % PIPESIZE]
      <4> HIDE DEF d
      <4>1. \A i \in 1..h - k : i + k = k + i /\ i + k \in 1..h
        BY <1>2, <1>6
      <4> QED BY <1>7, <4>1
    <3> HIDE DEF e, d
    <3> QED BY <1>6, <1>8, <3>1
  <2>2. v = [i \in 1..n |-> u[k + i]]
    <3> HIDE DEF e
    <3>1. v = [i \in 1..n |-> v[i]]
      BY <1>8
    <3> QED BY <2>1, <3>1
  <2>3. u \in Seq(T) /\ Len(u) = h /\ n = h - k
    BY <1>9
  <2> HIDE DEF d, e, h, u, v, T, n
  <2>4. SubSeq(u, k + 1, Len(u)) = [i \in 1..Len(u) - k |-> u[k + i]]
    BY <1>2, <2>3
  <2> QED BY <2>2, <2>3, <2>4 DEF u, v
<1> QED BY <1>2, <1>4, <1>5, <1>9, <1>10

-----------------------------------------------------------------------------
(* What a step leaves as it is.                                            *)

\* Process q stays where it is, or only wakes up, falls asleep or has written a part.
Kept(q) ==
  \/ proc'[q] = proc[q]
  \/ \E a \in Reading : proc[q].at \in Reading /\ proc'[q] = [proc[q] EXCEPT !.at = a]
  \/ \E a \in Writing : proc[q].at \in Writing /\ proc'[q] = [proc[q] EXCEPT !.at = a]
  \/ \E n \in Nat, a \in Writing :
       proc[q].at \in Writing /\ proc'[q] = [[proc[q] EXCEPT !.n = n] EXCEPT !.at = a]

LEMMA KeptIs ==
  ASSUME TypeInv, NEW q \in Proc, Kept(q)
  PROVE  /\ proc'[q] \in Record
         /\ proc'[q].files = proc[q].files /\ proc'[q].pg = proc[q].pg /\ proc'[q].wr = proc[q].wr
         /\ proc'[q].then = proc[q].then
         /\ proc'[q].at \in Reading <=> proc[q].at \in Reading
         /\ proc'[q].at \in Writing <=> proc[q].at \in Writing
         /\ \A a \in Places : a \notin Reading \cup Writing => (proc'[q].at = a <=> proc[q].at = a)
         /\ proc[q].at \notin Reading \cup Writing => proc'[q] = proc[q]
         /\ proc'[q].at \notin Reading \cup Writing => proc'[q] = proc[q]
<1>0. proc[q] \in Record /\ Reading \subseteq Places /\ Writing \subseteq Places
      /\ Reading \cap Writing = {}
  BY DEF TypeInv, Reading, Writing, Places
<1>1. CASE proc'[q] = proc[q]
  BY <1>0, <1>1
<1>2. ASSUME NEW a \in Reading, proc[q].at \in Reading, proc'[q] = [proc[q] EXCEPT !.at = a]
      PROVE  /\ proc'[q] \in Record /\ proc'[q].at = a
             /\ proc'[q].files = proc[q].files /\ proc'[q].pg = proc[q].pg
             /\ proc'[q].wr = proc[q].wr /\ proc'[q].then = proc[q].then
  BY <1>0, <1>2 DEF Record
<1>3. ASSUME NEW a \in Writing, proc[q].at \in Writing, proc'[q] = [proc[q] EXCEPT !.at = a]
      PROVE  /\ proc'[q] \in Record /\ proc'[q].at = a
             /\ proc'[q].files = proc[q].files /\ proc'[q].pg = proc[q].pg
             /\ proc'[q].wr = proc[q].wr /\ proc'[q].then = proc[q].then
  BY <1>0, <1>3 DEF Record
<1>4. CASE \E a \in Reading : proc[q].at \in Reading /\ proc'[q] = [proc[q] EXCEPT !.at = a]
  <2>1. PICK a \in Reading : proc[q].at \in Reading /\ proc'[q] = [proc[q] EXCEPT !.at = a]
    BY <1>4
  <2> QED BY <1>0, <1>2, <2>1
<1>5. CASE \E a \in Writing : proc[q].at \in Writing /\ proc'[q] = [proc[q] EXCEPT !.at = a]
  <2>1. PICK a \in Writing : proc[q].at \in Writing /\ proc'[q] = [proc[q] EXCEPT !.at = a]
    BY <1>5
  <2> QED BY <1>0, <1>3, <2>1
<1>6. CASE \E n \in Nat, a \in Writing :
            proc[q].at \in Writing /\ proc'[q] = [[proc[q] EXCEPT !.n = n] EXCEPT !.at = a]
  <2>1. PICK n \in Nat : \E a \in Writing :
            proc[q].at \in Writing /\ proc'[q] = [[proc[q] EXCEPT !.n = n] EXCEPT !.at = a]
    BY <1>6
  <2>2. PICK a \in Writing :
            proc[q].at \in Writing /\ proc'[q] = [[proc[q] EXCEPT !.n = n] EXCEPT !.at = a]
    BY <2>1
  <2>3. /\ proc'[q] \in Record /\ proc'[q].at = a
        /\ proc'[q].files = proc[q].files /\ proc'[q].pg = proc[q].pg
        /\ proc'[q].wr = proc[q].wr /\ proc'[q].then = proc[q].then
    BY <1>0, <2>2 DEF Record
  <2> QED BY <1>0, <2>2, <2>3
<1> QED BY <1>1, <1>4, <1>5, <1>6 DEF Kept

LEMMA KeptPlace ==
  ASSUME TypeInv, NEW q \in Proc, Kept(q), PlaceOK(q), ofile'[q] = ofile[q]
  PROVE  /\ PlaceOK(q)'
         /\ \A g, wr : Closes(q, g, wr)' <=> Closes(q, g, wr)
<1>1. PlaceOK(q)'
  <2>1. CASE proc'[q] = proc[q]
    BY <2>1 DEF PlaceOK
  <2>2. CASE proc[q].at \in Reading \cup Writing
    <3>1. proc'[q].at \in Reading \cup Writing
      BY <2>2, KeptIs
    <3> QED BY <2>2, <3>1, KeptIs DEF PlaceOK, Reading, Writing
  <2> QED BY <2>1, <2>2, KeptIs
<1>2. "pipeclose" \in Places /\ "pipeclose" \notin Reading \cup Writing
  BY DEF Places, Reading, Writing
<1>3. proc'[q].at = "pipeclose" <=> proc[q].at = "pipeclose"
  BY <1>2, KeptIs
<1> QED BY <1>1, <1>3, KeptIs DEF Closes

LEMMA KeptUser ==
  ASSUME TypeInv, NEW q \in Proc, Kept(q), UserOK(q), ofile'[q] = ofile[q],
         \A d \in FD : ofile[q][d] # 0 =>
           \A wr \in BOOLEAN : IsEnd(ofile[q][d], proc[q].pg, wr) => IsEnd(ofile[q][d], proc[q].pg, wr)'
  PROVE  UserOK(q)'
<1>1. \A wr \in BOOLEAN : Holds(q, wr) => Holds(q, wr)'
  <2>1. ASSUME NEW wr \in BOOLEAN, Holds(q, wr) PROVE Holds(q, wr)'
    <3>1. PICK d \in FD : ofile[q][d] # 0 /\ IsEnd(ofile[q][d], proc[q].pg, wr)
      BY <2>1 DEF Holds
    <3>2. IsEnd(ofile[q][d], proc[q].pg, wr)'
      BY <3>1
    <3>3. ofile'[q][d] # 0 /\ IsEnd(ofile[q][d], proc[q].pg, wr)' /\ proc'[q].pg = proc[q].pg
      BY <3>1, <3>2, KeptIs
    <3> QED BY <3>3 DEF Holds
  <2> QED BY <2>1
<1> QED BY <1>1, KeptIs DEF UserOK

LEMMA WakeIs ==
  ASSUME NEW ps \in [Proc -> Record], NEW g, NEW at \in Places, NEW again \in Places
  PROVE  /\ wakeup(ps, g, at, again) \in [Proc -> Record]
         /\ \A q \in Proc :
              \/ wakeup(ps, g, at, again)[q] = ps[q] /\ ~(ps[q].at = at /\ ps[q].pg = g)
              \/ /\ ps[q].at = at /\ ps[q].pg = g
                 /\ wakeup(ps, g, at, again)[q] = [ps[q] EXCEPT !.at = again]
BY DEF wakeup, Record

\* A wakeup() after p has moved: the others are kept.
LEMMA WakeKeeps ==
  ASSUME TypeInv, NEW p \in Proc, NEW ps \in [Proc -> Record], NEW g, NEW wr \in BOOLEAN,
         ps[p].at \notin {"sleepread", "sleepwrite"}, \A q \in Proc \ {p} : ps[q] = proc[q],
         proc' = CloseWakes(ps, g, wr)
  PROVE  /\ proc' \in [Proc -> Record] /\ proc'[p] = ps[p]
         /\ \A q \in Proc \ {p} : Kept(q)
         /\ \A q \in Proc \ {p} :
              \/ proc'[q] = proc[q] /\ ~(proc[q].at = (IF wr THEN "sleepread" ELSE "sleepwrite")
                                         /\ proc[q].pg = g)
              \/ proc[q].pg = g /\ proc'[q].pg = g /\ proc'[q].at \in {"read", "write"}
<1>1. ps \in [Proc -> Record] /\ \A q \in Proc \ {p} : ps[q] = proc[q]
  OBVIOUS
<1>2. /\ "sleepread" \in Places /\ "read" \in Places /\ "sleepwrite" \in Places /\ "write" \in Places
      /\ "sleepread" \in Reading /\ "read" \in Reading
      /\ "sleepwrite" \in Writing /\ "write" \in Writing
  BY DEF Places, Reading, Writing
<1>3. CASE wr
  <2>1. proc' = wakeup(ps, g, "sleepread", "read")
    BY <1>3 DEF CloseWakes, wakeupReaders
  <2> DEFINE at == "sleepread"
             again == "read"
  <2>0. at \in Places /\ again \in Places
    BY <1>2
  <2>2. /\ proc' \in [Proc -> Record]
        /\ \A q \in Proc :
              \/ proc'[q] = ps[q] /\ ~(ps[q].at = "sleepread" /\ ps[q].pg = g)
              \/ ps[q].at = "sleepread" /\ ps[q].pg = g /\ proc'[q] = [ps[q] EXCEPT !.at = "read"]
    <3> DEFINE w == wakeup(ps, g, at, again)
    <3> HIDE DEF at, again
    <3>1. /\ w \in [Proc -> Record]
          /\ \A q \in Proc :
              \/ w[q] = ps[q] /\ ~(ps[q].at = at /\ ps[q].pg = g)
              \/ ps[q].at = at /\ ps[q].pg = g /\ w[q] = [ps[q] EXCEPT !.at = again]
      BY <1>1, <2>0, WakeIs
    <3>2. proc' = w
      BY <2>1 DEF at, again
    <3> QED BY <3>1, <3>2 DEF at, again
  <2>3. proc'[p] = ps[p]
    BY <1>1, <2>2
  <2>4. ASSUME NEW q \in Proc \ {p}
        PROVE  /\ Kept(q)
               /\ \/ proc'[q] = proc[q] /\ ~(proc[q].at = "sleepread" /\ proc[q].pg = g)
                  \/ proc[q].pg = g /\ proc'[q].pg = g /\ proc'[q].at \in {"read", "write"}
    <3>1. proc[q] \in Record /\ ps[q] = proc[q]
      BY <1>1 DEF TypeInv
    <3>2. CASE proc'[q] = ps[q] /\ ~(ps[q].at = "sleepread" /\ ps[q].pg = g)
      BY <3>1, <3>2 DEF Kept
    <3>3. CASE ps[q].at = "sleepread" /\ ps[q].pg = g /\ proc'[q] = [ps[q] EXCEPT !.at = "read"]
      <4>1. proc'[q].pg = g /\ proc'[q].at = "read" /\ proc[q].pg = g
        BY <3>1, <3>3 DEF Record
      <4>2. proc[q].at = "sleepread" /\ proc'[q] = [proc[q] EXCEPT !.at = "read"]
        BY <3>1, <3>3
      <4>3. Kept(q)
        BY <1>2, <4>2 DEF Kept
      <4> QED BY <4>1, <4>3
    <3> QED BY <2>2, <3>2, <3>3
  <2> QED BY <1>3, <2>2, <2>3, <2>4
<1>4. CASE ~wr
  <2>1. proc' = wakeup(ps, g, "sleepwrite", "write")
    BY <1>4 DEF CloseWakes, wakeupWriters
  <2> DEFINE at == "sleepwrite"
             again == "write"
  <2>0. at \in Places /\ again \in Places
    BY <1>2
  <2>2. /\ proc' \in [Proc -> Record]
        /\ \A q \in Proc :
              \/ proc'[q] = ps[q] /\ ~(ps[q].at = "sleepwrite" /\ ps[q].pg = g)
              \/ ps[q].at = "sleepwrite" /\ ps[q].pg = g /\ proc'[q] = [ps[q] EXCEPT !.at = "write"]
    <3> DEFINE w == wakeup(ps, g, at, again)
    <3> HIDE DEF at, again
    <3>1. /\ w \in [Proc -> Record]
          /\ \A q \in Proc :
              \/ w[q] = ps[q] /\ ~(ps[q].at = at /\ ps[q].pg = g)
              \/ ps[q].at = at /\ ps[q].pg = g /\ w[q] = [ps[q] EXCEPT !.at = again]
      BY <1>1, <2>0, WakeIs
    <3>2. proc' = w
      BY <2>1 DEF at, again
    <3> QED BY <3>1, <3>2 DEF at, again
  <2>3. proc'[p] = ps[p]
    BY <1>1, <2>2
  <2>4. ASSUME NEW q \in Proc \ {p}
        PROVE  /\ Kept(q)
               /\ \/ proc'[q] = proc[q] /\ ~(proc[q].at = "sleepwrite" /\ proc[q].pg = g)
                  \/ proc[q].pg = g /\ proc'[q].pg = g /\ proc'[q].at \in {"read", "write"}
    <3>1. proc[q] \in Record /\ ps[q] = proc[q]
      BY <1>1 DEF TypeInv
    <3>2. CASE proc'[q] = ps[q] /\ ~(ps[q].at = "sleepwrite" /\ ps[q].pg = g)
      BY <3>1, <3>2 DEF Kept
    <3>3. CASE ps[q].at = "sleepwrite" /\ ps[q].pg = g /\ proc'[q] = [ps[q] EXCEPT !.at = "write"]
      <4>1. proc'[q].pg = g /\ proc'[q].at = "write" /\ proc[q].pg = g
        BY <3>1, <3>3 DEF Record
      <4>2. proc[q].at = "sleepwrite" /\ proc'[q] = [proc[q] EXCEPT !.at = "write"]
        BY <3>1, <3>3
      <4>3. Kept(q)
        BY <1>2, <4>2 DEF Kept
      <4> QED BY <4>1, <4>3
    <3> QED BY <2>2, <3>2, <3>3
  <2> QED BY <1>4, <2>2, <2>3, <2>4
<1> QED BY <1>3, <1>4

LEMMA CloseAllIs ==
  ASSUME NEW r \in Record, NEW fs \in Seq(File)
  PROVE  /\ CloseAll(r, fs) \in Record /\ CloseAll(r, fs).files = fs
         /\ fs # <<>> => /\ CloseAll(r, fs).at = "close" /\ CloseAll(r, fs).then = r.then
         /\ fs = <<>> => CloseAll(r, fs) = IF r.then = "exit" THEN Unused ELSE User
BY DEF CloseAll, Record, Unused, User, Places

-----------------------------------------------------------------------------
(* References after a step.                                                *)

\* Place i of the list of process q is file f.
Lists(q, i, f) == i \in DOMAIN proc[q].files /\ proc[q].files[i] = f

LEMMA ShownSame ==
  ASSUME NEW f, \A q \in Proc, d \in FD : ofile'[q][d] = f <=> ofile[q][d] = f
  PROVE  Shown(f)' = Shown(f)
BY DEF Shown

LEMMA ShownMore ==
  ASSUME NEW f, NEW p \in Proc, NEW e \in FD, ofile[p][e] # f,
         \A q \in Proc, d \in FD : ofile'[q][d] = f <=> ofile[q][d] = f \/ (q = p /\ d = e)
  PROVE  Cardinality(Shown(f)') = Cardinality(Shown(f)) + 1
<1>1. <<p, e>> \in Proc \X FD /\ <<p, e>> \notin Shown(f)
  BY DEF Shown
<1>2. ASSUME NEW x \in Proc \X FD
      PROVE  x \in Shown(f)' <=> x \in Shown(f) \cup {<<p, e>>}
  <2>1. x[1] \in Proc /\ x[2] \in FD /\ x = <<x[1], x[2]>>
    OBVIOUS
  <2>2. x = <<p, e>> <=> x[1] = p /\ x[2] = e
    BY <2>1
  <2> QED BY <2>1, <2>2 DEF Shown
<1>3. Shown(f)' = Shown(f) \cup {<<p, e>>}
  <2>1. Shown(f)' \subseteq Proc \X FD /\ Shown(f) \subseteq Proc \X FD
    BY DEF Shown
  <2> QED BY <1>1, <1>2, <2>1
<1> QED BY <1>1, <1>3, Finite, AddPlace

LEMMA ShownLess ==
  ASSUME NEW f, NEW p \in Proc, NEW e \in FD, ofile[p][e] = f,
         \A q \in Proc, d \in FD : ofile'[q][d] = f <=> ofile[q][d] = f /\ ~(q = p /\ d = e)
  PROVE  Cardinality(Shown(f)') = Cardinality(Shown(f)) - 1
<1>1. <<p, e>> \in Proc \X FD /\ <<p, e>> \in Shown(f)
  BY DEF Shown
<1>2. ASSUME NEW x \in Proc \X FD
      PROVE  x \in Shown(f)' <=> x \in Shown(f) \ {<<p, e>>}
  <2>1. x[1] \in Proc /\ x[2] \in FD /\ x = <<x[1], x[2]>>
    OBVIOUS
  <2>2. x = <<p, e>> <=> x[1] = p /\ x[2] = e
    BY <2>1
  <2> QED BY <2>1, <2>2 DEF Shown
<1>3. Shown(f)' = Shown(f) \ {<<p, e>>}
  <2>1. Shown(f)' \subseteq Proc \X FD /\ Shown(f) \subseteq Proc \X FD
    BY DEF Shown
  <2> QED BY <1>2, <2>1
<1> QED BY <1>1, <1>3, Finite, DropPlace

LEMMA PendingSame ==
  ASSUME NEW f, \A q \in Proc, i \in 1..NOFILE + 2 : Lists(q, i, f)' <=> Lists(q, i, f)
  PROVE  Pending(f)' = Pending(f)
BY DEF Pending, Lists

LEMMA PendingMore ==
  ASSUME NEW f, NEW p \in Proc, NEW e \in 1..NOFILE + 2, ~Lists(p, e, f),
         \A q \in Proc, i \in 1..NOFILE + 2 : Lists(q, i, f)' <=> Lists(q, i, f) \/ (q = p /\ i = e)
  PROVE  Cardinality(Pending(f)') = Cardinality(Pending(f)) + 1
<1>1. <<p, e>> \in Proc \X (1..NOFILE + 2) /\ <<p, e>> \notin Pending(f)
  BY DEF Pending, Lists
<1>2. ASSUME NEW x \in Proc \X (1..NOFILE + 2)
      PROVE  x \in Pending(f)' <=> x \in Pending(f) \cup {<<p, e>>}
  <2>1. x[1] \in Proc /\ x[2] \in 1..NOFILE + 2 /\ x = <<x[1], x[2]>>
    OBVIOUS
  <2>2. x = <<p, e>> <=> x[1] = p /\ x[2] = e
    BY <2>1
  <2>3. x \in Pending(f) <=> Lists(x[1], x[2], f)
    BY DEF Pending, Lists
  <2>4. x \in Pending(f)' <=> Lists(x[1], x[2], f)'
    BY DEF Pending, Lists
  <2> QED BY <2>1, <2>2, <2>3, <2>4
<1>3. Pending(f)' = Pending(f) \cup {<<p, e>>}
  <2>1. Pending(f)' \subseteq Proc \X (1..NOFILE + 2) /\ Pending(f) \subseteq Proc \X (1..NOFILE + 2)
    BY DEF Pending
  <2> QED BY <1>1, <1>2, <2>1
<1> QED BY <1>1, <1>3, Finite, AddPlace

\* The first file of the list of process p is dropped.
LEMMA PendingShift ==
  ASSUME TypeInv, PlaceInv, NEW p \in Proc, proc[p].files # <<>>,
         proc'[p].files = Tail(proc[p].files),
         \A q \in Proc \ {p} : proc'[q].files = proc[q].files,
         NEW f
  PROVE  Cardinality(Pending(f)') = IF Head(proc[p].files) = f THEN Cardinality(Pending(f)) - 1
                                    ELSE Cardinality(Pending(f))
<1> DEFINE fs == proc[p].files
           n == Len(fs)
           D == Pending(f) \ {<<p, 1>>}
           h == [x \in D |-> IF x[1] = p THEN <<p, x[2] - 1>> ELSE x]
<1>1. fs \in Seq(File) /\ n \in Nat /\ n > 0 /\ n <= NOFILE + 2 /\ NOFILE \in Nat /\ DOMAIN fs = 1..n
      /\ Tail(fs) \in Seq(File) /\ Len(Tail(fs)) = n - 1
      /\ DOMAIN Tail(fs) = 1..n - 1 /\ \A i \in 1..n - 1 : Tail(fs)[i] = fs[i + 1]
  <2>1. fs \in Seq(File) /\ n <= NOFILE + 2 /\ NOFILE \in Nat
    BY PipeAssumption DEF TypeInv, Record, PlaceInv, PlaceOK
  <2> QED BY <2>1
<1>2. <<p, 1>> \in Pending(f) <=> Head(fs) = f
  <2>1. 1 \in 1..NOFILE + 2 /\ 1 \in 1..n /\ Head(fs) = fs[1]
    BY <1>1
  <2> QED BY <1>1, <2>1 DEF Pending
<1>3. \A x \in Pending(f) : /\ x = <<x[1], x[2]>> /\ x[1] \in Proc /\ x[2] \in 1..NOFILE + 2
                            /\ x[2] \in DOMAIN proc[x[1]].files /\ proc[x[1]].files[x[2]] = f
  BY DEF Pending
<1>4. \A x : x \in Pending(f)' <=> /\ x \in Proc \X (1..NOFILE + 2)
                                    /\ x[2] \in DOMAIN proc'[x[1]].files /\ proc'[x[1]].files[x[2]] = f
  BY DEF Pending
<1>5. ASSUME NEW x \in D
      PROVE  /\ h[x] \in Pending(f)'
             /\ x[1] = p => h[x] = <<p, x[2] - 1>> /\ x[2] - 1 \in Nat /\ x[2] - 1 > 0
             /\ x[1] # p => h[x] = x
  <2>1. CASE x[1] = p
    <3>1. x[2] # 1 /\ x[2] \in 1..n /\ fs[x[2]] = f
      BY <1>1, <1>3, <2>1
    <3>2. h[x] = <<p, x[2] - 1>> /\ x[2] - 1 \in 1..n - 1 /\ Tail(fs)[x[2] - 1] = f
          /\ x[2] - 1 \in 1..NOFILE + 2 /\ x[2] - 1 \in Nat /\ x[2] - 1 > 0
      <4>1. h[x] = <<p, x[2] - 1>>
        BY <2>1
      <4>2. x[2] - 1 \in 1..n - 1 /\ x[2] - 1 \in 1..NOFILE + 2 /\ x[2] - 1 \in Nat /\ x[2] - 1 > 0
            /\ (x[2] - 1) + 1 = x[2]
        BY <1>1, <3>1
      <4>3. Tail(fs)[x[2] - 1] = f
        BY <1>1, <3>1, <4>2
      <4> QED BY <4>1, <4>2, <4>3
    <3>3. <<p, x[2] - 1>> \in Proc \X (1..NOFILE + 2) /\ <<p, x[2] - 1>>[1] = p /\ <<p, x[2] - 1>>[2] = x[2] - 1
      BY <3>2
    <3>4. <<p, x[2] - 1>> \in Pending(f)'
      BY <1>1, <1>4, <3>2, <3>3
    <3> QED BY <2>1, <3>2, <3>4
  <2>2. CASE x[1] # p
    <3>1. x \in Pending(f) /\ h[x] = x /\ x[1] \in Proc \ {p}
      BY <1>3, <2>2
    <3> QED BY <1>3, <1>4, <2>2, <3>1
  <2> QED BY <2>1, <2>2
<1>6. ASSUME NEW x \in D, NEW y \in D, h[x] = h[y] PROVE x = y
  <2>1. x = <<x[1], x[2]>> /\ y = <<y[1], y[2]>> /\ x[2] \in Nat /\ y[2] \in Nat
    BY <1>3
  <2>2. CASE x[1] = p /\ y[1] = p
    <3>1. <<p, x[2] - 1>> = <<p, y[2] - 1>>
      BY <1>5, <1>6, <2>2
    <3>2. x[2] - 1 = y[2] - 1
      BY <3>1
    <3>3. x[2] = y[2]
      BY <2>1, <3>2
    <3> QED BY <2>1, <2>2, <3>3
  <2>3. CASE x[1] # p /\ y[1] # p
    BY <1>5, <1>6, <2>3
  <2>4. CASE x[1] = p /\ y[1] # p
    BY <1>5, <1>6, <2>4
  <2>5. CASE x[1] # p /\ y[1] = p
    BY <1>5, <1>6, <2>5
  <2> QED BY <2>2, <2>3, <2>4, <2>5
<1>7. ASSUME NEW y \in Pending(f)' PROVE \E x \in D : h[x] = y
  <2>1. y = <<y[1], y[2]>> /\ y[1] \in Proc /\ y[2] \in 1..NOFILE + 2
        /\ y[2] \in DOMAIN proc'[y[1]].files /\ proc'[y[1]].files[y[2]] = f
    BY <1>4
  <2>2. CASE y[1] = p
    <3> DEFINE x == <<p, y[2] + 1>>
    <3>1. y[2] \in 1..n - 1 /\ fs[y[2] + 1] = f
      BY <1>1, <2>1, <2>2
    <3>2. y[2] + 1 \in 1..n /\ y[2] + 1 \in 1..NOFILE + 2 /\ y[2] + 1 # 1 /\ (y[2] + 1) - 1 = y[2]
      BY <1>1, <3>1
    <3>3. x \in Pending(f) /\ x # <<p, 1>> /\ x[1] = p /\ x[2] = y[2] + 1
      BY <1>1, <3>1, <3>2 DEF Pending
    <3>4. x \in D
      BY <3>3
    <3>5. h[x] = y
      BY <1>5, <2>1, <2>2, <3>2, <3>3, <3>4
    <3> QED BY <3>4, <3>5
  <2>3. CASE y[1] # p
    <3>1. y \in Pending(f) /\ y # <<p, 1>>
      BY <2>1, <2>3 DEF Pending
    <3>2. y \in D /\ h[y] = y
      BY <2>3, <3>1
    <3> QED BY <3>2
  <2> QED BY <2>2, <2>3
<1>8. Cardinality(Pending(f)') = Cardinality(D)
  <2>1. h \in [D -> Pending(f)']
    BY <1>5
  <2>2. IsFiniteSet(D)
    BY Finite, FS_Subset
  <2> HIDE DEF h, D
  <2> QED BY <1>6, <1>7, <2>1, <2>2, SameSize
<1>9. CASE Head(fs) = f
  <2>1. Cardinality(D) = Cardinality(Pending(f)) - 1
    BY <1>2, <1>9, Finite, DropPlace
  <2> QED BY <1>8, <1>9, <2>1
<1>10. CASE Head(fs) # f
  <2>1. D = Pending(f)
    BY <1>2, <1>10
  <2> QED BY <1>8, <1>10, <2>1
<1> QED BY <1>9, <1>10

\* No reference changes.
LEMMA CountSame ==
  ASSUME NEW f, Counted(f), file'[f].ref = file[f].ref,
         Shown(f)' = Shown(f), Pending(f)' = Pending(f)
  PROVE  Counted(f)'
BY DEF Counted

-----------------------------------------------------------------------------
(* Steps that leave the file table and the descriptors alone.              *)

LEMMA EndSame ==
  ASSUME EndInv,
         \A f \in File, g \in Pages, wr \in BOOLEAN : IsEnd(f, g, wr)' <=> IsEnd(f, g, wr),
         \A q \in Proc, g \in Pages, wr \in BOOLEAN : Closes(q, g, wr)' <=> Closes(q, g, wr),
         \A g \in Pages, wr \in BOOLEAN : IsOpen(g, wr)' <=> IsOpen(g, wr)
  PROVE  EndInv'
<1> SUFFICES ASSUME NEW g \in Pages, NEW wr \in BOOLEAN
             PROVE  /\ \A f, e \in File : IsEnd(f, g, wr)' /\ IsEnd(e, g, wr)' => f = e
                    /\ \A p \in Proc, f \in File : ~(Closes(p, g, wr)' /\ IsEnd(f, g, wr)')
                    /\ \A p, q \in Proc : Closes(p, g, wr)' /\ Closes(q, g, wr)' => p = q
                    /\ IsOpen(g, wr)' <=> \/ \E f \in File : IsEnd(f, g, wr)'
                                          \/ \E p \in Proc : Closes(p, g, wr)'
  BY DEF EndInv
<1>1. /\ \A f, e \in File : IsEnd(f, g, wr) /\ IsEnd(e, g, wr) => f = e
      /\ \A p \in Proc, f \in File : ~(Closes(p, g, wr) /\ IsEnd(f, g, wr))
      /\ \A p, q \in Proc : Closes(p, g, wr) /\ Closes(q, g, wr) => p = q
      /\ IsOpen(g, wr) <=> \/ \E f \in File : IsEnd(f, g, wr)
                           \/ \E p \in Proc : Closes(p, g, wr)
  BY DEF EndInv
<1>2. /\ \A f \in File : IsEnd(f, g, wr)' <=> IsEnd(f, g, wr)
      /\ \A q \in Proc : Closes(q, g, wr)' <=> Closes(q, g, wr)
      /\ IsOpen(g, wr)' <=> IsOpen(g, wr)
  OBVIOUS
<1> QED BY <1>1, <1>2

Enters(q) ==
  /\ proc[q] = User /\ proc'[q].files = <<>> /\ proc'[q].then = "user"
  /\ proc'[q].at \in Reading \cup Writing /\ proc'[q].pg \in Pages
  /\ UserOK(q)'
Leaves(q) == proc[q].at \in Reading \cup Writing /\ proc'[q] = User

LEMMA QuietStep ==
  ASSUME TableInv, TypeInv', UNCHANGED <<file, ofile>>,
         \A q \in Proc : Kept(q) \/ Enters(q) \/ Leaves(q),
         \A g \in Pages, wr \in BOOLEAN : IsOpen(g, wr)' <=> IsOpen(g, wr)
  PROVE  TableInv'
<1> USE DEF TableInv
<1>1. ASSUME NEW q \in Proc
      PROVE  /\ PlaceOK(q)' /\ UserOK(q)' /\ proc'[q].files = proc[q].files
             /\ proc'[q].at = "pipealloc" => proc[q].at = "pipealloc"
             /\ \A g, wr : Closes(q, g, wr)' <=> Closes(q, g, wr)
  <2>1. PlaceOK(q) /\ UserOK(q) /\ proc[q] \in Record
    BY DEF PlaceInv, UserInv, TypeInv
  <2>2. CASE Kept(q)
    <3>1. PlaceOK(q)' /\ \A g, wr : Closes(q, g, wr)' <=> Closes(q, g, wr)
      BY <2>1, <2>2, KeptPlace
    <3>2. UserOK(q)'
      <4>1. proc'[q].pg = proc[q].pg /\ ofile'[q] = ofile[q]
        BY <2>2, KeptIs
      <4>2. \A d \in FD, wr \in BOOLEAN :
              IsEnd(ofile[q][d], proc[q].pg, wr) => IsEnd(ofile[q][d], proc[q].pg, wr)'
        BY <4>1 DEF IsEnd
      <4> QED BY <2>1, <2>2, <4>1, <4>2, KeptUser
    <3>3. "pipealloc" \in Places /\ "pipealloc" \notin Reading \cup Writing
      BY DEF Places, Reading, Writing
    <3> QED BY <2>2, <3>1, <3>2, <3>3, KeptIs
  <2>3. CASE Enters(q)
    <3>1. User.files = <<>> /\ User.at = "user"
      BY DEF User, Unused
    <3>2. PlaceOK(q)'
      BY <2>3, PipeAssumption DEF Enters, PlaceOK, Reading, Writing
    <3> QED BY <2>3, <3>1, <3>2 DEF Enters, Closes, Reading, Writing
  <2>4. CASE Leaves(q)
    <3>1. User.files = <<>> /\ User.at = "user" /\ User.then = "user"
      BY DEF User, Unused
    <3>2. proc[q].files = <<>>
      BY <2>1, <2>4 DEF PlaceOK, Leaves
    <3>3. PlaceOK(q)' /\ UserOK(q)'
      BY <2>4, <3>1, PipeAssumption DEF Leaves, PlaceOK, UserOK, Reading, Writing
    <3> QED BY <2>4, <3>1, <3>2, <3>3 DEF Leaves, Closes, Reading, Writing
  <2> QED BY <2>2, <2>3, <2>4
<1>2. RefCounts'
  <2>1. ASSUME NEW f \in File PROVE Counted(f)'
    <3>1. Shown(f)' = Shown(f)
      BY ShownSame
    <3>2. Pending(f)' = Pending(f)
      BY <1>1, PendingSame DEF Lists
    <3> QED BY <3>1, <3>2, CountSame DEF RefCounts
  <2> QED BY <2>1 DEF RefCounts
<1>3. PlaceInv' /\ UserInv'
  BY <1>1 DEF PlaceInv, UserInv
<1>4. FileInv'
  BY <1>1 DEF FileInv, FileOK, FilesFresh
<1>5. EndInv'
  BY <1>1, EndSame DEF IsEnd
<1> QED BY <1>2, <1>3, <1>4, <1>5

-----------------------------------------------------------------------------
(* pipe.c: reads and writes.                                               *)

LEMMA RingType == TypeInv => pipe \in [Pages -> Ring]
BY DEF TypeInv, Ring

\* A place of a process in Reading or Writing is at a page.
LEMMA AtPage ==
  ASSUME TableInv, NEW p \in Proc, proc[p].at \in Reading \cup Writing \cup {"pipeclose"}
  PROVE  proc[p].pg \in Pages /\ proc[p] \in Record
BY DEF TableInv, PlaceInv, PlaceOK, TypeInv

LEMMA UserIs ==
  /\ User \in Record /\ Unused \in Record /\ User.at = "user" /\ Unused.at = "unused"
  /\ User.files = <<>> /\ User.then = "user"
<1>1. "user" \in Places /\ "unused" \in Places /\ <<>> \in Seq(File)
  BY DEF Places
<1>3. Unused \in Record
  BY <1>1 DEF Unused, Record
<1>4. User \in Record
  BY <1>1, <1>3 DEF User, Record
<1> QED BY <1>3, <1>4 DEF User, Unused

LEMMA SleepTable ==
  ASSUME TableInv, NEW p \in Proc, sleep(p)
  PROVE  TableInv' /\ \A q \in Proc : Kept(q)
<1>1. "sleepread" \in Places /\ "sleepread" \in Reading /\ "dozeread" \in Reading
      /\ "sleepwrite" \in Places /\ "sleepwrite" \in Writing /\ "dozewrite" \in Writing
  BY DEF Places, Reading, Writing
<1>2. proc \in [Proc -> Record]
  BY DEF TableInv, TypeInv
<1>3. PICK a \in Places : /\ proc' = [proc EXCEPT ![p] = [proc[p] EXCEPT !.at = a]]
                          /\ \/ proc[p].at \in Reading /\ a \in Reading
                             \/ proc[p].at \in Writing /\ a \in Writing
  <2>1. CASE proc[p].at = "dozeread" /\ Goto(p, [proc[p] EXCEPT !.at = "sleepread"])
    <3> DEFINE a == "sleepread"
    <3>1. a \in Places /\ a \in Reading /\ proc[p].at \in Reading
      BY <1>1, <2>1
    <3>2. proc' = [proc EXCEPT ![p] = [proc[p] EXCEPT !.at = a]]
      BY <2>1 DEF Goto
    <3>3. (proc[p].at \in Reading /\ a \in Reading) \/ (proc[p].at \in Writing /\ a \in Writing)
      BY <3>1
    <3> HIDE DEF a
    <3> QED BY <3>1, <3>2, <3>3
  <2>2. CASE proc[p].at = "dozewrite" /\ Goto(p, [proc[p] EXCEPT !.at = "sleepwrite"])
    <3> DEFINE a == "sleepwrite"
    <3>1. a \in Places /\ a \in Writing /\ proc[p].at \in Writing
      BY <1>1, <2>2
    <3>2. proc' = [proc EXCEPT ![p] = [proc[p] EXCEPT !.at = a]]
      BY <2>2 DEF Goto
    <3> HIDE DEF a
    <3> QED BY <3>1, <3>2
  <2> QED BY <2>1, <2>2 DEF sleep
<1>4. proc' \in [Proc -> Record] /\ \A q \in Proc \ {p} : proc'[q] = proc[q]
  BY <1>2, <1>3 DEF Record
<1>5. Kept(p)
  BY <1>2, <1>3 DEF Kept
<1>6. \A q \in Proc : Kept(q)
  BY <1>4, <1>5 DEF Kept
<1>7. TypeInv' /\ \A g \in Pages, wr \in BOOLEAN : IsOpen(g, wr)' <=> IsOpen(g, wr)
  BY <1>4 DEF TableInv, TypeInv, sleep, IsOpen
<1>8. UNCHANGED <<file, ofile>>
  BY DEF sleep
<1> QED BY <1>6, <1>7, <1>8, QuietStep

LEMMA KillTable ==
  ASSUME TableInv, NEW p \in Proc, kill(p)
  PROVE  TableInv' /\ \A q \in Proc : Kept(q)
<1>1. "read" \in Places /\ "sleepread" \in Reading /\ "read" \in Reading
      /\ "write" \in Places /\ "sleepwrite" \in Writing /\ "write" \in Writing
  BY DEF Places, Reading, Writing
<1>2. proc \in [Proc -> Record]
  BY DEF TableInv, TypeInv
<1>3. proc' \in [Proc -> Record] /\ \A q \in Proc : Kept(q)
  <2>1. CASE UNCHANGED proc
    BY <1>2, <2>1 DEF Kept
  <2>2. CASE \E a \in Places : /\ proc' = [proc EXCEPT ![p] = [proc[p] EXCEPT !.at = a]]
                               /\ \/ proc[p].at \in Reading /\ a \in Reading
                                  \/ proc[p].at \in Writing /\ a \in Writing
    <3>1. PICK a \in Places : /\ proc' = [proc EXCEPT ![p] = [proc[p] EXCEPT !.at = a]]
                              /\ \/ proc[p].at \in Reading /\ a \in Reading
                                 \/ proc[p].at \in Writing /\ a \in Writing
      BY <2>2
    <3>2. proc' \in [Proc -> Record] /\ \A q \in Proc \ {p} : proc'[q] = proc[q]
      BY <1>2, <3>1 DEF Record
    <3>3. Kept(p)
      BY <1>2, <3>1 DEF Kept
    <3> QED BY <3>2, <3>3 DEF Kept
  <2>3. CASE proc[p].at = "sleepread" /\ Goto(p, [proc[p] EXCEPT !.at = "read"])
    <3> DEFINE a == "read"
    <3>1. a \in Places /\ a \in Reading /\ proc[p].at \in Reading
      BY <1>1, <2>3
    <3>2. proc' = [proc EXCEPT ![p] = [proc[p] EXCEPT !.at = a]]
      BY <2>3 DEF Goto
    <3>3. (proc[p].at \in Reading /\ a \in Reading) \/ (proc[p].at \in Writing /\ a \in Writing)
      BY <3>1
    <3> HIDE DEF a
    <3> QED BY <2>2, <3>1, <3>2, <3>3
  <2>4. CASE proc[p].at = "sleepwrite" /\ Goto(p, [proc[p] EXCEPT !.at = "write"])
    <3> DEFINE a == "write"
    <3>1. a \in Places /\ a \in Writing /\ proc[p].at \in Writing
      BY <1>1, <2>4
    <3>2. proc' = [proc EXCEPT ![p] = [proc[p] EXCEPT !.at = a]]
      BY <2>4 DEF Goto
    <3> HIDE DEF a
    <3> QED BY <2>2, <3>1, <3>2
  <2> QED BY <2>1, <2>3, <2>4 DEF kill
<1>4. TypeInv' /\ \A g \in Pages, wr \in BOOLEAN : IsOpen(g, wr)' <=> IsOpen(g, wr)
  BY <1>3 DEF TableInv, TypeInv, kill, IsOpen
<1>5. UNCHANGED <<file, ofile>>
  BY DEF kill
<1> QED BY <1>3, <1>4, <1>5, QuietStep

LEMMA EnterTable ==
  ASSUME TableInv, NEW p \in Proc, sys_read(p) \/ sys_write(p)
  PROVE  /\ TableInv' /\ UNCHANGED <<pipe, cut>>
         /\ proc'[p].at \in {"read", "write"} /\ \A q \in Proc \ {p} : proc'[q] = proc[q]
<1>0. /\ proc \in [Proc -> Record]
      /\ ofile \in [Proc -> [FD -> {0} \cup File]]
      /\ file \in [File -> [ref : Nat, pipe : Pages \cup {None}, writable : BOOLEAN]]
      /\ FileInv
  BY DEF TableInv, TypeInv
<1>1. PICK d \in FD : \E n \in ReadSizes \cup WriteSizes, a \in {"read", "write"} :
        /\ ofile[p][d] # 0 /\ proc[p] = User
        /\ file[ofile[p][d]].pipe # None /\ file[ofile[p][d]].writable = (a = "write")
        /\ proc' = [proc EXCEPT ![p] = [User EXCEPT !.at = a, !.pg = file[ofile[p][d]].pipe, !.n = n]]
  <2>1. CASE sys_read(p)
    <3>1. PICK d \in FD, n \in ReadSizes :
            /\ ofile[p][d] # 0 /\ proc[p] = User
            /\ file[ofile[p][d]].pipe # None /\ ~file[ofile[p][d]].writable
            /\ proc' = [proc EXCEPT ![p] =
                         [User EXCEPT !.at = "read", !.pg = file[ofile[p][d]].pipe, !.n = n]]
      BY <2>1 DEF sys_read, MayCall, Goto
    <3>2. ofile[p][d] \in File
      BY <1>0, <3>1
    <3>3. file[ofile[p][d]].writable = FALSE
      BY <1>0, <3>1, <3>2
    <3> DEFINE a == "read"
    <3>4. a \in {"read", "write"} /\ file[ofile[p][d]].writable = (a = "write") /\ n \in ReadSizes \cup WriteSizes
      BY <3>3
    <3> QED BY <3>1, <3>4
  <2>2. CASE sys_write(p)
    <3>1. PICK d \in FD, n \in WriteSizes :
            /\ ofile[p][d] # 0 /\ proc[p] = User
            /\ file[ofile[p][d]].writable
            /\ proc' = [proc EXCEPT ![p] =
                         [User EXCEPT !.at = "write", !.pg = file[ofile[p][d]].pipe, !.n = n]]
      BY <2>2 DEF sys_write, MayCall, Goto
    <3>2. ofile[p][d] \in File
      BY <1>0, <3>1
    <3>3. file[ofile[p][d]].writable = TRUE /\ file[ofile[p][d]].pipe # None
      BY <1>0, <3>1, <3>2 DEF FileInv, FileOK
    <3> DEFINE a == "write"
    <3>4. a \in {"read", "write"} /\ file[ofile[p][d]].writable = (a = "write") /\ n \in ReadSizes \cup WriteSizes
      BY <3>3
    <3> QED BY <3>1, <3>3, <3>4
  <2> QED BY <2>1, <2>2
<1>2. PICK n \in ReadSizes \cup WriteSizes, a \in {"read", "write"} :
        /\ ofile[p][d] # 0 /\ proc[p] = User
        /\ file[ofile[p][d]].pipe # None /\ file[ofile[p][d]].writable = (a = "write")
        /\ proc' = [proc EXCEPT ![p] = [User EXCEPT !.at = a, !.pg = file[ofile[p][d]].pipe, !.n = n]]
  BY <1>1
<1> DEFINE g == file[ofile[p][d]].pipe
           r == [User EXCEPT !.at = a, !.pg = g, !.n = n]
<1>3. ofile[p][d] \in File /\ g \in Pages /\ n \in Nat
  BY <1>0, <1>2, PipeAssumption
<1>4. "read" \in Places /\ "read" \in Reading /\ "write" \in Places /\ "write" \in Writing
      /\ "read" \notin Writing /\ "write" \notin Reading
  BY DEF Places, Reading, Writing
<1>5. /\ r \in Record /\ r.at = a /\ r.pg = g /\ r.files = <<>> /\ r.then = "user"
  BY <1>3, <1>4, UserIs DEF User, Unused, Record
<1> HIDE DEF r
<1>6. /\ proc' \in [Proc -> Record] /\ proc'[p] = r /\ \A q \in Proc \ {p} : proc'[q] = proc[q]
  BY <1>0, <1>2, <1>5 DEF r
<1>7. UNCHANGED <<file, ofile, pipe, cut, killed>>
  BY DEF sys_read, sys_write
<1>8. UserOK(p)'
  <2>1. IsEnd(ofile[p][d], g, a = "write")'
    BY <1>2, <1>7 DEF IsEnd
  <2>2. Holds(p, a = "write")'
    BY <1>2, <1>5, <1>6, <1>7, <2>1 DEF Holds
  <2>3. CASE a = "read"
    BY <1>4, <1>5, <1>6, <2>2, <2>3 DEF UserOK
  <2>4. CASE a = "write"
    BY <1>4, <1>5, <1>6, <2>2, <2>4 DEF UserOK
  <2> QED BY <2>3, <2>4
<1>9. Enters(p)
  <2>1. proc'[p].at \in Reading \cup Writing
    BY <1>2, <1>4, <1>5, <1>6
  <2>2. proc'[p].pg \in Pages /\ proc'[p].files = <<>> /\ proc'[p].then = "user"
    BY <1>3, <1>5, <1>6
  <2> QED BY <1>2, <1>8, <2>1, <2>2 DEF Enters
<1>10. \A q \in Proc : Kept(q) \/ Enters(q) \/ Leaves(q)
  BY <1>6, <1>9 DEF Kept
<1>11. TypeInv' /\ \A h \in Pages, wr \in BOOLEAN : IsOpen(h, wr)' <=> IsOpen(h, wr)
  BY <1>6, <1>7 DEF TableInv, TypeInv, IsOpen
<1>12. TableInv'
  BY <1>7, <1>10, <1>11, QuietStep
<1> QED BY <1>5, <1>6, <1>7, <1>12

\* Who reads or writes has that end open.
LEMMA OpenAt ==
  ASSUME TableInv, NEW q \in Proc
  PROVE  /\ proc[q].at \in Reading => proc[q].pg \in Pages /\ pipe[proc[q].pg].readopen
         /\ proc[q].at \in Writing => proc[q].pg \in Pages /\ pipe[proc[q].pg].writeopen
<1>1. ASSUME NEW wr \in BOOLEAN, Holds(q, wr), proc[q].pg \in Pages PROVE IsOpen(proc[q].pg, wr)
  <2>1. PICK d \in FD : ofile[q][d] # 0 /\ IsEnd(ofile[q][d], proc[q].pg, wr)
    BY <1>1 DEF Holds
  <2>2. ofile[q][d] \in File
    BY <2>1 DEF TableInv, TypeInv
  <2> QED BY <1>1, <2>1, <2>2 DEF TableInv, EndInv
<1>2. proc[q].at \in Reading \cup Writing => proc[q].pg \in Pages
  BY AtPage
<1>3. CASE proc[q].at \in Reading
  <2>1. Holds(q, FALSE)
    BY <1>3 DEF TableInv, UserInv, UserOK
  <2> QED BY <1>1, <1>2, <1>3, <2>1 DEF IsOpen, Reading, Writing
<1>4. CASE proc[q].at \in Writing
  <2>1. Holds(q, TRUE)
    BY <1>4 DEF TableInv, UserInv, UserOK
  <2> QED BY <1>1, <1>2, <1>4, <2>1 DEF IsOpen, Reading, Writing
<1> QED BY <1>3, <1>4

\* What a process sees of a page does not change.
LEMMA SleepKeep ==
  ASSUME NEW q, SleepOK(q), proc'[q] = proc[q], pipe'[proc[q].pg] = pipe[proc[q].pg],
         proc[q].pg \in cut' <=> proc[q].pg \in cut
  PROVE  SleepOK(q)'
BY DEF SleepOK, Empty, Full

LEMMA PageKeep ==
  ASSUME NEW h, PageOK(h), pipe'[h] = pipe[h]
  PROVE  PageOK(h)'
BY DEF PageOK, Held

LEMMA AwakeOK ==
  ASSUME NEW q, proc'[q].at \notin {"dozeread", "dozewrite", "sleepread", "sleepwrite"}
  PROVE  SleepOK(q)'
BY DEF SleepOK

\* Page, step and sleepers do not touch each other.
LEMMA StillPages ==
  ASSUME PageInv, SleepInv, UNCHANGED <<pipe, cut>>,
         \A q \in Proc : \/ proc'[q] = proc[q]
                         \/ proc'[q].at \notin {"dozeread", "dozewrite", "sleepread", "sleepwrite"}
  PROVE  PageInv' /\ SleepInv'
<1>1. PageInv'
  BY PageKeep DEF PageInv
<1>2. ASSUME NEW q \in Proc PROVE SleepOK(q)'
  BY SleepKeep, AwakeOK DEF SleepInv
<1> QED BY <1>1, <1>2 DEF SleepInv

LEMMA SleepStep ==
  ASSUME IInv, NEW p \in Proc, sleep(p)
  PROVE  IInv'
<1>1. TableInv'
  BY SleepTable DEF IInv
<1>2. UNCHANGED <<pipe, cut>>
  BY DEF sleep
<1>3. PageInv'
  BY <1>2, PageKeep DEF PageInv, IInv
<1>4. proc[p] \in Record /\ proc \in [Proc -> Record]
  BY DEF IInv, TableInv, TypeInv
<1>5. ASSUME NEW q \in Proc PROVE SleepOK(q)'
  <2>1. CASE q # p
    <3>1. proc'[q] = proc[q]
      BY <1>4, <2>1 DEF sleep, Goto
    <3> QED BY <1>2, <3>1, SleepKeep DEF IInv, SleepInv
  <2>2. CASE q = p
    <3>1. SleepOK(p)
      BY DEF IInv, SleepInv
    <3>2. CASE proc[p].at = "dozeread" /\ Goto(p, [proc[p] EXCEPT !.at = "sleepread"])
      <4>1. proc'[p].at = "sleepread" /\ proc'[p].pg = proc[p].pg
        BY <1>4, <3>2 DEF Goto, Record
      <4> QED BY <1>2, <2>2, <3>1, <3>2, <4>1 DEF SleepOK, Empty
    <3>3. CASE proc[p].at = "dozewrite" /\ Goto(p, [proc[p] EXCEPT !.at = "sleepwrite"])
      <4>1. proc'[p].at = "sleepwrite" /\ proc'[p].pg = proc[p].pg
        BY <1>4, <3>3 DEF Goto, Record
      <4> QED BY <1>2, <2>2, <3>1, <3>3, <4>1 DEF SleepOK, Full
    <3> QED BY <2>2, <3>2, <3>3 DEF sleep
  <2> QED BY <2>1, <2>2
<1> QED BY <1>1, <1>3, <1>5 DEF IInv, SleepInv

LEMMA KillStep ==
  ASSUME IInv, NEW p \in Proc, kill(p)
  PROVE  IInv'
<1>1. TableInv'
  BY KillTable DEF IInv
<1>2. UNCHANGED <<pipe, cut>>
  BY DEF kill
<1>3. proc \in [Proc -> Record]
  BY DEF IInv, TableInv, TypeInv
<1>4. \A q \in Proc : \/ proc'[q] = proc[q]
                      \/ proc'[q].at \notin {"dozeread", "dozewrite", "sleepread", "sleepwrite"}
  BY <1>3 DEF kill, Goto, Record
<1> QED BY <1>1, <1>2, <1>4, StillPages DEF IInv

LEMMA EnterStep ==
  ASSUME IInv, NEW p \in Proc, sys_read(p) \/ sys_write(p)
  PROVE  IInv'
<1>1. /\ TableInv' /\ UNCHANGED <<pipe, cut>>
      /\ proc'[p].at \in {"read", "write"} /\ \A q \in Proc \ {p} : proc'[q] = proc[q]
  BY EnterTable DEF IInv
<1> QED BY <1>1, StillPages DEF IInv

\* With nobody between test and sleep, who is at page g and not woken is asleep.
LEMMA NotDozing ==
  ASSUME NEW g, ~Locked(g), NEW q \in Proc, proc[q].pg = g
  PROVE  proc[q].at \notin {"dozeread", "dozewrite"}
BY DEF Locked

\* The reader takes k bytes and goes.
LEMMA TakeStep ==
  ASSUME IInv, NEW p \in Proc, piperead(p), ~(Empty(proc[p].pg) /\ pipe[proc[p].pg].writeopen)
  PROVE  IInv'
<1>0. PICK g : g = proc[p].pg
  OBVIOUS
<1>01. PICK k : k = IF proc[p].n < Held(g) THEN proc[p].n ELSE Held(g)
  OBVIOUS
<1>1. /\ pipe' = [pipe EXCEPT ![g].nread = Advance(@, k)]
      /\ proc' = CloseWakes([proc EXCEPT ![p] = User], g, FALSE)
      /\ UNCHANGED <<file, ofile, killed, cut>> /\ ~Locked(g) /\ proc[p].at = "read"
  BY <1>0, <1>01 DEF piperead, CloseWakes
<1>2. proc[p].at \in Reading /\ TableInv /\ TypeInv
  BY <1>1 DEF Reading, IInv, TableInv
<1>3. /\ g \in Pages /\ pipe \in [Pages -> Ring] /\ PageOK(g) /\ proc[p].n \in Nat
      /\ pipe[g] \in Ring /\ pipe[g].readopen
  BY <1>0, <1>2, AtPage, RingType, OpenAt DEF IInv, PageInv, Record
<1>4. Held(g) \in Nat /\ Held(g) <= PIPESIZE /\ k \in 0..Held(g)
  BY <1>01, <1>3, HeldIs, Sizes DEF PageOK, Ring
<1>5. /\ proc' \in [Proc -> Record] /\ proc'[p] = User
      /\ \A q \in Proc \ {p} : Kept(q)
      /\ \A q \in Proc \ {p} :
           \/ proc'[q] = proc[q] /\ ~(proc[q].at = "sleepwrite" /\ proc[q].pg = g)
           \/ proc[q].pg = g /\ proc'[q].pg = g /\ proc'[q].at \in {"read", "write"}
  <2>1. User \in Record /\ User.at \notin {"sleepread", "sleepwrite"}
    BY UserIs
  <2> DEFINE wr == FALSE
             ps == [proc EXCEPT ![p] = User]
  <2>2. /\ wr \in BOOLEAN /\ proc' = CloseWakes(ps, g, wr) /\ ps \in [Proc -> Record]
        /\ ps[p] = User /\ \A q \in Proc \ {p} : ps[q] = proc[q]
    BY <1>1, <1>2, <2>1 DEF TypeInv
  <2> HIDE DEF wr, ps
  <2>3. /\ proc' \in [Proc -> Record] /\ proc'[p] = User
        /\ \A q \in Proc \ {p} : Kept(q)
        /\ \A q \in Proc \ {p} :
             \/ proc'[q] = proc[q] /\ ~(proc[q].at = (IF wr THEN "sleepread" ELSE "sleepwrite")
                                        /\ proc[q].pg = g)
             \/ proc[q].pg = g /\ proc'[q].pg = g /\ proc'[q].at \in {"read", "write"}
    BY <1>2, <2>1, <2>2, WakeKeeps
  <2> QED BY <2>3 DEF wr
<1>6. pipe' \in [Pages -> Ring] /\ Held(g)' <= PIPESIZE
  BY <1>1, <1>3, <1>4, ReadHeld
<1>7. /\ \A h \in Pages \ {g} : pipe'[h] = pipe[h]
      /\ pipe'[g].used = pipe[g].used /\ pipe'[g].readopen = pipe[g].readopen
      /\ pipe'[g].writeopen = pipe[g].writeopen
  BY <1>1, <1>3 DEF Ring
<1>8. TableInv'
  <2>1. TypeInv'
    BY <1>1, <1>2, <1>5, <1>6 DEF TypeInv, Ring
  <2>2. \A q \in Proc : Kept(q) \/ Enters(q) \/ Leaves(q)
    BY <1>2, <1>5 DEF Leaves
  <2>3. \A h \in Pages, wr \in BOOLEAN : IsOpen(h, wr)' <=> IsOpen(h, wr)
    BY <1>7 DEF IsOpen
  <2> QED BY <1>1, <1>2, <2>1, <2>2, <2>3, QuietStep
<1>9. PageInv'
  <2>1. ASSUME NEW h \in Pages, h # g PROVE PageOK(h)'
    BY <1>7, <2>1, PageKeep DEF IInv, PageInv
  <2>2. PageOK(g)'
    BY <1>3, <1>6, <1>7 DEF PageOK
  <2> QED BY <2>1, <2>2 DEF PageInv
<1>10. ASSUME NEW q \in Proc PROVE SleepOK(q)'
  <2>1. CASE q = p
    BY <2>1, <1>5, UserIs, AwakeOK
  <2>2. CASE q # p /\ proc'[q].at \in {"read", "write"}
    BY <2>2, AwakeOK
  <2>3. CASE q # p /\ proc'[q] = proc[q] /\ proc[q].pg # g
    <3>1. SleepOK(q) /\ (proc[q].at \in Reading \cup Writing => proc[q].pg \in Pages)
      BY <1>2, AtPage DEF IInv, SleepInv
    <3>2. CASE proc[q].pg \in Pages
      <4>1. pipe'[proc[q].pg] = pipe[proc[q].pg]
        BY <1>7, <2>3, <3>2
      <4> QED BY <1>1, <2>3, <3>1, <4>1, SleepKeep
    <3>3. CASE proc[q].pg \notin Pages
      <4>1. proc[q].at \notin Reading \cup Writing
        BY <3>1, <3>3
      <4> QED BY <2>3, <4>1, AwakeOK DEF Reading, Writing
    <3> QED BY <3>2, <3>3
  <2>4. CASE q # p /\ proc'[q] = proc[q] /\ proc[q].pg = g /\ proc[q].at # "sleepwrite"
    <3>1. proc[q].at \notin {"dozeread", "dozewrite"} /\ SleepOK(q)
      BY <1>1, <2>4, NotDozing DEF IInv, SleepInv
    <3>2. ~(Empty(g) /\ pipe[g].writeopen)
      BY <1>0
    <3>3. proc[q].at = "sleepread" => g \in cut' /\ pipe'[g].writeopen
      BY <1>1, <1>7, <2>4, <3>1, <3>2 DEF SleepOK
    <3> QED BY <2>4, <3>1, <3>3 DEF SleepOK
  <2> QED BY <1>5, <2>1, <2>2, <2>3, <2>4
<1> QED BY <1>8, <1>9, <1>10 DEF IInv, SleepInv

LEMMA ReadStep ==
  ASSUME IInv, NEW p \in Proc, piperead(p)
  PROVE  IInv'
<1>0. PICK g : g = proc[p].pg
  OBVIOUS
<1>1. CASE ~(Empty(g) /\ pipe[g].writeopen)
  BY <1>0, <1>1, TakeStep
<1>2. CASE Empty(g) /\ pipe[g].writeopen
  <2>1. /\ UNCHANGED <<file, ofile, pipe, killed, cut>> /\ proc[p].at = "read"
        /\ \/ proc' = [proc EXCEPT ![p] = User]
           \/ proc' = [proc EXCEPT ![p] = [proc[p] EXCEPT !.at = "dozeread"]]
    BY <1>0, <1>2 DEF piperead, Goto
  <2>2. TableInv /\ TypeInv /\ proc \in [Proc -> Record] /\ "dozeread" \in Places
        /\ "dozeread" \in Reading /\ "read" \in Reading
    BY DEF IInv, TableInv, TypeInv, Places, Reading
  <2>3. PageInv'
    BY <2>1, PageKeep DEF PageInv, IInv
  <2>4. /\ proc' \in [Proc -> Record] /\ \A q \in Proc \ {p} : proc'[q] = proc[q]
        /\ Kept(p) \/ Leaves(p)
        /\ SleepOK(p)'
    <3>1. CASE proc' = [proc EXCEPT ![p] = User]
      <4>1. proc' \in [Proc -> Record] /\ proc'[p] = User /\ \A q \in Proc \ {p} : proc'[q] = proc[q]
        BY <2>2, <3>1, UserIs
      <4>2. SleepOK(p)'
        BY <4>1, UserIs, AwakeOK
      <4>3. Leaves(p)
        BY <2>1, <2>2, <4>1 DEF Leaves
      <4> QED BY <4>1, <4>2, <4>3
    <3>2. CASE proc' = [proc EXCEPT ![p] = [proc[p] EXCEPT !.at = "dozeread"]]
      <4>1. /\ proc' \in [Proc -> Record] /\ proc'[p] = [proc[p] EXCEPT !.at = "dozeread"]
            /\ \A q \in Proc \ {p} : proc'[q] = proc[q]
            /\ proc'[p].at = "dozeread" /\ proc'[p].pg = g
        BY <1>0, <2>2, <3>2 DEF Record
      <4>2. SleepOK(p)'
        BY <1>2, <2>1, <4>1 DEF SleepOK, Empty
      <4>3. Kept(p)
        BY <2>1, <2>2, <4>1 DEF Kept
      <4> QED BY <4>1, <4>2, <4>3
    <3> QED BY <2>1, <3>1, <3>2
  <2>5. TableInv'
    <3>1. TypeInv'
      BY <2>1, <2>2, <2>4 DEF TypeInv
    <3>2. \A q \in Proc : Kept(q) \/ Enters(q) \/ Leaves(q)
      BY <2>4 DEF Kept
    <3>3. \A h \in Pages, wr \in BOOLEAN : IsOpen(h, wr)' <=> IsOpen(h, wr)
      BY <2>1 DEF IsOpen
    <3> QED BY <2>1, <2>2, <3>1, <3>2, <3>3, QuietStep
  <2>6. ASSUME NEW q \in Proc \ {p} PROVE SleepOK(q)'
    BY <2>1, <2>4, SleepKeep DEF IInv, SleepInv
  <2> QED BY <2>3, <2>4, <2>5, <2>6 DEF IInv, SleepInv
<1> QED BY <1>1, <1>2

\* The writer puts k bytes in.
LEMMA WriteStep ==
  ASSUME IInv, NEW p \in Proc, pipewrite(p)
  PROVE  IInv'
<1>0. PICK g : g = proc[p].pg
  OBVIOUS
<1>01. PICK n : n = proc[p].n
  OBVIOUS
<1>02. PICK k : k = Fits(g, n)
  OBVIOUS
<1> DEFINE stop == ~pipe[g].readopen \/ killed[p]
           left == [[proc[p] EXCEPT !.n = @ - k] EXCEPT !.at = "dozewrite"]
<1>1. /\ pipe' = [pipe EXCEPT ![g] = Put(g, Buffer(g, k))]
      /\ \/ k = n /\ proc' = wakeupReaders([proc EXCEPT ![p] = User], g)
         \/ k < n /\ stop /\ proc' = [proc EXCEPT ![p] = User]
         \/ k < n /\ ~stop /\ proc' = wakeupReaders([proc EXCEPT ![p] = left], g)
      /\ cut' = IF k < n /\ killed[p] THEN cut \cup {g} ELSE cut \ {g}
      /\ UNCHANGED <<file, ofile, killed>> /\ ~Locked(g) /\ proc[p].at = "write"
  BY <1>0, <1>01, <1>02 DEF pipewrite, Goto
<1>2. proc[p].at \in Writing /\ TableInv /\ TypeInv /\ proc \in [Proc -> Record]
  BY <1>1 DEF Writing, IInv, TableInv, TypeInv
<1>3. /\ g \in Pages /\ pipe \in [Pages -> Ring] /\ PageOK(g) /\ n \in Nat
      /\ pipe[g] \in Ring /\ pipe[g].writeopen
  BY <1>0, <1>01, <1>2, AtPage, RingType, OpenAt DEF IInv, PageInv, Record
<1>4. /\ Held(g) \in Nat /\ Held(g) <= PIPESIZE /\ PIPESIZE \in Nat
      /\ k \in 0..PIPESIZE /\ k <= PIPESIZE - Held(g) /\ k \in 0..n
      /\ k < n => k = PIPESIZE - Held(g)
  <2>1. Held(g) \in Nat /\ Held(g) <= PIPESIZE /\ PIPESIZE \in Nat
    BY <1>3, HeldIs, Sizes DEF PageOK, Ring
  <2>2. k = IF n < PIPESIZE - Held(g) THEN n ELSE PIPESIZE - Held(g)
    BY <1>02 DEF Fits
  <2> DEFINE h == Held(g)
  <2>3. h \in Nat /\ h <= PIPESIZE /\ k = IF n < PIPESIZE - h THEN n ELSE PIPESIZE - h
    BY <2>1, <2>2
  <2> HIDE DEF h
  <2>4. k \in 0..PIPESIZE /\ k <= PIPESIZE - h /\ k \in 0..n /\ (k < n => k = PIPESIZE - h)
    BY <1>3, <2>1, <2>3
  <2> QED BY <2>1, <2>4 DEF h
<1>5. PICK s : s = Buffer(g, k)
  OBVIOUS
<1>6. /\ s \in Seq(Byte) /\ Len(s) = k /\ Len(s) <= PIPESIZE - Held(g)
      /\ pipe' = [pipe EXCEPT ![g] = Put(g, s)] /\ Held(g) <= PIPESIZE
  BY <1>1, <1>3, <1>4, <1>5, BufferIs DEF Ring
<1>7. pipe' \in [Pages -> Ring] /\ Held(g)' = Held(g) + k /\ Held(g)' <= PIPESIZE
  BY <1>3, <1>6, WriteHeld
<1>8. /\ \A h \in Pages \ {g} : pipe'[h] = pipe[h]
      /\ pipe'[g].used = pipe[g].used /\ pipe'[g].readopen = pipe[g].readopen
      /\ pipe'[g].writeopen = pipe[g].writeopen
  <2>1. Put(g, s) = [pipe[g] EXCEPT !.nwrite = Advance(@, Len(s)), !.data = Put(g, s).data]
    BY <1>3, <1>6, PutIs
  <2>2. pipe'[g] = Put(g, s) /\ \A h \in Pages \ {g} : pipe'[h] = pipe[h]
    BY <1>3, <1>6
  <2> QED BY <1>3, <2>1, <2>2 DEF Ring
<1>9. /\ proc' \in [Proc -> Record]
      /\ \A q \in Proc \ {p} : Kept(q)
      /\ \/ proc'[p] = User
         \/ proc'[p] = left /\ k < n /\ ~stop
      /\ \A q \in Proc \ {p} :
           \/ proc'[q] = proc[q] /\ ~(proc[q].at = "sleepread" /\ proc[q].pg = g)
           \/ proc'[q] = proc[q] /\ k < n /\ stop
           \/ proc[q].pg = g /\ proc'[q].pg = g /\ proc'[q].at \in {"read", "write"}
  <2>1. ASSUME NEW r \in Record, r.at \notin {"sleepread", "sleepwrite"},
               proc' = wakeupReaders([proc EXCEPT ![p] = r], g)
        PROVE  /\ proc' \in [Proc -> Record] /\ proc'[p] = r
               /\ \A q \in Proc \ {p} : Kept(q)
               /\ \A q \in Proc \ {p} :
                    \/ proc'[q] = proc[q] /\ ~(proc[q].at = "sleepread" /\ proc[q].pg = g)
                    \/ proc[q].pg = g /\ proc'[q].pg = g /\ proc'[q].at \in {"read", "write"}
    <3> DEFINE wr == TRUE
               ps == [proc EXCEPT ![p] = r]
    <3>1. /\ wr \in BOOLEAN /\ proc' = CloseWakes(ps, g, wr) /\ ps \in [Proc -> Record]
          /\ ps[p] = r /\ \A q \in Proc \ {p} : ps[q] = proc[q]
      BY <1>2, <2>1 DEF CloseWakes
    <3> HIDE DEF wr, ps
    <3>2. ps[p].at \notin {"sleepread", "sleepwrite"}
      BY <2>1, <3>1
    <3>3. /\ proc' \in [Proc -> Record] /\ proc'[p] = ps[p]
          /\ \A q \in Proc \ {p} : Kept(q)
          /\ \A q \in Proc \ {p} :
               \/ proc'[q] = proc[q] /\ ~(proc[q].at = (IF wr THEN "sleepread" ELSE "sleepwrite")
                                          /\ proc[q].pg = g)
               \/ proc[q].pg = g /\ proc'[q].pg = g /\ proc'[q].at \in {"read", "write"}
      BY <1>2, <3>1, <3>2, WakeKeeps
    <3> QED BY <3>1, <3>3 DEF wr
  <2>2. CASE k = n /\ proc' = wakeupReaders([proc EXCEPT ![p] = User], g)
    <3>1. User \in Record /\ User.at \notin {"sleepread", "sleepwrite"}
      BY UserIs
    <3> QED BY <2>1, <2>2, <3>1
  <2>3. CASE k < n /\ stop /\ proc' = [proc EXCEPT ![p] = User]
    <3>1. proc' \in [Proc -> Record] /\ proc'[p] = User /\ \A q \in Proc \ {p} : proc'[q] = proc[q]
      BY <1>2, <2>3, UserIs
    <3> QED BY <2>3, <3>1 DEF Kept
  <2>4. CASE k < n /\ ~stop /\ proc' = wakeupReaders([proc EXCEPT ![p] = left], g)
    <3>1. n - k \in Nat /\ "dozewrite" \in Places
      BY <1>3, <1>4, <2>4 DEF Places
    <3>2. left \in Record /\ left.at = "dozewrite"
      BY <1>01, <1>2, <3>1 DEF Record
    <3>3. left.at \notin {"sleepread", "sleepwrite"}
      BY <3>2
    <3> HIDE DEF left
    <3> QED BY <2>1, <2>4, <3>2, <3>3
  <2> QED BY <1>1, <2>2, <2>3, <2>4
<1>10. Kept(p) \/ Leaves(p)
  <2>1. CASE proc'[p] = User
    BY <1>2, <2>1 DEF Leaves
  <2>2. CASE proc'[p] = left /\ k < n
    <3>1. n - k \in Nat /\ "dozewrite" \in Writing
      BY <1>3, <1>4, <2>2 DEF Writing
    <3>2. proc'[p] = [[proc[p] EXCEPT !.n = n - k] EXCEPT !.at = "dozewrite"]
      BY <1>01, <2>2
    <3> QED BY <1>2, <3>1, <3>2 DEF Kept
  <2> QED BY <1>9, <2>1, <2>2
<1>11. proc'[p] = left => proc'[p].at = "dozewrite" /\ proc'[p].pg = g
  BY <1>0, <1>2 DEF Record
<1>12. stop <=> ~pipe[g].readopen \/ killed[p]
  OBVIOUS
<1> HIDE DEF stop, left
<1>13. TableInv'
  <2>1. cut' \subseteq Pages
    BY <1>1, <1>2, <1>3 DEF TypeInv
  <2>2. TypeInv'
    BY <1>1, <1>2, <1>7, <1>9, <2>1 DEF TypeInv, Ring
  <2>3. \A q \in Proc : Kept(q) \/ Enters(q) \/ Leaves(q)
    BY <1>9, <1>10
  <2>4. \A h \in Pages, wr \in BOOLEAN : IsOpen(h, wr)' <=> IsOpen(h, wr)
    BY <1>8 DEF IsOpen
  <2> QED BY <1>1, <1>2, <2>2, <2>3, <2>4, QuietStep
<1>14. PageInv'
  <2>1. ASSUME NEW h \in Pages, h # g PROVE PageOK(h)'
    BY <1>8, <2>1, PageKeep DEF IInv, PageInv
  <2>2. PageOK(g)'
    BY <1>3, <1>7, <1>8 DEF PageOK
  <2> QED BY <2>1, <2>2 DEF PageInv
\* A full pipe stays full, and one that a writer leaves is full.
<1>15. /\ Full(g) => Full(g)'
       /\ k < n => Full(g)'
  <2>1. Full(g)' <=> Held(g)' = PIPESIZE
    BY <1>3, <1>7, HeldTellsNext DEF Ring
  <2>2. Full(g) <=> Held(g) = PIPESIZE
    BY <1>3, HeldTells DEF Ring
  <2> DEFINE h == Held(g)
             i == Held(g)'
  <2>3. h \in Nat /\ i = h + k /\ k <= PIPESIZE - h /\ (k < n => k = PIPESIZE - h) /\ k \in Nat
    BY <1>4, <1>7
  <2>4. (Full(g)' <=> i = PIPESIZE) /\ (Full(g) <=> h = PIPESIZE)
    BY <2>1, <2>2
  <2> HIDE DEF h, i
  <2> QED BY <1>4, <2>3, <2>4
<1>16. ASSUME NEW q \in Proc PROVE SleepOK(q)'
  <2>0. SleepOK(q) /\ (proc[q].at \in Reading \cup Writing => proc[q].pg \in Pages)
    BY <1>2, AtPage DEF IInv, SleepInv
  <2>1. CASE q = p
    <3>1. CASE proc'[p] = User
      BY <2>1, <3>1, UserIs, AwakeOK
    <3>2. CASE proc'[p] = left /\ k < n /\ ~stop
      BY <1>8, <1>11, <1>12, <1>15, <2>1, <3>2 DEF SleepOK
    <3> QED BY <1>9, <3>1, <3>2
  <2>2. CASE q # p /\ proc'[q].at \in {"read", "write"}
    BY <2>2, AwakeOK
  <2>3. CASE q # p /\ proc'[q] = proc[q] /\ proc[q].pg # g
    <3>1. CASE proc[q].pg \in Pages
      <4>1. pipe'[proc[q].pg] = pipe[proc[q].pg] /\ (proc[q].pg \in cut' <=> proc[q].pg \in cut)
        BY <1>1, <1>8, <2>3, <3>1
      <4> QED BY <2>0, <2>3, <4>1, SleepKeep
    <3>2. CASE proc[q].pg \notin Pages
      <4>1. proc[q].at \notin Reading \cup Writing
        BY <2>0, <3>2
      <4> QED BY <2>3, <4>1, AwakeOK DEF Reading, Writing
    <3> QED BY <3>1, <3>2
  <2>4. CASE /\ q # p /\ proc'[q] = proc[q] /\ proc[q].pg = g
             /\ proc[q].at # "sleepread" \/ (k < n /\ stop)
    <3>1. proc[q].at \notin {"dozeread", "dozewrite"}
      BY <1>1, <2>4, NotDozing
    <3>2. proc[q].at = "sleepwrite" => Full(g)' /\ pipe'[g].readopen
      BY <1>8, <1>15, <2>0, <2>4 DEF SleepOK
    <3>3. proc[q].at = "sleepread" => g \in cut' /\ pipe'[g].writeopen
      <4>1. SUFFICES ASSUME proc[q].at = "sleepread" PROVE g \in cut' /\ pipe'[g].writeopen
        OBVIOUS
      <4>2. pipe[g].readopen
        BY <1>2, <2>4, <4>1, OpenAt DEF Reading
      <4>3. killed[p] /\ k < n
        BY <1>12, <2>4, <4>1, <4>2
      <4> QED BY <1>1, <1>3, <1>8, <4>3
    <3> QED BY <2>4, <3>1, <3>2, <3>3 DEF SleepOK
  <2> QED BY <1>9, <2>1, <2>2, <2>3, <2>4
<1> QED BY <1>13, <1>14, <1>16 DEF IInv, SleepInv

-----------------------------------------------------------------------------
(* Closing.                                                                *)

\* A process that goes on with the files fs is where it should be.
LEMMA CloseAllOK ==
  ASSUME NEW p \in Proc, NEW r \in Record, NEW fs \in Seq(File), Len(fs) <= NOFILE + 2,
         proc'[p] = CloseAll(r, fs),
         r.then = "exit" => \A d \in FD : ofile'[p][d] = 0
  PROVE  /\ proc'[p] \in Record /\ proc'[p].files = fs
         /\ PlaceOK(p)' /\ UserOK(p)' /\ FilesFresh(p)' /\ SleepOK(p)'
         /\ \A g, wr : ~Closes(p, g, wr)'
<1>1. /\ proc'[p] \in Record /\ proc'[p].files = fs
      /\ fs # <<>> => proc'[p].at = "close" /\ proc'[p].then = r.then
      /\ fs = <<>> => proc'[p] = IF r.then = "exit" THEN Unused ELSE User
  BY CloseAllIs
<1>2. /\ Unused.at = "unused" /\ User.at = "user" /\ Unused.then = "user" /\ User.then = "user"
      /\ r.then \in {"user", "exit"} /\ NOFILE \in Nat /\ Len(fs) \in Nat
      /\ Unused.files = <<>> /\ User.files = <<>>
  BY PipeAssumption DEF Unused, User, Record
<1>3. CASE fs # <<>>
  <2>1. PlaceOK(p)'
    BY <1>1, <1>2, <1>3 DEF PlaceOK, Reading, Writing
  <2> QED BY <1>1, <1>3, <2>1 DEF UserOK, FilesFresh, SleepOK, Closes, Reading, Writing
<1>4. CASE fs = <<>> /\ r.then = "exit"
  <2>1. PlaceOK(p)'
    BY <1>1, <1>2, <1>4 DEF PlaceOK, Reading, Writing
  <2> QED BY <1>1, <1>2, <1>4, <2>1 DEF UserOK, FilesFresh, SleepOK, Closes, Reading, Writing
<1>5. CASE fs = <<>> /\ r.then # "exit"
  <2>1. PlaceOK(p)'
    BY <1>1, <1>2, <1>5 DEF PlaceOK, Reading, Writing
  <2> QED BY <1>1, <1>2, <1>5, <2>1 DEF UserOK, FilesFresh, SleepOK, Closes, Reading, Writing
<1> QED BY <1>3, <1>4, <1>5

LEMMA NoPipeIs ==
  NoPipe \in Ring /\ ~NoPipe.used /\ ~NoPipe.readopen /\ ~NoPipe.writeopen
  /\ NoPipe.nread = 0 /\ NoPipe.nwrite = 0
<1>1. 0 \in 0..WRAP - 1
  BY Sizes
<1> QED BY <1>1 DEF NoPipe, Ring

\* Nobody is at an end of a pipe that is being closed.
LEMMA NobodyThere ==
  ASSUME TableInv, NEW p \in Proc, NEW q \in Proc, NEW g \in Pages, NEW wr \in BOOLEAN,
         Closes(p, g, wr), proc[q].pg = g
  PROVE  ~Holds(q, wr)
<1>1. ASSUME Holds(q, wr) PROVE FALSE
  <2>1. PICK d \in FD : ofile[q][d] # 0 /\ IsEnd(ofile[q][d], g, wr)
    BY <1>1 DEF Holds
  <2>2. ofile[q][d] \in File
    BY <2>1 DEF TableInv, TypeInv
  <2> QED BY <2>1, <2>2 DEF TableInv, EndInv
<1> QED BY <1>1

\* The pipe behind an end that is closed
LEMMA EndGoes ==
  ASSUME IInv, NEW p \in Proc, pipeclose(p), NEW g, NEW wr, g = proc[p].pg, wr = proc[p].wr
  PROVE  /\ g \in Pages /\ wr \in BOOLEAN /\ Closes(p, g, wr) /\ IsOpen(g, wr)
         /\ pipe' \in [Pages -> Ring] /\ \A h \in Pages \ {g} : pipe'[h] = pipe[h]
         /\ ~IsOpen(g, wr)'
         /\ \A w \in BOOLEAN : w # wr => (IsOpen(g, w)' <=> IsOpen(g, w))
         /\ PageOK(g)'
         /\ IsOpen(g, ~wr) => pipe'[g].nread = pipe[g].nread /\ pipe'[g].nwrite = pipe[g].nwrite
                              /\ pipe'[g].data = pipe[g].data
         /\ ~IsOpen(g, ~wr) => pipe'[g] = NoPipe
<1> DEFINE d == IF wr THEN [pipe[g] EXCEPT !.writeopen = FALSE] ELSE [pipe[g] EXCEPT !.readopen = FALSE]
           gone == ~d.readopen /\ ~d.writeopen
<1>1. /\ proc[p].at = "pipeclose" /\ TableInv /\ TypeInv
      /\ pipe' = [pipe EXCEPT ![g] = IF gone THEN NoPipe ELSE d]
  BY DEF pipeclose, IInv, TableInv
<1>2. g \in Pages /\ wr \in BOOLEAN /\ pipe \in [Pages -> Ring] /\ Closes(p, g, wr) /\ PageOK(g)
      /\ pipe[g] \in Ring
  BY <1>1, AtPage, RingType DEF Record, Closes, IInv, PageInv
<1>3. IsOpen(g, wr)
  BY <1>1, <1>2 DEF TableInv, EndInv
<1>4. /\ d \in Ring /\ d.nread = pipe[g].nread /\ d.nwrite = pipe[g].nwrite /\ d.data = pipe[g].data
      /\ d.used = pipe[g].used
      /\ wr => ~d.writeopen /\ d.readopen = pipe[g].readopen
      /\ ~wr => ~d.readopen /\ d.writeopen = pipe[g].writeopen
  BY <1>2 DEF Ring
<1>5. pipe'[g] = (IF gone THEN NoPipe ELSE d) /\ \A h \in Pages \ {g} : pipe'[h] = pipe[h]
  BY <1>1, <1>2
<1>6. gone <=> ~IsOpen(g, ~wr)
  BY <1>2, <1>4 DEF IsOpen
<1> HIDE DEF d
<1>7. pipe' \in [Pages -> Ring]
  BY <1>1, <1>2, <1>4, NoPipeIs
<1>8. /\ ~IsOpen(g, wr)'
      /\ \A w \in BOOLEAN : w # wr => (IsOpen(g, w)' <=> IsOpen(g, w))
  <2>1. pipe'[g].readopen = d.readopen /\ pipe'[g].writeopen = d.writeopen
    <3>1. d.readopen \in BOOLEAN /\ d.writeopen \in BOOLEAN
      BY <1>4 DEF Ring
    <3>2. NoPipe.readopen = FALSE /\ NoPipe.writeopen = FALSE
      BY DEF NoPipe
    <3>3. CASE gone
      <4>1. d.readopen = FALSE /\ d.writeopen = FALSE
        BY <3>1, <3>3
      <4> QED BY <1>5, <3>2, <3>3, <4>1
    <3>4. CASE ~gone
      BY <1>5, <3>4
    <3> QED BY <3>3, <3>4
  <2>2. CASE wr
    BY <1>2, <1>4, <2>1, <2>2 DEF IsOpen
  <2>3. CASE ~wr
    BY <1>2, <1>4, <2>1, <2>3 DEF IsOpen
  <2> QED BY <2>2, <2>3
<1>9. PageOK(g)'
  <2>1. CASE gone
    <3>1. pipe'[g] = NoPipe
      BY <1>5, <2>1
    <3>2. Empty(g)' /\ pipe'[g].nread \in 0..WRAP - 1 /\ pipe'[g].nwrite \in 0..WRAP - 1
      BY <3>1, NoPipeIs DEF Empty, Ring
    <3>3. Held(g)' = 0
      BY <3>2, HeldTellsNext
    <3> QED BY <3>1, <3>3, NoPipeIs, Sizes DEF PageOK
  <2>2. CASE ~gone
    <3>1. pipe'[g] = d
      BY <1>5, <2>2
    <3>2. pipe[g].used
      BY <1>2, <1>3 DEF PageOK, IsOpen
    <3>3. Held(g)' = Held(g)
      BY <1>4, <3>1 DEF Held
    <3> QED BY <1>2, <1>4, <2>2, <3>1, <3>2, <3>3 DEF PageOK
  <2> QED BY <2>1, <2>2
<1> QED BY <1>2, <1>3, <1>4, <1>5, <1>6, <1>7, <1>8, <1>9

LEMMA PipecloseStep ==
  ASSUME IInv, NEW p \in Proc, pipeclose(p)
  PROVE  IInv'
<1>0. PICK g : g = proc[p].pg
  OBVIOUS
<1>01. PICK wr : wr = proc[p].wr
  OBVIOUS
<1>1. /\ g \in Pages /\ wr \in BOOLEAN /\ Closes(p, g, wr) /\ IsOpen(g, wr)
      /\ pipe' \in [Pages -> Ring] /\ \A h \in Pages \ {g} : pipe'[h] = pipe[h]
      /\ ~IsOpen(g, wr)'
      /\ \A w \in BOOLEAN : w # wr => (IsOpen(g, w)' <=> IsOpen(g, w))
      /\ PageOK(g)'
  BY <1>0, <1>01, EndGoes
<1>2. /\ proc[p].at = "pipeclose" /\ ~Locked(g) /\ UNCHANGED <<file, ofile, killed>>
      /\ cut' \subseteq cut /\ \A h \in Pages \ {g} : h \in cut' <=> h \in cut
      /\ proc' = CloseWakes([proc EXCEPT ![p] = CloseAll(proc[p], proc[p].files)], g, wr)
  BY <1>0, <1>01 DEF pipeclose
<1>3. TableInv /\ TypeInv /\ proc \in [Proc -> Record] /\ proc[p] \in Record /\ PlaceOK(p)
  BY DEF IInv, TableInv, TypeInv, PlaceInv
<1>4. PICK fs : fs = proc[p].files
  OBVIOUS
<1>5. fs \in Seq(File) /\ Len(fs) <= NOFILE + 2
  BY <1>3, <1>4 DEF Record, PlaceOK
<1>6. PICK c : c = CloseAll(proc[p], fs)
  OBVIOUS
<1>7. c \in Record /\ c.at \notin {"sleepread", "sleepwrite"}
  BY <1>3, <1>5, <1>6, CloseAllIs, UserIs
<1>8. /\ proc' \in [Proc -> Record] /\ proc'[p] = c
      /\ \A q \in Proc \ {p} : Kept(q)
      /\ \A q \in Proc \ {p} :
           \/ proc'[q] = proc[q] /\ ~(proc[q].at = (IF wr THEN "sleepread" ELSE "sleepwrite")
                                      /\ proc[q].pg = g)
           \/ proc[q].pg = g /\ proc'[q].pg = g /\ proc'[q].at \in {"read", "write"}
  <2> DEFINE ps == [proc EXCEPT ![p] = c]
  <2>1. /\ proc' = CloseWakes(ps, g, wr) /\ ps \in [Proc -> Record]
        /\ ps[p] = c /\ \A q \in Proc \ {p} : ps[q] = proc[q]
    BY <1>2, <1>3, <1>4, <1>6, <1>7
  <2>2. ps[p].at \notin {"sleepread", "sleepwrite"}
    BY <1>7, <2>1
  <2> HIDE DEF ps
  <2>3. /\ proc' \in [Proc -> Record] /\ proc'[p] = ps[p]
        /\ \A q \in Proc \ {p} : Kept(q)
        /\ \A q \in Proc \ {p} :
             \/ proc'[q] = proc[q] /\ ~(proc[q].at = (IF wr THEN "sleepread" ELSE "sleepwrite")
                                        /\ proc[q].pg = g)
             \/ proc[q].pg = g /\ proc'[q].pg = g /\ proc'[q].at \in {"read", "write"}
    BY <1>1, <1>3, <2>1, <2>2, WakeKeeps
  <2> QED BY <2>1, <2>3
<1>9. /\ proc'[p].files = fs
      /\ PlaceOK(p)' /\ UserOK(p)' /\ FilesFresh(p)' /\ SleepOK(p)'
      /\ \A h, w : ~Closes(p, h, w)'
  <2>1. proc[p].then = "exit" => \A d \in FD : ofile'[p][d] = 0
    BY <1>2, <1>3 DEF PlaceOK
  <2> QED BY <1>3, <1>5, <1>6, <1>8, <2>1, CloseAllOK
<1>10. ASSUME NEW q \in Proc \ {p}
       PROVE  /\ PlaceOK(q)' /\ UserOK(q)' /\ FilesFresh(q)' /\ proc'[q].files = proc[q].files
              /\ \A h, w : Closes(q, h, w)' <=> Closes(q, h, w)
  <2>1. Kept(q) /\ PlaceOK(q) /\ UserOK(q) /\ FilesFresh(q) /\ ofile'[q] = ofile[q]
    BY <1>2, <1>3, <1>8 DEF TableInv, PlaceInv, UserInv, FileInv
  <2>2. PlaceOK(q)' /\ \A h, w : Closes(q, h, w)' <=> Closes(q, h, w)
    BY <1>3, <2>1, KeptPlace
  <2>3. UserOK(q)'
    <3>1. proc'[q].pg = proc[q].pg
      BY <1>3, <2>1, KeptIs
    <3>2. \A d \in FD, w \in BOOLEAN :
            IsEnd(ofile[q][d], proc[q].pg, w) => IsEnd(ofile[q][d], proc[q].pg, w)'
      BY <1>2, <2>1, <3>1 DEF IsEnd
    <3> QED BY <1>3, <2>1, <3>2, KeptUser
  <2>4. FilesFresh(q)' /\ proc'[q].files = proc[q].files
    <3>1. "pipealloc" \in Places /\ "pipealloc" \notin Reading \cup Writing
      BY DEF Places, Reading, Writing
    <3>2. proc'[q].files = proc[q].files /\ (proc'[q].at = "pipealloc" <=> proc[q].at = "pipealloc")
      BY <1>3, <2>1, <3>1, KeptIs
    <3> QED BY <1>2, <2>1, <3>2 DEF FilesFresh
  <2> QED BY <2>2, <2>3, <2>4
<1>11. RefCounts'
  <2>1. ASSUME NEW f \in File PROVE Counted(f)'
    <3>1. Shown(f)' = Shown(f)
      BY <1>2, ShownSame
    <3>2. Pending(f)' = Pending(f)
      BY <1>4, <1>9, <1>10, PendingSame DEF Lists
    <3> QED BY <1>2, <1>3, <3>1, <3>2, CountSame DEF TableInv, RefCounts
  <2> QED BY <2>1 DEF RefCounts
<1>12. EndInv'
  <2> SUFFICES ASSUME NEW h \in Pages, NEW w \in BOOLEAN
               PROVE  /\ \A f, e \in File : IsEnd(f, h, w)' /\ IsEnd(e, h, w)' => f = e
                      /\ \A q \in Proc, f \in File : ~(Closes(q, h, w)' /\ IsEnd(f, h, w)')
                      /\ \A q, s \in Proc : Closes(q, h, w)' /\ Closes(s, h, w)' => q = s
                      /\ IsOpen(h, w)' <=> \/ \E f \in File : IsEnd(f, h, w)'
                                           \/ \E q \in Proc : Closes(q, h, w)'
    BY DEF EndInv
  <2>1. /\ \A f, e \in File : IsEnd(f, h, w) /\ IsEnd(e, h, w) => f = e
        /\ \A q \in Proc, f \in File : ~(Closes(q, h, w) /\ IsEnd(f, h, w))
        /\ \A q, s \in Proc : Closes(q, h, w) /\ Closes(s, h, w) => q = s
        /\ IsOpen(h, w) <=> \/ \E f \in File : IsEnd(f, h, w)
                            \/ \E q \in Proc : Closes(q, h, w)
    BY <1>3 DEF TableInv, EndInv
  <2>2. \A f \in File : IsEnd(f, h, w)' <=> IsEnd(f, h, w)
    BY <1>2 DEF IsEnd
  <2>3. \A q \in Proc \ {p} : Closes(q, h, w)' <=> Closes(q, h, w)
    BY <1>10
  <2>4. ~Closes(p, h, w)'
    BY <1>9
  <2>5. CASE h = g /\ w = wr
    BY <1>1, <2>1, <2>2, <2>3, <2>4, <2>5
  <2>6. CASE ~(h = g /\ w = wr)
    <3>1. ~Closes(p, h, w)
      BY <1>1, <2>6 DEF Closes
    <3>2. IsOpen(h, w)' <=> IsOpen(h, w)
      <4>1. CASE h = g
        BY <1>1, <2>6, <4>1
      <4>2. CASE h # g
        BY <1>1, <4>2 DEF IsOpen
      <4> QED BY <4>1, <4>2
    <3> QED BY <2>1, <2>2, <2>3, <2>4, <3>1, <3>2
  <2> QED BY <2>5, <2>6
<1>13. TableInv'
  <2>1. cut' \subseteq Pages
    BY <1>2, <1>3 DEF TypeInv
  <2>2. TypeInv'
    BY <1>1, <1>2, <1>3, <1>8, <2>1 DEF TypeInv, Ring
  <2>3. PlaceInv' /\ UserInv'
    BY <1>9, <1>10 DEF PlaceInv, UserInv
  <2>4. FileInv'
    <3>1. \A f \in File : FileOK(f)'
      BY <1>2, <1>3 DEF TableInv, FileInv, FileOK
    <3> QED BY <1>9, <1>10, <3>1 DEF FileInv
  <2> QED BY <1>11, <1>12, <2>2, <2>3, <2>4 DEF TableInv
<1>14. PageInv'
  <2>1. ASSUME NEW h \in Pages, h # g PROVE PageOK(h)'
    BY <1>1, <2>1, PageKeep DEF IInv, PageInv
  <2> QED BY <1>1, <2>1 DEF PageInv
<1>15. ASSUME NEW q \in Proc PROVE SleepOK(q)'
  <2>0. SleepOK(q) /\ UserOK(q) /\ (proc[q].at \in Reading \cup Writing => proc[q].pg \in Pages)
    BY <1>3, AtPage DEF IInv, SleepInv, TableInv, UserInv
  <2>1. CASE q = p
    BY <1>9, <2>1
  <2>2. CASE q # p /\ proc'[q].at \in {"read", "write"}
    BY <2>2, AwakeOK
  <2>3. CASE q # p /\ proc'[q] = proc[q] /\ proc[q].pg # g
    <3>1. CASE proc[q].pg \in Pages
      <4>1. pipe'[proc[q].pg] = pipe[proc[q].pg] /\ (proc[q].pg \in cut' <=> proc[q].pg \in cut)
        BY <1>1, <1>2, <2>3, <3>1
      <4> QED BY <2>0, <2>3, <4>1, SleepKeep
    <3>2. CASE proc[q].pg \notin Pages
      <4>1. proc[q].at \notin Reading \cup Writing
        BY <2>0, <3>2
      <4> QED BY <2>3, <4>1, AwakeOK DEF Reading, Writing
    <3> QED BY <3>1, <3>2
  <2>4. CASE /\ q # p /\ proc'[q] = proc[q] /\ proc[q].pg = g
             /\ proc[q].at # (IF wr THEN "sleepread" ELSE "sleepwrite")
    <3>1. proc[q].at \notin {"dozeread", "dozewrite"}
      BY <1>2, <2>4, NotDozing
    <3>2. ~Holds(q, wr)
      BY <1>1, <1>3, <2>4, NobodyThere
    <3>3. CASE wr
      <4>1. wr = TRUE
        BY <1>1, <3>3
      <4>2. proc[q].at \notin {"sleepread", "sleepwrite"}
        BY <2>0, <2>4, <3>2, <4>1 DEF UserOK, Writing
      <4> QED BY <2>4, <3>1, <4>2, AwakeOK
    <3>4. CASE ~wr
      <4>1. wr = FALSE
        BY <1>1, <3>4
      <4>2. proc[q].at \notin {"sleepread", "sleepwrite"}
        BY <2>0, <2>4, <3>2, <4>1 DEF UserOK, Reading
      <4> QED BY <2>4, <3>1, <4>2, AwakeOK
    <3> QED BY <3>3, <3>4
  <2> QED BY <1>8, <2>1, <2>2, <2>3, <2>4
<1> QED BY <1>13, <1>14, <1>15 DEF IInv, SleepInv

\* A process that does not move, whose files stay what they are to it
LEMMA OthersOK ==
  ASSUME TableInv, NEW q \in Proc, proc'[q] = proc[q], ofile'[q] = ofile[q],
         \A d \in FD : ofile[q][d] # 0 => \A g \in Pages, wr \in BOOLEAN :
            IsEnd(ofile[q][d], g, wr) => /\ file'[ofile[q][d]].pipe = g
                                         /\ file'[ofile[q][d]].writable = wr,
         \A i \in DOMAIN proc[q].files :
            file[proc[q].files[i]] = Fresh => file'[proc[q].files[i]] = Fresh
  PROVE  /\ PlaceOK(q)' /\ UserOK(q)' /\ FilesFresh(q)' /\ proc'[q] \in Record
         /\ \A g, wr : Closes(q, g, wr)' <=> Closes(q, g, wr)
         /\ \A i, f : Lists(q, i, f)' <=> Lists(q, i, f)
<1>1. PlaceOK(q) /\ UserOK(q) /\ FilesFresh(q) /\ proc[q] \in Record
  BY DEF TableInv, PlaceInv, UserInv, FileInv, TypeInv
<1>2. PlaceOK(q)' /\ FilesFresh(q)'
  BY <1>1 DEF PlaceOK, FilesFresh
<1>3. UserOK(q)'
  <2>1. \A wr \in BOOLEAN : Holds(q, wr) /\ proc[q].pg \in Pages => Holds(q, wr)'
    <3>1. ASSUME NEW wr \in BOOLEAN, Holds(q, wr), proc[q].pg \in Pages PROVE Holds(q, wr)'
      <4>1. PICK d \in FD : ofile[q][d] # 0 /\ IsEnd(ofile[q][d], proc[q].pg, wr)
        BY <3>1 DEF Holds
      <4>2. file'[ofile[q][d]].pipe = proc[q].pg /\ file'[ofile[q][d]].writable = wr
        BY <3>1, <4>1
      <4>3. ofile'[q][d] # 0 /\ IsEnd(ofile[q][d], proc[q].pg, wr)'
        BY <4>1, <4>2 DEF IsEnd
      <4> QED BY <4>3 DEF Holds
    <3> QED BY <3>1
  <2>2. proc[q].at \in Reading \cup Writing => proc[q].pg \in Pages
    BY AtPage
  <2> QED BY <1>1, <2>1, <2>2 DEF UserOK
<1> QED BY <1>1, <1>2, <1>3 DEF Closes, Lists

LEMMA FilecloseStep ==
  ASSUME IInv, NEW p \in Proc, fileclose(p)
  PROVE  IInv'
<1>0. PICK fs : fs = proc[p].files
  OBVIOUS
<1>01. PICK f : f = Head(fs)
  OBVIOUS
<1> DEFINE last == file[f].ref = 1
<1>1. /\ proc[p].at = "close" /\ UNCHANGED <<ofile, pipe, killed, cut>>
      /\ file' = [file EXCEPT ![f] = IF last THEN NoFile ELSE [@ EXCEPT !.ref = file[f].ref - 1]]
      /\ IF last /\ file[f].pipe # None
         THEN proc' = [proc EXCEPT ![p] = [proc[p] EXCEPT !.at = "pipeclose", !.pg = file[f].pipe,
                                             !.wr = file[f].writable, !.files = Tail(fs)]]
         ELSE proc' = [proc EXCEPT ![p] = CloseAll(proc[p], Tail(fs))]
  BY <1>0, <1>01 DEF fileclose, Goto
<1>2. /\ TableInv /\ TypeInv /\ RefCounts /\ PlaceInv /\ EndInv /\ FileInv
      /\ proc \in [Proc -> Record] /\ proc[p] \in Record /\ PlaceOK(p)
      /\ file \in [File -> [ref : Nat, pipe : Pages \cup {None}, writable : BOOLEAN]]
  BY DEF IInv, TableInv, TypeInv, PlaceInv
<1>3. /\ fs \in Seq(File) /\ Len(fs) <= NOFILE + 2 /\ fs # <<>>
  BY <1>0, <1>1, <1>2 DEF Record, PlaceOK
<1>4. /\ Tail(fs) \in Seq(File) /\ Len(Tail(fs)) <= NOFILE + 2 /\ 1 \in DOMAIN fs /\ f = fs[1]
  BY <1>01, <1>3, PipeAssumption
<1>5. f \in File /\ file[f].ref \in Nat /\ file[f].ref > 0 /\ <<p, 1>> \in Pending(f)
  BY <1>0, <1>2, <1>4, OwnRef
<1>6. /\ file' \in [File -> [ref : Nat, pipe : Pages \cup {None}, writable : BOOLEAN]]
      /\ \A e \in File \ {f} : file'[e] = file[e]
      /\ file'[f].ref = file[f].ref - 1
      /\ last => file'[f] = NoFile
      /\ ~last => file'[f].pipe = file[f].pipe /\ file'[f].writable = file[f].writable
                  /\ file'[f].ref > 0
  <2>1. CASE last
    <3>1. NoFile \in [ref : Nat, pipe : Pages \cup {None}, writable : BOOLEAN] /\ NoFile.ref = 0
      BY DEF NoFile
    <3>2. file' = [file EXCEPT ![f] = NoFile]
      BY <1>1, <2>1
    <3> QED BY <1>2, <1>5, <2>1, <3>1, <3>2
  <2>2. CASE ~last
    <3>1. file[f].ref - 1 \in Nat /\ file[f].ref - 1 > 0
      BY <1>5, <2>2
    <3> DEFINE v == [file[f] EXCEPT !.ref = file[f].ref - 1]
    <3>2. file' = [file EXCEPT ![f] = v]
      <4>1. file' = [file EXCEPT ![f] = [@ EXCEPT !.ref = file[f].ref - 1]]
        BY <1>1, <2>2
      <4> QED BY <4>1
    <3>3. /\ v \in [ref : Nat, pipe : Pages \cup {None}, writable : BOOLEAN]
          /\ v.ref = file[f].ref - 1 /\ v.pipe = file[f].pipe /\ v.writable = file[f].writable
      BY <1>2, <1>5, <3>1
    <3> HIDE DEF v
    <3> QED BY <1>2, <1>5, <2>2, <3>1, <3>2, <3>3
  <2> QED BY <2>1, <2>2
\* Nobody else has a file that is closed for good.
<1>7. last => /\ \A q \in Proc, d \in FD : ofile[q][d] # f
              /\ \A q \in Proc \ {p} : \A i \in DOMAIN proc[q].files : proc[q].files[i] # f
  <2>1. SUFFICES ASSUME last
                 PROVE  /\ \A q \in Proc, d \in FD : ofile[q][d] # f
                        /\ \A q \in Proc \ {p} : \A i \in DOMAIN proc[q].files : proc[q].files[i] # f
    OBVIOUS
  <2>2. Shown(f) = {} /\ Pending(f) = {<<p, 1>>}
    BY <1>2, <1>5, <2>1, LastRef
  <2>3. \A q \in Proc, d \in FD : ofile[q][d] # f
    <3>1. ASSUME NEW q \in Proc, NEW d \in FD, ofile[q][d] = f PROVE FALSE
      <4>1. <<q, d>> \in Shown(f)
        BY <3>1 DEF Shown
      <4> QED BY <2>2, <4>1
    <3> QED BY <3>1
  <2>4. ASSUME NEW q \in Proc \ {p}, NEW i \in DOMAIN proc[q].files, proc[q].files[i] = f
        PROVE  FALSE
    <3>1. <<q, i>> \in Pending(f)
      BY <1>2, <2>4, OwnRef
    <3> QED BY <2>2, <3>1
  <2> QED BY <2>3, <2>4
<1>8. /\ proc' \in [Proc -> Record] /\ \A q \in Proc \ {p} : proc'[q] = proc[q]
      /\ proc'[p].files = Tail(fs)
      /\ PlaceOK(p)' /\ UserOK(p)' /\ FilesFresh(p)'
      /\ \A g, wr : Closes(p, g, wr)' <=> /\ last /\ file[f].pipe # None
                                          /\ g = file[f].pipe /\ wr = file[f].writable
      /\ proc'[p].at \notin {"dozeread", "dozewrite", "sleepread", "sleepwrite"}
  <2>0. proc[p].then = "exit" => \A d \in FD : ofile'[p][d] = 0
    BY <1>1, <1>2 DEF PlaceOK
  <2>1. CASE last /\ file[f].pipe # None
    <3> DEFINE c == [proc[p] EXCEPT !.at = "pipeclose", !.pg = file[f].pipe,
                                    !.wr = file[f].writable, !.files = Tail(fs)]
    <3>1. file[f].pipe \in Pages /\ file[f].writable \in BOOLEAN /\ "pipeclose" \in Places
      BY <1>2, <1>5, <2>1 DEF Places
    <3>2. /\ c \in Record /\ c.at = "pipeclose" /\ c.pg = file[f].pipe /\ c.wr = file[f].writable
          /\ c.files = Tail(fs) /\ c.then = proc[p].then
      BY <1>2, <1>4, <3>1 DEF Record
    <3>3. proc' = [proc EXCEPT ![p] = c]
      BY <1>1, <2>1
    <3> HIDE DEF c
    <3>4. proc' \in [Proc -> Record] /\ proc'[p] = c /\ \A q \in Proc \ {p} : proc'[q] = proc[q]
      BY <1>2, <3>2, <3>3
    <3>5. PlaceOK(p)'
      BY <1>4, <2>0, <3>1, <3>2, <3>4 DEF PlaceOK, Reading, Writing
    <3>6. UserOK(p)' /\ FilesFresh(p)'
      BY <3>2, <3>4 DEF UserOK, FilesFresh, Reading, Writing
    <3> QED BY <2>1, <3>2, <3>4, <3>5, <3>6 DEF Closes
  <2>2. CASE ~(last /\ file[f].pipe # None)
    <3>1. proc' = [proc EXCEPT ![p] = CloseAll(proc[p], Tail(fs))]
      BY <1>1, <2>2
    <3>2. CloseAll(proc[p], Tail(fs)) \in Record
      <4>1. proc[p] \in Record /\ Tail(fs) \in Seq(File)
        BY <1>2, <1>4
      <4> QED BY <4>1, CloseAllIs
    <3>3. /\ proc' \in [Proc -> Record] /\ proc'[p] = CloseAll(proc[p], Tail(fs))
          /\ \A q \in Proc \ {p} : proc'[q] = proc[q]
      BY <1>2, <3>1, <3>2
    <3>4. /\ proc'[p].files = Tail(fs)
          /\ PlaceOK(p)' /\ UserOK(p)' /\ FilesFresh(p)'
          /\ \A g, wr : ~Closes(p, g, wr)'
      <4>1. proc[p] \in Record /\ Tail(fs) \in Seq(File) /\ Len(Tail(fs)) <= NOFILE + 2
        BY <1>2, <1>4
      <4>2. proc'[p] = CloseAll(proc[p], Tail(fs))
        BY <3>3
      <4> QED BY <2>0, <4>1, <4>2, CloseAllOK
    <3>5. proc'[p].at \notin {"dozeread", "dozewrite", "sleepread", "sleepwrite"}
      <4> DEFINE c == CloseAll(proc[p], Tail(fs))
      <4>1. /\ Tail(fs) # <<>> => c.at = "close"
            /\ Tail(fs) = <<>> => c = IF proc[p].then = "exit" THEN Unused ELSE User
        BY <1>2, <1>4, CloseAllIs
      <4> HIDE DEF c
      <4>2. c.at \in {"close", "unused", "user"}
        BY <4>1, UserIs
      <4> QED BY <3>3, <4>2 DEF c
    <3> QED BY <2>2, <3>3, <3>4, <3>5
  <2> QED BY <2>1, <2>2
<1>9. ASSUME NEW q \in Proc \ {p}
      PROVE  /\ PlaceOK(q)' /\ UserOK(q)' /\ FilesFresh(q)'
             /\ \A g, wr : Closes(q, g, wr)' <=> Closes(q, g, wr)
  <2>1. proc'[q] = proc[q] /\ ofile'[q] = ofile[q]
    BY <1>1, <1>8
  <2>2. \A d \in FD : ofile[q][d] # 0 => \A g \in Pages, wr \in BOOLEAN :
            IsEnd(ofile[q][d], g, wr) => /\ file'[ofile[q][d]].pipe = g
                                         /\ file'[ofile[q][d]].writable = wr
    <3>1. \A d \in FD : ofile[q][d] # 0 => ofile[q][d] \in File
      BY <1>2 DEF TypeInv
    <3> QED BY <1>6, <1>7, <3>1 DEF IsEnd
  <2>3. \A i \in DOMAIN proc[q].files :
            file[proc[q].files[i]] = Fresh => file'[proc[q].files[i]] = Fresh
    <3>1. \A i \in DOMAIN proc[q].files : proc[q].files[i] \in File
      BY <1>2, OwnRef
    <3>2. Fresh.ref = 1
      BY DEF Fresh, NoFile
    <3> QED BY <1>6, <1>7, <3>1, <3>2
  <2> QED BY <1>2, <2>1, <2>2, <2>3, OthersOK
<1>10. RefCounts'
  <2>1. ASSUME NEW e \in File PROVE Counted(e)'
    <3>1. Shown(e)' = Shown(e)
      BY <1>1, ShownSame
    <3>2. Cardinality(Pending(e)') = IF f = e THEN Cardinality(Pending(e)) - 1
                                     ELSE Cardinality(Pending(e))
      BY <1>0, <1>01, <1>2, <1>3, <1>8, PendingShift
    <3>3. file[e].ref = Cardinality(Shown(e)) + Cardinality(Pending(e))
      BY <1>2 DEF RefCounts, Counted
    <3>4. Cardinality(Shown(e)) \in Nat /\ Cardinality(Pending(e)) \in Nat
      BY Finite
    <3>5. file'[e].ref = IF f = e THEN file[e].ref - 1 ELSE file[e].ref
      BY <1>6
    <3>6. file'[e].ref = Cardinality(Shown(e)) + Cardinality(Pending(e)')
      BY <3>2, <3>3, <3>4, <3>5
    <3> QED BY <3>1, <3>6 DEF Counted
  <2> QED BY <2>1 DEF RefCounts
<1>11. EndInv'
  <2>0. ~\E g, wr : Closes(p, g, wr)
    BY <1>1 DEF Closes
  <2>1. CASE last /\ file[f].pipe # None
    <3> SUFFICES ASSUME NEW h \in Pages, NEW w \in BOOLEAN
                 PROVE  /\ \A e, i \in File : IsEnd(e, h, w)' /\ IsEnd(i, h, w)' => e = i
                        /\ \A q \in Proc, e \in File : ~(Closes(q, h, w)' /\ IsEnd(e, h, w)')
                        /\ \A q, s \in Proc : Closes(q, h, w)' /\ Closes(s, h, w)' => q = s
                        /\ IsOpen(h, w)' <=> \/ \E e \in File : IsEnd(e, h, w)'
                                             \/ \E q \in Proc : Closes(q, h, w)'
      BY DEF EndInv
    <3>1. /\ \A e, i \in File : IsEnd(e, h, w) /\ IsEnd(i, h, w) => e = i
          /\ \A q \in Proc, e \in File : ~(Closes(q, h, w) /\ IsEnd(e, h, w))
          /\ \A q, s \in Proc : Closes(q, h, w) /\ Closes(s, h, w) => q = s
          /\ IsOpen(h, w) <=> \/ \E e \in File : IsEnd(e, h, w)
                              \/ \E q \in Proc : Closes(q, h, w)
      BY <1>2 DEF EndInv
    <3>2. \A e \in File \ {f} : IsEnd(e, h, w)' <=> IsEnd(e, h, w)
      BY <1>6 DEF IsEnd
    <3>3. ~IsEnd(f, h, w)'
      BY <1>6, <2>1, PipeAssumption DEF IsEnd, NoFile
    <3>4. \A q \in Proc \ {p} : Closes(q, h, w)' <=> Closes(q, h, w)
      BY <1>9
    <3>5. Closes(p, h, w)' <=> IsEnd(f, h, w)
      BY <1>8, <2>1 DEF IsEnd
    <3>6. ~Closes(p, h, w)
      BY <2>0
    <3>7. IsOpen(h, w)' <=> IsOpen(h, w)
      BY <1>1 DEF IsOpen
    <3> QED BY <1>5, <3>1, <3>2, <3>3, <3>4, <3>5, <3>6, <3>7
  <2>2. CASE ~(last /\ file[f].pipe # None)
    <3>1. \A e \in File, g \in Pages, wr \in BOOLEAN : IsEnd(e, g, wr)' <=> IsEnd(e, g, wr)
      <4>1. ASSUME NEW g \in Pages, NEW wr \in BOOLEAN PROVE IsEnd(f, g, wr)' <=> IsEnd(f, g, wr)
        BY <1>6, <2>2, PipeAssumption DEF IsEnd, NoFile
      <4> QED BY <1>6, <4>1 DEF IsEnd
    <3>2. \A q \in Proc, g \in Pages, wr \in BOOLEAN : Closes(q, g, wr)' <=> Closes(q, g, wr)
      BY <1>8, <1>9, <2>0, <2>2
    <3>3. \A g \in Pages, wr \in BOOLEAN : IsOpen(g, wr)' <=> IsOpen(g, wr)
      BY <1>1 DEF IsOpen
    <3> QED BY <1>2, <3>1, <3>2, <3>3, EndSame
  <2> QED BY <2>1, <2>2
<1>12. FileInv'
  <2>1. \A e \in File : FileOK(e)'
    <3>1. FileOK(f)'
      <4>1. CASE last
        BY <1>6, <4>1 DEF FileOK, NoFile
      <4>2. CASE ~last
        BY <1>2, <1>5, <1>6, <4>2 DEF FileInv, FileOK
      <4> QED BY <4>1, <4>2
    <3> QED BY <1>2, <1>6, <3>1 DEF FileInv, FileOK
  <2> QED BY <1>8, <1>9, <2>1 DEF FileInv
<1>13. TableInv'
  <2>1. TypeInv'
    BY <1>1, <1>2, <1>6, <1>8 DEF TypeInv
  <2>2. PlaceInv' /\ UserInv'
    BY <1>8, <1>9 DEF PlaceInv, UserInv
  <2> QED BY <1>10, <1>11, <1>12, <2>1, <2>2 DEF TableInv
<1> QED BY <1>1, <1>8, <1>13, StillPages DEF IInv

-----------------------------------------------------------------------------
(* The elements of a finite set of numbers, in order.                      *)

Rank(S, d) == Cardinality({e \in S : e <= d})

LEMMA Ranks ==
  ASSUME NEW S, S \subseteq Nat, IsFiniteSet(S)
  PROVE  /\ \A d \in S : Rank(S, d) \in 1..Cardinality(S)
         /\ \A d, e \in S : Rank(S, d) = Rank(S, e) => d = e
         /\ \A i \in 1..Cardinality(S) : \E d \in S : Rank(S, d) = i
<1> DEFINE U(d) == {e \in S : e <= d}
           n == Cardinality(S)
           h == [d \in S |-> Rank(S, d)]
<1>1. \A d : IsFiniteSet(U(d)) /\ Cardinality(U(d)) \in Nat /\ Cardinality(U(d)) <= n
  <2>1. \A d : U(d) \subseteq S
    OBVIOUS
  <2> HIDE DEF U
  <2> QED BY <2>1, FS_Subset, FS_CardinalityType
<1>2. n \in Nat
  BY FS_CardinalityType
<1>3. ASSUME NEW d \in S PROVE Cardinality(U(d)) > 0
  <2>1. d \in U(d)
    OBVIOUS
  <2> HIDE DEF U
  <2>2. Cardinality(U(d)) # 0
    BY <1>1, <2>1, FS_EmptySet
  <2> QED BY <1>1, <2>2
<1>4. ASSUME NEW d \in S, NEW e \in S, d < e PROVE Cardinality(U(d)) < Cardinality(U(e))
  <2>1. e \in U(e) /\ U(d) \subseteq U(e) \ {e}
    <3>1. d \in Nat /\ e \in Nat
      OBVIOUS
    <3>2. ASSUME NEW x \in S, x <= d PROVE x <= e /\ x # e
      <4>1. x \in Nat
        OBVIOUS
      <4> QED BY <1>4, <3>1, <3>2, <4>1
    <3>3. e <= e
      BY <3>1
    <3> QED BY <3>2, <3>3
  <2> HIDE DEF U
  <2>2. IsFiniteSet(U(e) \ {e}) /\ Cardinality(U(e) \ {e}) = Cardinality(U(e)) - 1
    BY <1>1, <2>1, FS_RemoveElement
  <2>3. Cardinality(U(d)) <= Cardinality(U(e) \ {e})
    BY <2>1, <2>2, FS_Subset
  <2> QED BY <1>1, <2>2, <2>3
<1>5. \A d : Rank(S, d) = Cardinality(U(d))
  BY DEF Rank
<1> HIDE DEF U, n
<1>6. \A d \in S : Rank(S, d) \in 1..n
  BY <1>1, <1>2, <1>3, <1>5
<1>7. ASSUME NEW d \in S, NEW e \in S, Rank(S, d) = Rank(S, e) PROVE d = e
  <2>1. ~(d < e) /\ ~(e < d)
    BY <1>1, <1>4, <1>5, <1>7
  <2> QED BY <2>1
<1>8. h \in [S -> 1..n] /\ \A d \in S : h[d] = Rank(S, d)
  BY <1>6
<1> HIDE DEF h
<1>9. h \in Injection(S, 1..n)
  BY <1>7, <1>8 DEF Injection, IsInjective
<1>10. IsFiniteSet(1..n) /\ Cardinality(1..n) = n
  <2>1. IsFiniteSet(1..n) /\ Cardinality(1..n) = IF 1 > n THEN 0 ELSE n - 1 + 1
    BY <1>2, FS_Interval
  <2> QED BY <1>2, <2>1
<1>11. h \in Surjection(S, 1..n)
  BY <1>9, <1>10, FS_Injection DEF n
<1>12. \A i \in 1..n : \E d \in S : h[d] = i
  BY <1>11 DEF Surjection
<1> QED BY <1>6, <1>7, <1>8, <1>12 DEF n

LEMMA LeastOf ==
  ASSUME NEW S, S \subseteq Nat, IsFiniteSet(S), S # {}
  PROVE  \E d \in S : \A e \in S : d <= e
<1>1. Cardinality(S) \in Nat /\ Cardinality(S) # 0
  BY FS_CardinalityType, FS_EmptySet
<1>2. 1 \in 1..Cardinality(S)
  BY <1>1
<1>3. PICK d \in S : Rank(S, d) = 1
  BY <1>2, Ranks
<1> DEFINE U == {e \in S : e <= d}
<1>4. Cardinality(U) = 1 /\ d \in U /\ U \subseteq S
  BY <1>3 DEF Rank
<1> HIDE DEF U
<1>5. PICK x : U = {x}
  BY <1>4, FS_Subset, FS_Singleton
<1>6. \A e \in S : e <= d => e = d
  BY <1>4, <1>5 DEF U
<1>7. \A e \in S : d <= e
  BY <1>6
<1> QED BY <1>7

LEMMA FreeFileIs ==
  ASSUME TypeInv, FreeFile # 0
  PROVE  FreeFile \in File /\ file[FreeFile].ref = 0
<1> DEFINE S == {f \in File : file[f].ref = 0}
<1>1. \E f \in File : file[f].ref = 0
  BY DEF FreeFile
<1>2. S \subseteq Nat /\ IsFiniteSet(S) /\ S # {}
  <2>1. NFILE \in Nat
    BY PipeAssumption
  <2>2. IsFiniteSet(File) /\ File \subseteq Nat
    BY <2>1, FS_Interval DEF File
  <2> QED BY <1>1, <2>2, FS_Subset
<1>3. PICK f \in S : \A e \in S : f <= e
  BY <1>2, LeastOf
<1>4. \A e \in 1..f-1 : file[e].ref > 0
  <2>1. SUFFICES ASSUME NEW e \in 1..f-1 PROVE file[e].ref > 0
    OBVIOUS
  <2>2. e \in File /\ ~(f <= e)
    BY <1>2, <1>3, PipeAssumption DEF File
  <2>3. file[e].ref \in Nat /\ file[e].ref # 0
    BY <1>3, <2>2 DEF TypeInv
  <2> QED BY <2>3
<1>5. \E x \in File : file[x].ref = 0 /\ \A e \in 1..x-1 : file[e].ref > 0
  BY <1>3, <1>4
<1> QED BY <1>1, <1>5 DEF FreeFile

LEMMA FreeFDIs ==
  ASSUME TypeInv, NEW p \in Proc, NEW S, S \subseteq FreeFDs(p), S # {}
  PROVE  Lowest(S) \in S /\ Lowest(S) \in FD /\ ofile[p][Lowest(S)] = 0
<1>1. S \subseteq FD /\ FD \subseteq Nat /\ IsFiniteSet(S)
  <2>1. S \subseteq FD
    BY DEF FreeFDs
  <2>2. FD \subseteq Nat
    BY PipeAssumption DEF FD
  <2> QED BY <2>1, <2>2, Finite, FS_Subset
<1>2. \E d \in S : \A e \in S : d <= e
  BY <1>1, LeastOf
<1>3. Lowest(S) \in S
  BY <1>2 DEF Lowest
<1> QED BY <1>1, <1>3 DEF FreeFDs

-----------------------------------------------------------------------------
(* pipealloc().                                                            *)

\* A file that nobody has is taken by process p.
LEMMA TakeFile ==
  ASSUME IInv, NEW p \in Proc, NEW f \in File, file[f].ref = 0,
         file' = [file EXCEPT ![f].ref = 1], NEW r \in Record, proc' = [proc EXCEPT ![p] = r],
         r.at = "pipealloc", r.files = Append(proc[p].files, f), r.then = "user",
         Len(proc[p].files) <= 1, proc[p].at = "pipealloc" \/ proc[p].files = <<>>,
         proc[p].at # "pipeclose", UNCHANGED <<ofile, pipe, killed, cut>>
  PROVE  IInv'
<1>1. /\ TableInv /\ TypeInv /\ RefCounts /\ PlaceInv /\ EndInv /\ FileInv
      /\ proc \in [Proc -> Record] /\ proc[p] \in Record
      /\ file \in [File -> [ref : Nat, pipe : Pages \cup {None}, writable : BOOLEAN]]
  BY DEF IInv, TableInv, TypeInv
<1>2. PICK fs : fs = proc[p].files
  OBVIOUS
<1>3. /\ fs \in Seq(File) /\ Len(fs) \in 0..1 /\ DOMAIN fs = 1..Len(fs)
      /\ r.files \in Seq(File) /\ Len(r.files) = Len(fs) + 1
      /\ DOMAIN r.files = 1..Len(fs) + 1 /\ r.files[Len(fs) + 1] = f
      /\ \A i \in DOMAIN fs : r.files[i] = fs[i]
  <2>1. fs \in Seq(File) /\ Len(fs) <= 1 /\ r.files = Append(fs, f)
    <3>1. proc[p].files \in Seq(File)
      BY <1>1 DEF Record
    <3>2. r.files = Append(fs, f) /\ Len(fs) <= 1
      BY <1>2
    <3> QED BY <1>2, <3>1, <3>2
  <2>2. /\ Len(fs) \in 0..1 /\ DOMAIN fs = 1..Len(fs) /\ r.files \in Seq(File)
        /\ Len(r.files) = Len(fs) + 1 /\ r.files[Len(fs) + 1] = f
    <3>0. Len(fs) \in Nat /\ DOMAIN fs = 1..Len(fs)
      BY <2>1
    <3>1. Len(fs) \in 0..1
      <4> DEFINE n == Len(fs)
      <4>1. n \in Nat /\ n <= 1
        BY <2>1, <3>0
      <4> HIDE DEF n
      <4>2. n \in 0..1
        BY <4>1
      <4> QED BY <4>2 DEF n
    <3>2. Append(fs, f) \in Seq(File) /\ Len(Append(fs, f)) = Len(fs) + 1
      BY <2>1
    <3>3. Append(fs, f)[Len(fs) + 1] = f
      BY <2>1
    <3> QED BY <2>1, <3>0, <3>1, <3>2, <3>3
  <2>3. DOMAIN r.files = 1..Len(fs) + 1
    BY <2>2
  <2>4. \A i \in DOMAIN fs : r.files[i] = fs[i]
    BY <2>1, <2>2
  <2> QED BY <2>1, <2>2, <2>3, <2>4
<1>4. file[f] = NoFile
  BY <1>1 DEF FileInv, FileOK
<1>5. /\ file' \in [File -> [ref : Nat, pipe : Pages \cup {None}, writable : BOOLEAN]]
      /\ file'[f] = Fresh /\ \A e \in File \ {f} : file'[e] = file[e]
  BY <1>1, <1>4 DEF Fresh
<1>6. proc' \in [Proc -> Record] /\ proc'[p] = r /\ \A q \in Proc \ {p} : proc'[q] = proc[q]
  BY <1>1
<1>7. Shown(f) = {} /\ Pending(f) = {}
  BY <1>1, FreeRef
<1>8. /\ \A q \in Proc, d \in FD : ofile[q][d] # f
      /\ \A q \in Proc : \A i \in DOMAIN proc[q].files : proc[q].files[i] # f
  <2>1. ASSUME NEW q \in Proc, NEW d \in FD, ofile[q][d] = f PROVE FALSE
    <3>1. <<q, d>> \in Shown(f)
      BY <2>1 DEF Shown
    <3> QED BY <1>7, <3>1
  <2>2. ASSUME NEW q \in Proc, NEW i \in DOMAIN proc[q].files, proc[q].files[i] = f PROVE FALSE
    <3>1. <<q, i>> \in Pending(f)
      BY <1>1, <2>2, OwnRef
    <3> QED BY <1>7, <3>1
  <2> QED BY <2>1, <2>2
<1>9. ASSUME NEW q \in Proc \ {p}
      PROVE  /\ PlaceOK(q)' /\ UserOK(q)' /\ FilesFresh(q)'
             /\ \A g, wr : Closes(q, g, wr)' <=> Closes(q, g, wr)
             /\ \A i, e : Lists(q, i, e)' <=> Lists(q, i, e)
  <2>1. proc'[q] = proc[q] /\ ofile'[q] = ofile[q]
    BY <1>6
  <2>2. \A d \in FD : ofile[q][d] # 0 => \A g \in Pages, wr \in BOOLEAN :
            IsEnd(ofile[q][d], g, wr) => /\ file'[ofile[q][d]].pipe = g
                                         /\ file'[ofile[q][d]].writable = wr
    <3>1. \A d \in FD : ofile[q][d] # 0 => ofile[q][d] \in File
      BY <1>1 DEF TypeInv
    <3> QED BY <1>5, <1>8, <3>1 DEF IsEnd
  <2>3. \A i \in DOMAIN proc[q].files :
            file[proc[q].files[i]] = Fresh => file'[proc[q].files[i]] = Fresh
    <3>1. \A i \in DOMAIN proc[q].files : proc[q].files[i] \in File
      BY <1>1, OwnRef
    <3> QED BY <1>5, <1>8, <3>1
  <2> QED BY <1>1, <2>1, <2>2, <2>3, OthersOK
<1>10. /\ PlaceOK(p)' /\ UserOK(p)' /\ FilesFresh(p)'
       /\ \A g, wr : ~Closes(p, g, wr)' /\ ~Closes(p, g, wr)
  <2>1. PlaceOK(p)'
    <3>1. Len(r.files) \in 1..2 /\ Len(r.files) <= NOFILE + 2
      BY <1>3, PipeAssumption
    <3> QED BY <1>6, <3>1 DEF PlaceOK, Reading, Writing
  <2>2. FilesFresh(p)'
    <3>1. ASSUME NEW i \in DOMAIN r.files PROVE file'[r.files[i]] = Fresh
      <4>1. CASE i = Len(fs) + 1
        BY <1>3, <1>5, <4>1
      <4>2. CASE i # Len(fs) + 1
        <5>1. i \in DOMAIN fs /\ r.files[i] = fs[i] /\ fs[i] \in File
          BY <1>3, <4>2
        <5>2. proc[p].at = "pipealloc"
          BY <1>2, <5>1
        <5>3. file[fs[i]] = Fresh
          BY <1>1, <1>2, <5>1, <5>2 DEF FileInv, FilesFresh
        <5> QED BY <1>2, <1>5, <1>8, <5>1, <5>3
      <4> QED BY <4>1, <4>2
    <3> QED BY <1>6, <3>1 DEF FilesFresh
  <2>3. UserOK(p)'
    BY <1>6 DEF UserOK, Reading, Writing
  <2>4. \A g, wr : ~Closes(p, g, wr)' /\ ~Closes(p, g, wr)
    BY <1>6 DEF Closes
  <2> QED BY <2>1, <2>2, <2>3, <2>4
<1>11. RefCounts'
  <2>1. ASSUME NEW e \in File PROVE Counted(e)'
    <3>1. Shown(e)' = Shown(e)
      BY ShownSame
    <3>2. \A i : Lists(p, i, e)' <=> Lists(p, i, e) \/ (e = f /\ i = Len(fs) + 1)
      BY <1>2, <1>3, <1>6 DEF Lists
    <3>3. Cardinality(Shown(e)) \in Nat /\ Cardinality(Pending(e)) \in Nat
          /\ file[e].ref = Cardinality(Shown(e)) + Cardinality(Pending(e))
      BY <1>1, Finite DEF RefCounts, Counted
    <3>4. CASE e # f
      <4>1. Pending(e)' = Pending(e)
        BY <1>9, <3>2, <3>4, PendingSame
      <4> QED BY <1>1, <1>5, <3>1, <3>4, <4>1, CountSame DEF RefCounts
    <3>5. CASE e = f
      <4>1. Len(fs) + 1 \in 1..NOFILE + 2 /\ ~Lists(p, Len(fs) + 1, e)
        BY <1>2, <1>3, PipeAssumption DEF Lists
      <4>2. \A q \in Proc, i \in 1..NOFILE + 2 :
              Lists(q, i, e)' <=> Lists(q, i, e) \/ (q = p /\ i = Len(fs) + 1)
        BY <1>9, <3>2, <3>5
      <4>3. Cardinality(Pending(e)') = Cardinality(Pending(e)) + 1
        BY <4>1, <4>2, PendingMore
      <4>4. file'[e].ref = 1 /\ file[e].ref = 0
        BY <1>5, <3>5 DEF Fresh, NoFile
      <4>5. file'[e].ref = Cardinality(Shown(e)) + Cardinality(Pending(e)')
        BY <3>3, <4>3, <4>4
      <4> QED BY <3>1, <4>5 DEF Counted
    <3> QED BY <3>4, <3>5
  <2> QED BY <2>1 DEF RefCounts
<1>12. EndInv'
  <2>1. \A e \in File, g \in Pages, wr \in BOOLEAN : IsEnd(e, g, wr)' <=> IsEnd(e, g, wr)
    BY <1>4, <1>5, PipeAssumption DEF IsEnd, NoFile, Fresh
  <2>2. \A q \in Proc, g \in Pages, wr \in BOOLEAN : Closes(q, g, wr)' <=> Closes(q, g, wr)
    BY <1>9, <1>10
  <2>3. \A g \in Pages, wr \in BOOLEAN : IsOpen(g, wr)' <=> IsOpen(g, wr)
    BY DEF IsOpen
  <2> QED BY <1>1, <2>1, <2>2, <2>3, EndSame
<1>13. FileInv'
  <2>1. \A e \in File : FileOK(e)'
    BY <1>1, <1>5 DEF FileInv, FileOK, Fresh, NoFile
  <2> QED BY <1>9, <1>10, <2>1 DEF FileInv
<1>14. TableInv'
  <2>1. TypeInv'
    BY <1>1, <1>5, <1>6 DEF TypeInv
  <2>2. PlaceInv' /\ UserInv'
    BY <1>9, <1>10 DEF PlaceInv, UserInv
  <2> QED BY <1>11, <1>12, <1>13, <2>1, <2>2 DEF TableInv
<1> QED BY <1>6, <1>14, StillPages DEF IInv

LEMMA SysPipeStep ==
  ASSUME IInv, NEW p \in Proc, sys_pipe(p)
  PROVE  IInv'
<1>0. PICK f : f = FreeFile
  OBVIOUS
<1>01. PICK r : r = [User EXCEPT !.at = "pipealloc", !.files = <<f>>]
  OBVIOUS
<1>1. /\ proc[p] = User /\ f # 0 /\ file' = [file EXCEPT ![f].ref = 1]
      /\ proc' = [proc EXCEPT ![p] = r] /\ UNCHANGED <<ofile, pipe, killed, cut>>
  BY <1>0, <1>01 DEF sys_pipe, MayCall, filealloc, Goto
<1>2. f \in File /\ file[f].ref = 0
  BY <1>0, <1>1, FreeFileIs DEF IInv, TableInv
<1>3. <<f>> \in Seq(File) /\ "pipealloc" \in Places
  BY <1>2 DEF Places
<1>4. r \in Record /\ r.at = "pipealloc" /\ r.files = <<f>> /\ r.then = "user"
  BY <1>01, <1>3, UserIs DEF Record
<1>5. User.files = <<>> /\ User.at = "user" /\ Len(User.files) <= 1 /\ Append(User.files, f) = <<f>>
  BY UserIs
<1>6. r.files = Append(proc[p].files, f) /\ Len(proc[p].files) <= 1 /\ proc[p].files = <<>>
      /\ proc[p].at # "pipeclose"
  BY <1>1, <1>4, <1>5
<1> QED BY <1>1, <1>2, <1>4, <1>6, TakeFile

\* What pipealloc() has is given back.
LEMMA DropStep ==
  ASSUME IInv, NEW p \in Proc, proc[p].at = "pipealloc",
         proc' = [proc EXCEPT ![p] = CloseAll(proc[p], proc[p].files)],
         UNCHANGED <<file, ofile, pipe, killed, cut>>
  PROVE  IInv'
<1>1. /\ TableInv /\ TypeInv /\ RefCounts /\ PlaceInv /\ EndInv /\ FileInv /\ PlaceOK(p)
      /\ proc \in [Proc -> Record] /\ proc[p] \in Record
  BY DEF IInv, TableInv, TypeInv, PlaceInv
<1>2. PICK fs : fs = proc[p].files
  OBVIOUS
<1>3. fs \in Seq(File) /\ Len(fs) <= NOFILE + 2 /\ proc[p].then # "exit"
  BY <1>1, <1>2 DEF Record, PlaceOK
<1>4. PICK c : c = CloseAll(proc[p], fs)
  OBVIOUS
<1>5. c \in Record /\ c.at \notin {"dozeread", "dozewrite", "sleepread", "sleepwrite"}
  <2>1. /\ c \in Record /\ fs # <<>> => c.at = "close"
        /\ fs = <<>> => c = IF proc[p].then = "exit" THEN Unused ELSE User
    BY <1>1, <1>3, <1>4, CloseAllIs
  <2> QED BY <1>1, <1>3, <1>4, <2>1, CloseAllIs, UserIs
<1>6. proc' \in [Proc -> Record] /\ proc'[p] = c /\ \A q \in Proc \ {p} : proc'[q] = proc[q]
  BY <1>1, <1>2, <1>4, <1>5
<1>7. /\ proc'[p].files = fs
      /\ PlaceOK(p)' /\ UserOK(p)' /\ FilesFresh(p)' /\ SleepOK(p)'
      /\ \A h, w : ~Closes(p, h, w)'
  BY <1>1, <1>3, <1>4, <1>6, CloseAllOK
<1>8. ASSUME NEW q \in Proc \ {p}
      PROVE  /\ PlaceOK(q)' /\ UserOK(q)' /\ FilesFresh(q)'
             /\ \A g, wr : Closes(q, g, wr)' <=> Closes(q, g, wr)
             /\ \A i, e : Lists(q, i, e)' <=> Lists(q, i, e)
  <2>1. proc'[q] = proc[q] /\ ofile'[q] = ofile[q]
    BY <1>6
  <2> QED BY <1>1, <2>1, OthersOK DEF IsEnd
<1>9. RefCounts'
  <2>1. ASSUME NEW e \in File PROVE Counted(e)'
    <3>1. Shown(e)' = Shown(e)
      BY ShownSame
    <3>2. Pending(e)' = Pending(e)
      BY <1>2, <1>7, <1>8, PendingSame DEF Lists
    <3> QED BY <1>1, <3>1, <3>2, CountSame DEF RefCounts
  <2> QED BY <2>1 DEF RefCounts
<1>10. EndInv'
  <2>1. \A q \in Proc, g \in Pages, wr \in BOOLEAN : Closes(q, g, wr)' <=> Closes(q, g, wr)
    BY <1>7, <1>8 DEF Closes
  <2>2. /\ \A e \in File, g \in Pages, wr \in BOOLEAN : IsEnd(e, g, wr)' <=> IsEnd(e, g, wr)
        /\ \A g \in Pages, wr \in BOOLEAN : IsOpen(g, wr)' <=> IsOpen(g, wr)
    BY DEF IsOpen, IsEnd
  <2> QED BY <1>1, <2>1, <2>2, EndSame
<1>11. TableInv'
  <2>1. TypeInv'
    BY <1>1, <1>6 DEF TypeInv
  <2>2. PlaceInv' /\ UserInv'
    BY <1>7, <1>8 DEF PlaceInv, UserInv
  <2>3. FileInv'
    BY <1>1, <1>7, <1>8 DEF FileInv, FileOK
  <2> QED BY <1>9, <1>10, <2>1, <2>2, <2>3 DEF TableInv
<1> QED BY <1>5, <1>6, <1>11, StillPages DEF IInv

LEMMA SecondStep ==
  ASSUME IInv, NEW p \in Proc, pipealloc_second(p)
  PROVE  IInv'
<1>0. PICK f : f = FreeFile
  OBVIOUS
<1>1. proc[p].at = "pipealloc" /\ Len(proc[p].files) = 1 /\ UNCHANGED <<ofile, pipe, killed, cut>>
  BY DEF pipealloc_second
<1>2. CASE f = 0
  BY <1>0, <1>1, <1>2, DropStep DEF pipealloc_second, Goto
<1>3. CASE f # 0
  <2>0. PICK r : r = [proc[p] EXCEPT !.files = Append(proc[p].files, f)]
    OBVIOUS
  <2>1. file' = [file EXCEPT ![f].ref = 1] /\ proc' = [proc EXCEPT ![p] = r]
    BY <1>0, <1>3, <2>0 DEF pipealloc_second, filealloc, Goto
  <2>2. f \in File /\ file[f].ref = 0
    BY <1>0, <1>3, FreeFileIs DEF IInv, TableInv
  <2>3. proc[p] \in Record /\ proc[p].then = "user"
    <3>1. proc[p] \in Record /\ PlaceOK(p)
      BY DEF IInv, TableInv, TypeInv, PlaceInv
    <3> QED BY <1>1, <3>1 DEF Record, PlaceOK
  <2>4. Append(proc[p].files, f) \in Seq(File)
    BY <2>2, <2>3 DEF Record
  <2>5. /\ r \in Record /\ r.at = "pipealloc" /\ r.files = Append(proc[p].files, f)
        /\ r.then = "user"
    BY <1>1, <2>0, <2>3, <2>4 DEF Record
  <2>6. Len(proc[p].files) <= 1 /\ proc[p].at # "pipeclose"
    BY <1>1
  <2> QED BY <1>1, <2>1, <2>2, <2>5, <2>6, TakeFile
<1> QED BY <1>2, <1>3

\* The two files of pipealloc() are two, and nobody else has them.
LEMMA TwoFiles ==
  ASSUME IInv, NEW p \in Proc, proc[p].at = "pipealloc", Len(proc[p].files) = 2,
         NEW rf, NEW wf, rf = proc[p].files[1], wf = proc[p].files[2]
  PROVE  /\ rf \in File /\ wf \in File /\ rf # wf
         /\ file[rf] = Fresh /\ file[wf] = Fresh
         /\ Shown(rf) = {} /\ Pending(rf) = {<<p, 1>>}
         /\ Shown(wf) = {} /\ Pending(wf) = {<<p, 2>>}
<1>1. TypeInv /\ RefCounts /\ PlaceInv /\ FileInv /\ proc[p] \in Record
  BY DEF IInv, TableInv, TypeInv
<1>2. 1 \in DOMAIN proc[p].files /\ 2 \in DOMAIN proc[p].files
  <2>1. proc[p].files \in Seq(File)
    BY <1>1 DEF Record
  <2> QED BY <2>1
<1>3. /\ rf \in File /\ wf \in File /\ <<p, 1>> \in Pending(rf) /\ <<p, 2>> \in Pending(wf)
  BY <1>1, <1>2, OwnRef
<1>4. file[rf] = Fresh /\ file[wf] = Fresh
  BY <1>1, <1>2 DEF FileInv, FilesFresh
<1>5. Fresh.ref = 1
  BY DEF Fresh, NoFile
<1>6. Shown(rf) = {} /\ Pending(rf) = {<<p, 1>>} /\ Shown(wf) = {} /\ Pending(wf) = {<<p, 2>>}
  BY <1>1, <1>3, <1>4, <1>5, LastRef
<1>7. rf # wf
  <2>1. <<p, 1>> # <<p, 2>>
    OBVIOUS
  <2> QED BY <1>6, <2>1
<1> QED BY <1>3, <1>4, <1>6, <1>7

\* A page that is no pipe has no end and nobody at it.
LEMMA FreePage ==
  ASSUME IInv, NEW g \in Pages, ~pipe[g].used
  PROVE  /\ \A wr \in BOOLEAN : /\ ~IsOpen(g, wr)
                                /\ \A f \in File : ~IsEnd(f, g, wr)
                                /\ \A q \in Proc : ~Closes(q, g, wr)
         /\ \A q \in Proc : proc[q].pg = g => proc[q].at \notin Reading \cup Writing
<1>1. ~pipe[g].readopen /\ ~pipe[g].writeopen
  BY DEF IInv, PageInv, PageOK
<1>2. \A wr \in BOOLEAN : ~IsOpen(g, wr)
  BY <1>1 DEF IsOpen
<1> QED BY <1>1, <1>2, OpenAt DEF IInv, TableInv, EndInv

-----------------------------------------------------------------------------
(* Steps that hand out or take back descriptors.                           *)

\* The files stay what they are, but for the references of those that somebody
\* shows; who moves was or is at no pipe.
LEMMA DescriptorStep ==
  ASSUME IInv, TypeInv', RefCounts', UNCHANGED <<pipe, cut>>,
         \A f \in File : \/ file'[f] = file[f]
                         \/ /\ Shown(f) # {} /\ file'[f].ref > 0
                            /\ file'[f].pipe = file[f].pipe /\ file'[f].writable = file[f].writable,
         \A q \in Proc :
           \/ proc'[q] = proc[q] /\ ofile'[q] = ofile[q]
           \/ /\ proc[q].at \in {"unused", "user"} /\ proc'[q].at \in {"unused", "user", "close"}
              /\ PlaceOK(q)'
  PROVE  IInv'
<1>1. /\ TableInv /\ TypeInv /\ RefCounts /\ PlaceInv /\ EndInv /\ FileInv /\ PageInv /\ SleepInv
  BY DEF IInv, TableInv
<1>2. ASSUME NEW q \in Proc
      PROVE  /\ PlaceOK(q)' /\ UserOK(q)' /\ FilesFresh(q)'
             /\ \A g, wr : Closes(q, g, wr)' <=> Closes(q, g, wr)
             /\ \/ proc'[q] = proc[q]
                \/ proc'[q].at \notin {"dozeread", "dozewrite", "sleepread", "sleepwrite"}
  <2>1. CASE proc'[q] = proc[q] /\ ofile'[q] = ofile[q]
    <3>1. \A d \in FD : ofile[q][d] # 0 => \A g \in Pages, wr \in BOOLEAN :
            IsEnd(ofile[q][d], g, wr) => /\ file'[ofile[q][d]].pipe = g
                                         /\ file'[ofile[q][d]].writable = wr
      <4>1. \A d \in FD : ofile[q][d] # 0 => ofile[q][d] \in File
        BY <1>1 DEF TypeInv
      <4> QED BY <4>1 DEF IsEnd
    <3>2. ASSUME NEW i \in DOMAIN proc[q].files, file[proc[q].files[i]] = Fresh
          PROVE  file'[proc[q].files[i]] = Fresh
      <4>1. PICK f : f = proc[q].files[i]
        OBVIOUS
      <4>2. f \in File /\ <<q, i>> \in Pending(f)
        BY <1>1, <4>1, OwnRef
      <4>3. file[f].ref = 1
        BY <3>2, <4>1 DEF Fresh, NoFile
      <4>4. Shown(f) = {}
        BY <1>1, <4>2, <4>3, LastRef
      <4> QED BY <3>2, <4>1, <4>2, <4>4
    <3> QED BY <1>1, <2>1, <3>1, <3>2, OthersOK
  <2>2. CASE /\ proc[q].at \in {"unused", "user"} /\ proc'[q].at \in {"unused", "user", "close"}
             /\ PlaceOK(q)'
    BY <2>2 DEF UserOK, FilesFresh, Closes, Reading, Writing
  <2> QED BY <2>1, <2>2
<1>3. EndInv'
  <2>1. \A f \in File, g \in Pages, wr \in BOOLEAN : IsEnd(f, g, wr)' <=> IsEnd(f, g, wr)
    BY DEF IsEnd
  <2>2. \A g \in Pages, wr \in BOOLEAN : IsOpen(g, wr)' <=> IsOpen(g, wr)
    BY DEF IsOpen
  <2>3. \A q \in Proc, g \in Pages, wr \in BOOLEAN : Closes(q, g, wr)' <=> Closes(q, g, wr)
    BY <1>2
  <2> QED BY <1>1, <2>1, <2>2, <2>3, EndSame
<1>4. FileInv'
  <2>1. ASSUME NEW f \in File PROVE FileOK(f)'
    <3>1. FileOK(f)
      BY <1>1 DEF FileInv
    <3> QED BY <3>1 DEF FileOK
  <2> QED BY <1>2, <2>1 DEF FileInv
<1>5. TableInv'
  BY <1>2, <1>3, <1>4 DEF TableInv, PlaceInv, UserInv
<1>6. \A q \in Proc : \/ proc'[q] = proc[q]
                      \/ proc'[q].at \notin {"dozeread", "dozewrite", "sleepread", "sleepwrite"}
  BY <1>2
<1> QED BY <1>1, <1>5, <1>6, StillPages DEF IInv

LEMMA FiledupIs ==
  ASSUME TypeInv, NEW fs \in [File -> Nat], file' = filedup(fs)
  PROVE  /\ file' \in [File -> [ref : Nat, pipe : Pages \cup {None}, writable : BOOLEAN]]
         /\ \A f \in File : /\ file'[f].ref = file[f].ref + fs[f]
                            /\ file'[f].pipe = file[f].pipe /\ file'[f].writable = file[f].writable
                            /\ fs[f] = 0 => file'[f] = file[f]
<1> DEFINE F == [ref : Nat, pipe : Pages \cup {None}, writable : BOOLEAN]
<1>1. file \in [File -> F] /\ file' = [f \in File |-> [file[f] EXCEPT !.ref = @ + fs[f]]]
  BY DEF TypeInv, filedup
<1>2. ASSUME NEW f \in File
      PROVE  /\ file'[f] \in F /\ file'[f].ref = file[f].ref + fs[f]
             /\ file'[f].pipe = file[f].pipe /\ file'[f].writable = file[f].writable
             /\ fs[f] = 0 => file'[f] = file[f]
  <2>1. PICK r \in F : r = file[f]
    BY <1>1
  <2>2. PICK n \in Nat : n = fs[f]
    OBVIOUS
  <2>3. file'[f] = [r EXCEPT !.ref = r.ref + n]
    BY <1>1, <2>1, <2>2
  <2>4. [r EXCEPT !.ref = r.ref + n] \in F
    OBVIOUS
  <2>5. n = 0 => [r EXCEPT !.ref = r.ref + n] = r
    OBVIOUS
  <2> QED BY <2>1, <2>2, <2>3, <2>4, <2>5
<1> QED BY <1>1, <1>2

LEMMA DupStep ==
  ASSUME IInv, NEW p \in Proc, sys_dup(p)
  PROVE  IInv'
<1>1. PICK d \in FD : /\ MayCall(p) /\ ofile[p][d] # 0 /\ FreeFDs(p) # {}
                      /\ ofile' = [ofile EXCEPT ![p][Lowest(FreeFDs(p))] = ofile[p][d]]
                      /\ file' = filedup([f \in File |-> IF f = ofile[p][d] THEN 1 ELSE 0])
                      /\ UNCHANGED <<pipe, proc, killed, cut>>
  BY DEF sys_dup
<1>2. /\ TableInv /\ TypeInv /\ RefCounts /\ PlaceInv
      /\ ofile \in [Proc -> [FD -> {0} \cup File]]
      /\ file \in [File -> [ref : Nat, pipe : Pages \cup {None}, writable : BOOLEAN]]
  BY DEF IInv, TableInv, TypeInv
<1>3. PICK f : f = ofile[p][d]
  OBVIOUS
<1>4. f \in File /\ <<p, d>> \in Shown(f) /\ f # 0
  BY <1>1, <1>2, <1>3, OwnRef
<1>5. PICK e : e = Lowest(FreeFDs(p))
  OBVIOUS
<1>6. e \in FD /\ ofile[p][e] = 0
  BY <1>1, <1>2, <1>5, FreeFDIs
<1>7. /\ ofile' \in [Proc -> [FD -> {0} \cup File]]
      /\ ofile' = [ofile EXCEPT ![p] = [ofile[p] EXCEPT ![e] = f]]
  <2>1. ofile' = [ofile EXCEPT ![p][e] = f]
    BY <1>1, <1>3, <1>5
  <2>2. ofile' = [ofile EXCEPT ![p] = [ofile[p] EXCEPT ![e] = f]]
    BY <2>1
  <2>3. [ofile[p] EXCEPT ![e] = f] \in [FD -> {0} \cup File]
    BY <1>2, <1>4, <1>6
  <2> QED BY <1>2, <2>2, <2>3
<1>8. /\ ofile'[p][e] = f /\ \A c \in FD \ {e} : ofile'[p][c] = ofile[p][c]
      /\ \A q \in Proc \ {p} : ofile'[q] = ofile[q]
  <2>1. ofile'[p] = [ofile[p] EXCEPT ![e] = f] /\ ofile[p] \in [FD -> {0} \cup File]
    BY <1>2, <1>7
  <2> QED BY <1>2, <1>6, <1>7, <2>1
<1>9. /\ file' \in [File -> [ref : Nat, pipe : Pages \cup {None}, writable : BOOLEAN]]
      /\ \A i \in File \ {f} : file'[i] = file[i]
      /\ file'[f].ref = file[f].ref + 1
      /\ file'[f].pipe = file[f].pipe /\ file'[f].writable = file[f].writable
  <2> DEFINE bag == [i \in File |-> IF i = f THEN 1 ELSE 0]
  <2>1. file' = filedup(bag) /\ bag[f] = 1 /\ \A i \in File \ {f} : bag[i] = 0
    BY <1>1, <1>3, <1>4
  <2>2. bag \in [File -> Nat]
    OBVIOUS
  <2> HIDE DEF bag
  <2> QED BY <1>2, <1>4, <2>1, <2>2, FiledupIs
<1>10. TypeInv'
  BY <1>1, <1>2, <1>7, <1>9 DEF TypeInv
<1>11. RefCounts'
  <2>1. ASSUME NEW i \in File PROVE Counted(i)'
    <3>1. Pending(i)' = Pending(i)
      BY <1>1, PendingSame DEF Lists
    <3>2. Cardinality(Shown(i)) \in Nat /\ Cardinality(Pending(i)) \in Nat
          /\ file[i].ref = Cardinality(Shown(i)) + Cardinality(Pending(i))
      BY <1>2, Finite DEF RefCounts, Counted
    <3>3. CASE i # f
      <4>1. i # 0
        BY PipeAssumption DEF File
      <4>2. Shown(i)' = Shown(i)
        BY <1>6, <1>8, <3>3, <4>1, ShownSame
      <4> QED BY <1>2, <1>9, <3>1, <3>3, <4>2, CountSame DEF RefCounts
    <3>4. CASE i = f
      <4>1. \A q \in Proc, c \in FD : ofile'[q][c] = f <=> ofile[q][c] = f \/ (q = p /\ c = e)
        BY <1>8
      <4>2. Cardinality(Shown(f)') = Cardinality(Shown(f)) + 1
        BY <1>4, <1>6, <4>1, ShownMore
      <4>3. file'[i].ref = Cardinality(Shown(i)') + Cardinality(Pending(i))
        BY <1>9, <3>2, <3>4, <4>2
      <4> QED BY <3>1, <4>3 DEF Counted
    <3> QED BY <3>3, <3>4
  <2> QED BY <2>1 DEF RefCounts
<1>12. \A i \in File : \/ file'[i] = file[i]
                       \/ /\ Shown(i) # {} /\ file'[i].ref > 0
                          /\ file'[i].pipe = file[i].pipe /\ file'[i].writable = file[i].writable
  <2>1. file[f].ref \in Nat /\ file[f].ref + 1 > 0
    BY <1>2, <1>4
  <2> QED BY <1>4, <1>9, <2>1
<1>13. proc[p].at = "user" /\ proc'[p].at = "user" /\ PlaceOK(p)'
  <2>1. proc[p] = User /\ proc'[p] = User
    BY <1>1 DEF MayCall
  <2> QED BY <2>1, PipeAssumption DEF PlaceOK, Reading, Writing, User, Unused
<1>14. \A q \in Proc \ {p} : proc'[q] = proc[q] /\ ofile'[q] = ofile[q]
  BY <1>1, <1>8
<1> QED BY <1>1, <1>10, <1>11, <1>12, <1>13, <1>14, DescriptorStep

LEMMA CloseSysStep ==
  ASSUME IInv, NEW p \in Proc, sys_close(p)
  PROVE  IInv'
<1>1. PICK d \in FD : /\ MayCall(p) /\ ofile[p][d] # 0
                      /\ ofile' = [ofile EXCEPT ![p][d] = 0]
                      /\ proc' = [proc EXCEPT ![p] = CloseAll(User, <<ofile[p][d]>>)]
                      /\ UNCHANGED <<file, pipe, killed, cut>>
  BY DEF sys_close, Goto
<1>2. /\ TableInv /\ TypeInv /\ RefCounts /\ PlaceInv
      /\ ofile \in [Proc -> [FD -> {0} \cup File]] /\ proc \in [Proc -> Record]
  BY DEF IInv, TableInv, TypeInv
<1>3. PICK f : f = ofile[p][d]
  OBVIOUS
<1>4. f \in File /\ f # 0
  BY <1>1, <1>2, <1>3, OwnRef
<1>5. PICK fs : fs = <<f>>
  OBVIOUS
<1>6. fs \in Seq(File) /\ Len(fs) = 1 /\ fs # <<>> /\ DOMAIN fs = {1} /\ fs[1] = f
  <2>1. fs \in Seq(File) /\ Len(fs) = 1 /\ fs[1] = f
    BY <1>4, <1>5
  <2>2. DOMAIN fs = 1..1 /\ 1..1 = {1}
    BY <2>1
  <2>3. fs # <<>>
    BY <2>1
  <2> QED BY <2>1, <2>2, <2>3
<1>7. PICK c : c = CloseAll(User, fs)
  OBVIOUS
<1>8. c \in Record /\ c.at = "close" /\ c.files = fs
  BY <1>6, <1>7, CloseAllIs, UserIs
<1>9. proc' \in [Proc -> Record] /\ proc'[p] = c /\ \A q \in Proc \ {p} : proc'[q] = proc[q]
  <2>1. proc' = [proc EXCEPT ![p] = c]
    BY <1>1, <1>3, <1>5, <1>7
  <2> QED BY <1>2, <1>8, <2>1
<1>10. /\ ofile' \in [Proc -> [FD -> {0} \cup File]]
       /\ ofile'[p][d] = 0 /\ \A e \in FD \ {d} : ofile'[p][e] = ofile[p][e]
       /\ \A q \in Proc \ {p} : ofile'[q] = ofile[q]
  <2>1. ofile' = [ofile EXCEPT ![p] = [ofile[p] EXCEPT ![d] = 0]]
    BY <1>1
  <2>2. ofile[p] \in [FD -> {0} \cup File] /\ [ofile[p] EXCEPT ![d] = 0] \in [FD -> {0} \cup File]
    BY <1>2
  <2>3. ofile'[p] = [ofile[p] EXCEPT ![d] = 0]
    BY <1>2, <2>1
  <2> QED BY <1>2, <2>1, <2>2, <2>3
<1>11. proc[p].at = "user" /\ proc[p].files = <<>> /\ User.then = "user"
  BY <1>1, UserIs DEF MayCall
<1>12. PlaceOK(p)'
  <2>1. Len(fs) <= NOFILE + 2
    BY <1>6, PipeAssumption
  <2>2. proc'[p] = CloseAll(User, fs) /\ User \in Record /\ User.then # "exit"
    BY <1>7, <1>9, UserIs
  <2> QED BY <1>6, <2>1, <2>2, CloseAllOK
<1>13. TypeInv'
  BY <1>1, <1>2, <1>9, <1>10 DEF TypeInv
<1>14. RefCounts'
  <2>1. ASSUME NEW i \in File PROVE Counted(i)'
    <3>1. /\ file[i].ref = Cardinality(Shown(i)) + Cardinality(Pending(i))
          /\ Cardinality(Shown(i)) \in Nat /\ Cardinality(Pending(i)) \in Nat
      BY <1>2, Finite DEF RefCounts, Counted
    <3>2. i # 0 /\ \A j : ~Lists(p, j, i)
      <4>1. DOMAIN proc[p].files = {}
        BY <1>11
      <4> QED BY <4>1, PipeAssumption DEF Lists, File
    <3>3. \A j : Lists(p, j, i)' <=> (i = f /\ j = 1)
      BY <1>6, <1>8, <1>9 DEF Lists
    <3>4. \A q \in Proc \ {p} : \A j : Lists(q, j, i)' <=> Lists(q, j, i)
      BY <1>9 DEF Lists
    <3>5. CASE i # f
      <4>1. Shown(i)' = Shown(i)
        BY <1>3, <1>10, <3>2, <3>5, ShownSame
      <4>2. Pending(i)' = Pending(i)
        BY <3>2, <3>3, <3>4, <3>5, PendingSame
      <4> QED BY <1>1, <1>2, <4>1, <4>2, CountSame DEF RefCounts
    <3>6. CASE i = f
      <4>1. \A q \in Proc, e \in FD : ofile'[q][e] = f <=> ofile[q][e] = f /\ ~(q = p /\ e = d)
        BY <1>4, <1>10
      <4>2. Cardinality(Shown(f)') = Cardinality(Shown(f)) - 1
        BY <1>3, <4>1, ShownLess
      <4>3. \A q \in Proc, j \in 1..NOFILE + 2 : Lists(q, j, f)' <=> Lists(q, j, f) \/ (q = p /\ j = 1)
        BY <3>2, <3>3, <3>4, <3>6
      <4>4. 1 \in 1..NOFILE + 2 /\ ~Lists(p, 1, f)
        BY <3>2, <3>6, PipeAssumption
      <4>5. Cardinality(Pending(f)') = Cardinality(Pending(f)) + 1
        BY <4>3, <4>4, PendingMore
      <4>6. file'[f].ref = Cardinality(Shown(f)') + Cardinality(Pending(f)')
        BY <1>1, <3>1, <3>6, <4>2, <4>5
      <4> QED BY <3>6, <4>6 DEF Counted
    <3> QED BY <3>5, <3>6
  <2> QED BY <2>1 DEF RefCounts
<1>15. /\ \A i \in File : file'[i] = file[i]
       /\ \A q \in Proc \ {p} : proc'[q] = proc[q] /\ ofile'[q] = ofile[q]
       /\ proc'[p].at = "close"
  BY <1>1, <1>8, <1>9, <1>10
<1> QED BY <1>1, <1>11, <1>12, <1>13, <1>14, <1>15, DescriptorStep

LEMMA Joined ==
  ASSUME NEW S, NEW T, IsFiniteSet(S), IsFiniteSet(T), S \cap T = {}
  PROVE  /\ IsFiniteSet(S \cup T) /\ Cardinality(S \cup T) = Cardinality(S) + Cardinality(T)
         /\ Cardinality(S) \in Nat /\ Cardinality(T) \in Nat
<1>1. Cardinality(S) \in Nat /\ Cardinality(T) \in Nat
  BY FS_CardinalityType
<1>2. IsFiniteSet(S \cup T) /\ Cardinality(S \cup T) = Cardinality(S) + Cardinality(T) - Cardinality(S \cap T)
  BY FS_Union
<1>3. Cardinality(S \cap T) = 0
  BY FS_EmptySet
<1> QED BY <1>1, <1>2, <1>3

LEMMA ForkStep ==
  ASSUME IInv, NEW p \in Proc, NEW q \in Proc, fork(p, q)
  PROVE  IInv'
<1> DEFINE copies(f) == {d \in FD : ofile[p][d] = f}
           bag == [f \in File |-> Cardinality(copies(f))]
<1>1. /\ proc[p] = User /\ proc[q] = Unused /\ ofile' = [ofile EXCEPT ![q] = ofile[p]]
      /\ file' = filedup(bag) /\ proc' = [proc EXCEPT ![q] = User] /\ UNCHANGED <<pipe, killed, cut>>
  BY DEF fork, MayCall, Goto
<1>2. /\ TableInv /\ TypeInv /\ RefCounts /\ PlaceInv /\ PlaceOK(q)
      /\ ofile \in [Proc -> [FD -> {0} \cup File]] /\ proc \in [Proc -> Record]
  BY DEF IInv, TableInv, TypeInv, PlaceInv
<1>3. p # q /\ \A d \in FD : ofile[q][d] = 0
  BY <1>1, <1>2, UserIs DEF PlaceOK
<1>4. \A f : IsFiniteSet(copies(f)) /\ Cardinality(copies(f)) \in Nat
  <2>1. \A f : copies(f) \subseteq FD
    OBVIOUS
  <2> HIDE DEF copies
  <2> QED BY <2>1, Finite, FS_Subset, FS_CardinalityType
<1>5. bag \in [File -> Nat] /\ \A f \in File : bag[f] = Cardinality(copies(f))
  BY <1>4
<1>6. \A f \in File : bag[f] # 0 => Shown(f) # {}
  <2>1. ASSUME NEW f \in File, bag[f] # 0 PROVE Shown(f) # {}
    <3>1. copies(f) # {}
      BY <1>5, <2>1, FS_EmptySet
    <3>2. PICK d \in FD : ofile[p][d] = f
      BY <3>1
    <3>3. <<p, d>> \in Shown(f)
      BY <3>2 DEF Shown
    <3> QED BY <3>3
  <2> QED BY <2>1
<1> HIDE DEF bag, copies
<1>7. /\ file' \in [File -> [ref : Nat, pipe : Pages \cup {None}, writable : BOOLEAN]]
      /\ \A f \in File : /\ file'[f].ref = file[f].ref + bag[f]
                         /\ file'[f].pipe = file[f].pipe /\ file'[f].writable = file[f].writable
                         /\ bag[f] = 0 => file'[f] = file[f]
  BY <1>1, <1>2, <1>5, FiledupIs
<1>8. /\ ofile' \in [Proc -> [FD -> {0} \cup File]] /\ ofile'[q] = ofile[p]
      /\ \A s \in Proc \ {q} : ofile'[s] = ofile[s]
      /\ proc' \in [Proc -> Record] /\ proc'[q] = User /\ \A s \in Proc \ {q} : proc'[s] = proc[s]
  BY <1>1, <1>2, UserIs
<1>9. TypeInv'
  BY <1>1, <1>2, <1>7, <1>8 DEF TypeInv
<1>10. RefCounts'
  <2>1. ASSUME NEW f \in File PROVE Counted(f)'
    <3> DEFINE T == {<<q, d>> : d \in copies(f)}
    <3>1. f # 0
      BY PipeAssumption DEF File
    <3>2. Pending(f)' = Pending(f)
      <4>1. proc'[q].files = proc[q].files
        BY <1>1, <1>8 DEF User, Unused
      <4> QED BY <1>8, <4>1, PendingSame DEF Lists
    <3>3. Shown(f)' = Shown(f) \cup T
      <4>1. ASSUME NEW s \in Proc, NEW d \in FD
            PROVE  ofile'[s][d] = f <=> ofile[s][d] = f \/ (s = q /\ d \in copies(f))
        BY <1>3, <1>8, <3>1 DEF copies
      <4>2. ASSUME NEW x \in Proc \X FD
            PROVE  x \in Shown(f)' <=> x \in Shown(f) \cup T
        <5>1. x = <<x[1], x[2]>> /\ x[1] \in Proc /\ x[2] \in FD
          OBVIOUS
        <5>2. x \in Shown(f)' <=> ofile'[x[1]][x[2]] = f
          BY DEF Shown
        <5>3. x \in Shown(f) <=> ofile[x[1]][x[2]] = f
          BY DEF Shown
        <5>4. x \in T <=> x[1] = q /\ x[2] \in copies(f)
          BY <5>1
        <5> QED BY <4>1, <5>1, <5>2, <5>3, <5>4
      <4>3. Shown(f)' \subseteq Proc \X FD /\ Shown(f) \subseteq Proc \X FD /\ T \subseteq Proc \X FD
        BY DEF Shown, copies
      <4> QED BY <4>2, <4>3
    <3>4. Shown(f) \cap T = {}
      <4>1. ASSUME NEW d \in copies(f), <<q, d>> \in Shown(f) PROVE FALSE
        BY <1>3, <3>1, <4>1 DEF Shown, copies
      <4> QED BY <4>1
    <3>5. IsFiniteSet(T) /\ Cardinality(T) = Cardinality(copies(f))
      <4> DEFINE h == [d \in copies(f) |-> <<q, d>>]
      <4>1. /\ h \in [copies(f) -> T] /\ \A x, y \in copies(f) : h[x] = h[y] => x = y
            /\ \A t \in T : \E s \in copies(f) : h[s] = t
        OBVIOUS
      <4>2. T \subseteq Proc \X FD
        BY DEF copies
      <4> HIDE DEF h, T
      <4> QED BY <1>4, <4>1, <4>2, SameSize, Finite, FS_Subset
    <3> HIDE DEF T
    <3>6. Cardinality(Shown(f) \cup T) = Cardinality(Shown(f)) + Cardinality(T)
      BY <3>4, <3>5, Finite, Joined
    <3>7. /\ file[f].ref = Cardinality(Shown(f)) + Cardinality(Pending(f))
          /\ Cardinality(Shown(f)) \in Nat /\ Cardinality(Pending(f)) \in Nat /\ Cardinality(T) \in Nat
      BY <1>2, <1>4, <3>5, Finite DEF RefCounts, Counted
    <3>8. file'[f].ref = file[f].ref + Cardinality(T)
      BY <1>5, <1>7, <3>5
    <3>9. file'[f].ref = Cardinality(Shown(f) \cup T) + Cardinality(Pending(f))
      BY <3>6, <3>7, <3>8
    <3> QED BY <3>2, <3>3, <3>9 DEF Counted
  <2> QED BY <2>1 DEF RefCounts
<1>11. \A f \in File : \/ file'[f] = file[f]
                       \/ /\ Shown(f) # {} /\ file'[f].ref > 0
                          /\ file'[f].pipe = file[f].pipe /\ file'[f].writable = file[f].writable
  <2>1. ASSUME NEW f \in File, bag[f] # 0 PROVE Shown(f) # {} /\ file'[f].ref > 0
    <3>1. file[f].ref \in Nat /\ bag[f] \in Nat
      BY <1>2, <1>5 DEF TypeInv
    <3> QED BY <1>6, <1>7, <2>1, <3>1
  <2> QED BY <1>7, <2>1
<1>12. proc[q].at = "unused" /\ proc'[q].at = "user"
  BY <1>1, <1>8, UserIs
<1>13. PlaceOK(q)'
  BY <1>8, PipeAssumption DEF PlaceOK, Reading, Writing, User, Unused
<1>14. \A s \in Proc \ {q} : proc'[s] = proc[s] /\ ofile'[s] = ofile[s]
  BY <1>8
<1> QED BY <1>1, <1>9, <1>10, <1>11, <1>12, <1>13, <1>14, DescriptorStep

\* The files of a process that goes, in the order of its descriptors.
LEMMA ExitFiles ==
  ASSUME IInv, NEW p \in Proc, exit(p)
  PROVE  \E m \in Nat : \E at \in [1..m -> FD] :
           /\ m <= NOFILE
           /\ \A i \in 1..m : ofile[p][at[i]] # 0
           /\ \A i, j \in 1..m : at[i] = at[j] => i = j
           /\ \A d \in FD : ofile[p][d] # 0 => \E i \in 1..m : at[i] = d
           /\ proc' = [proc EXCEPT ![p] = CloseAll([User EXCEPT !.then = "exit"],
                                                   [i \in 1..m |-> ofile[p][at[i]]])]
<1> DEFINE open == {d \in FD : ofile[p][d] # 0}
           size == Cardinality(open)
           nth == [i \in 1..size |-> CHOOSE d \in open : Cardinality({e \in open : e <= d}) = i]
<1>1. proc' = [proc EXCEPT ![p] = CloseAll([User EXCEPT !.then = "exit"],
                                           [i \in 1..size |-> ofile[p][nth[i]]])]
  BY DEF exit, Goto
<1>2. open \subseteq FD /\ FD \subseteq Nat /\ IsFiniteSet(open) /\ IsFiniteSet(FD)
  <2>1. FD \subseteq Nat
    BY PipeAssumption DEF FD
  <2>2. open \subseteq FD
    OBVIOUS
  <2> HIDE DEF open
  <2> QED BY <2>1, <2>2, Finite, FS_Subset
<1>3. \A d \in FD : d \in open <=> ofile[p][d] # 0
  OBVIOUS
<1>4. Cardinality(FD) = NOFILE
  <2>1. NOFILE \in Nat \ {0} /\ 0 \in Int /\ NOFILE - 1 \in Int
    BY PipeAssumption
  <2>2. Cardinality(0..NOFILE - 1) = IF 0 > NOFILE - 1 THEN 0 ELSE NOFILE - 1 - 0 + 1
    BY <2>1, FS_Interval
  <2> QED BY <2>1, <2>2 DEF FD
<1> HIDE DEF open
<1>5. size \in Nat /\ size <= NOFILE
  BY <1>2, <1>4, FS_Subset, FS_CardinalityType
<1>6. nth = [i \in 1..size |-> CHOOSE d \in open : Rank(open, d) = i]
  BY DEF Rank
<1>7. \A i \in 1..size : nth[i] \in open /\ Rank(open, nth[i]) = i
  <2>1. ASSUME NEW i \in 1..size PROVE nth[i] \in open /\ Rank(open, nth[i]) = i
    <3>1. \E d \in open : Rank(open, d) = i
      <4>1. open \subseteq Nat
        BY <1>2
      <4> QED BY <1>2, <4>1, Ranks
    <3>2. nth[i] = CHOOSE d \in open : Rank(open, d) = i
      BY <1>6
    <3> QED BY <3>1, <3>2
  <2> QED BY <2>1
<1>8. \A d \in open : Rank(open, d) \in 1..size
  <2>1. open \subseteq Nat
    BY <1>2
  <2> QED BY <1>2, <2>1, Ranks
<1>9. \A d, e \in open : Rank(open, d) = Rank(open, e) => d = e
  <2>1. open \subseteq Nat
    BY <1>2
  <2> QED BY <1>2, <2>1, Ranks
<1>10. DOMAIN nth = 1..size /\ nth = [i \in 1..size |-> nth[i]]
  <2>1. \A f : f = [i \in 1..size |-> CHOOSE d \in open : Rank(open, d) = i]
               => DOMAIN f = 1..size /\ f = [i \in 1..size |-> f[i]]
    OBVIOUS
  <2> QED BY <1>6, <2>1
<1> HIDE DEF size, nth
<1>11. nth \in [1..size -> FD]
  BY <1>2, <1>7, <1>10
<1>12. ASSUME NEW d \in FD, ofile[p][d] # 0 PROVE \E i \in 1..size : nth[i] = d
  <2>1. d \in open /\ Rank(open, d) \in 1..size
    BY <1>3, <1>8, <1>12
  <2>2. nth[Rank(open, d)] = d
    BY <1>7, <1>9, <2>1
  <2> QED BY <2>1, <2>2
<1>13. /\ \A i \in 1..size : ofile[p][nth[i]] # 0
       /\ \A i, j \in 1..size : nth[i] = nth[j] => i = j
  <2>1. \A i \in 1..size : ofile[p][nth[i]] # 0
    BY <1>2, <1>3, <1>7
  <2>2. ASSUME NEW i \in 1..size, NEW j \in 1..size, nth[i] = nth[j] PROVE i = j
    BY <1>7, <2>2
  <2> QED BY <2>1, <2>2
<1>14. /\ size <= NOFILE
       /\ \A i \in 1..size : ofile[p][nth[i]] # 0
       /\ \A i, j \in 1..size : nth[i] = nth[j] => i = j
       /\ \A d \in FD : ofile[p][d] # 0 => \E i \in 1..size : nth[i] = d
       /\ proc' = [proc EXCEPT ![p] = CloseAll([User EXCEPT !.then = "exit"],
                                               [i \in 1..size |-> ofile[p][nth[i]]])]
  BY <1>1, <1>5, <1>12, <1>13
<1> HIDE DEF open
<1> SUFFICES \E at \in [1..size -> FD] :
           /\ size <= NOFILE
           /\ \A i \in 1..size : ofile[p][at[i]] # 0
           /\ \A i, j \in 1..size : at[i] = at[j] => i = j
           /\ \A d \in FD : ofile[p][d] # 0 => \E i \in 1..size : at[i] = d
           /\ proc' = [proc EXCEPT ![p] = CloseAll([User EXCEPT !.then = "exit"],
                                                   [i \in 1..size |-> ofile[p][at[i]]])]
  BY <1>5
<1> WITNESS nth \in [1..size -> FD]
<1> QED BY <1>14

LEMMA ExitStep ==
  ASSUME IInv, NEW p \in Proc, exit(p)
  PROVE  IInv'
<1>1. PICK m \in Nat : \E at \in [1..m -> FD] :
           /\ m <= NOFILE
           /\ \A i \in 1..m : ofile[p][at[i]] # 0
           /\ \A i, j \in 1..m : at[i] = at[j] => i = j
           /\ \A d \in FD : ofile[p][d] # 0 => \E i \in 1..m : at[i] = d
           /\ proc' = [proc EXCEPT ![p] = CloseAll([User EXCEPT !.then = "exit"],
                                                   [i \in 1..m |-> ofile[p][at[i]]])]
  BY ExitFiles
<1>2. PICK at \in [1..m -> FD] :
           /\ m <= NOFILE
           /\ \A i \in 1..m : ofile[p][at[i]] # 0
           /\ \A i, j \in 1..m : at[i] = at[j] => i = j
           /\ \A d \in FD : ofile[p][d] # 0 => \E i \in 1..m : at[i] = d
           /\ proc' = [proc EXCEPT ![p] = CloseAll([User EXCEPT !.then = "exit"],
                                                   [i \in 1..m |-> ofile[p][at[i]]])]
  BY <1>1
<1>3. /\ proc[p] = User /\ ofile' = [ofile EXCEPT ![p] = [d \in FD |-> 0]]
      /\ killed' = [killed EXCEPT ![p] = FALSE] /\ UNCHANGED <<file, pipe, cut>>
  BY DEF exit
<1>4. /\ TableInv /\ TypeInv /\ RefCounts /\ PlaceInv
      /\ ofile \in [Proc -> [FD -> {0} \cup File]] /\ proc \in [Proc -> Record]
  BY DEF IInv, TableInv, TypeInv
<1>5. PICK fs : fs = [i \in 1..m |-> ofile[p][at[i]]]
  OBVIOUS
<1>6. /\ fs \in Seq(File) /\ Len(fs) = m /\ DOMAIN fs = 1..m
      /\ \A i \in 1..m : fs[i] = ofile[p][at[i]]
  <2>1. \A i \in 1..m : ofile[p][at[i]] \in File
    <3>1. ASSUME NEW i \in 1..m PROVE ofile[p][at[i]] \in File
      <4>1. at[i] \in FD /\ ofile[p][at[i]] # 0
        BY <1>2
      <4> QED BY <1>4, <4>1
    <3> QED BY <3>1
  <2> QED BY <1>5, <2>1
<1>7. PICK r : r = [User EXCEPT !.then = "exit"]
  OBVIOUS
<1>8. r \in Record /\ r.then = "exit"
  BY <1>7, UserIs DEF Record
<1>9. PICK c : c = CloseAll(r, fs)
  OBVIOUS
<1>10. c \in Record /\ c.files = fs /\ c.at \in {"close", "unused"}
  <2>1. /\ c \in Record /\ c.files = fs /\ fs # <<>> => c.at = "close"
        /\ fs = <<>> => c = Unused
    BY <1>6, <1>8, <1>9, CloseAllIs
  <2> QED BY <2>1, <1>6, <1>8, <1>9, CloseAllIs, UserIs
<1>11. proc' \in [Proc -> Record] /\ proc'[p] = c /\ \A q \in Proc \ {p} : proc'[q] = proc[q]
  <2>1. proc' = [proc EXCEPT ![p] = c]
    BY <1>2, <1>5, <1>7, <1>9
  <2> QED BY <1>4, <1>10, <2>1
<1>12. /\ ofile' \in [Proc -> [FD -> {0} \cup File]]
       /\ \A d \in FD : ofile'[p][d] = 0
       /\ \A q \in Proc \ {p} : ofile'[q] = ofile[q]
  BY <1>3, <1>4
<1>13. PlaceOK(p)'
  <2>1. Len(fs) <= NOFILE + 2
    BY <1>2, <1>6, PipeAssumption
  <2> QED BY <1>6, <1>8, <1>9, <1>11, <1>12, <2>1, CloseAllOK
<1>14. TypeInv'
  <2>1. killed' \in [Proc -> BOOLEAN]
    BY <1>3 DEF IInv, TableInv, TypeInv
  <2> QED BY <1>3, <1>4, <1>11, <1>12, <2>1 DEF TypeInv
<1>15. RefCounts'
  <2>1. ASSUME NEW f \in File PROVE Counted(f)'
    <3> DEFINE I == {i \in 1..m : fs[i] = f}
               A == {<<p, at[i]>> : i \in I}
               B == {<<p, i>> : i \in I}
    <3>1. f # 0
      BY PipeAssumption DEF File
    <3>2. I \subseteq 1..m /\ IsFiniteSet(I)
      <4>1. IsFiniteSet(1..m)
        BY FS_Interval
      <4> QED BY <4>1, FS_Subset
    <3>3. \A i \in 1..m : i \in I <=> ofile[p][at[i]] = f
      BY <1>6
    <3>4. 1..m \subseteq 1..NOFILE + 2
      BY <1>2, PipeAssumption
    <3>5. A \subseteq Proc \X FD /\ B \subseteq Proc \X (1..NOFILE + 2)
      BY <3>2, <3>4
    <3>6. IsFiniteSet(A) /\ Cardinality(A) = Cardinality(I)
      <4> DEFINE h == [i \in I |-> <<p, at[i]>>]
      <4>1. /\ h \in [I -> A] /\ \A x, y \in I : h[x] = h[y] => x = y
            /\ \A t \in A : \E s \in I : h[s] = t
        BY <1>2, <3>2
      <4> HIDE DEF h, A, I
      <4> QED BY <3>2, <3>5, <4>1, SameSize, Finite, FS_Subset
    <3>7. IsFiniteSet(B) /\ Cardinality(B) = Cardinality(I)
      <4> DEFINE h == [i \in I |-> <<p, i>>]
      <4>1. /\ h \in [I -> B] /\ \A x, y \in I : h[x] = h[y] => x = y
            /\ \A t \in B : \E s \in I : h[s] = t
        OBVIOUS
      <4> HIDE DEF h, B, I
      <4>2. IsFiniteSet(B)
        BY <3>5, Finite, FS_Subset
      <4> QED BY <3>2, <4>1, <4>2, SameSize
    <3>8. Shown(f) = Shown(f)' \cup A /\ Shown(f)' \cap A = {}
      <4>1. ASSUME NEW s \in Proc, NEW d \in FD
            PROVE  /\ ofile'[s][d] = f <=> ofile[s][d] = f /\ s # p
                   /\ <<s, d>> \in A <=> ofile[s][d] = f /\ s = p
        <5>1. ofile'[s][d] = f <=> ofile[s][d] = f /\ s # p
          BY <1>12, <3>1
        <5>2. ASSUME ofile[p][d] = f PROVE <<p, d>> \in A
          <6>1. PICK i \in 1..m : at[i] = d
            BY <1>2, <3>1, <5>2
          <6>2. i \in I
            BY <3>3, <5>2, <6>1
          <6> QED BY <6>1, <6>2
        <5>3. ASSUME <<s, d>> \in A PROVE s = p /\ ofile[p][d] = f
          <6>1. PICK i \in I : <<s, d>> = <<p, at[i]>>
            BY <5>3
          <6> QED BY <3>2, <3>3, <6>1
        <5> QED BY <5>1, <5>2, <5>3
      <4> HIDE DEF A
      <4>2. ASSUME NEW x \in Proc \X FD
            PROVE  /\ x \in Shown(f)' <=> x \in Shown(f) /\ x[1] # p
                   /\ x \in A <=> x \in Shown(f) /\ x[1] = p
        <5>1. x = <<x[1], x[2]>> /\ x[1] \in Proc /\ x[2] \in FD
          OBVIOUS
        <5>2. /\ x \in Shown(f)' <=> ofile'[x[1]][x[2]] = f
              /\ x \in Shown(f) <=> ofile[x[1]][x[2]] = f
          BY DEF Shown
        <5>3. x \in A <=> ofile[x[1]][x[2]] = f /\ x[1] = p
          BY <4>1, <5>1
        <5>4. ofile'[x[1]][x[2]] = f <=> ofile[x[1]][x[2]] = f /\ x[1] # p
          BY <4>1, <5>1
        <5> QED BY <5>2, <5>3, <5>4
      <4>3. Shown(f)' \subseteq Proc \X FD /\ Shown(f) \subseteq Proc \X FD
        BY DEF Shown
      <4> QED BY <3>5, <4>2, <4>3
    <3>9. Pending(f)' = Pending(f) \cup B /\ Pending(f) \cap B = {}
      <4>1. \A i : ~Lists(p, i, f)
        <5>1. DOMAIN proc[p].files = {}
          BY <1>3, UserIs
        <5> QED BY <5>1 DEF Lists
      <4>2. \A i : Lists(p, i, f)' <=> i \in I
        BY <1>6, <1>10, <1>11 DEF Lists
      <4>3. \A s \in Proc \ {p} : \A i : Lists(s, i, f)' <=> Lists(s, i, f)
        BY <1>11 DEF Lists
      <4>4. ASSUME NEW x \in Proc \X (1..NOFILE + 2)
            PROVE  /\ x \in Pending(f)' <=> x \in Pending(f) \/ x \in B
                   /\ ~(x \in Pending(f) /\ x \in B)
        <5>1. x = <<x[1], x[2]>> /\ x[1] \in Proc /\ x[2] \in 1..NOFILE + 2
          OBVIOUS
        <5>2. /\ x \in Pending(f)' <=> Lists(x[1], x[2], f)'
              /\ x \in Pending(f) <=> Lists(x[1], x[2], f)
          BY DEF Pending, Lists
        <5>3. x \in B <=> x[1] = p /\ x[2] \in I
          BY <5>1
        <5> QED BY <4>1, <4>2, <4>3, <5>1, <5>2, <5>3
      <4>5. Pending(f)' \subseteq Proc \X (1..NOFILE + 2) /\ Pending(f) \subseteq Proc \X (1..NOFILE + 2)
        BY DEF Pending
      <4> HIDE DEF B, I
      <4> QED BY <3>5, <4>4, <4>5
    <3> HIDE DEF A, B, I
    <3>10. IsFiniteSet(Shown(f)')
      BY <3>5, <3>8, Finite, FS_Subset
    <3>11. /\ Cardinality(Shown(f)) = Cardinality(Shown(f)') + Cardinality(A)
           /\ Cardinality(Shown(f)') \in Nat /\ Cardinality(A) \in Nat
      <4> DEFINE S == Shown(f)'
      <4>1. IsFiniteSet(S) /\ Shown(f) = S \cup A /\ S \cap A = {}
        BY <3>8, <3>10
      <4> HIDE DEF S
      <4>2. Cardinality(S \cup A) = Cardinality(S) + Cardinality(A)
            /\ Cardinality(S) \in Nat /\ Cardinality(A) \in Nat
        BY <3>6, <4>1, Joined
      <4> QED BY <4>1, <4>2 DEF S
    <3>12. /\ Cardinality(Pending(f)') = Cardinality(Pending(f)) + Cardinality(B)
           /\ Cardinality(Pending(f)) \in Nat
      <4>1. Cardinality(Pending(f) \cup B) = Cardinality(Pending(f)) + Cardinality(B)
        BY <3>7, <3>9, Finite, Joined
      <4> QED BY <3>9, <4>1, Finite
    <3>13. file[f].ref = Cardinality(Shown(f)) + Cardinality(Pending(f))
      BY <1>4 DEF RefCounts, Counted
    <3>14. Cardinality(B) = Cardinality(A)
      BY <3>6, <3>7
    <3>15. file[f].ref = Cardinality(Shown(f)') + Cardinality(Pending(f)')
      BY <3>11, <3>12, <3>13, <3>14
    <3> QED BY <1>3, <3>15 DEF Counted
  <2> QED BY <2>1 DEF RefCounts
<1>16. /\ \A i \in File : file'[i] = file[i]
       /\ \A q \in Proc \ {p} : proc'[q] = proc[q] /\ ofile'[q] = ofile[q]
       /\ proc[p].at = "user" /\ proc'[p].at \in {"close", "unused"}
  BY <1>3, <1>10, <1>11, <1>12, UserIs
<1> QED BY <1>3, <1>13, <1>14, <1>15, <1>16, DescriptorStep

-----------------------------------------------------------------------------
(* A page becomes a pipe.                                                  *)

NewPipe == [NoPipe EXCEPT !.used = TRUE, !.readopen = TRUE, !.writeopen = TRUE]

\* What the assignments of pipealloc() make of the two files
LEMMA EndFiles ==
  ASSUME NEW F, F = [ref : Nat, pipe : Pages \cup {None}, writable : BOOLEAN],
         file \in [File -> F], NEW rf \in File, NEW wf \in File, rf # wf,
         file[rf] = Fresh, file[wf] = Fresh, NEW g \in Pages,
         file' = [file EXCEPT ![rf].pipe = g, ![rf].writable = FALSE,
                              ![wf].pipe = g, ![wf].writable = TRUE]
  PROVE  /\ file' \in [File -> F]
         /\ file'[rf] = [ref |-> 1, pipe |-> g, writable |-> FALSE]
         /\ file'[wf] = [ref |-> 1, pipe |-> g, writable |-> TRUE]
         /\ \A f \in File \ {rf, wf} : file'[f] = file[f]
<1>1. Fresh = [ref |-> 1, pipe |-> None, writable |-> FALSE]
  BY DEF Fresh, NoFile
<1> DEFINE f1 == [file EXCEPT ![rf].pipe = g]
           f2 == [f1 EXCEPT ![rf].writable = FALSE]
           f3 == [f2 EXCEPT ![wf].pipe = g]
           f4 == [f3 EXCEPT ![wf].writable = TRUE]
<1>2. file' = f4
  OBVIOUS
<1>3. f1 = [file EXCEPT ![rf] = [file[rf] EXCEPT !.pipe = g]]
  OBVIOUS
<1>4. f2 = [f1 EXCEPT ![rf] = [f1[rf] EXCEPT !.writable = FALSE]]
  OBVIOUS
<1>5. f3 = [f2 EXCEPT ![wf] = [f2[wf] EXCEPT !.pipe = g]]
  OBVIOUS
<1>6. f4 = [f3 EXCEPT ![wf] = [f3[wf] EXCEPT !.writable = TRUE]]
  OBVIOUS
<1> HIDE DEF f1, f2, f3, f4
<1>7. /\ f1 \in [File -> F] /\ f1[rf] = [ref |-> 1, pipe |-> g, writable |-> FALSE]
      /\ \A f \in File \ {rf} : f1[f] = file[f]
  BY <1>1, <1>3
<1>8. /\ f2 \in [File -> F] /\ f2[rf] = [ref |-> 1, pipe |-> g, writable |-> FALSE]
      /\ \A f \in File \ {rf} : f2[f] = f1[f]
  BY <1>4, <1>7
<1>9. /\ f3 \in [File -> F] /\ f3[wf] = [ref |-> 1, pipe |-> g, writable |-> FALSE]
      /\ \A f \in File \ {wf} : f3[f] = f2[f]
  BY <1>1, <1>5, <1>7, <1>8
<1>10. /\ f4 \in [File -> F] /\ f4[wf] = [ref |-> 1, pipe |-> g, writable |-> TRUE]
       /\ \A f \in File \ {wf} : f4[f] = f3[f]
  BY <1>6, <1>9
<1> QED BY <1>7, <1>8, <1>9, <1>10

\* Both files of process p become the ends of pipe g, wherever p goes with them.
EndsMade(p, rf, wf, g) ==
  /\ rf # wf /\ file[rf] = Fresh /\ file[wf] = Fresh
  /\ Shown(rf) = {} /\ Pending(rf) = {<<p, 1>>} /\ Shown(wf) = {} /\ Pending(wf) = {<<p, 2>>}
  /\ ~pipe[g].used /\ pipe' = [pipe EXCEPT ![g] = NewPipe]
  /\ file' \in [File -> [ref : Nat, pipe : Pages \cup {None}, writable : BOOLEAN]]
  /\ file'[rf] = [ref |-> 1, pipe |-> g, writable |-> FALSE]
  /\ file'[wf] = [ref |-> 1, pipe |-> g, writable |-> TRUE]
  /\ \A f \in File \ {rf, wf} : file'[f] = file[f]
  /\ UNCHANGED <<killed, cut>>

LEMMA NewEnds ==
  ASSUME IInv, NEW p \in Proc, proc[p].at = "pipealloc",
         NEW rf \in File, NEW wf \in File, NEW g \in Pages, EndsMade(p, rf, wf, g),
         proc' \in [Proc -> Record], ofile' \in [Proc -> [FD -> {0} \cup File]],
         \A q \in Proc \ {p} : proc'[q] = proc[q] /\ ofile'[q] = ofile[q],
         PlaceOK(p)', UserOK(p)', FilesFresh(p)', SleepOK(p)', \A h, w : ~Closes(p, h, w)',
         RefCounts'
  PROVE  IInv'
<1> USE DEF EndsMade
<1>1. /\ TableInv /\ TypeInv /\ RefCounts /\ PlaceInv /\ EndInv /\ FileInv /\ PageInv /\ SleepInv
      /\ file \in [File -> [ref : Nat, pipe : Pages \cup {None}, writable : BOOLEAN]]
      /\ killed \in [Proc -> BOOLEAN] /\ cut \subseteq Pages
  BY DEF IInv, TableInv, TypeInv
<1>2. NewPipe \in Ring /\ pipe' \in [Pages -> Ring] /\ pipe'[g] = NewPipe
      /\ \A h \in Pages \ {g} : pipe'[h] = pipe[h]
  <2>1. NewPipe \in Ring
    BY NoPipeIs DEF NewPipe, Ring
  <2> QED BY <1>1, <2>1, RingType
<1>3. NewPipe.used /\ NewPipe.readopen /\ NewPipe.writeopen /\ NewPipe.nread = 0 /\ NewPipe.nwrite = 0
  BY NoPipeIs DEF NewPipe, Ring
<1>4. /\ \A wr \in BOOLEAN : /\ ~IsOpen(g, wr)
                             /\ \A f \in File : ~IsEnd(f, g, wr)
                             /\ \A q \in Proc : ~Closes(q, g, wr)
      /\ \A q \in Proc : proc[q].pg = g => proc[q].at \notin Reading \cup Writing
  BY FreePage
<1>5. ASSUME NEW q \in Proc \ {p}
      PROVE  /\ PlaceOK(q)' /\ UserOK(q)' /\ FilesFresh(q)'
             /\ \A h, wr : Closes(q, h, wr)' <=> Closes(q, h, wr)
  <2>1. \A d \in FD : ofile[q][d] # rf /\ ofile[q][d] # wf
    <3>1. ASSUME NEW d \in FD, ofile[q][d] \in {rf, wf} PROVE FALSE
      <4>1. <<q, d>> \in Shown(ofile[q][d])
        BY DEF Shown
      <4> QED BY <3>1, <4>1
    <3> QED BY <3>1
  <2>2. \A d \in FD : ofile[q][d] # 0 => ofile[q][d] \in File
    BY <1>1 DEF TypeInv
  <2>3. \A d \in FD : ofile[q][d] # 0 => \A h \in Pages, wr \in BOOLEAN :
            IsEnd(ofile[q][d], h, wr) => /\ file'[ofile[q][d]].pipe = h
                                         /\ file'[ofile[q][d]].writable = wr
    BY <2>1, <2>2 DEF IsEnd
  <2>4. ASSUME NEW i \in DOMAIN proc[q].files
        PROVE  file'[proc[q].files[i]] = file[proc[q].files[i]]
    <3>1. proc[q].files[i] \in File /\ <<q, i>> \in Pending(proc[q].files[i])
      BY <1>1, OwnRef
    <3>2. proc[q].files[i] # rf /\ proc[q].files[i] # wf
      BY <3>1
    <3> QED BY <3>1, <3>2
  <2> QED BY <1>1, <2>3, <2>4, OthersOK
<1>6. EndInv'
  <2> SUFFICES ASSUME NEW h \in Pages, NEW w \in BOOLEAN
               PROVE  /\ \A e, i \in File : IsEnd(e, h, w)' /\ IsEnd(i, h, w)' => e = i
                      /\ \A q \in Proc, e \in File : ~(Closes(q, h, w)' /\ IsEnd(e, h, w)')
                      /\ \A q, s \in Proc : Closes(q, h, w)' /\ Closes(s, h, w)' => q = s
                      /\ IsOpen(h, w)' <=> \/ \E e \in File : IsEnd(e, h, w)'
                                           \/ \E q \in Proc : Closes(q, h, w)'
    BY DEF EndInv
  <2>1. \A q \in Proc : Closes(q, h, w)' <=> Closes(q, h, w)
    <3>1. ~Closes(p, h, w)
      BY DEF Closes
    <3> QED BY <1>5, <3>1
  <2>2. CASE h = g
    <3>1. \A e \in File \ {rf, wf} : ~IsEnd(e, h, w)'
      BY <1>4, <2>2 DEF IsEnd
    <3>2. IsEnd(rf, h, FALSE)' /\ ~IsEnd(rf, h, TRUE)'
      BY <2>2 DEF IsEnd
    <3>3. IsEnd(wf, h, TRUE)' /\ ~IsEnd(wf, h, FALSE)'
      BY <2>2 DEF IsEnd
    <3>4. IsOpen(h, w)'
      BY <1>2, <1>3, <2>2 DEF IsOpen
    <3>5. \A q \in Proc : ~Closes(q, h, w)'
      BY <1>4, <2>1, <2>2
    <3>6. CASE w = TRUE
      BY <3>1, <3>2, <3>3, <3>4, <3>5, <3>6
    <3>7. CASE w = FALSE
      BY <3>1, <3>2, <3>3, <3>4, <3>5, <3>7
    <3> QED BY <3>6, <3>7
  <2>3. CASE h # g
    <3>1. Fresh.pipe # h
      BY PipeAssumption DEF Fresh, NoFile
    <3>2. \A e \in File : IsEnd(e, h, w)' <=> IsEnd(e, h, w)
      <4>1. ~IsEnd(rf, h, w)' /\ ~IsEnd(wf, h, w)' /\ ~IsEnd(rf, h, w) /\ ~IsEnd(wf, h, w)
        <5>1. file'[rf].pipe = g /\ file'[wf].pipe = g
          OBVIOUS
        <5>2. file[rf].pipe # h /\ file[wf].pipe # h
          BY <3>1
        <5> QED BY <2>3, <5>1, <5>2 DEF IsEnd
      <4>2. \A e \in File \ {rf, wf} : IsEnd(e, h, w)' <=> IsEnd(e, h, w)
        BY DEF IsEnd
      <4> QED BY <4>1, <4>2
    <3>3. IsOpen(h, w)' <=> IsOpen(h, w)
      BY <1>2, <2>3 DEF IsOpen
    <3>4. /\ \A e, i \in File : IsEnd(e, h, w) /\ IsEnd(i, h, w) => e = i
          /\ \A q \in Proc, e \in File : ~(Closes(q, h, w) /\ IsEnd(e, h, w))
          /\ \A q, s \in Proc : Closes(q, h, w) /\ Closes(s, h, w) => q = s
          /\ IsOpen(h, w) <=> \/ \E e \in File : IsEnd(e, h, w)
                              \/ \E q \in Proc : Closes(q, h, w)
      <4>1. EndInv
        BY <1>1
      <4> QED BY <4>1, EndsAt, SMTT(20)
    <3> QED BY <2>1, <3>2, <3>3, <3>4
  <2> QED BY <2>2, <2>3
<1>7. FileInv'
  <2>1. \A f \in File \ {rf, wf} : FileOK(f)'
    BY <1>1 DEF FileInv, FileOK
  <2>2. FileOK(rf)' /\ FileOK(wf)'
    BY PipeAssumption DEF FileOK
  <2> QED BY <1>5, <2>1, <2>2 DEF FileInv
<1>8. TypeInv'
  BY <1>1, <1>2 DEF TypeInv, Ring
<1>9. TableInv'
  BY <1>5, <1>6, <1>7, <1>8 DEF TableInv, PlaceInv, UserInv
<1>10. PageInv'
  <2>1. PageOK(g)'
    <3>1. Held(g)' = 0
      <4>1. 0 \in 0..WRAP - 1
        BY PipeAssumption
      <4>2. Empty(g)'
        BY <1>2, <1>3 DEF Empty
      <4> QED BY <1>2, <1>3, <4>1, <4>2, HeldTellsNext
    <3>2. Held(g)' <= PIPESIZE
      BY <3>1, PipeAssumption
    <3> QED BY <1>2, <1>3, <3>2 DEF PageOK
  <2>2. \A h \in Pages \ {g} : PageOK(h)'
    BY <1>1, <1>2, PageKeep DEF PageInv
  <2> QED BY <2>1, <2>2 DEF PageInv
<1>11. SleepInv'
  <2>1. ASSUME NEW q \in Proc \ {p} PROVE SleepOK(q)'
    <3>1. proc'[q] = proc[q]
      OBVIOUS
    <3>2. CASE proc[q].at \in Reading \cup Writing
      <4>1. proc[q].pg \in Pages /\ proc[q].pg # g
        BY <1>1, <1>4, <3>2, OpenAt
      <4>2. pipe'[proc[q].pg] = pipe[proc[q].pg] /\ SleepOK(q)
        BY <1>1, <1>2, <4>1 DEF SleepInv
      <4> QED BY <3>1, <4>2, SleepKeep
    <3>3. CASE proc[q].at \notin Reading \cup Writing
      <4>1. proc'[q].at \notin {"dozeread", "dozewrite", "sleepread", "sleepwrite"}
        BY <3>1, <3>3 DEF Reading, Writing
      <4> QED BY <4>1, AwakeOK
    <3> QED BY <3>2, <3>3
  <2> QED BY <2>1 DEF SleepInv
<1> QED BY <1>9, <1>10, <1>11 DEF IInv

LEMMA TwoDescriptors ==
  ASSUME TypeInv, NEW p \in Proc, Cardinality(FreeFDs(p)) >= 2,
         NEW d, d = Lowest(FreeFDs(p)), NEW e, e = Lowest(FreeFDs(p) \ {d})
  PROVE  d \in FD /\ e \in FD /\ d # e /\ ofile[p][d] = 0 /\ ofile[p][e] = 0
<1> DEFINE S == FreeFDs(p)
<1>1. IsFiniteSet(S)
  <2>1. S \subseteq FD
    BY DEF FreeFDs
  <2> HIDE DEF S
  <2> QED BY <2>1, Finite, FS_Subset
<1>2. Cardinality(S) \in Nat /\ Cardinality(S) >= 2
  BY <1>1, FS_CardinalityType
<1>3. S # {}
  <2> HIDE DEF S
  <2> QED BY <1>2, FS_EmptySet
<1>4. d \in S /\ d \in FD /\ ofile[p][d] = 0
  BY <1>3, FreeFDIs
<1>5. S \ {d} # {}
  <2> HIDE DEF S
  <2>1. IsFiniteSet(S \ {d}) /\ Cardinality(S \ {d}) = Cardinality(S) - 1
    BY <1>1, <1>4, FS_RemoveElement
  <2>2. Cardinality(S \ {d}) # 0
    BY <1>2, <2>1
  <2> QED BY <2>2, FS_EmptySet
<1>6. e \in S \ {d} /\ e \in FD /\ ofile[p][e] = 0
  <2>1. S \ {d} \subseteq FreeFDs(p)
    OBVIOUS
  <2> QED BY <1>5, <2>1, FreeFDIs
<1> QED BY <1>4, <1>6

\* The references when both files get a descriptor.
TwoNew(p, rf, wf) ==
  /\ rf # wf
  /\ Shown(rf) = {} /\ Pending(rf) = {<<p, 1>>} /\ Shown(wf) = {} /\ Pending(wf) = {<<p, 2>>}
  /\ \A i \in DOMAIN proc[p].files : proc[p].files[i] = rf \/ proc[p].files[i] = wf
  /\ proc'[p].files = <<>>

TwoShown(p, rf, wf, d, e) ==
  /\ d # e /\ ofile[p][d] = 0 /\ ofile[p][e] = 0 /\ ofile'[p][d] = rf /\ ofile'[p][e] = wf
  /\ \A c \in FD \ {d, e} : ofile'[p][c] = ofile[p][c]

LEMMA HandedOut ==
  ASSUME TypeInv, RefCounts, NEW p \in Proc, NEW rf \in File, NEW wf \in File,
         NEW d \in FD, NEW e \in FD, TwoNew(p, rf, wf), TwoShown(p, rf, wf, d, e),
         \A f \in File : file'[f].ref = file[f].ref,
         \A q \in Proc \ {p} : proc'[q] = proc[q] /\ ofile'[q] = ofile[q]
  PROVE  RefCounts'
<1> USE DEF TwoNew, TwoShown
<1>1. ASSUME NEW f \in File PROVE Counted(f)'
  <2>1. f # 0
    BY PipeAssumption DEF File
  <2>2. /\ file[f].ref = Cardinality(Shown(f)) + Cardinality(Pending(f))
        /\ Cardinality(Shown(f)) \in Nat /\ Cardinality(Pending(f)) \in Nat
    BY Finite DEF RefCounts, Counted
  <2>3. \A i : ~Lists(p, i, f)'
    BY DEF Lists
  <2>4. \A q \in Proc \ {p} : \A i : Lists(q, i, f)' <=> Lists(q, i, f)
    BY DEF Lists
  <2>5. CASE f # rf /\ f # wf
    <3>1. \A q \in Proc, c \in FD : ofile'[q][c] = f <=> ofile[q][c] = f
      BY <2>1, <2>5
    <3>2. Shown(f)' = Shown(f)
      BY <3>1, ShownSame
    <3>3. \A i : ~Lists(p, i, f)
      BY <2>5 DEF Lists
    <3>4. Pending(f)' = Pending(f)
      BY <2>3, <2>4, <3>3, PendingSame
    <3> QED BY <3>2, <3>4, CountSame DEF RefCounts
  <2>6. ASSUME NEW h \in {rf, wf}, NEW c \in FD, h = f, ofile[p][c] = 0,
               \A q \in Proc, b \in FD : ofile'[q][b] = f <=> ofile[q][b] = f \/ (q = p /\ b = c),
               Shown(f) = {}, \E i : Pending(f) = {<<p, i>>}
        PROVE  Counted(f)'
    <3>1. Cardinality(Shown(f)') = Cardinality(Shown(f)) + 1
      BY <2>1, <2>6, ShownMore
    <3>2. Cardinality(Shown(f)) = 0 /\ Cardinality(Pending(f)) = 1
      <4>1. PICK i : Pending(f) = {<<p, i>>}
        BY <2>6
      <4>2. PICK x : x = <<p, i>>
        OBVIOUS
      <4>3. Cardinality({x}) = 1
        BY FS_Singleton
      <4>4. Cardinality(Shown(f)) = 0
        BY <2>6, FS_EmptySet
      <4> QED BY <4>1, <4>2, <4>3, <4>4
    <3>3. Pending(f)' = {}
      <4>1. ASSUME NEW x \in Pending(f)' PROVE FALSE
        <5>1. x = <<x[1], x[2]>> /\ x[1] \in Proc /\ Lists(x[1], x[2], f)'
          BY DEF Pending, Lists
        <5>2. x[1] # p /\ Lists(x[1], x[2], f)
          BY <2>3, <2>4, <5>1
        <5>3. x \in Pending(f)
          BY <5>1, <5>2 DEF Pending, Lists
        <5> QED BY <2>6, <5>2, <5>3
      <4> QED BY <4>1
    <3>4. Cardinality(Pending(f)') = 0
      BY <3>3, FS_EmptySet
    <3>5. file'[f].ref = Cardinality(Shown(f)') + Cardinality(Pending(f)')
      BY <2>2, <3>1, <3>2, <3>4
    <3> QED BY <3>5 DEF Counted
  <2>7. CASE f = rf
    <3>1. \A q \in Proc, b \in FD : ofile'[q][b] = f <=> ofile[q][b] = f \/ (q = p /\ b = d)
      BY <2>1, <2>7
    <3> QED BY <2>6, <2>7, <3>1
  <2>8. CASE f = wf
    <3>1. \A q \in Proc, b \in FD : ofile'[q][b] = f <=> ofile[q][b] = f \/ (q = p /\ b = e)
      BY <2>1, <2>8
    <3> QED BY <2>6, <2>8, <3>1
  <2> QED BY <2>5, <2>7, <2>8
<1> QED BY <1>1 DEF RefCounts

LEMMA AllocStep ==
  ASSUME IInv, NEW p \in Proc, pipealloc(p)
  PROVE  IInv'
<1>1. proc[p].at = "pipealloc" /\ Len(proc[p].files) = 2 /\ UNCHANGED <<killed, cut>>
  BY DEF pipealloc
<1>2. CASE /\ proc' = [proc EXCEPT ![p] = CloseAll(proc[p], proc[p].files)]
           /\ UNCHANGED <<file, ofile, pipe>>
  BY <1>1, <1>2, DropStep
<1>3. CASE \E g \in Pages :
             LET rf == proc[p].files[1]
                 wf == proc[p].files[2]
                 fd0 == Lowest(FreeFDs(p))
                 fd1 == Lowest(FreeFDs(p) \ {fd0})
             IN  /\ ~pipe[g].used
                 /\ pipe' = [pipe EXCEPT ![g] = NewPipe]
                 /\ file' = [file EXCEPT ![rf].pipe = g, ![rf].writable = FALSE,
                                         ![wf].pipe = g, ![wf].writable = TRUE]
                 /\ \/ /\ Cardinality(FreeFDs(p)) >= 2
                       /\ ofile' = [ofile EXCEPT ![p][fd0] = rf, ![p][fd1] = wf]
                       /\ proc' = [proc EXCEPT ![p] = User]
                    \/ /\ proc' = [proc EXCEPT ![p] = CloseAll(proc[p], proc[p].files)]
                       /\ UNCHANGED ofile
  <2>0. PICK rf : rf = proc[p].files[1]
    OBVIOUS
  <2>01. PICK wf : wf = proc[p].files[2]
    OBVIOUS
  <2>02. PICK d : d = Lowest(FreeFDs(p))
    OBVIOUS
  <2>03. PICK e : e = Lowest(FreeFDs(p) \ {d})
    OBVIOUS
  <2>1. PICK g \in Pages :
                 /\ ~pipe[g].used
                 /\ pipe' = [pipe EXCEPT ![g] = NewPipe]
                 /\ file' = [file EXCEPT ![rf].pipe = g, ![rf].writable = FALSE,
                                         ![wf].pipe = g, ![wf].writable = TRUE]
                 /\ \/ /\ Cardinality(FreeFDs(p)) >= 2
                       /\ ofile' = [ofile EXCEPT ![p][d] = rf, ![p][e] = wf]
                       /\ proc' = [proc EXCEPT ![p] = User]
                    \/ /\ proc' = [proc EXCEPT ![p] = CloseAll(proc[p], proc[p].files)]
                       /\ UNCHANGED ofile
    BY <1>3, <2>0, <2>01, <2>02, <2>03
  <2>2. /\ rf \in File /\ wf \in File /\ rf # wf /\ file[rf] = Fresh /\ file[wf] = Fresh
        /\ Shown(rf) = {} /\ Pending(rf) = {<<p, 1>>}
        /\ Shown(wf) = {} /\ Pending(wf) = {<<p, 2>>}
    BY <1>1, <2>0, <2>01, TwoFiles
  <2>3. /\ TypeInv /\ RefCounts /\ PlaceInv /\ PlaceOK(p)
        /\ file \in [File -> [ref : Nat, pipe : Pages \cup {None}, writable : BOOLEAN]]
        /\ ofile \in [Proc -> [FD -> {0} \cup File]] /\ proc \in [Proc -> Record]
        /\ proc[p] \in Record
    BY DEF IInv, TableInv, TypeInv, PlaceInv
  <2>4. /\ file' \in [File -> [ref : Nat, pipe : Pages \cup {None}, writable : BOOLEAN]]
        /\ file'[rf] = [ref |-> 1, pipe |-> g, writable |-> FALSE]
        /\ file'[wf] = [ref |-> 1, pipe |-> g, writable |-> TRUE]
        /\ \A f \in File \ {rf, wf} : file'[f] = file[f]
    BY <2>1, <2>2, <2>3, EndFiles
  <2>5. \A f \in File : file'[f].ref = file[f].ref
    BY <2>2, <2>4 DEF Fresh, NoFile
  <2>10. g \in Pages /\ rf \in File /\ wf \in File /\ EndsMade(p, rf, wf, g)
    BY <1>1, <2>1, <2>2, <2>4 DEF EndsMade
  <2>6. PICK fs : fs = proc[p].files
    OBVIOUS
  <2>7. fs \in Seq(File) /\ Len(fs) = 2 /\ fs # <<>> /\ Len(fs) <= NOFILE + 2
        /\ \A i \in DOMAIN fs : fs[i] = rf \/ fs[i] = wf
    <3>1. fs \in Seq(File) /\ Len(fs) = 2
      BY <1>1, <2>3, <2>6 DEF Record
    <3>2. DOMAIN fs = {1, 2} /\ fs # <<>>
      <4>1. DOMAIN fs = 1..2
        BY <3>1
      <4>2. 1..2 = {1, 2}
        OBVIOUS
      <4>3. 1 \in DOMAIN fs
        BY <4>1, <4>2
      <4>4. fs # <<>>
        BY <4>3
      <4> QED BY <4>1, <4>2, <4>4
    <3>3. 2 <= NOFILE + 2
      BY PipeAssumption
    <3> QED BY <2>0, <2>01, <2>6, <3>1, <3>2, <3>3
  <2>8. CASE /\ Cardinality(FreeFDs(p)) >= 2
             /\ ofile' = [ofile EXCEPT ![p][d] = rf, ![p][e] = wf]
             /\ proc' = [proc EXCEPT ![p] = User]
    <3>1. d \in FD /\ e \in FD /\ d # e /\ ofile[p][d] = 0 /\ ofile[p][e] = 0
      BY <2>02, <2>03, <2>3, <2>8, TwoDescriptors
    <3>2. /\ ofile' \in [Proc -> [FD -> {0} \cup File]]
          /\ ofile'[p][d] = rf /\ ofile'[p][e] = wf
          /\ \A c \in FD \ {d, e} : ofile'[p][c] = ofile[p][c]
          /\ \A q \in Proc \ {p} : ofile'[q] = ofile[q]
      <4> DEFINE o1 == [ofile EXCEPT ![p][d] = rf]
                 o2 == [o1 EXCEPT ![p][e] = wf]
      <4>1. ofile' = o2
        BY <2>8
      <4>2. o1 = [ofile EXCEPT ![p] = [ofile[p] EXCEPT ![d] = rf]]
        OBVIOUS
      <4>3. o2 = [o1 EXCEPT ![p] = [o1[p] EXCEPT ![e] = wf]]
        OBVIOUS
      <4> HIDE DEF o1, o2
      <4>4. /\ o1 \in [Proc -> [FD -> {0} \cup File]] /\ o1[p] = [ofile[p] EXCEPT ![d] = rf]
            /\ \A q \in Proc \ {p} : o1[q] = ofile[q]
        BY <2>2, <2>3, <3>1, <4>2
      <4>5. /\ o2 \in [Proc -> [FD -> {0} \cup File]] /\ o2[p] = [o1[p] EXCEPT ![e] = wf]
            /\ \A q \in Proc \ {p} : o2[q] = o1[q]
        BY <2>2, <3>1, <4>3, <4>4
      <4>6. ofile[p] \in [FD -> {0} \cup File] /\ o1[p] \in [FD -> {0} \cup File]
        BY <2>3, <4>4
      <4> QED BY <3>1, <4>1, <4>4, <4>5, <4>6
    <3>3. /\ proc' \in [Proc -> Record] /\ proc'[p] = User
          /\ \A q \in Proc \ {p} : proc'[q] = proc[q] /\ ofile'[q] = ofile[q]
      BY <2>3, <2>8, <3>2, UserIs
    <3>4. RefCounts'
      <4>1. proc'[p].files = <<>>
        BY <3>3, UserIs
      <4>2. \A i \in DOMAIN proc[p].files : proc[p].files[i] = rf \/ proc[p].files[i] = wf
        BY <2>6, <2>7
      <4>3. TypeInv /\ RefCounts
        BY <2>3
      <4>4. \A q \in Proc \ {p} : proc'[q] = proc[q] /\ ofile'[q] = ofile[q]
        BY <3>3
      <4>5. rf \in File /\ wf \in File /\ TwoNew(p, rf, wf)
        BY <2>2, <4>1, <4>2 DEF TwoNew
      <4>6. d \in FD /\ e \in FD /\ TwoShown(p, rf, wf, d, e)
        BY <3>1, <3>2 DEF TwoShown
      <4> QED BY <2>5, <4>3, <4>4, <4>5, <4>6, HandedOut
    <3>5. PlaceOK(p)'
      BY <3>3, PipeAssumption DEF PlaceOK, Reading, Writing, User, Unused
    <3>6. UserOK(p)' /\ FilesFresh(p)' /\ SleepOK(p)' /\ \A h, w : ~Closes(p, h, w)'
      BY <3>3, UserIs DEF UserOK, FilesFresh, SleepOK, Closes, Reading, Writing
    <3> QED BY <1>1, <2>10, <3>2, <3>3, <3>4, <3>5, <3>6, NewEnds
  <2>9. CASE /\ proc' = [proc EXCEPT ![p] = CloseAll(proc[p], proc[p].files)]
             /\ UNCHANGED ofile
    <3>1. PICK c : c = CloseAll(proc[p], fs)
      OBVIOUS
    <3>2. c \in Record /\ c.files = fs
      BY <2>3, <2>7, <3>1, CloseAllIs
    <3>3. proc' \in [Proc -> Record] /\ proc'[p] = c /\ \A q \in Proc \ {p} : proc'[q] = proc[q]
      <4>1. proc' = [proc EXCEPT ![p] = c]
        BY <2>6, <2>9, <3>1
      <4> QED BY <2>3, <3>2, <4>1
    <3>4. proc[p].then # "exit"
      BY <1>1, <2>3 DEF PlaceOK
    <3>5. /\ PlaceOK(p)' /\ UserOK(p)' /\ FilesFresh(p)' /\ SleepOK(p)'
          /\ \A h, w : ~Closes(p, h, w)'
      <4>1. proc'[p] = CloseAll(proc[p], fs) /\ proc[p] \in Record
        BY <2>3, <3>1, <3>3
      <4>2. fs \in Seq(File) /\ Len(fs) <= NOFILE + 2
        BY <2>7
      <4> QED BY <3>4, <4>1, <4>2, CloseAllOK
    <3>6. RefCounts'
      <4>1. ASSUME NEW f \in File PROVE Counted(f)'
        <5>1. Shown(f)' = Shown(f)
          BY <2>9, ShownSame
        <5>2. \A q \in Proc : proc'[q].files = proc[q].files
          BY <2>6, <3>2, <3>3
        <5>3. Pending(f)' = Pending(f)
          BY <5>2, PendingSame DEF Lists
        <5> QED BY <2>3, <2>5, <5>1, <5>3, CountSame DEF RefCounts
      <4> QED BY <4>1 DEF RefCounts
    <3>7. ofile' \in [Proc -> [FD -> {0} \cup File]] /\ \A q \in Proc \ {p} : ofile'[q] = ofile[q]
      BY <2>3, <2>9
    <3> QED BY <1>1, <2>10, <3>3, <3>5, <3>6, <3>7, NewEnds
  <2> QED BY <2>1, <2>8, <2>9
<1>4. \/ /\ proc' = [proc EXCEPT ![p] = CloseAll(proc[p], proc[p].files)]
         /\ UNCHANGED <<file, ofile, pipe>>
      \/ \E g \in Pages :
             LET rf == proc[p].files[1]
                 wf == proc[p].files[2]
                 fd0 == Lowest(FreeFDs(p))
                 fd1 == Lowest(FreeFDs(p) \ {fd0})
             IN  /\ ~pipe[g].used
                 /\ pipe' = [pipe EXCEPT ![g] = NewPipe]
                 /\ file' = [file EXCEPT ![rf].pipe = g, ![rf].writable = FALSE,
                                         ![wf].pipe = g, ![wf].writable = TRUE]
                 /\ \/ /\ Cardinality(FreeFDs(p)) >= 2
                       /\ ofile' = [ofile EXCEPT ![p][fd0] = rf, ![p][fd1] = wf]
                       /\ proc' = [proc EXCEPT ![p] = User]
                    \/ /\ proc' = [proc EXCEPT ![p] = CloseAll(proc[p], proc[p].files)]
                       /\ UNCHANGED ofile
  BY DEF pipealloc, Goto, NewPipe
<1> QED BY <1>2, <1>3, <1>4

-----------------------------------------------------------------------------
(* The invariant holds in every reachable state.                           *)

LEMMA InitInv == Init => IInv
<1> SUFFICES ASSUME Init PROVE IInv
  OBVIOUS
<1>1. 1 \in File /\ 0 \in FD /\ 0 \notin File /\ first \in Proc
  BY PipeAssumption DEF File, FD
<1>2. /\ file = [f \in File |-> IF f = 1 THEN Fresh ELSE NoFile]
      /\ ofile = [p \in Proc |-> [d \in FD |-> IF p = first /\ d = 0 THEN 1 ELSE 0]]
      /\ pipe = [g \in Pages |-> NoPipe]
      /\ proc = [p \in Proc |-> IF p = first THEN User ELSE Unused]
      /\ killed = [p \in Proc |-> FALSE] /\ cut = {}
  BY DEF Init, Fresh
<1>3. /\ Fresh.ref = 1 /\ Fresh.pipe = None /\ ~Fresh.writable
      /\ Fresh \in [ref : Nat, pipe : Pages \cup {None}, writable : BOOLEAN]
      /\ NoFile.ref = 0 /\ NoFile.pipe = None /\ ~NoFile.writable
      /\ NoFile \in [ref : Nat, pipe : Pages \cup {None}, writable : BOOLEAN]
  BY DEF Fresh, NoFile
<1>4. TypeInv
  <2>1. file \in [File -> [ref : Nat, pipe : Pages \cup {None}, writable : BOOLEAN]]
    BY <1>2, <1>3
  <2>2. ofile \in [Proc -> [FD -> {0} \cup File]]
    BY <1>1, <1>2
  <2>3. pipe \in [Pages -> Ring]
    BY <1>2, NoPipeIs
  <2>4. proc \in [Proc -> Record]
    BY <1>2, UserIs
  <2>5. killed \in [Proc -> BOOLEAN] /\ cut \subseteq Pages
    BY <1>2
  <2> QED BY <2>1, <2>2, <2>3, <2>4, <2>5 DEF TypeInv, Ring
<1>5. \A p \in Proc : /\ proc[p] = User \/ proc[p] = Unused
                      /\ proc[p].files = <<>> /\ proc[p].at \in {"user", "unused"}
  BY <1>2, UserIs DEF Unused
<1>6. \A p \in Proc, d \in FD : ofile[p][d] = IF p = first /\ d = 0 THEN 1 ELSE 0
  BY <1>2
<1>7. RefCounts
  <2>1. ASSUME NEW f \in File PROVE Counted(f)
    <3>1. Pending(f) = {}
      <4>1. \A p \in Proc : DOMAIN proc[p].files = {}
        BY <1>5
      <4> QED BY <4>1 DEF Pending
    <3>2. Cardinality(Pending(f)) = 0
      BY <3>1, FS_EmptySet
    <3>3. CASE f = 1
      <4>1. PICK x : x = <<first, 0>>
        OBVIOUS
      <4>2. Shown(f) = {x}
        <5>1. ASSUME NEW y \in Proc \X FD PROVE y \in Shown(f) <=> y = x
          <6>1. y = <<y[1], y[2]>> /\ y[1] \in Proc /\ y[2] \in FD
            OBVIOUS
          <6>2. y \in Shown(f) <=> ofile[y[1]][y[2]] = f
            BY DEF Shown
          <6>3. ofile[y[1]][y[2]] = f <=> y[1] = first /\ y[2] = 0
            BY <1>6, <3>3, <6>1
          <6> QED BY <4>1, <6>1, <6>2, <6>3
        <5>2. Shown(f) \subseteq Proc \X FD /\ x \in Proc \X FD
          BY <1>1, <4>1 DEF Shown
        <5> QED BY <5>1, <5>2
      <4>3. Cardinality({x}) = 1
        BY FS_Singleton
      <4>4. file[f].ref = 1
        BY <1>2, <1>3, <3>3
      <4> QED BY <3>2, <4>2, <4>3, <4>4 DEF Counted
    <3>4. CASE f # 1
      <4>1. Shown(f) = {}
        <5>1. ASSUME NEW y \in Shown(f) PROVE FALSE
          <6>1. y[1] \in Proc /\ y[2] \in FD /\ ofile[y[1]][y[2]] = f
            BY DEF Shown
          <6>2. f = 0 \/ f = 1
            BY <1>6, <6>1
          <6> QED BY <1>1, <3>4, <6>2
        <5> QED BY <5>1
      <4>2. Cardinality(Shown(f)) = 0
        BY <4>1, FS_EmptySet
      <4>3. file[f].ref = 0
        BY <1>2, <1>3, <3>4
      <4> QED BY <3>2, <4>2, <4>3 DEF Counted
    <3> QED BY <3>3, <3>4
  <2> QED BY <2>1 DEF RefCounts
<1>8. PlaceInv
  <2>1. ASSUME NEW p \in Proc PROVE PlaceOK(p)
    <3>1. CASE p = first
      <4>1. proc[p] = User
        BY <1>2, <3>1
      <4> QED BY <4>1, PipeAssumption DEF PlaceOK, Reading, Writing, User, Unused
    <3>2. CASE p # first
      <4>1. proc[p] = Unused /\ \A d \in FD : ofile[p][d] = 0
        BY <1>2, <3>2
      <4> QED BY <4>1, PipeAssumption DEF PlaceOK, Reading, Writing, User, Unused
    <3> QED BY <3>1, <3>2
  <2> QED BY <2>1 DEF PlaceInv
<1>9. FileInv
  <2>1. \A f \in File : FileOK(f)
    BY <1>2, <1>3 DEF FileOK
  <2>2. \A p \in Proc : FilesFresh(p)
    BY <1>5 DEF FilesFresh
  <2> QED BY <2>1, <2>2 DEF FileInv
<1>10. EndInv
  <2>1. \A f \in File, g \in Pages, wr \in BOOLEAN : ~IsEnd(f, g, wr)
    BY <1>2, <1>3, PipeAssumption DEF IsEnd
  <2>2. \A p \in Proc : \A g, wr : ~Closes(p, g, wr)
    BY <1>5 DEF Closes
  <2>3. \A g \in Pages, wr \in BOOLEAN : ~IsOpen(g, wr)
    BY <1>2, NoPipeIs DEF IsOpen
  <2> QED BY <2>1, <2>2, <2>3 DEF EndInv
<1>11. UserInv /\ SleepInv
  BY <1>5 DEF UserInv, UserOK, SleepInv, SleepOK, Reading, Writing
<1>12. PageInv
  <2>1. ASSUME NEW g \in Pages PROVE PageOK(g)
    <3>1. pipe[g] = NoPipe
      BY <1>2
    <3>2. Held(g) = 0
      <4>1. 0 \in 0..WRAP - 1
        BY PipeAssumption
      <4>2. Empty(g)
        BY <3>1, NoPipeIs DEF Empty
      <4> QED BY <3>1, <4>1, <4>2, NoPipeIs, HeldTells
    <3>3. Held(g) <= PIPESIZE
      BY <3>2, PipeAssumption
    <3> QED BY <3>1, <3>3, NoPipeIs DEF PageOK
  <2> QED BY <2>1 DEF PageInv
<1> QED BY <1>4, <1>7, <1>8, <1>9, <1>10, <1>11, <1>12 DEF IInv, TableInv

LEMMA NextInv == IInv /\ [Next]_vars => IInv'
<1> SUFFICES ASSUME IInv, [Next]_vars PROVE IInv'
  OBVIOUS
<1>1. CASE UNCHANGED vars
  <2>1. UNCHANGED <<file, ofile, pipe, proc, killed, cut>>
    BY <1>1 DEF vars
  <2>2. TypeInv' /\ PlaceInv' /\ FileInv'
    BY <2>1 DEF IInv, TableInv, TypeInv, PlaceInv, PlaceOK, FileInv, FileOK, FilesFresh
  <2>3. RefCounts'
    BY <2>1 DEF IInv, TableInv, RefCounts, Counted, Shown, Pending
  <2>4. EndInv' /\ UserInv'
    BY <2>1 DEF IInv, TableInv, EndInv, IsEnd, Closes, IsOpen, UserInv, UserOK, Holds
  <2>5. PageInv' /\ SleepInv'
    BY <2>1 DEF IInv, PageInv, PageOK, Held, SleepInv, SleepOK, Empty, Full
  <2> QED BY <2>2, <2>3, <2>4, <2>5 DEF IInv, TableInv
<1>2. ASSUME NEW p \in Proc, Syscall(p) PROVE IInv'
  BY <1>2, SysPipeStep, DupStep, CloseSysStep, EnterStep, ExitStep, ForkStep DEF Syscall
<1>3. ASSUME NEW p \in Proc, Section(p) PROVE IInv'
  BY <1>3, SecondStep, AllocStep, FilecloseStep, PipecloseStep, WriteStep, ReadStep, SleepStep
  DEF Section
<1>4. ASSUME NEW p \in Proc, kill(p) PROVE IInv'
  BY <1>4, KillStep
<1> QED BY <1>1, <1>2, <1>3, <1>4 DEF Next

\* The inductive invariant holds in every reachable state.
THEOREM Invariance == Spec => []IInv
<1> QED BY InitInv, NextInv, PTL DEF Spec

\* The variables keep their types, and whatever a descriptor or a call names is a
\* file in use: filedup() and fileclose() never panic (file.c:48-49, 62-63).
THEOREM TypeCorrect == Spec => []TypeOK
<1>1. IInv => TypeOK
  <2> SUFFICES ASSUME IInv PROVE TypeOK
    OBVIOUS
  <2>1. TypeInv /\ RefCounts /\ PlaceInv
    BY DEF IInv, TableInv
  <2>2. ASSUME NEW p \in Proc
        PROVE  /\ proc[p].at \in Places /\ proc[p].files \in Seq(File)
               /\ proc[p].pg \in Pages \cup {None} /\ proc[p].n \in Nat
               /\ \A i \in DOMAIN proc[p].files : file[proc[p].files[i]].ref > 0
               /\ \A d \in FD : ofile[p][d] # 0 => file[ofile[p][d]].ref > 0
    <3>1. proc[p] \in Record
      BY <2>1 DEF TypeInv
    <3> QED BY <2>1, <3>1, OwnRef DEF Record
  <2> QED BY <2>1, <2>2 DEF TypeOK, TypeInv
<1> QED BY <1>1, Invariance, PTL

\* The count of a file is that of the descriptors and calls that have it, and an
\* end of a pipe is open exactly as long as a file or a close stands for it
\* (file.c:45-80, pipe.c:60-76).
THEOREM EndsAgree == Spec => []EndsMatch
<1>1. IInv => EndsMatch
  <2> SUFFICES ASSUME IInv PROVE EndsMatch
    OBVIOUS
  <2>1. TypeInv /\ RefCounts /\ PlaceInv /\ TableInv /\ FileInv /\ EndInv /\ PageInv
    BY DEF IInv, TableInv
  <2>2. \A f \in File : file[f].ref =
       Cardinality({x \in Proc \X FD : ofile[x[1]][x[2]] = f})
         + Cardinality({x \in Proc \X (1..NOFILE + 2) :
             x[2] \in DOMAIN proc[x[1]].files /\ proc[x[1]].files[x[2]] = f})
    BY <2>1 DEF RefCounts, Counted, Shown, Pending
  <2>3. ASSUME NEW g \in Pages
        PROVE  /\ pipe[g].used <=> Ends(g) # {}
               /\ \A wr \in BOOLEAN :
                    (IF wr THEN pipe[g].writeopen ELSE pipe[g].readopen)
                      <=> \/ \E f \in File : file[f].ref > 0 /\ file[f].pipe = g /\ file[f].writable = wr
                          \/ \E p \in Proc : proc[p].at = "pipeclose" /\ proc[p].pg = g /\ proc[p].wr = wr
    <3>1. pipe[g].used <=> Ends(g) # {}
      BY <2>1 DEF PageInv, PageOK, Ends
    <3>2. ASSUME NEW wr \in BOOLEAN
          PROVE  IsOpen(g, wr)
                   <=> \/ \E f \in File : file[f].ref > 0 /\ IsEnd(f, g, wr)
                       \/ \E p \in Proc : Closes(p, g, wr)
      <4>1. IsOpen(g, wr) <=> \/ \E f \in File : IsEnd(f, g, wr)
                              \/ \E p \in Proc : Closes(p, g, wr)
        BY <2>1 DEF EndInv
      <4>2. ASSUME NEW f \in File, IsEnd(f, g, wr) PROVE file[f].ref > 0
        <5>1. file[f].ref \in Nat /\ file[f].pipe # None
          BY <2>1, <4>2, PipeAssumption DEF TypeInv, IsEnd
        <5>2. file[f].ref # 0
          BY <2>1, <5>1 DEF FileInv, FileOK, NoFile
        <5> QED BY <5>1, <5>2
      <4> QED BY <4>1, <4>2
    <3> QED BY <3>1, <3>2 DEF IsOpen, IsEnd, Closes
  <2>4. ASSUME NEW p \in Proc
        PROVE  /\ proc[p].at \in {"read", "dozeread", "sleepread"} => pipe[proc[p].pg].readopen
               /\ proc[p].at \in {"write", "dozewrite", "sleepwrite"} => pipe[proc[p].pg].writeopen
    BY <2>1, OpenAt DEF Reading, Writing
  <2> QED BY <2>2, <2>3, <2>4 DEF EndsMatch
<1> QED BY <1>1, Invariance, PTL

\* No wakeup is missed: a sleeping reader's pipe is empty and can be written, a
\* sleeping writer's is full and can be read, but for the reader whom a killed
\* writer leaves behind (pipe.c:79-112).
THEOREM SleepersWait == Spec => []NoLostWakeup
<1>1. IInv => NoLostWakeup
  BY DEF IInv, SleepInv, SleepOK, NoLostWakeup
<1> QED BY <1>1, Invariance, PTL

-----------------------------------------------------------------------------
(* Every step is one of ByteStream, or changes nothing of it.              *)

View == [g \in Pages |-> [ends |-> Ends(g), unread |-> Unread(g)]]

\* A step that changes one pipe
LEMMA ViewAt ==
  ASSUME NEW g \in Pages, \A h \in Pages \ {g} : pipe'[h] = pipe[h]
  PROVE  View' = [View EXCEPT ![g] = [ends |-> Ends(g)', unread |-> Unread(g)']]
<1>1. ASSUME NEW h \in Pages \ {g} PROVE Ends(h)' = Ends(h) /\ Unread(h)' = Unread(h)
  BY DEF Ends, Unread, Held
<1>2. View' = [h \in Pages |-> [ends |-> Ends(h)', unread |-> Unread(h)']]
  BY DEF View
<1> QED BY <1>1, <1>2 DEF View

LEMMA Still == UNCHANGED pipe => View' = View
BY DEF View, Ends, Unread, Held

LEMMA Changed ==
  ASSUME NEW E, NEW U, NEW V, NEW r, r = [ends |-> E, unread |-> U]
  PROVE  /\ [r EXCEPT !.unread = V] = [ends |-> E, unread |-> V]
         /\ [r EXCEPT !.ends = V] = [ends |-> V, unread |-> U]
<1>1. [r EXCEPT !.unread = V] = [ends |-> E, unread |-> V]
  <2> DEFINE a == [r EXCEPT !.unread = V]
             b == [ends |-> E, unread |-> V]
  <2>1. DOMAIN a = {"ends", "unread"} /\ DOMAIN b = {"ends", "unread"}
    OBVIOUS
  <2>2. \A x \in {"ends", "unread"} : a[x] = b[x]
    OBVIOUS
  <2>3. a = [x \in DOMAIN a |-> a[x]] /\ b = [x \in DOMAIN b |-> b[x]]
    OBVIOUS
  <2> HIDE DEF a, b
  <2>4. a = b
    BY <2>1, <2>2, <2>3
  <2> QED BY <2>4 DEF a, b
<1>2. [r EXCEPT !.ends = V] = [ends |-> V, unread |-> U]
  OBVIOUS
<1> QED BY <1>1, <1>2

LEMMA IsOpening ==
  ASSUME NEW g \in Pages, Ends(g) = {}, Unread(g) = <<>>,
         View' = [View EXCEPT ![g] = [ends |-> {"read", "write"}, unread |-> <<>>]]
  PROVE  Stream!Next
<1>1. View[g] = Stream!Closed
  BY DEF View, Stream!Closed
<1>2. Stream!Open(g)
  BY <1>1 DEF View, Stream!Open
<1> QED BY <1>2 DEF Stream!Next

LEMMA IsWriting ==
  ASSUME NEW g \in Pages, "write" \in Ends(g),
         NEW n \in 1..(PIPESIZE - Len(Unread(g))), NEW s \in [1..n -> Byte],
         View' = [View EXCEPT ![g] = [ends |-> Ends(g), unread |-> Unread(g) \o s]]
  PROVE  Stream!Next
<1>1. View[g] = [ends |-> Ends(g), unread |-> Unread(g)] /\ DOMAIN View = Pages
  BY DEF View
<1>2. View' = [View EXCEPT ![g].unread = @ \o s]
  <2>1. PICK r : r = View[g]
    OBVIOUS
  <2>0. r = [ends |-> Ends(g), unread |-> Unread(g)] /\ r.unread = Unread(g)
    BY <1>1, <2>1
  <2>2. [r EXCEPT !.unread = r.unread \o s] = [ends |-> Ends(g), unread |-> Unread(g) \o s]
    <3>1. PICK v : v = Unread(g) \o s
      OBVIOUS
    <3>2. [r EXCEPT !.unread = v] = [ends |-> Ends(g), unread |-> v]
      BY <2>0, Changed
    <3> QED BY <2>0, <3>1, <3>2
  <2>3. View' = [View EXCEPT ![g] = [r EXCEPT !.unread = r.unread \o s]]
    BY <2>2
  <2> QED BY <2>1, <2>3
<1>3. Stream!Write(g)
  BY <1>1, <1>2 DEF View, Stream!Write
<1> QED BY <1>3 DEF Stream!Next

LEMMA IsReading ==
  ASSUME NEW g \in Pages, "read" \in Ends(g), NEW n \in 1..Len(Unread(g)),
         View' = [View EXCEPT ![g] =
                    [ends |-> Ends(g), unread |-> SubSeq(Unread(g), n + 1, Len(Unread(g)))]]
  PROVE  Stream!Next
<1>1. View[g] = [ends |-> Ends(g), unread |-> Unread(g)] /\ DOMAIN View = Pages
  BY DEF View
<1>2. View' = [View EXCEPT ![g].unread = SubSeq(@, n + 1, Len(@))]
  <2>1. PICK r : r = View[g]
    OBVIOUS
  <2>0. r = [ends |-> Ends(g), unread |-> Unread(g)] /\ r.unread = Unread(g)
    BY <1>1, <2>1
  <2>2. [r EXCEPT !.unread = SubSeq(r.unread, n + 1, Len(r.unread))]
          = [ends |-> Ends(g), unread |-> SubSeq(Unread(g), n + 1, Len(Unread(g)))]
    <3>1. PICK v : v = SubSeq(Unread(g), n + 1, Len(Unread(g)))
      OBVIOUS
    <3>2. [r EXCEPT !.unread = v] = [ends |-> Ends(g), unread |-> v]
      BY <2>0, Changed
    <3> QED BY <2>0, <3>1, <3>2
  <2>3. View' = [View EXCEPT ![g] = [r EXCEPT !.unread = SubSeq(r.unread, n + 1, Len(r.unread))]]
    BY <2>2
  <2> QED BY <2>1, <2>3
<1>3. Stream!Read(g)
  BY <1>1, <1>2 DEF View, Stream!Read
<1> QED BY <1>3 DEF Stream!Next

LEMMA IsClosing ==
  ASSUME NEW g \in Pages, NEW end \in {"read", "write"}, end \in Ends(g),
         View' = [View EXCEPT ![g] =
                    IF Ends(g) = {end} THEN [ends |-> {}, unread |-> <<>>]
                    ELSE [ends |-> Ends(g) \ {end}, unread |-> Unread(g)]]
  PROVE  Stream!Next
<1>1. View[g] = [ends |-> Ends(g), unread |-> Unread(g)] /\ DOMAIN View = Pages
  BY DEF View
<1>2. View' = [View EXCEPT ![g] = IF @.ends = {end} THEN Stream!Closed
                                  ELSE [@ EXCEPT !.ends = View[g].ends \ {end}]]
  <2>1. PICK r : r = View[g]
    OBVIOUS
  <2>0. r = [ends |-> Ends(g), unread |-> Unread(g)] /\ r.ends = Ends(g) /\ View[g].ends = Ends(g)
    BY <1>1, <2>1
  <2>2. [r EXCEPT !.ends = View[g].ends \ {end}] = [ends |-> Ends(g) \ {end}, unread |-> Unread(g)]
    <3>1. PICK v : v = Ends(g) \ {end}
      OBVIOUS
    <3>2. [r EXCEPT !.ends = v] = [ends |-> v, unread |-> Unread(g)]
      BY <2>0, Changed
    <3> QED BY <2>0, <3>1, <3>2
  <2>3. View' = [View EXCEPT ![g] = IF r.ends = {end} THEN Stream!Closed
                                    ELSE [r EXCEPT !.ends = View[g].ends \ {end}]]
    BY <2>0, <2>2 DEF Stream!Closed
  <2> QED BY <2>1, <2>3
<1>3. Stream!Close(g, end)
  BY <1>1, <1>2 DEF View, Stream!Close
<1> QED BY <1>3 DEF Stream!Next

LEMMA OpenEnds ==
  ASSUME NEW g
  PROVE  /\ "read" \in Ends(g) <=> pipe[g].readopen
         /\ "write" \in Ends(g) <=> pipe[g].writeopen
         /\ Ends(g) \subseteq {"read", "write"}
BY DEF Ends

LEMMA OpenEndsNext ==
  ASSUME NEW g
  PROVE  /\ "read" \in Ends(g)' <=> pipe'[g].readopen
         /\ "write" \in Ends(g)' <=> pipe'[g].writeopen
         /\ Ends(g)' \subseteq {"read", "write"}
BY DEF Ends

LEMMA SameEnds ==
  ASSUME NEW g, pipe'[g].readopen = pipe[g].readopen, pipe'[g].writeopen = pipe[g].writeopen
  PROVE  Ends(g)' = Ends(g)
BY DEF Ends

LEMMA WriteRefines ==
  ASSUME IInv, NEW p \in Proc, pipewrite(p)
  PROVE  Stream!Next \/ View' = View
<1>0. PICK g : g = proc[p].pg
  OBVIOUS
<1>01. PICK n : n = proc[p].n
  OBVIOUS
<1>02. PICK k : k = Fits(g, n)
  OBVIOUS
<1>03. PICK s : s = Buffer(g, k)
  OBVIOUS
<1>1. pipe' = [pipe EXCEPT ![g] = Put(g, s)] /\ proc[p].at \in Writing
  BY <1>0, <1>01, <1>02, <1>03 DEF pipewrite, Writing
<1>2. /\ g \in Pages /\ pipe \in [Pages -> Ring] /\ PageOK(g) /\ n \in Nat
      /\ pipe[g] \in Ring /\ pipe[g].writeopen /\ TableInv
  <2>1. TableInv /\ TypeInv
    BY DEF IInv, TableInv
  <2> QED BY <1>0, <1>01, <1>1, <2>1, AtPage, RingType, OpenAt DEF IInv, PageInv, Record
<1>3. /\ Held(g) \in Nat /\ Held(g) <= PIPESIZE /\ PIPESIZE \in Nat
      /\ Unread(g) \in Seq(Byte \cup {None}) /\ Len(Unread(g)) = Held(g)
  <2>1. Held(g) \in Nat /\ Held(g) <= PIPESIZE /\ PIPESIZE \in Nat
    BY <1>2, HeldIs, Sizes DEF PageOK, Ring
  <2> QED BY <1>2, <2>1, UnreadIs
<1>4. k \in 0..PIPESIZE /\ k <= PIPESIZE - Held(g)
  <2>1. k = IF n < PIPESIZE - Held(g) THEN n ELSE PIPESIZE - Held(g)
    BY <1>02 DEF Fits
  <2> DEFINE h == Held(g)
  <2>2. h \in Nat /\ h <= PIPESIZE /\ k = IF n < PIPESIZE - h THEN n ELSE PIPESIZE - h
    BY <1>3, <2>1
  <2> HIDE DEF h
  <2>3. k \in 0..PIPESIZE /\ k <= PIPESIZE - h
    BY <1>2, <1>3, <2>2
  <2> QED BY <2>3 DEF h
<1>5. s \in [1..k -> Byte] /\ s \in Seq(Byte) /\ Len(s) = k /\ Len(s) <= PIPESIZE - Held(g)
  BY <1>03, <1>2, <1>4, BufferIs DEF Ring
<1>6. Unread(g)' = Unread(g) \o s
  BY <1>1, <1>2, <1>3, <1>5, WriteHeld
<1>7. /\ \A h \in Pages \ {g} : pipe'[h] = pipe[h]
      /\ pipe'[g].readopen = pipe[g].readopen /\ pipe'[g].writeopen = pipe[g].writeopen
  <2>1. Put(g, s) = [pipe[g] EXCEPT !.nwrite = Advance(@, Len(s)), !.data = Put(g, s).data]
    BY <1>2, <1>3, <1>5, PutIs
  <2>2. pipe'[g] = Put(g, s) /\ \A h \in Pages \ {g} : pipe'[h] = pipe[h]
    BY <1>1, <1>2
  <2> QED BY <1>2, <2>1, <2>2 DEF Ring
<1>8. View' = [View EXCEPT ![g] = [ends |-> Ends(g), unread |-> Unread(g) \o s]]
  BY <1>2, <1>6, <1>7, SameEnds, ViewAt
<1>9. CASE k = 0
  <2>1. Unread(g) \o s = Unread(g)
    <3>1. s = <<>>
      BY <1>5, <1>9
    <3> QED BY <1>3, <3>1
  <2>2. View' = [View EXCEPT ![g] = View[g]]
    BY <1>2, <1>8, <2>1 DEF View
  <2> QED BY <2>2 DEF View
<1>10. CASE k # 0
  <2> DEFINE l == Len(Unread(g))
  <2>1. k \in 1..PIPESIZE - l
    <3>1. l = Held(g) /\ l \in Nat /\ k <= PIPESIZE - l
      BY <1>3, <1>4
    <3> HIDE DEF l
    <3> QED BY <1>3, <1>4, <1>10, <3>1
  <2>2. "write" \in Ends(g)
    BY <1>2, OpenEnds
  <2> QED BY <1>2, <1>5, <1>8, <2>1, <2>2, IsWriting
<1> QED BY <1>9, <1>10

LEMMA ReadRefines ==
  ASSUME IInv, NEW p \in Proc, piperead(p)
  PROVE  Stream!Next \/ View' = View
<1>0. PICK g : g = proc[p].pg
  OBVIOUS
<1>01. PICK k : k = IF proc[p].n < Held(g) THEN proc[p].n ELSE Held(g)
  OBVIOUS
<1>1. /\ proc[p].at \in Reading
      /\ UNCHANGED pipe \/ pipe' = [pipe EXCEPT ![g].nread = Advance(@, k)]
  BY <1>0, <1>01 DEF piperead, Reading
<1>2. /\ g \in Pages /\ pipe \in [Pages -> Ring] /\ PageOK(g) /\ proc[p].n \in Nat
      /\ pipe[g] \in Ring /\ pipe[g].readopen
  <2>1. TableInv /\ TypeInv
    BY DEF IInv, TableInv
  <2> QED BY <1>0, <1>1, <2>1, AtPage, RingType, OpenAt DEF IInv, PageInv, Record
<1>3. /\ Held(g) \in Nat /\ Held(g) <= PIPESIZE /\ k \in 0..Held(g)
      /\ Unread(g) \in Seq(Byte \cup {None}) /\ Len(Unread(g)) = Held(g)
  <2>1. Held(g) \in Nat /\ Held(g) <= PIPESIZE /\ k \in 0..Held(g)
    BY <1>01, <1>2, HeldIs, Sizes DEF PageOK, Ring
  <2> QED BY <1>2, <2>1, UnreadIs
<1>4. CASE UNCHANGED pipe
  BY <1>4, Still
<1>5. CASE pipe' = [pipe EXCEPT ![g].nread = Advance(@, k)]
  <2>1. Unread(g)' = SubSeq(Unread(g), k + 1, Held(g))
    BY <1>2, <1>3, <1>5, ReadHeld
  <2>2. /\ \A h \in Pages \ {g} : pipe'[h] = pipe[h]
        /\ pipe'[g].readopen = pipe[g].readopen /\ pipe'[g].writeopen = pipe[g].writeopen
    BY <1>2, <1>5 DEF Ring
  <2>3. View' = [View EXCEPT ![g] =
                   [ends |-> Ends(g), unread |-> SubSeq(Unread(g), k + 1, Len(Unread(g)))]]
    BY <1>2, <1>3, <2>1, <2>2, SameEnds, ViewAt
  <2>4. CASE k = 0
    <3> DEFINE u == Unread(g)
    <3>1. u \in Seq(Byte \cup {None})
      BY <1>3
    <3> HIDE DEF u
    <3>2. SubSeq(u, 1, Len(u)) = u
      BY <3>1
    <3>3. 0 + 1 = 1
      OBVIOUS
    <3>4. View' = [View EXCEPT ![g] = View[g]]
      BY <1>2, <2>3, <2>4, <3>2, <3>3 DEF View, u
    <3> QED BY <3>4 DEF View
  <2>5. CASE k # 0
    <3> DEFINE l == Len(Unread(g))
    <3>1. k \in 1..l
      <4>1. l = Held(g) /\ l \in Nat /\ k \in 0..l
        BY <1>3
      <4> HIDE DEF l
      <4> QED BY <2>5, <4>1
    <3>2. "read" \in Ends(g)
      BY <1>2, OpenEnds
    <3> QED BY <1>2, <2>3, <3>1, <3>2, IsReading
  <2> QED BY <2>4, <2>5
<1> QED BY <1>1, <1>4, <1>5

LEMMA NothingHeld ==
  ASSUME NEW r, NEW w, r = 0, w = 0
  PROVE  (w + WRAP - r) % WRAP = 0
<1>1. 0 \in 0..WRAP - 1
  BY PipeAssumption
<1> QED BY <1>1, Apart

LEMMA EmptyNow ==
  ASSUME NEW g, pipe[g].nread = 0, pipe[g].nwrite = 0
  PROVE  Unread(g) = <<>>
<1>1. Held(g) = 0
  BY NothingHeld DEF Held
<1> QED BY <1>1 DEF Unread

LEMMA EmptyNext ==
  ASSUME NEW g, pipe'[g].nread = 0, pipe'[g].nwrite = 0
  PROVE  Unread(g)' = <<>>
<1>1. Held(g)' = 0
  BY NothingHeld DEF Held
<1> QED BY <1>1 DEF Unread

LEMMA CloseRefines ==
  ASSUME IInv, NEW p \in Proc, pipeclose(p)
  PROVE  Stream!Next
<1>0. PICK g : g = proc[p].pg
  OBVIOUS
<1>01. PICK wr : wr = proc[p].wr
  OBVIOUS
<1>1. /\ g \in Pages /\ wr \in BOOLEAN /\ IsOpen(g, wr)
      /\ \A h \in Pages \ {g} : pipe'[h] = pipe[h]
      /\ ~IsOpen(g, wr)'
      /\ \A w \in BOOLEAN : w # wr => (IsOpen(g, w)' <=> IsOpen(g, w))
      /\ IsOpen(g, ~wr) => pipe'[g].nread = pipe[g].nread /\ pipe'[g].nwrite = pipe[g].nwrite
                           /\ pipe'[g].data = pipe[g].data
      /\ ~IsOpen(g, ~wr) => pipe'[g] = NoPipe
  BY <1>0, <1>01, EndGoes
<1>2. PICK end : end = IF wr THEN "write" ELSE "read"
  OBVIOUS
<1>3. end \in {"read", "write"}
  BY <1>2
<1>4. /\ end \in Ends(g) /\ Ends(g)' = Ends(g) \ {end}
      /\ Ends(g) = {end} <=> ~IsOpen(g, ~wr)
  <2>1. CASE wr = TRUE
    <3>1. IsOpen(g, TRUE) /\ ~IsOpen(g, TRUE)' /\ (IsOpen(g, FALSE)' <=> IsOpen(g, FALSE))
      BY <1>1, <2>1
    <3>2. /\ pipe[g].writeopen /\ ~pipe'[g].writeopen
          /\ pipe'[g].readopen <=> pipe[g].readopen
          /\ IsOpen(g, ~wr) <=> pipe[g].readopen
      BY <2>1, <3>1 DEF IsOpen
    <3>3. end = "write"
      BY <1>2, <2>1
    <3> QED BY <3>2, <3>3, OpenEnds, OpenEndsNext
  <2>2. CASE wr = FALSE
    <3>1. IsOpen(g, FALSE) /\ ~IsOpen(g, FALSE)' /\ (IsOpen(g, TRUE)' <=> IsOpen(g, TRUE))
      BY <1>1, <2>2
    <3>2. /\ pipe[g].readopen /\ ~pipe'[g].readopen
          /\ pipe'[g].writeopen <=> pipe[g].writeopen
          /\ IsOpen(g, ~wr) <=> pipe[g].writeopen
      BY <2>2, <3>1 DEF IsOpen
    <3>3. end = "read"
      BY <1>2, <2>2
    <3> QED BY <3>2, <3>3, OpenEnds, OpenEndsNext
  <2> QED BY <1>1, <2>1, <2>2
<1>5. View' = [View EXCEPT ![g] = [ends |-> Ends(g)', unread |-> Unread(g)']]
  BY <1>1, ViewAt
<1>6. CASE IsOpen(g, ~wr)
  <2>1. Unread(g)' = Unread(g)
    BY <1>1, <1>6 DEF Unread, Held
  <2>2. View' = [View EXCEPT ![g] =
                   IF Ends(g) = {end} THEN [ends |-> {}, unread |-> <<>>]
                   ELSE [ends |-> Ends(g) \ {end}, unread |-> Unread(g)]]
    BY <1>4, <1>5, <1>6, <2>1
  <2> QED BY <1>1, <1>3, <1>4, <2>2, IsClosing
<1>7. CASE ~IsOpen(g, ~wr)
  <2>1. Unread(g)' = <<>> /\ Ends(g)' = {}
    <3>1. pipe'[g].nread = 0 /\ pipe'[g].nwrite = 0
      BY <1>1, <1>7, NoPipeIs
    <3> QED BY <1>4, <1>7, <3>1, EmptyNext
  <2>2. View' = [View EXCEPT ![g] =
                   IF Ends(g) = {end} THEN [ends |-> {}, unread |-> <<>>]
                   ELSE [ends |-> Ends(g) \ {end}, unread |-> Unread(g)]]
    BY <1>4, <1>5, <1>7, <2>1
  <2> QED BY <1>1, <1>3, <1>4, <2>2, IsClosing
<1> QED BY <1>6, <1>7

LEMMA AllocRefines ==
  ASSUME IInv, NEW p \in Proc, pipealloc(p)
  PROVE  Stream!Next \/ View' = View
<1>1. CASE UNCHANGED pipe
  BY <1>1, Still
<1>2. CASE \E g \in Pages : ~pipe[g].used /\ pipe' = [pipe EXCEPT ![g] = NewPipe]
  <2>1. PICK g \in Pages : ~pipe[g].used /\ pipe' = [pipe EXCEPT ![g] = NewPipe]
    BY <1>2
  <2>2. pipe[g] = NoPipe /\ pipe \in [Pages -> Ring]
    BY <2>1, RingType DEF IInv, PageInv, PageOK, TableInv
  <2>3. Ends(g) = {} /\ Unread(g) = <<>>
    BY <2>2, NoPipeIs, EmptyNow, OpenEnds
  <2>4. pipe'[g] = NewPipe /\ \A h \in Pages \ {g} : pipe'[h] = pipe[h]
    BY <2>1, <2>2
  <2>5. NewPipe.readopen /\ NewPipe.writeopen /\ NewPipe.nread = 0 /\ NewPipe.nwrite = 0
    BY NoPipeIs DEF NewPipe, Ring
  <2>6. Ends(g)' = {"read", "write"} /\ Unread(g)' = <<>>
    BY <2>4, <2>5, EmptyNext, OpenEndsNext
  <2>7. View' = [View EXCEPT ![g] = [ends |-> {"read", "write"}, unread |-> <<>>]]
    BY <2>4, <2>6, ViewAt
  <2> QED BY <2>3, <2>7, IsOpening
<1> QED BY <1>1, <1>2 DEF pipealloc, NewPipe

LEMMA NextRefines == IInv /\ [Next]_vars => Stream!Next \/ View' = View
<1> SUFFICES ASSUME IInv, [Next]_vars PROVE Stream!Next \/ View' = View
  OBVIOUS
<1>1. CASE UNCHANGED vars
  BY <1>1, Still DEF vars
<1>2. ASSUME NEW p \in Proc, Syscall(p) PROVE UNCHANGED pipe
  BY <1>2 DEF Syscall, sys_pipe, sys_dup, sys_close, sys_read, sys_write, exit, fork
<1>3. ASSUME NEW p \in Proc, Section(p) PROVE Stream!Next \/ View' = View
  <2>1. CASE pipealloc_second(p) \/ fileclose(p) \/ sleep(p)
    <3>1. UNCHANGED pipe
      BY <2>1 DEF pipealloc_second, fileclose, sleep
    <3> QED BY <3>1, Still
  <2> QED BY <1>3, <2>1, AllocRefines, CloseRefines, WriteRefines, ReadRefines DEF Section
<1>4. ASSUME NEW p \in Proc, kill(p) PROVE UNCHANGED pipe
  BY <1>4 DEF kill
<1> QED BY <1>1, <1>2, <1>3, <1>4, Still DEF Next

LEMMA InitRefines == Init => Stream!Init
<1> SUFFICES ASSUME Init PROVE View = [g \in Pages |-> Stream!Closed]
  BY DEF Stream!Init, View
<1>1. ASSUME NEW g \in Pages PROVE Ends(g) = {} /\ Unread(g) = <<>>
  <2>1. pipe[g] = NoPipe
    BY DEF Init
  <2> QED BY <2>1, NoPipeIs, EmptyNow, OpenEnds
<1> QED BY <1>1 DEF View, Stream!Closed

\* A pipe is a stream: whatever its size and wherever the counters wrap, readers
\* get the bytes that were written, each once and in order, nothing is added after
\* the writing end has gone, and a page that is used again starts empty
\* (pipe.c:22-121).
THEOREM PipesAreStreams == Spec => StreamSpec
<1>1. Init => Stream!Init
  BY InitRefines
<1>2. IInv /\ [Next]_vars => [Stream!Next]_View
  BY NextRefines
<1> QED BY <1>1, <1>2, Invariance, PTL DEF Spec, StreamSpec, Stream!Spec, View
=============================================================================
