----------------------------- MODULE NamesProofs -----------------------------
(***************************************************************************)
(* Theorems about Names for every number of processes, inodes and names,   *)
(* and every set of paths, when no program removes a directory that        *)
(* another is in or looks up (Intrude = FALSE).                            *)
(***************************************************************************)
EXTENDS Names, FiniteSetTheorems, SequenceTheorems, WellFoundedInduction, TLAPS

-----------------------------------------------------------------------------
(* The inductive invariant                                                 *)

\* Where a call is, or goes on when it has looked up a path or put references
Stage(r) == IF r.pc \in {"walk", "put"} THEN r.then ELSE r.pc

\* The stages that end a lookup, and those of them that look up a parent
Parents == {"create", "dirlink", "unlink"}
Lookups == Parents \cup {"open", "chdir", "link", "symlink", "symlink_new", "readi"}
\* The directory of the call is locked.
DirLocked == {"exists", "link_exists", "unlink_ip", "unlink_bad"}
\* The inode of the call is locked.
IpLocked == {"created", "refused", "unlinked"}
\* The call has a reference to its inode.
HasIp == IpLocked \cup {"exists", "dirlink", "link_exists", "link_bad", "unlink_ip"}
\* Where a call goes on when it has put references
AfterPut == {"idle", "created", "refused", "link_exists", "link_bad", "unlink_bad", "unlinked"}
Stages == Lookups \cup DirLocked \cup HasIp \cup {"idle", "readi_end"}
CallNames == KindNames \cup {"none", "read"}
Elems == Name \cup Dots

\* What a call has on its stack
Rec == [pc : Stages \cup {"walk", "put"}, call : CallNames, path : Seq(Elems),
        par : BOOLEAN, dp : 0..NINODE, name : Elems, ip : 0..NINODE,
        puts : Seq(Inum), then : Stages, new : Paths \cup {<<>>},
        old : Paths \cup {<<>>}, hops : Nat]

\* A lookup has a directory to start from, and ends in one when it is of a parent.
WalkOK(r) ==
  /\ r.pc = "walk" => r.path # <<>> /\ r.dp # 0 /\ r.then \in Lookups
  /\ r.pc = "put" =>
       /\ r.puts # <<>> /\ Len(r.puts) <= 2 /\ r.then \in Lookups \cup AfterPut
       /\ r.path # <<>> => r.then \in Lookups /\ r.dp # 0
       /\ r.path = <<>> /\ r.then \in Parents => r.dp = 0
  /\ r.pc # "put" => r.puts = <<>>
  /\ Stage(r) \in Lookups => (r.par <=> Stage(r) \in Parents)
  /\ Stage(r) \in DirLocked => r.dp # 0
  /\ Stage(r) \in HasIp \cup {"readi", "readi_end"} => r.ip # 0

\* Which call is in which stage
CallOK(r) ==
  /\ Stage(r) \in {"open", "chdir"} => r.call = Stage(r)
  /\ Stage(r) \in {"create", "exists", "created", "refused"} =>
       r.call \in {"create", "mkdir", "mknod", "symlink"}
  /\ Stage(r) = "refused" => r.call # "symlink"
  /\ Stage(r) \in {"link", "dirlink", "link_exists", "link_bad"} => r.call = "link"
  /\ Stage(r) \in {"unlink", "unlink_ip", "unlink_bad", "unlinked"} => r.call = "unlink"
  /\ Stage(r) \in {"symlink", "symlink_new"} => r.call = "symlink"
  /\ Stage(r) \in {"readi", "readi_end"} => r.call = "read"
  /\ r.pc = "idle" => r.call = "none"
  /\ r.call = "link" => r.new # <<>> /\ (Stage(r) = "link" => r.ip = 0)
       /\ Stage(r) \in {"link", "dirlink", "link_exists", "link_bad", "idle"}
       /\ (r.pc \in {"dirlink", "link_exists", "link_bad"} => r.then # "idle")
  /\ r.call = "symlink" => r.new # <<>> /\ r.old # <<>>
  /\ r.call = "unlink" => (Stage(r) = "unlinked") = (r.then = "unlinked")

CallsOK ==
  /\ proc \in [Proc -> Rec]
  /\ \A p \in Proc : WalkOK(proc[p]) /\ CallOK(proc[p])
       /\ (proc[p].call \in {"open", "create"} => fd[p] = 0)

\* The references of a call: to its directory, to its inode and those it puts next
DpOf(r) == IF Stage(r) \in Lookups \cup DirLocked THEN r.dp ELSE 0
IpOf(r) == IF Stage(r) \in HasIp THEN r.ip ELSE 0
P1(r) == IF Len(r.puts) >= 1 THEN r.puts[1] ELSE 0
P2(r) == IF Len(r.puts) >= 2 THEN r.puts[2] ELSE 0

\* How many processes q there are for which f[q] is i
HowMany(f, i) == Cardinality({q \in Proc : f[q] = i})
DpAll(P) == [q \in Proc |-> DpOf(P[q])]
IpAll(P) == [q \in Proc |-> IpOf(P[q])]
P1All(P) == [q \in Proc |-> P1(P[q])]
P2All(P) == [q \in Proc |-> P2(P[q])]
RefsTo(F, C, P, i) ==
  HowMany(F, i) + HowMany(C, i) + HowMany(DpAll(P), i) + HowMany(IpAll(P), i)
    + HowMany(P1All(P), i) + HowMany(P2All(P), i)

\* The reference count of an inode is the number of open files and current
\* directories it is, of references that calls have, and of those that are lost.
RefsExact == \A i \in Inum : ref[i] = leaked[i] + RefsTo(fd, cwd, proc, i)

\* The inode that a call has locked, or 0
LockOf(r) == IF Stage(r) \in DirLocked THEN r.dp
             ELSE IF Stage(r) \in IpLocked THEN r.ip ELSE 0
LocksExact ==
  /\ \A p \in Proc : LockOf(proc[p]) # 0 => lock[LockOf(proc[p])] = p
  /\ \A i \in Inum : lock[i] # None => LockOf(proc[lock[i]]) = i

\* The inode whose link count has a name that is not there, yet or any more, or 0
OwesOf(r) ==
  IF Stage(r) \in {"dirlink", "link_exists", "link_bad", "unlinked"} THEN r.ip ELSE 0

\* Nobody refers to a free inode.
FreeUnused == \A i \in Inum : inode[i].type = "free" => inode[i] = Free /\ ref[i] = 0

\* A directory has one name, in the directory that its ".." names, and the root none.
TreeOK ==
  /\ IsDir(ROOTINO) /\ inode[ROOTINO].ents[".."] = ROOTINO /\ Entries(ROOTINO) = {}
  /\ \A d \in Inum : IsDir(d) =>
       /\ inode[d].ents["."] = d
       /\ \A e \in Entries(d) : e[1] = inode[d].ents[".."]
       /\ \A e, f \in Entries(d) : e = f

\* A removed directory is empty, and nobody is in it or looks up a name in it.
Removed(d) == IsDir(d) /\ d # ROOTINO /\ Entries(d) = {}
RemovedLeft ==
  \A d \in Inum : Removed(d) =>
    /\ IsDirEmpty(d)
    /\ \A p \in Proc : cwd[p] # d /\ DpOf(proc[p]) # d

\* What a call knows of its inodes
Knows(r) ==
  /\ r.pc \in Parents /\ r.dp # 0 => IsDir(r.dp)
  /\ Stage(r) \in DirLocked => IsDir(r.dp)
  /\ Stage(r) \in {"dirlink", "link_exists", "link_bad"} => ~IsDir(r.ip)
  /\ Stage(r) = "exists" /\ r.call = "symlink" => ~IsDir(r.ip)
  /\ Stage(r) = "unlink_ip" => r.name \in Name /\ inode[r.dp].ents[r.name] = r.ip
AllKnow == \A p \in Proc : Knows(proc[p])

\* A symbolic link has its path before it is unlocked.
LinksReady ==
  \A i \in Inum : inode[i].type = "symlink" /\ inode[i].to = <<>> =>
     /\ lock[i] # None
     /\ Stage(proc[lock[i]]) = "created" /\ proc[lock[i]].call = "symlink"

IInv ==
  /\ TypeOK /\ CallsOK /\ RefsExact /\ LocksExact /\ FreeUnused /\ TreeOK
  /\ RemovedLeft /\ AllKnow /\ LinksReady /\ LinksExact /\ Reclaimed /\ ~panicked

-----------------------------------------------------------------------------
(* Counting                                                                *)

One(h, i) == IF h = i THEN 1 ELSE 0

LEMMA OneNat ==
  ASSUME NEW h, NEW i
  PROVE  One(h, i) \in 0..1
BY DEF One

LEMMA CountNat ==
  ASSUME NEW f, NEW i
  PROVE  HowMany(f, i) \in Nat
<1>1. {q \in Proc : f[q] = i} \in SUBSET Proc
  OBVIOUS
<1> QED BY <1>1, NamesAssumption, FS_Subset, FS_CardinalityType DEF HowMany

LEMMA CountOne ==
  ASSUME NEW f, NEW p \in Proc
  PROVE  HowMany(f, f[p]) >= 1
<1> DEFINE S == {q \in Proc : f[q] = f[p]}
<1>1. IsFiniteSet(S) /\ S # {}
  BY NamesAssumption, FS_Subset
<1>2. Cardinality(S) \in Nat /\ Cardinality(S) # 0
  BY <1>1, FS_EmptySet, FS_CardinalityType
<1> QED BY <1>2 DEF HowMany

\* One process leaves those that are counted, or joins them.
LEMMA CountChange ==
  ASSUME NEW f, NEW g, NEW p \in Proc, NEW i, \A q \in Proc \ {p} : g[q] = f[q]
  PROVE  HowMany(g, i) + One(f[p], i) = HowMany(f, i) + One(g[p], i)
<1> DEFINE S == {q \in Proc : f[q] = i}
           T == {q \in Proc : g[q] = i}
           R == {q \in Proc \ {p} : f[q] = i}
<1>1. IsFiniteSet(R)
  BY NamesAssumption, FS_Subset
<1>2. Cardinality(R) \in Nat
  BY <1>1, FS_CardinalityType
<1>3. p \notin R
  OBVIOUS
<1>4. Cardinality(R \cup {p}) = Cardinality(R) + 1
  BY <1>1, <1>3, FS_AddElement
<1>5. (f[p] = i => S = R \cup {p}) /\ (f[p] # i => S = R)
  OBVIOUS
<1>6. (g[p] = i => T = R \cup {p}) /\ (g[p] # i => T = R)
  OBVIOUS
<1>9. Cardinality(S) = Cardinality(R) + One(f[p], i)
  <2> HIDE DEF S, T, R
  <2> QED BY <1>2, <1>4, <1>5 DEF One
<1>10. Cardinality(T) = Cardinality(R) + One(g[p], i)
  <2> HIDE DEF S, T, R
  <2> QED BY <1>2, <1>4, <1>6 DEF One
<1> HIDE DEF S, T, R
<1>7. One(f[p], i) \in Nat /\ One(g[p], i) \in Nat
  BY OneNat
<1>8. HowMany(f, i) = Cardinality(S) /\ HowMany(g, i) = Cardinality(T)
  BY DEF HowMany, S, T
<1> QED BY <1>2, <1>7, <1>8, <1>9, <1>10

\* A number of processes m becomes n when one that had a has b.
Moves(m, n, a, b, i) == n + One(a, i) = m + One(b, i)

LEMMA CountMoves ==
  ASSUME NEW f, NEW g, NEW p \in Proc, NEW i, \A q \in Proc \ {p} : g[q] = f[q],
         NEW a, NEW b, f[p] = a, g[p] = b
  PROVE  Moves(HowMany(f, i), HowMany(g, i), a, b, i)
BY CountChange DEF Moves

\* The references that a process has by its file, its directory and its call
Mine(f, c, r, i) ==
  One(f, i) + One(c, i) + One(DpOf(r), i) + One(IpOf(r), i) + One(P1(r), i) + One(P2(r), i)

LEMMA MineNat ==
  ASSUME NEW f, NEW c, NEW r, NEW i
  PROVE  Mine(f, c, r, i) \in Nat
<1>1. One(f, i) \in Nat /\ One(c, i) \in Nat /\ One(DpOf(r), i) \in Nat
      /\ One(IpOf(r), i) \in Nat /\ One(P1(r), i) \in Nat /\ One(P2(r), i) \in Nat
  BY OneNat
<1> QED BY <1>1 DEF Mine

LEMMA RefsToNat ==
  ASSUME NEW F, NEW C, NEW P, NEW i
  PROVE  RefsTo(F, C, P, i) \in Nat
<1>1. \A f : HowMany(f, i) \in Nat
  BY CountNat
<1> QED BY <1>1 DEF RefsTo

\* The references of all, a, become b when those of one process, m, become n.
Balance(a, b, m, n) == b + m = a + n

LEMMA RefsChange ==
  ASSUME NEW F, NEW C, NEW P, NEW G, NEW D, NEW Q, NEW p \in Proc, NEW i,
         \A q \in Proc \ {p} : G[q] = F[q] /\ D[q] = C[q] /\ Q[q] = P[q]
  PROVE  Balance(RefsTo(F, C, P, i), RefsTo(G, D, Q, i),
                 Mine(F[p], C[p], P[p], i), Mine(G[p], D[p], Q[p], i))
<1>1. Moves(HowMany(F, i), HowMany(G, i), F[p], G[p], i)
  BY CountMoves
<1>2. Moves(HowMany(C, i), HowMany(D, i), C[p], D[p], i)
  BY CountMoves
<1>3. Moves(HowMany(DpAll(P), i), HowMany(DpAll(Q), i), DpOf(P[p]), DpOf(Q[p]), i)
  <2>1. \A q \in Proc \ {p} : DpAll(Q)[q] = DpAll(P)[q]
    BY DEF DpAll
  <2>2. DpAll(Q)[p] = DpOf(Q[p]) /\ DpAll(P)[p] = DpOf(P[p])
    BY DEF DpAll
  <2> QED BY <2>1, <2>2, CountMoves
<1>4. Moves(HowMany(IpAll(P), i), HowMany(IpAll(Q), i), IpOf(P[p]), IpOf(Q[p]), i)
  <2>1. \A q \in Proc \ {p} : IpAll(Q)[q] = IpAll(P)[q]
    BY DEF IpAll
  <2>2. IpAll(Q)[p] = IpOf(Q[p]) /\ IpAll(P)[p] = IpOf(P[p])
    BY DEF IpAll
  <2> QED BY <2>1, <2>2, CountMoves
<1>5. Moves(HowMany(P1All(P), i), HowMany(P1All(Q), i), P1(P[p]), P1(Q[p]), i)
  <2>1. \A q \in Proc \ {p} : P1All(Q)[q] = P1All(P)[q]
    BY DEF P1All
  <2>2. P1All(Q)[p] = P1(Q[p]) /\ P1All(P)[p] = P1(P[p])
    BY DEF P1All
  <2> QED BY <2>1, <2>2, CountMoves
<1>6. Moves(HowMany(P2All(P), i), HowMany(P2All(Q), i), P2(P[p]), P2(Q[p]), i)
  <2>1. \A q \in Proc \ {p} : P2All(Q)[q] = P2All(P)[q]
    BY DEF P2All
  <2>2. P2All(Q)[p] = P2(Q[p]) /\ P2All(P)[p] = P2(P[p])
    BY DEF P2All
  <2> QED BY <2>1, <2>2, CountMoves
<1>7. /\ HowMany(F, i) \in Nat /\ HowMany(C, i) \in Nat
      /\ HowMany(DpAll(P), i) \in Nat /\ HowMany(IpAll(P), i) \in Nat
      /\ HowMany(P1All(P), i) \in Nat /\ HowMany(P2All(P), i) \in Nat
      /\ HowMany(G, i) \in Nat /\ HowMany(D, i) \in Nat
      /\ HowMany(DpAll(Q), i) \in Nat /\ HowMany(IpAll(Q), i) \in Nat
      /\ HowMany(P1All(Q), i) \in Nat /\ HowMany(P2All(Q), i) \in Nat
  BY CountNat
<1>8. /\ One(F[p], i) \in Nat /\ One(C[p], i) \in Nat /\ One(DpOf(P[p]), i) \in Nat
      /\ One(IpOf(P[p]), i) \in Nat /\ One(P1(P[p]), i) \in Nat /\ One(P2(P[p]), i) \in Nat
      /\ One(G[p], i) \in Nat /\ One(D[p], i) \in Nat /\ One(DpOf(Q[p]), i) \in Nat
      /\ One(IpOf(Q[p]), i) \in Nat /\ One(P1(Q[p]), i) \in Nat /\ One(P2(Q[p]), i) \in Nat
  BY OneNat
<1> DEFINE m1 == HowMany(F, i)  n1 == HowMany(G, i)
           x1 == One(F[p], i)  y1 == One(G[p], i)
           m2 == HowMany(C, i)  n2 == HowMany(D, i)
           x2 == One(C[p], i)  y2 == One(D[p], i)
           m3 == HowMany(DpAll(P), i)  n3 == HowMany(DpAll(Q), i)
           x3 == One(DpOf(P[p]), i)  y3 == One(DpOf(Q[p]), i)
           m4 == HowMany(IpAll(P), i)  n4 == HowMany(IpAll(Q), i)
           x4 == One(IpOf(P[p]), i)  y4 == One(IpOf(Q[p]), i)
           m5 == HowMany(P1All(P), i)  n5 == HowMany(P1All(Q), i)
           x5 == One(P1(P[p]), i)  y5 == One(P1(Q[p]), i)
           m6 == HowMany(P2All(P), i)  n6 == HowMany(P2All(Q), i)
           x6 == One(P2(P[p]), i)  y6 == One(P2(Q[p]), i)
<1>9. /\ m1 \in Nat /\ n1 \in Nat /\ x1 \in Nat /\ y1 \in Nat
      /\ m2 \in Nat /\ n2 \in Nat /\ x2 \in Nat /\ y2 \in Nat
      /\ m3 \in Nat /\ n3 \in Nat /\ x3 \in Nat /\ y3 \in Nat
      /\ m4 \in Nat /\ n4 \in Nat /\ x4 \in Nat /\ y4 \in Nat
      /\ m5 \in Nat /\ n5 \in Nat /\ x5 \in Nat /\ y5 \in Nat
      /\ m6 \in Nat /\ n6 \in Nat /\ x6 \in Nat /\ y6 \in Nat
  BY <1>7, <1>8
<1>10. /\ n1 + x1 = m1 + y1
       /\ n2 + x2 = m2 + y2
       /\ n3 + x3 = m3 + y3
       /\ n4 + x4 = m4 + y4
       /\ n5 + x5 = m5 + y5
       /\ n6 + x6 = m6 + y6
  BY <1>1, <1>2, <1>3, <1>4, <1>5, <1>6 DEF Moves
<1>11. /\ RefsTo(F, C, P, i) = m1 + m2 + m3 + m4 + m5 + m6
       /\ RefsTo(G, D, Q, i) = n1 + n2 + n3 + n4 + n5 + n6
       /\ Mine(F[p], C[p], P[p], i) = x1 + x2 + x3 + x4 + x5 + x6
       /\ Mine(G[p], D[p], Q[p], i) = y1 + y2 + y3 + y4 + y5 + y6
  BY DEF RefsTo, Mine
<1> HIDE DEF m1, n1, x1, y1, m2, n2, x2, y2, m3, n3, x3, y3, m4, n4, x4, y4, m5, n5, x5, y5, m6, n6, x6, y6
<1>12. /\ (n1 + n2) + (x1 + x2)
            = (m1 + m2) + (y1 + y2)
       /\ m1 + m2 \in Nat /\ n1 + n2 \in Nat
       /\ x1 + x2 \in Nat /\ y1 + y2 \in Nat
  BY <1>9, <1>10
<1>13. /\ (n1 + n2 + n3) + (x1 + x2 + x3)
            = (m1 + m2 + m3) + (y1 + y2 + y3)
       /\ m1 + m2 + m3 \in Nat /\ n1 + n2 + n3 \in Nat
       /\ x1 + x2 + x3 \in Nat /\ y1 + y2 + y3 \in Nat
  BY <1>9, <1>10, <1>12
<1>14. /\ (n1 + n2 + n3 + n4) + (x1 + x2 + x3 + x4)
            = (m1 + m2 + m3 + m4) + (y1 + y2 + y3 + y4)
       /\ m1 + m2 + m3 + m4 \in Nat /\ n1 + n2 + n3 + n4 \in Nat
       /\ x1 + x2 + x3 + x4 \in Nat /\ y1 + y2 + y3 + y4 \in Nat
  BY <1>9, <1>10, <1>13
<1>15. /\ (n1 + n2 + n3 + n4 + n5) + (x1 + x2 + x3 + x4 + x5)
            = (m1 + m2 + m3 + m4 + m5) + (y1 + y2 + y3 + y4 + y5)
       /\ m1 + m2 + m3 + m4 + m5 \in Nat /\ n1 + n2 + n3 + n4 + n5 \in Nat
       /\ x1 + x2 + x3 + x4 + x5 \in Nat /\ y1 + y2 + y3 + y4 + y5 \in Nat
  BY <1>9, <1>10, <1>14
<1>16. /\ (n1 + n2 + n3 + n4 + n5 + n6) + (x1 + x2 + x3 + x4 + x5 + x6)
            = (m1 + m2 + m3 + m4 + m5 + m6) + (y1 + y2 + y3 + y4 + y5 + y6)
       /\ m1 + m2 + m3 + m4 + m5 + m6 \in Nat /\ n1 + n2 + n3 + n4 + n5 + n6 \in Nat
       /\ x1 + x2 + x3 + x4 + x5 + x6 \in Nat /\ y1 + y2 + y3 + y4 + y5 + y6 \in Nat
  BY <1>9, <1>10, <1>15
<1> QED BY <1>11, <1>16 DEF Balance

\* A reference of a process is counted, and two that are of different kinds are
\* counted twice.
LEMMA RefsHeld ==
  ASSUME NEW F, NEW C, NEW P, NEW p \in Proc, NEW i
  PROVE  /\ RefsTo(F, C, P, i) >= Mine(F[p], C[p], P[p], i)
         /\ \A q \in Proc : RefsTo(F, C, P, i) >=
              One(IpOf(P[p]), i) + One(C[q], i) + One(DpOf(P[q]), i)
<1>1. /\ HowMany(F, i) \in Nat /\ HowMany(C, i) \in Nat
      /\ HowMany(DpAll(P), i) \in Nat /\ HowMany(IpAll(P), i) \in Nat
      /\ HowMany(P1All(P), i) \in Nat /\ HowMany(P2All(P), i) \in Nat
  BY CountNat
<1>2. ASSUME NEW q \in Proc
      PROVE  /\ HowMany(F, i) >= One(F[q], i) /\ HowMany(C, i) >= One(C[q], i)
             /\ HowMany(DpAll(P), i) >= One(DpOf(P[q]), i)
             /\ HowMany(IpAll(P), i) >= One(IpOf(P[q]), i)
             /\ HowMany(P1All(P), i) >= One(P1(P[q]), i)
             /\ HowMany(P2All(P), i) >= One(P2(P[q]), i)
  <2>1. ASSUME NEW f
        PROVE  HowMany(f, i) >= One(f[q], i)
    <3>1. HowMany(f, f[q]) >= 1
      BY CountOne
    <3>2. HowMany(f, i) \in Nat
      BY CountNat
    <3> QED BY <3>1, <3>2 DEF One
  <2>2. /\ HowMany(F, i) >= One(F[q], i) /\ HowMany(C, i) >= One(C[q], i)
        /\ HowMany(DpAll(P), i) >= One(DpAll(P)[q], i)
        /\ HowMany(IpAll(P), i) >= One(IpAll(P)[q], i)
        /\ HowMany(P1All(P), i) >= One(P1All(P)[q], i)
        /\ HowMany(P2All(P), i) >= One(P2All(P)[q], i)
    BY <2>1
  <2>3. /\ DpAll(P)[q] = DpOf(P[q]) /\ IpAll(P)[q] = IpOf(P[q])
        /\ P1All(P)[q] = P1(P[q]) /\ P2All(P)[q] = P2(P[q])
    BY DEF DpAll, IpAll, P1All, P2All
  <2> QED BY <2>2, <2>3
<1>3. \A h : One(h, i) \in Nat
  BY OneNat
<1>4. RefsTo(F, C, P, i) >= Mine(F[p], C[p], P[p], i)
  BY <1>1, <1>2, <1>3 DEF RefsTo, Mine
<1>5. ASSUME NEW q \in Proc
      PROVE  RefsTo(F, C, P, i) >= One(IpOf(P[p]), i) + One(C[q], i) + One(DpOf(P[q]), i)
  BY <1>1, <1>2, <1>3 DEF RefsTo
<1> QED BY <1>4, <1>5

-----------------------------------------------------------------------------
(* What the step of one process leaves alone                               *)

GoodRec(r) == r \in Rec /\ WalkOK(r) /\ CallOK(r)

\* Only process p moves: its record becomes n.
Acts(p) ==
  /\ fd' \in [Proc -> 0..NINODE] /\ cwd' \in [Proc -> Inum] /\ proc' \in [Proc -> Rec]
  /\ \A q \in Proc \ {p} : proc'[q] = proc[q] /\ fd'[q] = fd[q] /\ cwd'[q] = cwd[q]
  /\ GoodRec(proc'[p])
  /\ proc'[p].call \in {"open", "create"} => fd'[p] = 0

\* References are taken and put for what p refers to.
RefMoves(p) ==
  /\ ref' \in [Inum -> Int] /\ leaked' \in [Inum -> Nat]
  /\ \A i \in Inum : ref'[i] + Mine(fd[p], cwd[p], proc[p], i) + leaked[i]
                       = ref[i] + Mine(fd'[p], cwd'[p], proc'[p], i) + leaked'[i]

\* Process p takes the lock of the inode it then has locked, and releases its other.
LockMoves(p) ==
  /\ lock' \in [Inum -> Proc \cup {None}]
  /\ \A i \in Inum : lock'[i] = IF i = LockOf(proc'[p]) THEN p
                                ELSE IF i = LockOf(proc[p]) THEN None ELSE lock[i]
  /\ LockOf(proc'[p]) \notin {0, LockOf(proc[p])} => lock[LockOf(proc'[p])] = None

LEMMA Numbers ==
  /\ NINODE \in Nat \ {0} /\ ROOTINO \in Inum /\ 0 \notin Inum
  /\ \A i : i \in Inum <=> i \in 0..NINODE /\ i # 0
  /\ IsFiniteSet(Inum) /\ None \notin Proc
<1>1. NINODE \in Nat \ {0}
  BY NamesAssumption
<1> QED BY <1>1, NamesAssumption, FS_Interval DEF Inum, ROOTINO

LEMMA CallsStep ==
  ASSUME CallsOK, NEW p \in Proc, Acts(p)
  PROVE  CallsOK'
<1>1. \A q \in Proc : WalkOK(proc'[q]) /\ CallOK(proc'[q])
  BY DEF CallsOK, Acts, GoodRec
<1>2. \A q \in Proc : proc'[q].call \in {"open", "create"} => fd'[q] = 0
  BY DEF CallsOK, Acts
<1> QED BY <1>1, <1>2 DEF CallsOK, Acts

LEMMA RefsStep ==
  ASSUME ref \in [Inum -> Nat], leaked \in [Inum -> Nat], RefsExact, NEW p \in Proc,
         Acts(p), RefMoves(p)
  PROVE  RefsExact' /\ ref' \in [Inum -> Nat]
<1>1. ASSUME NEW i \in Inum
      PROVE  ref'[i] = leaked'[i] + RefsTo(fd', cwd', proc', i) /\ ref'[i] \in Nat
  <2> DEFINE a == RefsTo(fd, cwd, proc, i)
             b == RefsTo(fd', cwd', proc', i)
             m == Mine(fd[p], cwd[p], proc[p], i)
             n == Mine(fd'[p], cwd'[p], proc'[p], i)
             x == ref[i]  y == ref'[i]  k == leaked[i]  l == leaked'[i]
  <2>1. Balance(a, b, m, n)
    BY RefsChange DEF Acts
  <2>2. a \in Nat /\ b \in Nat /\ m \in Nat /\ n \in Nat
    BY RefsToNat, MineNat
  <2>3. x = k + a
    BY DEF RefsExact
  <2>4. y + m + k = x + n + l
    BY DEF RefMoves
  <2>5. x \in Nat /\ k \in Nat /\ l \in Nat /\ y \in Int
    BY DEF RefMoves
  <2> HIDE DEF a, b, m, n, x, y, k, l
  <2>6. b + m = a + n
    BY <2>1 DEF Balance
  <2>7. y + m \in Int /\ x + n \in Int /\ y + m = a + n + l
    BY <2>2, <2>3, <2>4, <2>5
  <2>8. y + m = b + m + l
    BY <2>2, <2>5, <2>6, <2>7
  <2>9. y = l + b /\ y \in Nat
    BY <2>2, <2>5, <2>8
  <2> QED BY <2>9 DEF b, y, l
<1>2. RefsExact'
  BY <1>1 DEF RefsExact
<1>3. ref' \in [Inum -> Nat]
  BY <1>1 DEF RefMoves
<1> QED BY <1>2, <1>3

LEMMA LocksStep ==
  ASSUME TypeOK, CallsOK, LocksExact, NEW p \in Proc, Acts(p), LockMoves(p)
  PROVE  LocksExact'
<1> DEFINE r == proc[p]  n == proc'[p]
<1>0. ASSUME NEW q \in Proc
      PROVE  LockOf(proc[q]) \in 0..NINODE /\ LockOf(proc'[q]) \in 0..NINODE
  <2>1. proc[q] \in Rec /\ proc'[q] \in Rec
    BY DEF CallsOK, Acts
  <2> QED BY <2>1, Numbers DEF LockOf, Rec
<1>1. ASSUME NEW q \in Proc, LockOf(proc'[q]) # 0
      PROVE  lock'[LockOf(proc'[q])] = q
  <2>1. LockOf(proc'[q]) \in Inum
    BY <1>0, <1>1, Numbers
  <2>2. CASE q = p
    BY <2>1, <2>2 DEF LockMoves
  <2>3. CASE q # p
    <3>1. proc'[q] = proc[q] /\ lock[LockOf(proc[q])] = q
      BY <1>1, <2>3 DEF Acts, LocksExact
    <3>2. LockOf(proc[q]) # LockOf(proc[p])
      BY <3>1, <2>3, <1>1 DEF LocksExact
    <3>3. LockOf(proc[q]) # LockOf(proc'[p])
      BY <3>1, <3>2, <2>3, <1>1, Numbers DEF LockMoves
    <3> QED BY <2>1, <3>1, <3>2, <3>3 DEF LockMoves
  <2> QED BY <2>2, <2>3
<1>2. ASSUME NEW i \in Inum, lock'[i] # None
      PROVE  LockOf(proc'[lock'[i]]) = i
  <2>1. CASE i = LockOf(proc'[p])
    BY <2>1 DEF LockMoves
  <2>2. CASE i # LockOf(proc'[p]) /\ i # LockOf(proc[p])
    <3>1. lock'[i] = lock[i]
      BY <2>2 DEF LockMoves
    <3>2. lock[i] \in Proc /\ LockOf(proc[lock[i]]) = i
      BY <3>1, <1>2 DEF LocksExact, TypeOK
    <3>3. lock[i] # p
      BY <3>2, <2>2
    <3> QED BY <3>1, <3>2, <3>3 DEF Acts
  <2>3. CASE i # LockOf(proc'[p]) /\ i = LockOf(proc[p])
    BY <2>3, <1>2 DEF LockMoves
  <2> QED BY <2>1, <2>2, <2>3
<1> QED BY <1>1, <1>2 DEF LocksExact

\* What somebody refers to is counted, and not free.
LEMMA HeldKept ==
  ASSUME TypeOK, RefsExact, FreeUnused, NEW p \in Proc, NEW i \in Inum,
         i \in {fd[p], cwd[p], DpOf(proc[p]), IpOf(proc[p]), P1(proc[p]), P2(proc[p])}
  PROVE  ref[i] \in Nat /\ ref[i] >= 1 /\ inode[i].type # "free"
<1> DEFINE a == RefsTo(fd, cwd, proc, i)
           m == Mine(fd[p], cwd[p], proc[p], i)
<1>1. ref[i] = leaked[i] + a /\ ref[i] \in Nat /\ leaked[i] \in Nat
  BY DEF RefsExact, TypeOK
<1>2. a >= m
  BY RefsHeld
<1>3. a \in Nat /\ m \in Nat
  BY RefsToNat, MineNat
<1>4. m >= 1
  <2>1. /\ One(fd[p], i) \in 0..1 /\ One(cwd[p], i) \in 0..1 /\ One(DpOf(proc[p]), i) \in 0..1
        /\ One(IpOf(proc[p]), i) \in 0..1 /\ One(P1(proc[p]), i) \in 0..1
        /\ One(P2(proc[p]), i) \in 0..1
    BY OneNat
  <2>2. \/ One(fd[p], i) = 1 \/ One(cwd[p], i) = 1 \/ One(DpOf(proc[p]), i) = 1
        \/ One(IpOf(proc[p]), i) = 1 \/ One(P1(proc[p]), i) = 1 \/ One(P2(proc[p]), i) = 1
    BY DEF One
  <2> QED BY <2>1, <2>2 DEF Mine
<1> HIDE DEF a, m
<1>5. ref[i] >= 1
  BY <1>1, <1>2, <1>3, <1>4
<1>6. inode[i].type # "free"
  BY <1>5, <1>1 DEF FreeUnused
<1> QED BY <1>1, <1>5, <1>6

\* Nobody else is in the inode of a call when its reference is the only one.
LEMMA OnlyRef ==
  ASSUME TypeOK, RefsExact, NEW p \in Proc, NEW i \in Inum, IpOf(proc[p]) = i, ref[i] = 1
  PROVE  \A q \in Proc : cwd[q] # i /\ DpOf(proc[q]) # i
<1> SUFFICES ASSUME NEW q \in Proc
             PROVE  cwd[q] # i /\ DpOf(proc[q]) # i
  OBVIOUS
<1> DEFINE a == RefsTo(fd, cwd, proc, i)
           x == One(cwd[q], i)
           y == One(DpOf(proc[q]), i)
<1>1. ref[i] = leaked[i] + a /\ leaked[i] \in Nat
  BY DEF RefsExact, TypeOK
<1>2. a >= One(IpOf(proc[p]), i) + x + y
  BY RefsHeld
<1>3. One(IpOf(proc[p]), i) = 1
  BY DEF One
<1>4. a \in Nat /\ x \in 0..1 /\ y \in 0..1
  BY RefsToNat, OneNat
<1>5. a >= 1 + x + y
  BY <1>2, <1>3
<1>6. x = 0 /\ y = 0
  <2> HIDE DEF a, x, y
  <2> QED BY <1>1, <1>4, <1>5
<1> QED BY <1>6 DEF One

\* The inode that a call has locked is one that it refers to.
LEMMA LockHeld ==
  ASSUME NEW r
  PROVE  LockOf(r) \in {0, DpOf(r), IpOf(r)}
BY DEF LockOf, DpOf, IpOf, DirLocked, IpLocked, HasIp, Lookups

LEMMA LockedKept ==
  ASSUME TypeOK, CallsOK, RefsExact, FreeUnused, LocksExact, NEW i \in Inum, lock[i] # None
  PROVE  lock[i] \in Proc /\ LockOf(proc[lock[i]]) = i /\ inode[i].type # "free"
<1>1. lock[i] \in Proc /\ LockOf(proc[lock[i]]) = i
  BY DEF LocksExact, TypeOK
<1>2. i \in {DpOf(proc[lock[i]]), IpOf(proc[lock[i]])}
  BY <1>1, LockHeld, Numbers
<1> QED BY <1>1, <1>2, HeldKept

-----------------------------------------------------------------------------
(* Names and link counts                                                   *)

Inode == [type : Types, nlink : Nat, ents : [Name \cup Dots -> 0..NINODE],
          to : Paths \cup {<<>>}]

\* No entry changes, nor what is a directory.
SameTree ==
  \A i \in Inum : inode'[i].ents = inode[i].ents /\ (IsDir(i)' <=> IsDir(i))

LEMMA SameNames ==
  ASSUME SameTree
  PROVE  /\ \A i : Entries(i)' = Entries(i) /\ Subdirs(i)' = Subdirs(i)
         /\ \A i \in Inum : (IsDirEmpty(i)' <=> IsDirEmpty(i)) /\ (Removed(i)' <=> Removed(i))
<1>1. \A i : Entries(i)' = Entries(i)
  BY DEF SameTree, Entries
<1>2. \A i : Subdirs(i)' = Subdirs(i)
  BY <1>1 DEF SameTree, Subdirs
<1>3. \A i \in Inum : (IsDirEmpty(i)' <=> IsDirEmpty(i)) /\ (Removed(i)' <=> Removed(i))
  BY <1>1 DEF SameTree, IsDirEmpty, Removed
<1> QED BY <1>1, <1>2, <1>3

LEMMA SameTreeOK ==
  ASSUME SameTree, TreeOK
  PROVE  TreeOK'
<1>1. IsDir(ROOTINO)' /\ inode'[ROOTINO].ents[".."] = ROOTINO
  BY Numbers DEF SameTree, TreeOK
<1>2. \A i \in Inum : Entries(i)' = Entries(i) /\ inode'[i].ents = inode[i].ents
                      /\ (IsDir(i)' <=> IsDir(i))
  BY SameNames DEF SameTree
<1> QED BY <1>1, <1>2, Numbers DEF TreeOK

\* What a process is in, or looks up a name in, is no removed directory.
Stays(p) ==
  /\ cwd'[p] = cwd[p] \/ ~Removed(cwd'[p])
  /\ DpOf(proc'[p]) \in {0, DpOf(proc[p])} \/ ~Removed(DpOf(proc'[p]))

LEMMA SameRemoved ==
  ASSUME SameTree, RemovedLeft, NEW p \in Proc, Acts(p), Stays(p)
  PROVE  RemovedLeft'
<1> SUFFICES ASSUME NEW d \in Inum, Removed(d)'
             PROVE  IsDirEmpty(d)' /\ \A q \in Proc : cwd'[q] # d /\ DpOf(proc'[q]) # d
  BY DEF RemovedLeft
<1>1. Removed(d) /\ IsDirEmpty(d)'
  BY SameNames DEF RemovedLeft
<1>2. ASSUME NEW q \in Proc
      PROVE  cwd'[q] # d /\ DpOf(proc'[q]) # d
  <2>1. CASE q = p
    BY <1>1, <2>1, Numbers DEF RemovedLeft, Stays
  <2>2. CASE q # p
    BY <1>1, <2>2 DEF RemovedLeft, Acts
  <2> QED BY <2>1, <2>2
<1> QED BY <1>1, <1>2

\* What a call knows is of inodes that it refers to.
LEMMA KnownInodes ==
  ASSUME NEW r \in Rec, WalkOK(r)
  PROVE  /\ r.pc \in Parents /\ r.dp # 0 => r.dp \in Inum /\ DpOf(r) = r.dp
         /\ Stage(r) \in DirLocked => r.dp \in Inum /\ DpOf(r) = r.dp /\ LockOf(r) = r.dp
         /\ Stage(r) \in HasIp => r.ip \in Inum /\ IpOf(r) = r.ip
         /\ Stage(r) \in IpLocked => r.ip \in Inum /\ LockOf(r) = r.ip
<1>1. r.dp \in 0..NINODE /\ r.ip \in 0..NINODE
  BY DEF Rec
<1>2. r.pc \in Parents /\ r.dp # 0 => r.dp \in Inum /\ DpOf(r) = r.dp
  BY <1>1, Numbers DEF Parents, Lookups, DpOf, Stage
<1>3. Stage(r) \in DirLocked => r.dp # 0
  BY DEF WalkOK
<1>4. Stage(r) \in DirLocked => r.dp \in Inum /\ DpOf(r) = r.dp /\ LockOf(r) = r.dp
  BY <1>1, <1>3, Numbers DEF DpOf, LockOf
<1>5. Stage(r) \in HasIp => r.ip # 0
  BY DEF WalkOK
<1>6. Stage(r) \in HasIp => r.ip \in Inum /\ IpOf(r) = r.ip
  BY <1>1, <1>5, Numbers DEF IpOf
<1>7. Stage(r) \in IpLocked => Stage(r) \in HasIp /\ Stage(r) \notin DirLocked
  BY DEF HasIp, IpLocked, DirLocked
<1>8. Stage(r) \in IpLocked => r.ip \in Inum /\ LockOf(r) = r.ip
  BY <1>6, <1>7 DEF LockOf
<1> QED BY <1>2, <1>4, <1>6, <1>8

LEMMA SameKnow ==
  ASSUME SameTree, CallsOK, AllKnow, NEW p \in Proc, Acts(p), Knows(proc[p])'
  PROVE  AllKnow'
<1> SUFFICES ASSUME NEW q \in Proc
             PROVE  Knows(proc[q])'
  BY DEF AllKnow
<1>1. CASE q = p
  BY <1>1
<1>2. CASE q # p
  <2>0. PICK r : r = proc[q]
    OBVIOUS
  <2>1. proc'[q] = r /\ Knows(r) /\ r \in Rec /\ WalkOK(r)
    BY <1>2, <2>0 DEF AllKnow, Acts, CallsOK
  <2>2. /\ r.pc \in Parents /\ r.dp # 0 => r.dp \in Inum
        /\ Stage(r) \in DirLocked => r.dp \in Inum
        /\ Stage(r) \in HasIp => r.ip \in Inum
    BY <2>1, KnownInodes
  <2>3. Knows(r)'
    <3>1. r.pc \in Parents /\ r.dp # 0 => IsDir(r.dp)'
      BY <2>1, <2>2 DEF Knows, SameTree
    <3>2. Stage(r) \in DirLocked => IsDir(r.dp)'
      BY <2>1, <2>2 DEF Knows, SameTree
    <3>3. Stage(r) \in {"dirlink", "link_exists", "link_bad"} => ~IsDir(r.ip)'
      BY <2>1, <2>2 DEF Knows, SameTree, HasIp
    <3>4. Stage(r) = "exists" /\ r.call = "symlink" => ~IsDir(r.ip)'
      BY <2>1, <2>2 DEF Knows, SameTree, HasIp
    <3>5. Stage(r) = "unlink_ip" => r.name \in Name /\ inode'[r.dp].ents[r.name] = r.ip
      BY <2>1, <2>2 DEF Knows, SameTree, DirLocked
    <3> QED BY <3>1, <3>2, <3>3, <3>4, <3>5 DEF Knows
  <2> QED BY <2>1, <2>3
<1> QED BY <1>1, <1>2

\* A link without a path is one that its maker still has locked.
Bare(i) == inode[i].type = "symlink" /\ inode[i].to = <<>>
Making(r, i) == LockOf(r) = i /\ Stage(r) = "created" /\ r.call = "symlink"

LEMMA ReadyStep ==
  ASSUME TypeOK, CallsOK, LocksExact, LinksReady, NEW p \in Proc, Acts(p), LockMoves(p),
         \A i \in Inum : Bare(i)' => (Bare(i) /\ lock[i] # p) \/ Making(proc'[p], i)
  PROVE  LinksReady'
<1> SUFFICES ASSUME NEW i \in Inum, Bare(i)'
             PROVE  lock'[i] # None /\ Stage(proc'[lock'[i]]) = "created"
                    /\ proc'[lock'[i]].call = "symlink"
  BY DEF LinksReady, Bare
<1>1. CASE Making(proc'[p], i)
  <2>1. lock'[i] = p
    BY <1>1 DEF Making, LockMoves
  <2> QED BY <1>1, <2>1, Numbers DEF Making
<1>2. CASE Bare(i) /\ lock[i] # p
  <2>1. lock[i] \in Proc /\ Stage(proc[lock[i]]) = "created" /\ proc[lock[i]].call = "symlink"
    BY <1>2 DEF LinksReady, Bare, TypeOK
  <2>2. LockOf(proc[lock[i]]) = i
    BY <2>1, Numbers DEF LocksExact
  <2>3. i # LockOf(proc[p])
    BY <1>2, Numbers DEF LocksExact
  <2>4. i # LockOf(proc'[p])
    BY <2>1, <2>3, Numbers DEF LockMoves
  <2>5. lock'[i] = lock[i]
    BY <2>3, <2>4 DEF LockMoves
  <2>6. proc'[lock[i]] = proc[lock[i]]
    BY <2>1, <1>2 DEF Acts
  <2> QED BY <2>1, <2>5, <2>6, Numbers
<1> QED BY <1>1, <1>2

\* A call that is not making a link leaves those without a path alone.
LEMMA ReadySame ==
  ASSUME TypeOK, CallsOK, LocksExact, LinksReady, NEW p \in Proc, Acts(p), LockMoves(p),
         \A i \in Inum : Bare(i)' => Bare(i),
         \/ Stage(proc[p]) # "created"
         \/ proc[p].call # "symlink"
         \/ (Stage(proc'[p]) = "created" /\ proc'[p].call = proc[p].call
               /\ LockOf(proc'[p]) = LockOf(proc[p]))
  PROVE  LinksReady'
<1>1. ASSUME NEW i \in Inum, Bare(i)', lock[i] = p
      PROVE  Making(proc'[p], i)
  <2>1. Stage(proc[p]) = "created" /\ proc[p].call = "symlink" /\ LockOf(proc[p]) = i
    BY <1>1, Numbers DEF LinksReady, Bare, LocksExact
  <2> QED BY <2>1 DEF Making
<1> QED BY <1>1, ReadyStep

LEMMA NamesFinite ==
  ASSUME NEW i
  PROVE  /\ IsFiniteSet(Entries(i)) /\ IsFiniteSet(Subdirs(i))
         /\ Cardinality(Entries(i)) \in Nat /\ Cardinality(Subdirs(i)) \in Nat
<1>1. IsFiniteSet(Inum \X Name)
  BY Numbers, NamesAssumption, FS_Product
<1>2. Entries(i) \in SUBSET (Inum \X Name) /\ Subdirs(i) \in SUBSET Inum
  BY DEF Entries, Subdirs
<1>3. IsFiniteSet(Entries(i)) /\ IsFiniteSet(Subdirs(i))
  BY <1>1, <1>2, Numbers, FS_Subset
<1> QED BY <1>3, FS_CardinalityType

OwesAll(P) == [q \in Proc |-> OwesOf(P[q])]

CountedIn(r, i) == r.ip = i /\ \/ r.call = "link" /\ r.then # "idle"
                               \/ r.call = "unlink" /\ r.then = "unlinked"

LEMMA CountedRec ==
  ASSUME NEW r \in Rec, WalkOK(r), CallOK(r), NEW i \in Inum
  PROVE  CountedIn(r, i) <=> OwesOf(r) = i
<1>1. r.call = "unlink" => (r.then = "unlinked" <=> Stage(r) = "unlinked")
  BY DEF CallOK
<1>2. Stage(r) = "unlinked" => r.call = "unlink"
  BY DEF CallOK
<1>3. Stage(r) \in {"dirlink", "link_exists", "link_bad"} => r.call = "link"
  BY DEF CallOK
<1>4. r.call = "link" /\ r.ip = i /\ r.then # "idle"
        => Stage(r) \in {"dirlink", "link_exists", "link_bad"}
  <2>1. r.call = "link" => Stage(r) \in {"link", "dirlink", "link_exists", "link_bad", "idle"}
    BY DEF CallOK
  <2>2. r.call = "link" /\ Stage(r) = "link" => r.ip = 0
    BY DEF CallOK
  <2>3. r.call = "link" /\ Stage(r) = "idle" => r.then = "idle"
    BY DEF CallOK, Stage
  <2> QED BY <2>1, <2>2, <2>3, Numbers
<1>5. r.call = "link" /\ Stage(r) \in {"dirlink", "link_exists", "link_bad"} => r.then # "idle"
  BY DEF CallOK, Stage
<1> QED BY <1>1, <1>2, <1>3, <1>4, <1>5, Numbers DEF OwesOf, CountedIn

LEMMA CountedOwes ==
  ASSUME NEW P \in [Proc -> Rec], \A q \in Proc : WalkOK(P[q]) /\ CallOK(P[q]), NEW i \in Inum
  PROVE  Cardinality({q \in Proc : CountedIn(P[q], i)}) = HowMany(OwesAll(P), i)
<1>1. ASSUME NEW q \in Proc
      PROVE  CountedIn(P[q], i) <=> OwesAll(P)[q] = i
  BY CountedRec DEF OwesAll
<1>2. {q \in Proc : CountedIn(P[q], i)} = {q \in Proc : OwesAll(P)[q] = i}
  BY <1>1
<1> QED BY <1>2 DEF HowMany

\* What an inode has names for, besides those that are on their way
NamesOf(i) == Cardinality(Entries(i)) + Cardinality(Subdirs(i)) + (IF i = ROOTINO THEN 1 ELSE 0)

LEMMA NamesNat ==
  ASSUME NEW i
  PROVE  NamesOf(i) \in Nat /\ NamesOf(i)' \in Nat
<1>1. NamesOf(i) \in Nat
  BY NamesFinite DEF NamesOf
<1>2. IsFiniteSet(Inum \X Name)
  BY Numbers, NamesAssumption, FS_Product
<1>3. Entries(i)' \in SUBSET (Inum \X Name) /\ Subdirs(i)' \in SUBSET Inum
  BY DEF Entries, Subdirs
<1>4. IsFiniteSet(Entries(i)') /\ IsFiniteSet(Subdirs(i)')
  BY <1>2, <1>3, Numbers, FS_Subset
<1>5. Cardinality(Entries(i)') \in Nat /\ Cardinality(Subdirs(i)') \in Nat
  BY <1>4, FS_CardinalityType
<1> QED BY <1>1, <1>5 DEF NamesOf

\* Link counts and names change alike.
LinkMoves(p) ==
  \A i \in Inum :
    /\ inode'[i].nlink \in Int
    /\ inode'[i].nlink + One(OwesOf(proc[p]), i) + NamesOf(i)
         = inode[i].nlink + One(OwesOf(proc'[p]), i) + NamesOf(i)'

LEMMA LinksStep ==
  ASSUME TypeOK, CallsOK, CallsOK', LinksExact, NEW p \in Proc, Acts(p), LinkMoves(p)
  PROVE  LinksExact' /\ \A i \in Inum : inode'[i].nlink \in Nat
<1> SUFFICES ASSUME NEW i \in Inum
             PROVE  inode'[i].nlink \in Nat /\ inode'[i].nlink =
                      NamesOf(i)' + Cardinality({q \in Proc : CountedIn(proc'[q], i)})
  BY DEF LinksExact, NamesOf, Counted, CountedIn
<1> DEFINE a == HowMany(OwesAll(proc), i)
           b == HowMany(OwesAll(proc'), i)
           m == One(OwesOf(proc[p]), i)
           n == One(OwesOf(proc'[p]), i)
           x == inode[i].nlink  y == inode'[i].nlink  k == NamesOf(i)  l == NamesOf(i)'
<1>1. Moves(a, b, OwesOf(proc[p]), OwesOf(proc'[p]), i)
  <2>1. \A q \in Proc \ {p} : OwesAll(proc')[q] = OwesAll(proc)[q]
    BY DEF OwesAll, Acts
  <2>2. OwesAll(proc')[p] = OwesOf(proc'[p]) /\ OwesAll(proc)[p] = OwesOf(proc[p])
    BY DEF OwesAll
  <2> QED BY <2>1, <2>2, CountMoves
<1>2. a \in Nat /\ b \in Nat /\ m \in Nat /\ n \in Nat
  BY CountNat, OneNat
<1>3. k \in Nat /\ l \in Nat
  BY NamesNat
<1>4. x = k + a
  <2>1. Cardinality({q \in Proc : CountedIn(proc[q], i)}) = a
    BY CountedOwes DEF CallsOK
  <2>2. {q \in Proc : CountedIn(proc[q], i)} = {q \in Proc : Counted(q, i)}
    BY DEF Counted, CountedIn
  <2> QED BY <2>1, <2>2 DEF LinksExact, NamesOf
<1>5. Cardinality({q \in Proc : CountedIn(proc'[q], i)}) = b
  BY CountedOwes DEF CallsOK
<1>6. y \in Int /\ y + m + k = x + n + l
  BY DEF LinkMoves
<1>7. b + m = a + n
  BY <1>1 DEF Moves
<1> HIDE DEF a, b, m, n, x, y, k, l
<1>8. y + m = a + n + l
  BY <1>2, <1>3, <1>4, <1>6
<1>9. y + m = b + m + l
  BY <1>2, <1>3, <1>6, <1>7, <1>8
<1>10. y = l + b /\ y \in Nat
  BY <1>2, <1>3, <1>6, <1>9
<1> QED BY <1>5, <1>10 DEF y, l
-----------------------------------------------------------------------------
(* The records of calls                                                    *)

LEMMA IdleRec ==
  /\ GoodRec(Idle) /\ Idle.call = "none" /\ Idle.pc = "idle" /\ Stage(Idle) = "idle"
  /\ DpOf(Idle) = 0 /\ IpOf(Idle) = 0 /\ P1(Idle) = 0 /\ P2(Idle) = 0
  /\ LockOf(Idle) = 0 /\ OwesOf(Idle) = 0
<1>1. Idle \in Rec
  BY Numbers DEF Idle, Rec, Stages, CallNames, Elems, Dots
<1>2. Stage(Idle) = "idle"
  BY DEF Stage, Idle
<1>3. WalkOK(Idle) /\ CallOK(Idle)
  BY <1>2 DEF WalkOK, CallOK, Idle, Lookups, Parents, DirLocked, HasIp, IpLocked
<1>4. P1(Idle) = 0 /\ P2(Idle) = 0
  BY DEF P1, P2, Idle
<1> QED BY <1>1, <1>2, <1>3, <1>4
    DEF GoodRec, Idle, DpOf, IpOf, LockOf, OwesOf, Lookups, Parents, DirLocked, HasIp, IpLocked

LEMMA PutRec ==
  ASSUME NEW r \in Rec, NEW list \in Seq(Inum), NEW then \in Stages
  PROVE  /\ Put(r, list, then) \in Rec
         /\ Put(r, list, then).pc = "put" /\ Put(r, list, then).puts = list
         /\ Put(r, list, then).then = then /\ Put(r, list, then).path = <<>>
         /\ Stage(Put(r, list, then)) = then
         /\ Put(r, list, then).call = r.call /\ Put(r, list, then).name = r.name
         /\ Put(r, list, then).dp = r.dp /\ Put(r, list, then).ip = r.ip
         /\ Put(r, list, then).new = r.new /\ Put(r, list, then).old = r.old
         /\ Put(r, list, then).par = r.par
<1>1. <<>> \in Seq(Elems) /\ "put" \in Stages \cup {"walk", "put"}
  OBVIOUS
<1>2. Put(r, list, then) \in Rec
  BY <1>1 DEF Put, Rec
<1> QED BY <1>2 DEF Put, Rec, Stage

LEMMA NameiRec ==
  ASSUME cwd \in [Proc -> Inum], NEW p \in Proc, NEW r \in Rec, NEW path \in Seq(Elems),
         NEW par \in BOOLEAN, NEW then \in Stages, NEW n, n = namei(p, r, path, par, then)
  PROVE  /\ n \in Rec /\ n.par = par
         /\ n.pc = "walk" /\ n.path = path /\ n.dp = cwd[p] /\ n.then = then
         /\ n.call = r.call /\ n.name = r.name /\ n.ip = r.ip /\ n.puts = r.puts
         /\ n.new = r.new /\ n.old = r.old
<1>1. cwd[p] \in 0..NINODE
  BY Numbers
<1>2. n \in Rec
  BY <1>1 DEF namei, Rec
<1>3. n.par = par
  BY DEF namei, Rec
<1> QED BY <1>2, <1>3 DEF namei, Rec

LEMMA ListPuts ==
  ASSUME NEW r
  PROVE  /\ r.puts = <<>> => P1(r) = 0 /\ P2(r) = 0
         /\ \A x \in Inum : r.puts = <<x>> => P1(r) = x /\ P2(r) = 0
         /\ \A x, y \in Inum : r.puts = <<x, y>> => P1(r) = x /\ P2(r) = y
<1>1. r.puts = <<>> => P1(r) = 0 /\ P2(r) = 0
  BY DEF P1, P2
<1>2. ASSUME NEW x \in Inum, r.puts = <<x>>
      PROVE  P1(r) = x /\ P2(r) = 0
  <2>1. Len(r.puts) = 1 /\ r.puts[1] = x
    BY <1>2
  <2> QED BY <2>1 DEF P1, P2
<1>3. ASSUME NEW x \in Inum, NEW y \in Inum, r.puts = <<x, y>>
      PROVE  P1(r) = x /\ P2(r) = y
  <2>1. Len(r.puts) = 2 /\ r.puts[1] = x /\ r.puts[2] = y
    BY <1>3
  <2> QED BY <2>1 DEF P1, P2
<1> QED BY <1>1, <1>2, <1>3

\* The references of one process, by kind
Ones(f, c, d, k, x, y, i) ==
  One(f, i) + One(c, i) + One(d, i) + One(k, i) + One(x, i) + One(y, i)

LEMMA OneZero ==
  ASSUME NEW i \in Inum
  PROVE  One(0, i) = 0
BY Numbers DEF One

-----------------------------------------------------------------------------
(* Reference counts                                                        *)

\* What p refers to before a step, and after it
Before(p, i) == Mine(fd[p], cwd[p], proc[p], i)
After(p, i) == Mine(fd'[p], cwd'[p], proc'[p], i)

LEMMA BeforeNat ==
  ASSUME NEW p, NEW i
  PROVE  Before(p, i) \in Nat /\ After(p, i) \in Nat
BY MineNat DEF Before, After

LEMMA GetRef ==
  ASSUME TypeOK, NEW x \in Inum
  PROVE  Get(x) \in [Inum -> Nat] /\ \A i \in Inum : Get(x)[i] = ref[i] + One(x, i)
<1>1. ref \in [Inum -> Nat]
  BY DEF TypeOK
<1> QED BY <1>1 DEF Get, One

LEMMA RefSame ==
  ASSUME TypeOK, NEW p \in Proc, ref' = ref, leaked' = leaked,
         \A i \in Inum : After(p, i) = Before(p, i)
  PROVE  RefMoves(p)
<1>1. ref \in [Inum -> Nat] /\ leaked \in [Inum -> Nat]
  BY DEF TypeOK
<1>2. ASSUME NEW i \in Inum
      PROVE  ref'[i] + Before(p, i) + leaked[i] = ref[i] + After(p, i) + leaked'[i]
  OBVIOUS
<1> QED BY <1>1, <1>2 DEF RefMoves, Before, After

LEMMA RefGet ==
  ASSUME TypeOK, NEW p \in Proc, NEW x \in Inum, ref' = Get(x), leaked' = leaked,
         \A i \in Inum : After(p, i) = Before(p, i) + One(x, i)
  PROVE  RefMoves(p)
<1>1. ref \in [Inum -> Nat] /\ leaked \in [Inum -> Nat]
  BY DEF TypeOK
<1>2. ref' \in [Inum -> Nat] /\ \A i \in Inum : ref'[i] = ref[i] + One(x, i)
  BY GetRef
<1>3. ASSUME NEW i \in Inum
      PROVE  ref'[i] + Before(p, i) + leaked[i] = ref[i] + After(p, i) + leaked'[i]
  <2>1. ref[i] \in Nat /\ leaked[i] \in Nat /\ Before(p, i) \in Nat /\ One(x, i) \in Nat
    BY <1>1, BeforeNat, OneNat
  <2>2. ref'[i] = ref[i] + One(x, i) /\ After(p, i) = Before(p, i) + One(x, i)
    BY <1>2
  <2> QED BY <2>1, <2>2
<1> QED BY <1>1, <1>2, <1>3 DEF RefMoves, Before, After

\* A reference to x is left behind, and one to y is taken or not.
LEMMA RefLeak ==
  ASSUME TypeOK, NEW p \in Proc, NEW x \in Inum,
         leaked' = [leaked EXCEPT ![x] = @ + 1],
         NEW y \in 0..NINODE, ref' = (IF y = 0 THEN ref ELSE Get(y)),
         \A i \in Inum : After(p, i) + One(x, i) = Before(p, i) + One(y, i)
  PROVE  RefMoves(p)
<1>1. ref \in [Inum -> Nat] /\ leaked \in [Inum -> Nat]
  BY DEF TypeOK
<1>2. ref' \in [Inum -> Nat] /\ \A i \in Inum : ref'[i] = ref[i] + One(y, i)
  <2>1. CASE y = 0
    BY <2>1, <1>1, OneZero
  <2>2. CASE y # 0
    BY <2>2, GetRef, Numbers
  <2> QED BY <2>1, <2>2
<1>3. leaked' \in [Inum -> Nat] /\ \A i \in Inum : leaked'[i] = leaked[i] + One(x, i)
  BY <1>1 DEF One
<1>4. ASSUME NEW i \in Inum
      PROVE  ref'[i] + Before(p, i) + leaked[i] = ref[i] + After(p, i) + leaked'[i]
  <2>1. ref[i] \in Nat /\ leaked[i] \in Nat /\ Before(p, i) \in Nat /\ After(p, i) \in Nat
        /\ One(x, i) \in Nat /\ One(y, i) \in Nat
    BY <1>1, BeforeNat, OneNat
  <2>2. ref'[i] = ref[i] + One(y, i) /\ leaked'[i] = leaked[i] + One(x, i)
        /\ After(p, i) + One(x, i) = Before(p, i) + One(y, i)
    BY <1>2, <1>3
  <2> QED BY <2>1, <2>2
<1> QED BY <1>2, <1>3, <1>4 DEF RefMoves, Before, After

\* Counts grow, but not those of free inodes.
RefGrows == \A i \in Inum : ref'[i] >= ref[i] /\ (inode[i].type = "free" => ref'[i] = ref[i])

LEMMA GrowsSame ==
  ASSUME TypeOK, ref' = ref
  PROVE  RefGrows
BY DEF RefGrows, TypeOK

LEMMA GrowsGet ==
  ASSUME TypeOK, NEW x \in Inum, ref' = Get(x), inode[x].type # "free"
  PROVE  RefGrows
<1>1. \A i \in Inum : ref'[i] = ref[i] + One(x, i) /\ ref[i] \in Nat
  BY GetRef DEF TypeOK
<1> QED BY <1>1 DEF RefGrows, One

-----------------------------------------------------------------------------
(* Steps that change no inode                                              *)

\* A call that makes a link ends it or goes on making it.
MakesOn(p) ==
  \/ Stage(proc[p]) # "created"
  \/ proc[p].call # "symlink"
  \/ (Stage(proc'[p]) = "created" /\ proc'[p].call = proc[p].call
        /\ LockOf(proc'[p]) = LockOf(proc[p]))

LEMMA StepPlain ==
  ASSUME IInv, NEW p \in Proc, Acts(p), RefMoves(p), LockMoves(p), inode' = inode, RefGrows,
         Stays(p), Knows(proc[p])', OwesOf(proc'[p]) = OwesOf(proc[p]), MakesOn(p),
         panicked' = FALSE
  PROVE  IInv'
<1> USE DEF IInv
<1>1. SameTree
  BY DEF SameTree, IsDir
<1>2. CallsOK'
  BY CallsStep
<1>3. RefsExact' /\ ref' \in [Inum -> Nat]
  BY RefsStep DEF TypeOK
<1>4. LocksExact'
  BY LocksStep
<1>5. TypeOK'
  <2>1. lock' \in [Inum -> Proc \cup {None}] /\ leaked' \in [Inum -> Nat]
    BY DEF LockMoves, RefMoves
  <2>2. fd' \in [Proc -> 0..NINODE] /\ cwd' \in [Proc -> Inum]
    BY DEF Acts
  <2>3. \A q \in Proc : proc'[q].dp \in 0..NINODE /\ proc'[q].ip \in 0..NINODE
    BY <1>2 DEF CallsOK, Rec
  <2> QED BY <1>3, <2>1, <2>2, <2>3 DEF TypeOK
<1>6. FreeUnused'
  BY DEF FreeUnused, RefGrows
<1>7. TreeOK' /\ RemovedLeft' /\ AllKnow'
  BY <1>1, SameTreeOK, SameRemoved, SameKnow
<1>8. LinksReady'
  <2>1. \A i \in Inum : Bare(i)' => Bare(i)
    BY DEF Bare
  <2> QED BY <2>1, ReadySame DEF MakesOn
<1>9. LinksExact'
  <2>1. \A i \in Inum : NamesOf(i)' = NamesOf(i)
    BY <1>1, SameNames DEF NamesOf
  <2>2. \A i \in Inum : inode[i].nlink \in Int
    BY DEF TypeOK
  <2>3. LinkMoves(p)
    BY <2>1, <2>2 DEF LinkMoves
  <2> QED BY <1>2, <2>3, LinksStep
<1>10. Reclaimed'
  BY <1>3 DEF Reclaimed, RefGrows, TypeOK
<1> QED BY <1>2, <1>3, <1>4, <1>5, <1>6, <1>7, <1>8, <1>9, <1>10

\* The locks stay when the call has the same inode locked.
LEMMA LockSame ==
  ASSUME TypeOK, LocksExact, NEW p \in Proc, lock' = lock, LockOf(proc'[p]) = LockOf(proc[p])
  PROVE  LockMoves(p)
<1>1. \A i \in Inum : i = LockOf(proc[p]) => lock[i] = p
  BY Numbers DEF LocksExact
<1> QED BY <1>1 DEF LockMoves, TypeOK

\* The record of p becomes n, and its file and directory stay.
LEMMA ActsOne ==
  ASSUME TypeOK, CallsOK, NEW p \in Proc, NEW n, GoodRec(n), proc' = [proc EXCEPT ![p] = n],
         fd' = fd, cwd' = cwd, n.call \in {"open", "create"} => fd[p] = 0
  PROVE  Acts(p) /\ proc'[p] = n
BY DEF Acts, TypeOK, CallsOK, GoodRec

LEMMA MineBefore ==
  ASSUME NEW p, NEW i
  PROVE  Before(p, i) = Ones(fd[p], cwd[p], DpOf(proc[p]), IpOf(proc[p]), P1(proc[p]),
                             P2(proc[p]), i)
BY DEF Before, Mine, Ones

LEMMA MineAfter ==
  ASSUME NEW p, NEW i
  PROVE  After(p, i) = Ones(fd'[p], cwd'[p], DpOf(proc'[p]), IpOf(proc'[p]), P1(proc'[p]),
                            P2(proc'[p]), i)
BY DEF After, Mine, Ones

\* A call goes on from directory d to x, and will put d.
LEMMA OnesAhead ==
  ASSUME NEW f, NEW c, NEW i \in Inum, NEW d, NEW k, NEW x
  PROVE  Ones(f, c, x, k, d, 0, i) = Ones(f, c, d, k, 0, 0, i) + One(x, i)
<1>1. One(0, i) = 0 /\ One(f, i) \in Nat /\ One(c, i) \in Nat /\ One(d, i) \in Nat
      /\ One(k, i) \in Nat /\ One(x, i) \in Nat
  BY OneNat, OneZero
<1> QED BY <1>1 DEF Ones

\* How the references of a call move
LEMMA OnesMoves ==
  ASSUME NEW f, NEW c, NEW i \in Inum
  PROVE  /\ \A d, k : Ones(f, c, 0, 0, d, k, i) = Ones(f, c, d, k, 0, 0, i)
         /\ \A d, k : Ones(f, c, 0, k, d, 0, i) = Ones(f, c, d, k, 0, 0, i)
         /\ \A d, k : Ones(f, c, d, 0, k, 0, i) = Ones(f, c, d, k, 0, 0, i)
         /\ \A d, k, x : Ones(f, c, x, k, d, 0, i) = Ones(f, c, d, k, 0, 0, i) + One(x, i)
         /\ \A d, x : Ones(f, c, d, x, 0, 0, i) = Ones(f, c, d, 0, 0, 0, i) + One(x, i)
         /\ \A d, k, x : Ones(f, c, d, k, x, 0, i) = Ones(f, c, d, k, 0, 0, i) + One(x, i)
         /\ \A d, k, x : Ones(f, c, x, k, 0, 0, i) = Ones(f, c, 0, k, 0, 0, i) + One(x, i)
         /\ \A d, k, x, y : Ones(f, c, d, k, x, y, i) = Ones(f, c, d, k, y, 0, i) + One(x, i)
<1>1. \A h : One(h, i) \in Nat
  BY OneNat
<1>2. One(0, i) = 0 /\ One(f, i) \in Nat /\ One(c, i) \in Nat
  BY OneNat, OneZero
<1> SUFFICES ASSUME NEW d, NEW k, NEW x, NEW y
             PROVE  /\ Ones(f, c, 0, 0, d, k, i) = Ones(f, c, d, k, 0, 0, i)
                    /\ Ones(f, c, 0, k, d, 0, i) = Ones(f, c, d, k, 0, 0, i)
                    /\ Ones(f, c, d, 0, k, 0, i) = Ones(f, c, d, k, 0, 0, i)
                    /\ Ones(f, c, x, k, d, 0, i) = Ones(f, c, d, k, 0, 0, i) + One(x, i)
                    /\ Ones(f, c, d, x, 0, 0, i) = Ones(f, c, d, 0, 0, 0, i) + One(x, i)
                    /\ Ones(f, c, d, k, x, 0, i) = Ones(f, c, d, k, 0, 0, i) + One(x, i)
                    /\ Ones(f, c, x, k, 0, 0, i) = Ones(f, c, 0, k, 0, 0, i) + One(x, i)
                    /\ Ones(f, c, d, k, x, y, i) = Ones(f, c, d, k, y, 0, i) + One(x, i)
  OBVIOUS
<1>3. One(d, i) \in Nat /\ One(k, i) \in Nat /\ One(x, i) \in Nat /\ One(y, i) \in Nat
  BY OneNat
<1> QED BY <1>2, <1>3 DEF Ones

-----------------------------------------------------------------------------
(* A call starts or goes on                                                *)

LEMMA NameiGood ==
  ASSUME TypeOK, NEW p \in Proc, NEW r \in Rec, r.puts = <<>>,
         NEW path \in Seq(Elems), path # <<>>, NEW then \in Lookups,
         NEW par \in BOOLEAN, par <=> then \in Parents, then \in {"dirlink", "readi"} => r.ip # 0,
         NEW n, n = namei(p, r, path, par, then)
  PROVE  /\ n \in Rec /\ WalkOK(n) /\ DpOf(n) = cwd[p] /\ P1(n) = 0 /\ P2(n) = 0
         /\ IpOf(n) = (IF then = "dirlink" THEN r.ip ELSE 0) /\ OwesOf(n) = IpOf(n)
         /\ LockOf(n) = 0 /\ Stage(n) = then /\ n.pc = "walk" /\ n.then = then
         /\ n.call = r.call /\ n.ip = r.ip /\ n.new = r.new /\ n.old = r.old
<1>1. /\ n \in Rec /\ n.pc = "walk" /\ n.path = path /\ n.par = par /\ n.dp = cwd[p]
      /\ n.then = then /\ Stage(n) = then /\ n.call = r.call /\ n.name = r.name
      /\ n.ip = r.ip /\ n.puts = <<>> /\ n.new = r.new /\ n.old = r.old
  <2>1. cwd \in [Proc -> Inum] /\ then \in Stages
    BY DEF TypeOK, Stages
  <2>2. /\ n \in Rec /\ n.par = par
        /\ n.pc = "walk" /\ n.path = path /\ n.dp = cwd[p] /\ n.then = then
        /\ n.call = r.call /\ n.name = r.name /\ n.ip = r.ip /\ n.puts = r.puts
        /\ n.new = r.new /\ n.old = r.old
    BY <2>1, NameiRec
  <2>3. Stage(n) = then
    BY <2>2 DEF Stage
  <2> QED BY <2>2, <2>3
<1>2. cwd[p] # 0
  BY Numbers DEF TypeOK
<1>3. then \notin DirLocked /\ then \notin HasIp \ {"dirlink"} /\ then \notin IpLocked
      /\ then \notin {"readi_end", "link_exists", "link_bad", "unlinked"}
  BY DEF Lookups, Parents, DirLocked, HasIp, IpLocked
<1>4. WalkOK(n)
  BY <1>1, <1>2, <1>3 DEF WalkOK
<1>5. DpOf(n) = cwd[p] /\ LockOf(n) = 0
  BY <1>1, <1>3 DEF DpOf, LockOf
<1>6. IpOf(n) = (IF then = "dirlink" THEN r.ip ELSE 0) /\ OwesOf(n) = IpOf(n)
  BY <1>1, <1>3 DEF IpOf, OwesOf, HasIp
<1>7. P1(n) = 0 /\ P2(n) = 0
  BY <1>1, ListPuts
<1> QED BY <1>1, <1>4, <1>5, <1>6, <1>7

LEMMA StartStays ==
  ASSUME IInv, NEW p \in Proc, cwd' = cwd, DpOf(proc'[p]) \in {0, cwd[p]}
  PROVE  Stays(p) /\ inode[cwd[p]].type # "free" /\ cwd[p] \in Inum
<1>1. cwd[p] \in Inum
  BY DEF IInv, TypeOK
<1>2. ~Removed(cwd[p])
  BY <1>1 DEF IInv, RemovedLeft
<1>3. inode[cwd[p]].type # "free"
  BY <1>1, HeldKept DEF IInv
<1> QED BY <1>1, <1>2, <1>3 DEF Stays

\* While a path is looked up only the inode of a link is known.
LEMMA WalkKnows ==
  ASSUME NEW r, r.pc = "walk", Stage(r) \in Lookups, Stage(r) = "dirlink" => ~IsDir(r.ip)'
  PROVE  Knows(r)'
BY DEF Knows, Lookups, Parents, DirLocked

LEMMA PathSeq ==
  ASSUME NEW path \in Paths
  PROVE  path \in Seq(Elems) /\ path # <<>>
BY NamesAssumption DEF Elems

LEMMA BeginStep ==
  ASSUME IInv, NEW p \in Proc, NEW kind \in Kinds[p], NEW path \in Paths,
         NEW new \in Paths \cup {<<>>}, Begin(p, kind, path, new)
  PROVE  IInv'
<1> DEFINE r == [Idle EXCEPT !.call = kind, !.new = new,
                   !.old = IF kind = "symlink" THEN path ELSE <<>>]
           par == kind \in {"create", "mkdir", "mknod", "unlink"}
           then == CASE kind \in {"create", "mkdir", "mknod"} -> "create" [] OTHER -> kind
           n == namei(p, r, path, par, then)
<1>1. kind \in KindNames
  BY NamesAssumption
<1>2. /\ proc[p] = Idle /\ (kind \in {"open", "create"} => fd[p] = 0)
      /\ (new # <<>>) = (kind \in {"link", "symlink"})
      /\ ref' = Get(cwd[p]) /\ proc' = [proc EXCEPT ![p] = n]
      /\ UNCHANGED <<inode, lock, fd, cwd, leaked, panicked>>
  BY DEF Begin
<1>3. r \in Rec /\ r.call = kind /\ r.new = new /\ r.puts = <<>> /\ r.ip = 0
      /\ r.old = (IF kind = "symlink" THEN path ELSE <<>>)
  <2>1. Idle \in Rec /\ kind \in CallNames
    BY <1>1, IdleRec DEF GoodRec, CallNames
  <2> QED BY <2>1 DEF Rec, Idle
<1>4. then \in Lookups /\ (par <=> then \in Parents) /\ then \notin {"dirlink", "readi"}
  BY <1>1 DEF KindNames, Lookups, Parents
<1>5. path \in Seq(Elems) /\ path # <<>>
  BY PathSeq
<1>6. \/ then = kind /\ kind \notin {"create", "mkdir", "mknod"}
      \/ then = "create" /\ kind \in {"create", "mkdir", "mknod"}
  OBVIOUS
<1> HIDE DEF r, par, then
<1>7. /\ n \in Rec /\ WalkOK(n) /\ DpOf(n) = cwd[p] /\ P1(n) = 0 /\ P2(n) = 0
      /\ IpOf(n) = 0 /\ OwesOf(n) = 0 /\ LockOf(n) = 0 /\ Stage(n) = then /\ n.pc = "walk"
      /\ n.then = then /\ n.call = kind /\ n.ip = 0 /\ n.new = new
      /\ n.old = (IF kind = "symlink" THEN path ELSE <<>>)
  <2>1. TypeOK /\ par \in BOOLEAN
    BY DEF IInv, par
  <2>2. n = namei(p, r, path, par, then)
    OBVIOUS
  <2> HIDE DEF n
  <2> QED BY <2>1, <2>2, <1>3, <1>4, <1>5, NameiGood
<1> HIDE DEF n
<1>8. CallOK(n)
  BY <1>1, <1>2, <1>5, <1>6, <1>7 DEF CallOK, KindNames
<1>9. Acts(p) /\ proc'[p] = n
  BY <1>2, <1>7, <1>8, ActsOne DEF IInv, GoodRec
<1>10. cwd[p] \in Inum /\ inode[cwd[p]].type # "free" /\ Stays(p)
  BY <1>2, <1>7, <1>9, StartStays
<1>11. RefMoves(p)
  <2>1. ASSUME NEW i \in Inum
        PROVE  After(p, i) = Before(p, i) + One(cwd[p], i)
    <3>1. Before(p, i) = Ones(fd[p], cwd[p], 0, 0, 0, 0, i)
      BY <1>2, IdleRec, MineBefore
    <3>2. After(p, i) = Ones(fd[p], cwd[p], cwd[p], 0, 0, 0, i)
      BY <1>2, <1>7, <1>9, MineAfter
    <3> QED BY <3>1, <3>2, OnesMoves
  <2> QED BY <1>2, <1>10, <2>1, RefGet DEF IInv
<1>12. LockMoves(p)
  BY <1>2, <1>7, <1>9, IdleRec, LockSame DEF IInv
<1>13. RefGrows
  BY <1>2, <1>10, GrowsGet DEF IInv
<1>14. Knows(proc[p])'
  BY <1>4, <1>7, <1>9, WalkKnows
<1>15. OwesOf(proc'[p]) = OwesOf(proc[p]) /\ MakesOn(p)
  BY <1>2, <1>7, <1>9, IdleRec DEF MakesOn
<1>16. panicked' = FALSE
  BY <1>2 DEF IInv, TypeOK
<1> QED BY <1>2, <1>9, <1>10, <1>11, <1>12, <1>13, <1>14, <1>15, <1>16, StepPlain

-----------------------------------------------------------------------------
(* A call puts references or ends                                          *)

LEMMA PutGood ==
  ASSUME NEW r \in Rec, NEW list \in Seq(Inum), list # <<>>, Len(list) <= 2,
         NEW then \in AfterPut, then \in DirLocked => r.dp # 0, then \in HasIp => r.ip # 0,
         NEW n, n = Put(r, list, then)
  PROVE  /\ n \in Rec /\ WalkOK(n) /\ Stage(n) = then /\ n.pc = "put" /\ n.then = then
         /\ DpOf(n) = (IF then \in DirLocked THEN r.dp ELSE 0)
         /\ IpOf(n) = (IF then \in HasIp THEN r.ip ELSE 0)
         /\ LockOf(n) = (IF then \in DirLocked THEN r.dp ELSE IF then \in IpLocked THEN r.ip ELSE 0)
         /\ n.call = r.call /\ n.name = r.name /\ n.dp = r.dp /\ n.ip = r.ip
         /\ n.new = r.new /\ n.old = r.old /\ n.puts = list /\ n.path = <<>>
<1>1. then \in Stages /\ then \notin Lookups \cup {"readi", "readi_end"}
  BY DEF AfterPut, Stages, Lookups, Parents, DirLocked, HasIp, IpLocked
<1>2. /\ n \in Rec /\ n.pc = "put" /\ n.puts = list /\ n.then = then /\ n.path = <<>>
      /\ Stage(n) = then /\ n.call = r.call /\ n.name = r.name /\ n.dp = r.dp /\ n.ip = r.ip
      /\ n.new = r.new /\ n.old = r.old
  BY <1>1, PutRec
<1>3. WalkOK(n)
  BY <1>1, <1>2 DEF WalkOK, Lookups
<1>4. DpOf(n) = (IF then \in DirLocked THEN r.dp ELSE 0)
  BY <1>1, <1>2 DEF DpOf
<1>5. IpOf(n) = (IF then \in HasIp THEN r.ip ELSE 0)
  BY <1>2 DEF IpOf
<1>6. LockOf(n) = (IF then \in DirLocked THEN r.dp ELSE IF then \in IpLocked THEN r.ip ELSE 0)
  BY <1>2 DEF LockOf
<1> QED BY <1>2, <1>3, <1>4, <1>5, <1>6

\* A call that puts its last references has nothing else.
LEMMA PutEnd ==
  ASSUME NEW r \in Rec, CallOK(r), NEW list \in Seq(Inum), list # <<>>, Len(list) <= 2,
         NEW n, n = Put(r, list, "idle")
  PROVE  /\ GoodRec(n) /\ Stage(n) = "idle" /\ n.pc = "put" /\ n.puts = list /\ n.call = r.call
         /\ DpOf(n) = 0 /\ IpOf(n) = 0 /\ LockOf(n) = 0 /\ OwesOf(n) = 0
<1>1. "idle" \in AfterPut /\ "idle" \notin DirLocked \cup HasIp \cup IpLocked
  BY DEF AfterPut, DirLocked, HasIp, IpLocked
<1>2. /\ n \in Rec /\ WalkOK(n) /\ Stage(n) = "idle" /\ n.pc = "put" /\ n.then = "idle"
      /\ DpOf(n) = 0 /\ IpOf(n) = 0 /\ LockOf(n) = 0 /\ n.call = r.call
      /\ n.new = r.new /\ n.old = r.old /\ n.puts = list
  BY <1>1, PutGood
<1>3. CallOK(n)
  BY <1>2 DEF CallOK
<1>4. OwesOf(n) = 0
  BY <1>2 DEF OwesOf
<1> QED BY <1>2, <1>3, <1>4 DEF GoodRec

LEMMA PutOneEnd ==
  ASSUME NEW r \in Rec, CallOK(r), NEW x \in Inum, NEW n, n = Put(r, <<x>>, "idle")
  PROVE  /\ GoodRec(n) /\ Stage(n) = "idle" /\ n.pc = "put" /\ n.call = r.call
         /\ DpOf(n) = 0 /\ IpOf(n) = 0 /\ LockOf(n) = 0 /\ OwesOf(n) = 0
         /\ P1(n) = x /\ P2(n) = 0
<1> DEFINE list == <<x>>
<1>1. list \in Seq(Inum) /\ list # <<>> /\ Len(list) <= 2 /\ n = Put(r, list, "idle")
  OBVIOUS
<1>2. n.puts = list => P1(n) = x /\ P2(n) = 0
  BY ListPuts
<1> HIDE DEF list
<1> QED BY <1>1, <1>2, PutEnd

\* A call that has looked up a path
LEMMA LookupRec ==
  ASSUME NEW r \in Rec, WalkOK(r), r.pc \in Lookups
  PROVE  /\ Stage(r) = r.pc /\ DpOf(r) = r.dp /\ LockOf(r) = 0 /\ P1(r) = 0 /\ P2(r) = 0
         /\ IpOf(r) = (IF r.pc = "dirlink" THEN r.ip ELSE 0) /\ OwesOf(r) = IpOf(r)
         /\ r.dp \in 0..NINODE /\ r.puts = <<>>
<1>1. Stage(r) = r.pc /\ r.pc # "put"
  BY DEF Stage, Lookups, Parents
<1>2. r.puts = <<>>
  BY <1>1 DEF WalkOK
<1>3. r.pc \notin DirLocked \cup IpLocked /\ (r.pc \in HasIp => r.pc = "dirlink")
      /\ r.pc \notin {"link_exists", "link_bad", "unlinked"}
  BY DEF Lookups, Parents, DirLocked, IpLocked, HasIp
<1>4. DpOf(r) = r.dp /\ LockOf(r) = 0
  BY <1>1, <1>3 DEF DpOf, LockOf
<1>5. IpOf(r) = (IF r.pc = "dirlink" THEN r.ip ELSE 0) /\ OwesOf(r) = IpOf(r)
  BY <1>1, <1>3 DEF IpOf, OwesOf, HasIp
<1> QED BY <1>1, <1>2, <1>4, <1>5, ListPuts DEF Rec

LEMMA RecOf ==
  ASSUME CallsOK, NEW p \in Proc
  PROVE  proc[p] \in Rec /\ WalkOK(proc[p]) /\ CallOK(proc[p])
         /\ (proc[p].call \in {"open", "create"} => fd[p] = 0)
BY DEF CallsOK

\* A call without references ends.
LEMMA StepFail ==
  ASSUME IInv, NEW p \in Proc, proc' = [proc EXCEPT ![p] = Idle],
         UNCHANGED <<inode, ref, lock, fd, cwd, leaked>>, panicked' = FALSE,
         DpOf(proc[p]) = 0, IpOf(proc[p]) = 0, P1(proc[p]) = 0, P2(proc[p]) = 0,
         LockOf(proc[p]) = 0, OwesOf(proc[p]) = 0, Stage(proc[p]) # "created"
  PROVE  IInv'
<1>1. Acts(p) /\ proc'[p] = Idle
  BY IdleRec, ActsOne DEF IInv
<1>2. RefMoves(p)
  <2>1. ASSUME NEW i \in Inum
        PROVE  After(p, i) = Before(p, i)
    BY <1>1, IdleRec, MineBefore, MineAfter
  <2> QED BY <2>1, RefSame DEF IInv
<1>3. LockMoves(p)
  BY <1>1, IdleRec, LockSame DEF IInv
<1>4. RefGrows
  BY GrowsSame DEF IInv
<1>5. Stays(p)
  BY <1>1, IdleRec DEF Stays
<1>6. Knows(proc[p])'
  BY <1>1, IdleRec DEF Knows, Parents, DirLocked
<1>7. OwesOf(proc'[p]) = OwesOf(proc[p]) /\ MakesOn(p)
  BY <1>1, IdleRec DEF MakesOn
<1> QED BY <1>1, <1>2, <1>3, <1>4, <1>5, <1>6, <1>7, StepPlain

\* A call that has one reference puts it and ends.
LEMMA StepEnd ==
  ASSUME IInv, NEW p \in Proc, NEW x \in Inum,
         proc' = [proc EXCEPT ![p] = Put(proc[p], <<x>>, "idle")],
         UNCHANGED <<inode, ref, fd, cwd, leaked>>, panicked' = FALSE,
         \/ DpOf(proc[p]) = x /\ IpOf(proc[p]) = 0
         \/ DpOf(proc[p]) = 0 /\ IpOf(proc[p]) = x,
         P1(proc[p]) = 0, P2(proc[p]) = 0, OwesOf(proc[p]) = 0,
         \/ Stage(proc[p]) # "created"
         \/ proc[p].call # "symlink",
         LockOf(proc[p]) = 0 => lock' = lock,
         LockOf(proc[p]) # 0 => lock' = [lock EXCEPT ![LockOf(proc[p])] = None]
  PROVE  IInv'
<1> DEFINE r == proc[p]  n == Put(r, <<x>>, "idle")
<1>1. r \in Rec /\ CallOK(r) /\ (r.call \in {"open", "create"} => fd[p] = 0)
  BY RecOf DEF IInv
<1>2. /\ GoodRec(n) /\ Stage(n) = "idle" /\ n.pc = "put" /\ n.call = r.call
      /\ DpOf(n) = 0 /\ IpOf(n) = 0 /\ LockOf(n) = 0 /\ OwesOf(n) = 0
      /\ P1(n) = x /\ P2(n) = 0
  BY <1>1, PutOneEnd
<1>3. proc' = [proc EXCEPT ![p] = n]
  OBVIOUS
<1> HIDE DEF n
<1>5. Acts(p) /\ proc'[p] = n
  BY <1>1, <1>2, <1>3, ActsOne DEF IInv
<1>6. RefMoves(p)
  <2>1. ASSUME NEW i \in Inum
        PROVE  After(p, i) = Before(p, i)
    <3>1. After(p, i) = Ones(fd[p], cwd[p], 0, 0, x, 0, i)
      BY <1>2, <1>5, MineAfter
    <3>2. Before(p, i) = Ones(fd[p], cwd[p], DpOf(r), IpOf(r), 0, 0, i)
      BY MineBefore
    <3>3. Ones(fd[p], cwd[p], 0, 0, x, 0, i) = Ones(fd[p], cwd[p], x, 0, 0, 0, i)
      BY OnesMoves
    <3>4. Ones(fd[p], cwd[p], 0, 0, 0, x, i) = Ones(fd[p], cwd[p], 0, x, 0, 0, i)
          /\ Ones(fd[p], cwd[p], 0, 0, x, 0, i) = Ones(fd[p], cwd[p], 0, 0, 0, x, i)
      BY OneNat, OneZero DEF Ones
    <3> QED BY <3>1, <3>2, <3>3, <3>4
  <2> QED BY <2>1, RefSame DEF IInv
<1>7. LockMoves(p)
  <2>1. CASE LockOf(r) = 0
    BY <1>2, <1>5, <2>1, LockSame DEF IInv
  <2>2. CASE LockOf(r) # 0
    <3>1. lock \in [Inum -> Proc \cup {None}]
      BY DEF IInv, TypeOK
    <3>2. lock' \in [Inum -> Proc \cup {None}]
      BY <2>2, <3>1
    <3>3. \A i \in Inum : lock'[i] = IF i = LockOf(r) THEN None ELSE lock[i]
      BY <2>2, <3>1
    <3> QED BY <1>2, <1>5, <3>2, <3>3, Numbers DEF LockMoves
  <2> QED BY <2>1, <2>2
<1>8. RefGrows
  BY GrowsSame DEF IInv
<1>9. Stays(p)
  BY <1>2, <1>5 DEF Stays
<1>10. Knows(proc[p])'
  BY <1>2, <1>5 DEF Knows, Parents, DirLocked, GoodRec, WalkOK, Stage
<1>11. OwesOf(proc'[p]) = OwesOf(proc[p]) /\ MakesOn(p)
  BY <1>2, <1>5 DEF MakesOn
<1> QED BY <1>5, <1>6, <1>7, <1>8, <1>9, <1>10, <1>11, StepPlain

-----------------------------------------------------------------------------
(* open, chdir, close                                                      *)

LEMMA ActsAll ==
  ASSUME TypeOK, CallsOK, NEW p \in Proc, NEW n, GoodRec(n), proc' = [proc EXCEPT ![p] = n],
         NEW f \in 0..NINODE, fd' = [fd EXCEPT ![p] = f],
         NEW c \in Inum, cwd' = [cwd EXCEPT ![p] = c], n.call \in {"open", "create"} => f = 0
  PROVE  Acts(p) /\ proc'[p] = n /\ fd'[p] = f /\ cwd'[p] = c
BY DEF Acts, TypeOK, CallsOK, GoodRec

LEMMA OnesFile ==
  ASSUME NEW i \in Inum, NEW f, NEW c, NEW d
  PROVE  /\ Ones(0, c, 0, 0, d, 0, i) = Ones(d, c, 0, 0, 0, 0, i)
         /\ Ones(d, c, 0, 0, 0, 0, i) = Ones(0, c, d, 0, 0, 0, i)
         /\ Ones(d, c, 0, 0, 0, 0, i) = Ones(0, c, 0, d, 0, 0, i)
         /\ Ones(f, d, 0, 0, c, 0, i) = Ones(f, c, d, 0, 0, 0, i)
<1>1. One(0, i) = 0 /\ One(f, i) \in Nat /\ One(c, i) \in Nat /\ One(d, i) \in Nat
  BY OneNat, OneZero
<1> QED BY <1>1 DEF Ones

LEMMA LockRelease ==
  ASSUME TypeOK, NEW p \in Proc, LockOf(proc'[p]) = 0,
         lock' = [lock EXCEPT ![LockOf(proc[p])] = None]
  PROVE  LockMoves(p)
<1>1. lock \in [Inum -> Proc \cup {None}]
  BY DEF TypeOK
<1>2. lock' \in [Inum -> Proc \cup {None}]
  BY <1>1
<1>3. \A i \in Inum : lock'[i] = IF i = LockOf(proc[p]) THEN None ELSE lock[i]
  BY <1>1
<1> QED BY <1>2, <1>3, Numbers DEF LockMoves

LEMMA LockTake ==
  ASSUME TypeOK, NEW p \in Proc, NEW x \in Inum, LockOf(proc[p]) = 0, LockOf(proc'[p]) = x,
         lock[x] = None, lock' = [lock EXCEPT ![x] = p]
  PROVE  LockMoves(p)
<1>1. lock \in [Inum -> Proc \cup {None}]
  BY DEF TypeOK
<1>2. lock' \in [Inum -> Proc \cup {None}]
  BY <1>1
<1>3. \A i \in Inum : lock'[i] = IF i = x THEN p ELSE lock[i]
  BY <1>1
<1> QED BY <1>2, <1>3, Numbers DEF LockMoves

\* A process that releases one inode and has another locked
LEMMA LockSwap ==
  ASSUME TypeOK, NEW p \in Proc, NEW x \in Inum, NEW y \in Inum, x # y,
         LockOf(proc[p]) = y, LockOf(proc'[p]) = x, lock[x] = None,
         lock' = [lock EXCEPT ![x] = p, ![y] = None] \/ lock' = [lock EXCEPT ![y] = None, ![x] = p]
  PROVE  LockMoves(p)
<1>1. lock \in [Inum -> Proc \cup {None}]
  BY DEF TypeOK
<1>2. lock' \in [Inum -> Proc \cup {None}]
  BY <1>1
<1>3. \A i \in Inum : lock'[i] = IF i = x THEN p ELSE IF i = y THEN None ELSE lock[i]
  BY <1>1
<1> QED BY <1>2, <1>3, Numbers DEF LockMoves

\* What a call without references of its own knows
LEMMA QuietKnows ==
  ASSUME NEW r, Stage(r) \in {"idle", "readi_end"}
  PROVE  Knows(r)'
BY DEF Knows, DirLocked, Parents, Stage

LEMMA closeStep ==
  ASSUME IInv, NEW p \in Proc, close(p)
  PROVE  IInv'
<1> DEFINE n == Put(Idle, <<fd[p]>>, "idle")
<1>1. /\ proc[p] = Idle /\ fd[p] # 0 /\ fd' = [fd EXCEPT ![p] = 0]
      /\ proc' = [proc EXCEPT ![p] = n]
      /\ UNCHANGED <<inode, ref, lock, cwd, leaked, panicked>>
  BY DEF close
<1>2. fd[p] \in Inum /\ cwd[p] \in Inum /\ 0 \in 0..NINODE
  BY <1>1, Numbers DEF IInv, TypeOK
<1>3. /\ GoodRec(n) /\ Stage(n) = "idle" /\ n.pc = "put" /\ n.call = "none"
      /\ DpOf(n) = 0 /\ IpOf(n) = 0 /\ LockOf(n) = 0 /\ OwesOf(n) = 0
      /\ P1(n) = fd[p] /\ P2(n) = 0
  BY <1>2, IdleRec, PutOneEnd DEF GoodRec
<1> HIDE DEF n
<1>4. Acts(p) /\ proc'[p] = n /\ fd'[p] = 0 /\ cwd'[p] = cwd[p]
  <2>1. cwd' = [cwd EXCEPT ![p] = cwd[p]]
    BY <1>1 DEF IInv, TypeOK
  <2> QED BY <1>1, <1>2, <1>3, <2>1, ActsAll DEF IInv
<1>5. RefMoves(p)
  <2>1. ASSUME NEW i \in Inum
        PROVE  After(p, i) = Before(p, i)
    <3>1. After(p, i) = Ones(0, cwd[p], 0, 0, fd[p], 0, i)
      BY <1>3, <1>4, MineAfter
    <3>2. Before(p, i) = Ones(fd[p], cwd[p], 0, 0, 0, 0, i)
      BY <1>1, IdleRec, MineBefore
    <3> QED BY <3>1, <3>2, OnesFile
  <2> QED BY <1>1, <2>1, RefSame DEF IInv
<1>6. LockMoves(p)
  BY <1>1, <1>3, <1>4, IdleRec, LockSame DEF IInv
<1>7. RefGrows /\ Stays(p)
  BY <1>1, <1>3, <1>4, GrowsSame DEF IInv, Stays
<1>8. Knows(proc[p])'
  BY <1>3, <1>4, QuietKnows
<1>9. OwesOf(proc'[p]) = OwesOf(proc[p]) /\ MakesOn(p) /\ panicked' = FALSE
  BY <1>1, <1>3, <1>4, IdleRec DEF MakesOn, IInv, TypeOK
<1> QED BY <1>1, <1>4, <1>5, <1>6, <1>7, <1>8, <1>9, StepPlain

\* A file opened: the reference of the call becomes one of the file.
LEMMA StepOpen ==
  ASSUME IInv, NEW p \in Proc, NEW x \in Inum, fd[p] = 0,
         fd' = [fd EXCEPT ![p] = x], proc' = [proc EXCEPT ![p] = Idle],
         UNCHANGED <<inode, ref, cwd, leaked>>, panicked' = FALSE,
         \/ DpOf(proc[p]) = x /\ IpOf(proc[p]) = 0
         \/ DpOf(proc[p]) = 0 /\ IpOf(proc[p]) = x,
         P1(proc[p]) = 0, P2(proc[p]) = 0, OwesOf(proc[p]) = 0,
         \/ Stage(proc[p]) # "created"
         \/ proc[p].call # "symlink",
         LockOf(proc[p]) = 0 => lock' = lock,
         LockOf(proc[p]) # 0 => lock' = [lock EXCEPT ![LockOf(proc[p])] = None]
  PROVE  IInv'
<1>1. Acts(p) /\ proc'[p] = Idle /\ fd'[p] = x /\ cwd'[p] = cwd[p]
  <2>1. cwd' = [cwd EXCEPT ![p] = cwd[p]] /\ cwd[p] \in Inum /\ x \in 0..NINODE
    BY Numbers DEF IInv, TypeOK
  <2> QED BY <2>1, IdleRec, ActsAll DEF IInv
<1>2. RefMoves(p)
  <2>1. ASSUME NEW i \in Inum
        PROVE  After(p, i) = Before(p, i)
    <3>1. After(p, i) = Ones(x, cwd[p], 0, 0, 0, 0, i)
      BY <1>1, IdleRec, MineAfter
    <3>2. Before(p, i) = Ones(0, cwd[p], DpOf(proc[p]), IpOf(proc[p]), 0, 0, i)
      BY MineBefore
    <3> QED BY <3>1, <3>2, OnesFile
  <2> QED BY <2>1, RefSame DEF IInv
<1>3. LockMoves(p)
  <2>1. CASE LockOf(proc[p]) = 0
    BY <1>1, <2>1, IdleRec, LockSame DEF IInv
  <2>2. CASE LockOf(proc[p]) # 0
    BY <1>1, <2>2, IdleRec, LockRelease DEF IInv
  <2> QED BY <2>1, <2>2
<1>4. RefGrows /\ Stays(p)
  BY <1>1, IdleRec, GrowsSame DEF IInv, Stays
<1>5. Knows(proc[p])'
  BY <1>1, IdleRec, QuietKnows
<1>6. OwesOf(proc'[p]) = OwesOf(proc[p]) /\ MakesOn(p)
  BY <1>1, IdleRec DEF MakesOn
<1> QED BY <1>1, <1>2, <1>3, <1>4, <1>5, <1>6, StepPlain

LEMMA sys_openStep ==
  ASSUME IInv, NEW p \in Proc, sys_open(p)
  PROVE  IInv'
<1> DEFINE r == proc[p]  ip == proc[p].dp
<1>1. r \in Rec /\ WalkOK(r) /\ CallOK(r) /\ (r.call \in {"open", "create"} => fd[p] = 0)
  BY RecOf DEF IInv
<1>2. r.pc = "open" /\ UNCHANGED <<inode, ref, lock, cwd, leaked>>
  BY DEF sys_open, At
<1>3. /\ Stage(r) = "open" /\ DpOf(r) = ip /\ LockOf(r) = 0 /\ P1(r) = 0 /\ P2(r) = 0
      /\ IpOf(r) = 0 /\ OwesOf(r) = 0 /\ ip \in 0..NINODE
  <2>1. r.pc \in Lookups /\ r.pc # "dirlink"
    BY <1>2 DEF Lookups
  <2> HIDE DEF r
  <2> QED BY <1>1, <1>2, <2>1, LookupRec DEF r
<1>4. r.call = "open" /\ fd[p] = 0
  BY <1>1, <1>3 DEF CallOK
<1>5. panicked = FALSE
  BY DEF IInv, TypeOK
<1>6. CASE ip = 0 /\ proc' = [proc EXCEPT ![p] = Idle] /\ UNCHANGED <<fd, panicked>>
  BY <1>2, <1>3, <1>5, <1>6, StepFail
<1>7. CASE ip # 0 /\ panicked' = (panicked \/ inode[ip].type = "free")
           /\ fd' = [fd EXCEPT ![p] = ip] /\ proc' = [proc EXCEPT ![p] = Idle]
  <2>1. ip \in Inum /\ inode[ip].type # "free"
    BY <1>3, <1>7, Numbers, HeldKept DEF IInv
  <2>2. panicked' = FALSE
    BY <1>5, <1>7, <2>1
  <2> QED BY <1>2, <1>3, <1>4, <1>7, <2>1, <2>2, StepOpen
<1>8. CASE ip # 0 /\ proc' = [proc EXCEPT ![p] = Put(proc[p], <<ip>>, "idle")]
           /\ UNCHANGED <<fd, panicked>>
  <2>1. ip \in Inum
    BY <1>3, <1>8, Numbers
  <2> QED BY <1>2, <1>3, <1>5, <1>8, <2>1, StepEnd
<1>9. \/ ip = 0 /\ proc' = [proc EXCEPT ![p] = Idle] /\ UNCHANGED <<fd, panicked>>
      \/ ip # 0 /\ panicked' = (panicked \/ inode[ip].type = "free")
           /\ fd' = [fd EXCEPT ![p] = ip] /\ proc' = [proc EXCEPT ![p] = Idle]
      \/ ip # 0 /\ proc' = [proc EXCEPT ![p] = Put(proc[p], <<ip>>, "idle")]
           /\ UNCHANGED <<fd, panicked>>
  <2>1. proc' = [proc EXCEPT ![p] = Put(@, <<ip>>, "idle")]
          => proc' = [proc EXCEPT ![p] = Put(proc[p], <<ip>>, "idle")]
    BY DEF IInv, CallsOK
  <2> QED BY <2>1 DEF sys_open, Fails
<1> QED BY <1>6, <1>7, <1>8, <1>9

LEMMA sys_chdirStep ==
  ASSUME IInv, NEW p \in Proc, sys_chdir(p)
  PROVE  IInv'
<1> DEFINE r == proc[p]  ip == proc[p].dp
<1>1. r \in Rec /\ WalkOK(r) /\ CallOK(r) /\ (r.call \in {"open", "create"} => fd[p] = 0)
  BY RecOf DEF IInv
<1>2. r.pc = "chdir" /\ UNCHANGED <<inode, ref, lock, fd, leaked, panicked>>
  BY DEF sys_chdir, At
<1>3. /\ Stage(r) = "chdir" /\ DpOf(r) = ip /\ LockOf(r) = 0 /\ P1(r) = 0 /\ P2(r) = 0
      /\ IpOf(r) = 0 /\ OwesOf(r) = 0 /\ ip \in 0..NINODE
  <2>1. r.pc \in Lookups /\ r.pc # "dirlink"
    BY <1>2 DEF Lookups
  <2> HIDE DEF r
  <2> QED BY <1>1, <1>2, <2>1, LookupRec DEF r
<1>4. panicked' = FALSE
  BY <1>2 DEF IInv, TypeOK
<1>5. CASE ip = 0 /\ proc' = [proc EXCEPT ![p] = Idle] /\ UNCHANGED cwd
  BY <1>2, <1>3, <1>4, <1>5, StepFail
<1>6. CASE ip # 0 /\ proc' = [proc EXCEPT ![p] = Put(r, <<ip>>, "idle")] /\ UNCHANGED cwd
  <2>1. ip \in Inum
    BY <1>3, <1>6, Numbers
  <2> QED BY <1>2, <1>3, <1>4, <1>6, <2>1, StepEnd
<1>7. CASE ip # 0 /\ proc' = [proc EXCEPT ![p] = Put(r, <<cwd[p]>>, "idle")]
           /\ cwd' = [cwd EXCEPT ![p] = ip]
  <2> DEFINE n == Put(r, <<cwd[p]>>, "idle")
  <2>1. ip \in Inum /\ cwd[p] \in Inum /\ fd[p] \in 0..NINODE
    BY <1>3, <1>7, Numbers DEF IInv, TypeOK
  <2>2. /\ GoodRec(n) /\ Stage(n) = "idle" /\ n.pc = "put" /\ n.call = r.call
        /\ DpOf(n) = 0 /\ IpOf(n) = 0 /\ LockOf(n) = 0 /\ OwesOf(n) = 0
        /\ P1(n) = cwd[p] /\ P2(n) = 0
    BY <1>1, <2>1, PutOneEnd
  <2>3. proc' = [proc EXCEPT ![p] = n]
    BY <1>7
  <2> HIDE DEF n
  <2>4. Acts(p) /\ proc'[p] = n /\ fd'[p] = fd[p] /\ cwd'[p] = ip
    <3>1. fd' = [fd EXCEPT ![p] = fd[p]]
      BY <1>2 DEF IInv, TypeOK
    <3>2. r.call # "open" /\ r.call # "create"
      BY <1>1, <1>3 DEF CallOK
    <3>3. n.call \notin {"open", "create"} /\ TypeOK /\ CallsOK /\ ip \in Inum
      BY <2>1, <2>2, <3>2 DEF IInv
    <3>4. cwd' = [cwd EXCEPT ![p] = ip]
      BY <1>7
    <3> HIDE DEF r, ip
    <3>5. GoodRec(n)
      BY <2>2
    <3> QED BY ONLY p \in Proc, <2>1, <2>3, <3>1, <3>3, <3>4, <3>5, ActsAll, ZenonT(30)
  <2>5. RefMoves(p)
    <3>1. ASSUME NEW i \in Inum
          PROVE  After(p, i) = Before(p, i)
      <4>1. After(p, i) = Ones(fd[p], ip, 0, 0, cwd[p], 0, i)
        <5>1. After(p, i) = Ones(fd[p], ip, DpOf(n), IpOf(n), P1(n), P2(n), i)
          BY <2>4, MineAfter
        <5> QED BY <2>2, <5>1
      <4>2. Before(p, i) = Ones(fd[p], cwd[p], ip, 0, 0, 0, i)
        BY <1>3, MineBefore
      <4> QED BY <4>1, <4>2, OnesFile
    <3> QED BY <1>2, <3>1, RefSame DEF IInv
  <2>6. LockMoves(p)
    BY <1>2, <1>3, <2>2, <2>4, LockSame DEF IInv
  <2>7. Stays(p)
    <3>1. ~Removed(ip)
      BY <1>3, <2>1 DEF IInv, RemovedLeft
    <3> QED BY <2>2, <2>4, <3>1 DEF Stays
  <2>8. RefGrows /\ OwesOf(proc'[p]) = OwesOf(proc[p]) /\ MakesOn(p)
    BY <1>2, <1>3, <2>2, <2>4, GrowsSame DEF IInv, MakesOn
  <2>9. Knows(proc[p])'
    BY <2>2, <2>4, QuietKnows
  <2> QED BY <1>2, <1>4, <2>4, <2>5, <2>6, <2>7, <2>8, <2>9, StepPlain
<1>8. \/ ip = 0 /\ proc' = [proc EXCEPT ![p] = Idle] /\ UNCHANGED cwd
      \/ ip # 0 /\ proc' = [proc EXCEPT ![p] = Put(r, <<ip>>, "idle")] /\ UNCHANGED cwd
      \/ ip # 0 /\ proc' = [proc EXCEPT ![p] = Put(r, <<cwd[p]>>, "idle")]
           /\ cwd' = [cwd EXCEPT ![p] = ip]
  BY DEF sys_chdir, Fails, IInv, CallsOK
<1> QED BY <1>5, <1>6, <1>7, <1>8

-----------------------------------------------------------------------------
(* A call goes on                                                          *)

\* A call that stays in its stage is as it was.
LEMMA CallSame ==
  ASSUME NEW r, CallOK(r), NEW n, Stage(n) = Stage(r), n.call = r.call, n.new = r.new,
         n.old = r.old, n.ip = r.ip, n.then = r.then, n.pc \notin {"idle", "link_exists", "link_bad"},
         n.pc = "dirlink" => n.then # "idle"
  PROVE  CallOK(n)
BY DEF CallOK

\* An inode that has a name is allocated.
LEMMA NamedKept ==
  ASSUME IInv, NEW i \in Inum, Entries(i) # {}
  PROVE  inode[i].type # "free" /\ inode[i].nlink >= 1
<1>1. Cardinality(Entries(i)) \in Nat /\ Cardinality(Subdirs(i)) \in Nat
      /\ Cardinality(Entries(i)) # 0
  BY NamesFinite, FS_EmptySet
<1>2. Cardinality({q \in Proc : Counted(q, i)}) \in Nat
  BY NamesAssumption, FS_Subset, FS_CardinalityType
<1>3. inode[i].nlink = Cardinality(Entries(i)) + Cardinality(Subdirs(i))
        + (IF i = ROOTINO THEN 1 ELSE 0) + Cardinality({q \in Proc : Counted(q, i)})
  BY DEF IInv, LinksExact
<1>4. inode[i].nlink >= 1
  BY <1>1, <1>2, <1>3
<1>5. inode[i].type = "free" => inode[i].nlink = 0
  BY DEF IInv, FreeUnused, Free
<1> QED BY <1>4, <1>5

\* What a name in a directory that is in use leads to is in use.
LEMMA NextKept ==
  ASSUME IInv, NEW dp \in Inum, IsDir(dp), ~Removed(dp), NEW e \in Elems,
         inode[dp].ents[e] # 0
  PROVE  /\ inode[dp].ents[e] \in Inum /\ inode[inode[dp].ents[e]].type # "free"
         /\ ~Removed(inode[dp].ents[e])
<1> DEFINE i == inode[dp].ents[e]
<1>1. i \in Inum
  BY Numbers DEF IInv, TypeOK, Elems
<1>2. CASE e \in Name
  <2>1. <<dp, e>> \in Entries(i)
    BY <1>2 DEF Entries
  <2> QED BY <1>1, <2>1, NamedKept DEF Removed
<1>3. CASE e = "."
  <2>1. i = dp
    BY <1>3 DEF IInv, TreeOK
  <2> QED BY <1>1, <2>1 DEF IsDir
<1>4. CASE e = ".."
  <2>1. CASE dp = ROOTINO
    <3>1. i = ROOTINO
      BY <1>4, <2>1 DEF IInv, TreeOK
    <3> QED BY <1>1, <2>1, <3>1 DEF IsDir
  <2>2. CASE dp # ROOTINO
    <3>1. PICK f \in Entries(dp) : TRUE
      BY <2>2 DEF Removed
    <3>2. f[1] = i /\ f[2] \in Name /\ IsDir(i) /\ inode[i].ents[f[2]] = dp
      BY <1>4, <3>1 DEF IInv, TreeOK, Entries
    <3>3. ~IsDirEmpty(i)
      BY <3>2, Numbers DEF IsDirEmpty
    <3> QED BY <1>1, <3>2, <3>3 DEF IInv, RemovedLeft, IsDir
  <2> QED BY <2>1, <2>2
<1> QED BY <1>2, <1>3, <1>4 DEF Elems, Dots

\* A call that looks up a path
LEMMA WalkRec ==
  ASSUME NEW r \in Rec, WalkOK(r), r.pc = "walk"
  PROVE  /\ Stage(r) = r.then /\ r.then \in Lookups /\ DpOf(r) = r.dp /\ r.dp \in Inum
         /\ LockOf(r) = 0 /\ P1(r) = 0 /\ P2(r) = 0 /\ r.puts = <<>> /\ r.path # <<>>
         /\ r.path \in Seq(Elems) /\ (r.par <=> r.then \in Parents)
         /\ IpOf(r) = (IF r.then = "dirlink" THEN r.ip ELSE 0) /\ OwesOf(r) = IpOf(r)
         /\ (r.then \in {"dirlink", "readi"} => r.ip # 0)
<1>1. Stage(r) = r.then /\ r.then \in Lookups /\ r.dp # 0 /\ r.path # <<>>
      /\ r.dp \in 0..NINODE /\ r.path \in Seq(Elems)
  BY DEF Stage, WalkOK, Rec
<1>2. r.puts = <<>> /\ (r.par <=> r.then \in Parents)
      /\ (r.then \in {"dirlink", "readi"} => r.ip # 0)
  BY <1>1 DEF WalkOK, HasIp
<1>3. r.then \notin DirLocked \cup IpLocked /\ (r.then \in HasIp => r.then = "dirlink")
      /\ r.then \notin {"link_exists", "link_bad", "unlinked"}
  BY <1>1 DEF Lookups, Parents, DirLocked, IpLocked, HasIp
<1>4. DpOf(r) = r.dp /\ LockOf(r) = 0
  BY <1>1, <1>3 DEF DpOf, LockOf
<1>5. IpOf(r) = (IF r.then = "dirlink" THEN r.ip ELSE 0) /\ OwesOf(r) = IpOf(r)
  BY <1>1, <1>3 DEF IpOf, OwesOf, HasIp
<1> QED BY <1>1, <1>2, <1>4, <1>5, ListPuts, Numbers

\* A call that puts the directory it has looked up a name in, and has found i
LEMMA FoundGood ==
  ASSUME NEW r \in Rec, WalkOK(r), CallOK(r), r.pc = "walk", NEW i \in 0..NINODE,
         NEW n \in Rec, n.pc = "put", n.dp = i, n.then = r.then, n.call = r.call,
         n.ip = r.ip, n.new = r.new, n.old = r.old, n.par = r.par,
         i = 0 => n.path = <<>>, n.path = <<>> /\ r.par => i = 0,
         n.puts # <<>>, Len(n.puts) = 1, P1(n) = r.dp, P2(n) = 0
  PROVE  /\ GoodRec(n) /\ Stage(n) = r.then /\ DpOf(n) = i
         /\ IpOf(n) = IpOf(r) /\ LockOf(n) = 0 /\ OwesOf(n) = OwesOf(r)
<1>1. /\ Stage(r) = r.then /\ r.then \in Lookups
      /\ (r.par <=> r.then \in Parents) /\ (r.then \in {"dirlink", "readi"} => r.ip # 0)
  BY WalkRec
<1>2. Stage(n) = r.then
  BY DEF Stage
<1>3. r.then \notin DirLocked \cup IpLocked /\ (r.then \in HasIp => r.then = "dirlink")
      /\ r.then \notin {"link_exists", "link_bad", "unlinked", "readi_end"}
  BY <1>1 DEF Lookups, Parents, DirLocked, IpLocked, HasIp
<1>4. WalkOK(n)
  <2>1. Len(n.puts) <= 2
    OBVIOUS
  <2>2. n.path # <<>> => n.then \in Lookups /\ n.dp # 0
    BY <1>1
  <2>3. n.path = <<>> /\ n.then \in Parents => n.dp = 0
    BY <1>1
  <2>4. Stage(n) \in Lookups => (n.par <=> Stage(n) \in Parents)
    BY <1>1, <1>2
  <2>5. Stage(n) \notin DirLocked /\ (Stage(n) \in HasIp \cup {"readi", "readi_end"} => n.ip # 0)
    BY <1>1, <1>2, <1>3
  <2> QED BY <1>1, <2>1, <2>2, <2>3, <2>4, <2>5 DEF WalkOK
<1>5. CallOK(n)
  BY <1>1, <1>2, CallSame
<1>6. DpOf(n) = i /\ LockOf(n) = 0
  BY <1>1, <1>2, <1>3 DEF DpOf, LockOf
<1>7. IpOf(n) = IpOf(r) /\ OwesOf(n) = OwesOf(r)
  BY <1>1, <1>2 DEF IpOf, OwesOf
<1> QED BY <1>2, <1>4, <1>5, <1>6, <1>7 DEF GoodRec
\* What a call in the stage of a lookup knows while it puts references
LEMMA PutKnows ==
  ASSUME NEW r, r.pc = "put", Stage(r) \in Lookups, Stage(r) = "dirlink" => ~IsDir(r.ip)'
  PROVE  Knows(r)'
BY DEF Knows, Lookups, Parents, DirLocked

LEMMA namexStep ==
  ASSUME IInv, NEW p \in Proc, namex(p)
  PROVE  IInv'
<1> DEFINE next == inode[proc[p].dp].ents[Head(proc[p].path)]
<1>0. PICK r : r = proc[p]
  OBVIOUS
<1> DEFINE dp == r.dp
           Found(i) == [r EXCEPT !.pc = "put", !.puts = <<dp>>, !.dp = i,
                          !.path = IF i = 0 THEN <<>> ELSE Tail(@)]
           m == [r EXCEPT !.pc = r.then, !.name = Head(r.path), !.path = <<>>]
<1>1. r \in Rec /\ WalkOK(r) /\ CallOK(r) /\ (r.call \in {"open", "create"} => fd[p] = 0)
  BY <1>0, RecOf DEF IInv
<1>2. /\ r.pc = "walk" /\ UNCHANGED <<inode, lock, fd, cwd, leaked>>
      /\ panicked' = (panicked \/ inode[dp].type = "free")
      /\ \/ proc' = [proc EXCEPT ![p] = Found(0)] /\ ref' = ref
         \/ /\ IsDir(dp) /\ r.par /\ ref' = ref
            /\ proc' = [proc EXCEPT ![p] = m]
         \/ /\ IsDir(dp) /\ next # 0 /\ ~(r.par /\ Len(r.path) = 1)
            /\ ref' = Get(next)
            /\ proc' = [proc EXCEPT ![p] = Found(next)]
  BY <1>0 DEF namex
<1>3. /\ Stage(r) = r.then /\ r.then \in Lookups /\ DpOf(r) = r.dp /\ r.dp \in Inum
      /\ LockOf(r) = 0 /\ P1(r) = 0 /\ P2(r) = 0 /\ r.puts = <<>> /\ r.path # <<>>
      /\ r.path \in Seq(Elems) /\ (r.par <=> r.then \in Parents)
      /\ IpOf(r) = (IF r.then = "dirlink" THEN r.ip ELSE 0) /\ OwesOf(r) = IpOf(r)
      /\ (r.then \in {"dirlink", "readi"} => r.ip # 0)
  BY <1>1, <1>2, WalkRec
<1>4. Head(r.path) \in Elems /\ Tail(r.path) \in Seq(Elems) /\ Len(r.path) \in Nat
      /\ (Tail(r.path) = <<>> => Len(r.path) = 1) /\ <<>> \in Seq(Elems)
  <2>1. r.path \in Seq(Elems) /\ r.path # <<>>
    BY <1>3
  <2>2. Len(r.path) \in Nat /\ Len(r.path) > 0
    BY <2>1
  <2>3. Head(r.path) \in Elems /\ Tail(r.path) \in Seq(Elems)
    BY <2>1
  <2>4. Len(Tail(r.path)) = Len(r.path) - 1
    BY <2>1, HeadTailProperties
  <2>5. Tail(r.path) = <<>> => Len(Tail(r.path)) = 0
    <3>1. PICK t : t = Tail(r.path)
      OBVIOUS
    <3>2. t = <<>> => Len(t) = 0
      OBVIOUS
    <3> QED BY <3>1, <3>2, Zenon
  <2>6. <<>> \in Seq(Elems)
    OBVIOUS
  <2> QED BY <2>2, <2>3, <2>4, <2>5, <2>6
<1>5. inode[dp].type # "free" /\ ~Removed(dp)
  BY <1>0, <1>3, HeldKept DEF IInv, RemovedLeft
<1>6. panicked' = FALSE
  BY <1>2, <1>5 DEF IInv, TypeOK
<1>7. r.then = "dirlink" => ~IsDir(r.ip)'
  <2>1. Knows(r)
    BY <1>0 DEF IInv, AllKnow
  <2> QED BY <1>2, <1>3, <2>1 DEF Knows, IsDir
<1>8. r.then # "created" /\ 0 \in 0..NINODE
  BY <1>3, Numbers DEF Lookups, Parents
<1>9. \A i \in Inum : Before(p, i) = Ones(fd[p], cwd[p], dp, IpOf(r), 0, 0, i)
  BY <1>0, <1>3, MineBefore
<1>10. ASSUME NEW j \in 0..NINODE, NEW n, n = Found(j), proc' = [proc EXCEPT ![p] = n],
              j = 0 => ref' = ref, j # 0 => ref' = Get(j) /\ ~(r.par /\ Len(r.path) = 1)
                                            /\ inode[j].type # "free" /\ ~Removed(j)
       PROVE  IInv'
  <2> DEFINE path == IF j = 0 THEN <<>> ELSE Tail(r.path)
  <2>1. path \in Seq(Elems) /\ (j = 0 => path = <<>>) /\ (path = <<>> /\ r.par => j = 0)
    BY <1>4, <1>10
  <2>2. n = [r EXCEPT !.pc = "put", !.puts = <<dp>>, !.dp = j, !.path = path]
    BY <1>10
  <2>0. r.dp = dp /\ (j = 0 => ref' = ref) /\ proc' = [proc EXCEPT ![p] = n]
        /\ (j # 0 => ref' = Get(j) /\ inode[j].type # "free" /\ ~Removed(j))
    BY <1>10
  <2> HIDE DEF path, dp, Found, m, next
  <2>3. /\ GoodRec(n) /\ Stage(n) = r.then /\ DpOf(n) = j /\ P1(n) = dp /\ P2(n) = 0
        /\ IpOf(n) = IpOf(r) /\ LockOf(n) = 0 /\ OwesOf(n) = OwesOf(r) /\ n.call = r.call
        /\ n.ip = r.ip /\ n.pc = "put"
    <3>1. dp \in Inum /\ r.pc = "walk" /\ dp \in 0..NINODE
      BY <1>2, <1>3, <2>0, Numbers
    <3>0. PICK list : list = <<dp>>
      OBVIOUS
    <3>2. list \in Seq(Inum) /\ Len(list) = 1 /\ list # <<>>
      BY <3>0, <3>1
    <3>3. n = [r EXCEPT !.pc = "put", !.puts = list, !.dp = j, !.path = path]
      BY <2>2, <3>0
    <3>4. n.puts = list => P1(n) = dp /\ P2(n) = 0
      BY <3>0, <3>1, ListPuts
    <3>5. n \in Rec /\ n.puts = list /\ n.dp = j /\ n.path = path /\ n.pc = "put"
          /\ n.then = r.then /\ n.call = r.call /\ n.ip = r.ip /\ n.new = r.new
          /\ n.old = r.old /\ n.par = r.par
      BY <1>1, <2>1, <3>2, <3>3 DEF Rec
    <3> QED BY <1>1, <2>0, <2>1, <3>1, <3>2, <3>4, <3>5, FoundGood
  <2>4. Acts(p) /\ proc'[p] = n
    BY <1>1, <1>2, <2>0, <2>3, ActsOne DEF IInv
  <2>5. LockMoves(p)
    BY <1>0, <1>2, <1>3, <2>3, <2>4, LockSame DEF IInv
  <2>6. Knows(proc[p])'
    BY <1>3, <1>7, <2>3, <2>4, PutKnows
  <2>7. RefMoves(p) /\ RefGrows
    <3>1. ASSUME NEW i \in Inum
          PROVE  After(p, i) = Before(p, i) + One(j, i)
      <4>1. Ones(fd[p], cwd[p], j, IpOf(r), dp, 0, i)
              = Ones(fd[p], cwd[p], dp, IpOf(r), 0, 0, i) + One(j, i)
        BY OnesAhead
      <4>2. After(p, i) = Ones(fd[p], cwd[p], j, IpOf(r), dp, 0, i)
        BY <1>2, <2>3, <2>4, MineAfter
      <4> QED BY <1>9, <4>1, <4>2
    <3>2. CASE j = 0
      <4>1. \A i \in Inum : After(p, i) = Before(p, i)
        BY <3>1, <3>2, OneZero, BeforeNat
      <4> QED BY <1>2, <2>0, <3>2, <4>1, RefSame, GrowsSame DEF IInv
    <3>3. CASE j # 0
      BY <1>2, <2>0, <3>1, <3>3, RefGet, GrowsGet, Numbers DEF IInv
    <3> QED BY <3>2, <3>3
  <2>8. MakesOn(p)
    BY <1>0, <1>3, <1>8 DEF MakesOn
  <2>9. Stays(p) /\ OwesOf(proc'[p]) = OwesOf(proc[p])
    BY <1>0, <1>2, <2>0, <2>3, <2>4 DEF Stays
  <2> QED BY <1>2, <1>6, <2>4, <2>5, <2>6, <2>7, <2>8, <2>9, StepPlain
<1>11. CASE proc' = [proc EXCEPT ![p] = Found(0)] /\ ref' = ref
  <2>1. PICK n : n = Found(0)
    OBVIOUS
  <2> QED BY <1>8, <1>10, <1>11, <2>1
<1>12. CASE IsDir(dp) /\ r.par /\ ref' = ref /\ proc' = [proc EXCEPT ![p] = m]
  <2>1. PICK n : n = m
    OBVIOUS
  <2>2. /\ n \in Rec /\ n.pc = r.then /\ n.path = <<>> /\ n.dp = dp /\ n.ip = r.ip
        /\ n.puts = <<>> /\ n.then = r.then /\ n.call = r.call /\ n.new = r.new
        /\ n.old = r.old /\ n.par = r.par
    BY <1>1, <1>3, <1>4, <2>1 DEF Rec, Stages
  <2>3. n.pc \in Parents /\ n.pc \in Lookups /\ n.pc \notin {"walk", "put"} /\ Stage(n) = n.pc
    BY <1>3, <1>12, <2>2 DEF Stage, Parents, Lookups
  <2>4. n.pc \notin DirLocked \cup {"readi_end", "readi"} /\ (n.pc \in HasIp => n.pc = "dirlink")
    BY <2>3 DEF Parents, DirLocked, HasIp, IpLocked
  <2>5. WalkOK(n)
    BY <1>3, <2>2, <2>3, <2>4 DEF WalkOK
  <2>6. CallOK(n)
    <3>1. n.pc \notin {"idle", "link_exists", "link_bad"} /\ (n.pc = "dirlink" => n.then # "idle")
      BY <2>2, <2>3 DEF Parents
    <3> QED BY <1>1, <1>3, <2>2, <2>3, <3>1, CallSame
  <2>7. /\ DpOf(n) = dp /\ LockOf(n) = 0 /\ P1(n) = 0 /\ P2(n) = 0
        /\ IpOf(n) = IpOf(r) /\ OwesOf(n) = OwesOf(r)
    BY <1>3, <2>2, <2>3, <2>5, LookupRec
  <2>8. Acts(p) /\ proc'[p] = n
    BY <1>1, <1>2, <1>12, <2>1, <2>2, <2>5, <2>6, ActsOne DEF IInv, GoodRec
  <2>9. LockMoves(p)
    BY <1>0, <1>2, <1>3, <2>7, <2>8, LockSame DEF IInv
  <2>10. Knows(proc[p])'
    <3>1. IsDir(n.dp)' /\ (Stage(n) = "dirlink" => ~IsDir(n.ip)')
      BY <1>2, <1>7, <1>12, <2>2, <2>3 DEF IsDir
    <3>2. Knows(n)'
      BY <2>3, <3>1 DEF Knows, DirLocked, Parents
    <3> QED BY <2>8, <3>2
  <2>11. MakesOn(p)
    BY <1>0, <1>3, <1>8 DEF MakesOn
  <2>12. RefMoves(p)
    <3>1. \A i \in Inum : After(p, i) = Before(p, i)
      BY <1>2, <1>9, <2>7, <2>8, MineAfter
    <3> QED BY <1>2, <1>12, <3>1, RefSame DEF IInv
  <2>13. Stays(p) /\ RefGrows /\ OwesOf(proc'[p]) = OwesOf(proc[p])
    BY <1>0, <1>2, <1>3, <1>12, <2>7, <2>8, GrowsSame DEF Stays, IInv
  <2> QED BY <1>2, <1>6, <2>8, <2>9, <2>10, <2>11, <2>12, <2>13, StepPlain
<1>13. CASE IsDir(dp) /\ next # 0 /\ ~(r.par /\ Len(r.path) = 1) /\ ref' = Get(next)
            /\ proc' = [proc EXCEPT ![p] = Found(next)]
  <2>1. PICK j : j = next
    OBVIOUS
  <2>2. j \in Inum /\ inode[j].type # "free" /\ ~Removed(j)
    BY <1>0, <1>3, <1>4, <1>5, <1>13, <2>1, NextKept
  <2>3. PICK n : n = Found(j)
    OBVIOUS
  <2> QED BY <1>10, <1>13, <2>1, <2>2, <2>3, Numbers
<1> QED BY <1>2, <1>11, <1>12, <1>13
-----------------------------------------------------------------------------
(* symlink and reading through a link                                      *)

\* A call that has a reference to x, or none if x is 0, forgets it and looks up a path.
LEMMA StepNamei ==
  ASSUME IInv, NEW p \in Proc, NEW r \in Rec, r.puts = <<>>, NEW path \in Paths,
         NEW then \in Lookups, NEW par \in BOOLEAN, par <=> then \in Parents,
         \/ then \in {"symlink_new", "create"} /\ r.call = "symlink" /\ r.new # <<>> /\ r.old # <<>>
         \/ then = "readi" /\ r.call = "read" /\ r.ip # 0,
         NEW n, n = namei(p, r, path, par, then), proc' = [proc EXCEPT ![p] = n],
         UNCHANGED <<inode, lock, fd, cwd>>, panicked' = FALSE, ref' = Get(cwd[p]),
         NEW x, DpOf(proc[p]) = x, IpOf(proc[p]) = 0, P1(proc[p]) = 0, P2(proc[p]) = 0,
         x \in 0..NINODE, x = 0 => leaked' = leaked,
         x # 0 => leaked' = [leaked EXCEPT ![x] = @ + 1],
         LockOf(proc[p]) = 0, OwesOf(proc[p]) = 0, Stage(proc[p]) # "created"
  PROVE  IInv'
<1>1. path \in Seq(Elems) /\ path # <<>> /\ TypeOK /\ CallsOK
  BY PathSeq DEF IInv
<1>2. /\ n \in Rec /\ WalkOK(n) /\ DpOf(n) = cwd[p] /\ P1(n) = 0 /\ P2(n) = 0
      /\ IpOf(n) = 0 /\ OwesOf(n) = 0 /\ LockOf(n) = 0 /\ Stage(n) = then
      /\ n.pc = "walk" /\ n.then = then /\ n.call = r.call /\ n.ip = r.ip
      /\ n.new = r.new /\ n.old = r.old
  BY <1>1, NameiGood
<1>3. CallOK(n)
  BY <1>2 DEF CallOK
<1>4. Acts(p) /\ proc'[p] = n
  BY <1>1, <1>2, <1>3, ActsOne DEF GoodRec
<1>5. cwd[p] \in Inum /\ inode[cwd[p]].type # "free" /\ Stays(p)
  BY <1>2, <1>4, StartStays
<1>6. RefMoves(p)
  <2>1. ASSUME NEW i \in Inum
        PROVE  After(p, i) + One(x, i) = Before(p, i) + One(cwd[p], i)
    <3>1. Before(p, i) = Ones(fd[p], cwd[p], x, 0, 0, 0, i)
      BY MineBefore
    <3>2. After(p, i) = Ones(fd[p], cwd[p], cwd[p], 0, 0, 0, i)
      BY <1>2, <1>4, MineAfter
    <3>3. /\ Ones(fd[p], cwd[p], x, 0, 0, 0, i) = Ones(fd[p], cwd[p], 0, 0, 0, 0, i) + One(x, i)
          /\ Ones(fd[p], cwd[p], cwd[p], 0, 0, 0, i)
               = Ones(fd[p], cwd[p], 0, 0, 0, 0, i) + One(cwd[p], i)
      BY OnesMoves
    <3>4. Ones(fd[p], cwd[p], 0, 0, 0, 0, i) \in Nat /\ One(x, i) \in Nat /\ One(cwd[p], i) \in Nat
      BY OneNat DEF Ones
    <3> QED BY <3>1, <3>2, <3>3, <3>4
  <2>2. CASE x = 0
    <3>1. \A i \in Inum : After(p, i) = Before(p, i) + One(cwd[p], i)
      BY <2>1, <2>2, OneZero, BeforeNat
    <3> QED BY <1>1, <1>5, <2>2, <3>1, RefGet
  <2>3. CASE x # 0
    <3>1. cwd[p] \in 0..NINODE /\ cwd[p] # 0 /\ x \in Inum
      BY <1>5, <2>3, Numbers
    <3> QED BY <1>1, <2>1, <2>3, <3>1, RefLeak
  <2> QED BY <2>2, <2>3
<1>7. LockMoves(p) /\ RefGrows
  BY <1>1, <1>2, <1>4, <1>5, LockSame, GrowsGet DEF IInv
<1>8. Knows(proc[p])'
  BY <1>2, <1>4, WalkKnows
<1>9. OwesOf(proc'[p]) = OwesOf(proc[p]) /\ MakesOn(p)
  BY <1>2, <1>4 DEF MakesOn
<1> QED BY <1>4, <1>5, <1>6, <1>7, <1>8, <1>9, StepPlain

\* A call goes on without a reference to x that it had.
LEMMA StepForget ==
  ASSUME IInv, NEW p \in Proc, NEW n, GoodRec(n), proc' = [proc EXCEPT ![p] = n],
         DpOf(n) = 0, IpOf(n) = 0, P1(n) = 0, P2(n) = 0, LockOf(n) = 0, OwesOf(n) = 0,
         Stage(n) \in {"idle", "readi_end"}, n.call \notin {"open", "create"},
         UNCHANGED <<inode, ref, lock, fd, cwd>>, panicked' = FALSE,
         NEW x \in 0..NINODE, DpOf(proc[p]) = x, x = 0 => leaked' = leaked,
         x # 0 => leaked' = [leaked EXCEPT ![x] = @ + 1],
         IpOf(proc[p]) = 0, P1(proc[p]) = 0, P2(proc[p]) = 0,
         LockOf(proc[p]) = 0, OwesOf(proc[p]) = 0, Stage(proc[p]) # "created"
  PROVE  IInv'
<1>1. Acts(p) /\ proc'[p] = n /\ TypeOK
  BY ActsOne DEF IInv
<1>2. RefMoves(p)
  <2>1. ASSUME NEW i \in Inum
        PROVE  After(p, i) + One(x, i) = Before(p, i)
    <3>1. Before(p, i) = Ones(fd[p], cwd[p], x, 0, 0, 0, i)
      BY MineBefore
    <3>2. After(p, i) = Ones(fd[p], cwd[p], 0, 0, 0, 0, i)
      BY <1>1, MineAfter
    <3> QED BY <3>1, <3>2, OnesMoves
  <2>2. CASE x = 0
    <3>1. \A i \in Inum : After(p, i) = Before(p, i)
      BY <2>1, <2>2, OneZero, BeforeNat
    <3> QED BY <1>1, <2>2, <3>1, RefSame
  <2>3. CASE x # 0
    <3>1. x \in Inum
      BY <2>3, Numbers
    <3>2. PICK y \in 0..NINODE : y = 0
      BY Numbers
    <3>3. ref' = (IF y = 0 THEN ref ELSE Get(y))
      BY <3>2
    <3>4. \A i \in Inum : After(p, i) + One(x, i) = Before(p, i) + One(y, i)
      BY <2>1, <3>2, OneZero, BeforeNat
    <3> QED BY <1>1, <2>3, <3>1, <3>2, <3>3, <3>4, RefLeak
  <2> QED BY <2>2, <2>3
<1>3. LockMoves(p) /\ RefGrows
  BY <1>1, LockSame, GrowsSame DEF IInv
<1>4. Knows(proc[p])'
  BY <1>1, QuietKnows
<1>5. Stays(p) /\ OwesOf(proc'[p]) = OwesOf(proc[p]) /\ MakesOn(p)
  BY <1>1 DEF MakesOn, Stays
<1> QED BY <1>1, <1>2, <1>3, <1>4, <1>5, StepPlain

LEMMA sys_symlinkStep ==
  ASSUME IInv, NEW p \in Proc, sys_symlink(p)
  PROVE  IInv'
<1>0. PICK r : r = proc[p]
  OBVIOUS
<1>1. r \in Rec /\ WalkOK(r) /\ CallOK(r)
  BY <1>0, RecOf DEF IInv
<1>2. r.pc \in {"symlink", "symlink_new"} /\ UNCHANGED <<inode, lock, fd, cwd, panicked>>
  BY <1>0 DEF sys_symlink, At
<1>3. /\ Stage(r) = r.pc /\ DpOf(r) = r.dp /\ LockOf(r) = 0 /\ P1(r) = 0 /\ P2(r) = 0
      /\ IpOf(r) = 0 /\ OwesOf(r) = 0 /\ r.dp \in 0..NINODE /\ r.puts = <<>>
  <2>1. r.pc \in Lookups /\ r.pc # "dirlink"
    BY <1>2 DEF Lookups
  <2> QED BY <1>1, <2>1, LookupRec
<1>4. r.call = "symlink" /\ r.new # <<>> /\ r.old # <<>> /\ r.new \in Paths
  BY <1>1, <1>2, <1>3 DEF CallOK, Rec
<1>5. panicked' = FALSE
  BY <1>2 DEF IInv, TypeOK
<1>6. PICK x : x = r.dp
  OBVIOUS
<1>7. /\ x \in 0..NINODE /\ DpOf(proc[p]) = x /\ IpOf(proc[p]) = 0 /\ P1(proc[p]) = 0
      /\ P2(proc[p]) = 0 /\ LockOf(proc[p]) = 0 /\ OwesOf(proc[p]) = 0
      /\ Stage(proc[p]) # "created"
  BY <1>0, <1>2, <1>3, <1>6
<1>8. CASE /\ proc' = [proc EXCEPT ![p] = Idle] /\ ref' = ref
           /\ (x = 0 => leaked' = leaked) /\ (x # 0 => leaked' = [leaked EXCEPT ![x] = @ + 1])
  <2>1. PICK n : n = Idle
    OBVIOUS
  <2> QED BY <1>2, <1>5, <1>7, <1>8, <2>1, IdleRec, StepForget
<1>9. ASSUME NEW par \in BOOLEAN, NEW then \in {"symlink_new", "create"}, par <=> then = "create",
             proc' = [proc EXCEPT ![p] = namei(p, r, r.new, par, then)], ref' = Get(cwd[p]),
             x = 0 => leaked' = leaked, x # 0 => leaked' = [leaked EXCEPT ![x] = @ + 1]
      PROVE  IInv'
  <2>1. PICK n : n = namei(p, r, r.new, par, then)
    OBVIOUS
  <2>2. then \in Lookups /\ (par <=> then \in Parents)
    BY <1>9 DEF Lookups, Parents
  <2>3. proc' = [proc EXCEPT ![p] = n]
    BY <1>9, <2>1
  <2>4. PICK path \in Paths : path = r.new
    BY <1>4
  <2>5. n = namei(p, r, path, par, then)
    BY <2>1, <2>4
  <2>6. \/ then \in {"symlink_new", "create"} /\ r.call = "symlink" /\ r.new # <<>> /\ r.old # <<>>
        \/ then = "readi" /\ r.call = "read" /\ r.ip # 0
    BY <1>4
  <2>7. /\ r \in Rec /\ r.puts = <<>> /\ UNCHANGED <<inode, lock, fd, cwd>> /\ ref' = Get(cwd[p])
        /\ (x = 0 => leaked' = leaked) /\ (x # 0 => leaked' = [leaked EXCEPT ![x] = @ + 1])
    BY <1>1, <1>2, <1>3, <1>9
  <2> QED BY <1>5, <1>7, <2>2, <2>3, <2>5, <2>6, <2>7, StepNamei
<1>10. \/ /\ proc' = [proc EXCEPT ![p] = Idle] /\ ref' = ref
          /\ (x = 0 => leaked' = leaked) /\ (x # 0 => leaked' = [leaked EXCEPT ![x] = @ + 1])
       \/ /\ x # 0 /\ leaked' = [leaked EXCEPT ![x] = @ + 1] /\ ref' = Get(cwd[p])
          /\ proc' = [proc EXCEPT ![p] = namei(p, r, r.new, FALSE, "symlink_new")]
       \/ /\ x = 0 /\ leaked' = leaked /\ ref' = Get(cwd[p])
          /\ proc' = [proc EXCEPT ![p] = namei(p, r, r.new, TRUE, "create")]
  BY <1>0, <1>6 DEF sys_symlink, Fails
<1> QED BY <1>8, <1>9, <1>10
LEMMA readiStep ==
  ASSUME IInv, NEW p \in Proc, readi(p)
  PROVE  IInv'
<1>1. PICK i : i = fd[p]
  OBVIOUS
<1>2. /\ proc[p] = Idle /\ i # 0 /\ inode[i].type = "symlink" /\ lock[i] = None
      /\ ref' = Get(cwd[p]) /\ UNCHANGED <<inode, lock, fd, cwd, leaked, panicked>>
      /\ proc' = [proc EXCEPT ![p] = namei(p,
           [Idle EXCEPT !.call = "read", !.ip = i, !.hops = 1], inode[i].to, FALSE, "readi")]
  BY <1>1 DEF readi, Unlocked
<1>3. i \in Inum /\ i \in 0..NINODE
  BY <1>1, <1>2, Numbers DEF IInv, TypeOK
<1>4. inode[i].to \in Paths
  BY <1>2, <1>3 DEF IInv, LinksReady, TypeOK
<1>5. PICK path \in Paths : path = inode[i].to
  BY <1>4
<1>6. PICK r : r = [Idle EXCEPT !.call = "read", !.ip = i, !.hops = 1]
  OBVIOUS
<1>7. r \in Rec /\ r.call = "read" /\ r.ip = i /\ r.puts = <<>>
  <2>1. Idle \in Rec /\ Idle.puts = <<>>
    BY IdleRec DEF GoodRec, Idle
  <2> QED BY <1>3, <1>6, <2>1 DEF Rec, CallNames
<1>8. PICK n : n = namei(p, r, path, FALSE, "readi")
  OBVIOUS
<1>9. proc' = [proc EXCEPT ![p] = n]
  BY <1>2, <1>5, <1>6, <1>8
<1>10. PICK x \in 0..NINODE : x = 0
  BY Numbers
<1>11. /\ DpOf(proc[p]) = x /\ IpOf(proc[p]) = 0 /\ P1(proc[p]) = 0
       /\ P2(proc[p]) = 0 /\ LockOf(proc[p]) = 0 /\ OwesOf(proc[p]) = 0
       /\ Stage(proc[p]) # "created"
  BY <1>2, <1>10, IdleRec
<1>12. "readi" \in Lookups /\ "readi" \notin Parents /\ panicked' = FALSE
  BY <1>2 DEF Lookups, Parents, IInv, TypeOK
<1>13. PICK par \in BOOLEAN, then \in Lookups : par = FALSE /\ then = "readi"
  BY <1>12
<1>14. n = namei(p, r, path, par, then) /\ (par <=> then \in Parents)
  BY <1>8, <1>12, <1>13
<1>15. (x = 0 => leaked' = leaked) /\ (x # 0 => leaked' = [leaked EXCEPT ![x] = @ + 1])
       /\ UNCHANGED <<inode, lock, fd, cwd>> /\ ref' = Get(cwd[p])
  BY <1>2, <1>10
<1>16. \/ then \in {"symlink_new", "create"} /\ r.call = "symlink" /\ r.new # <<>> /\ r.old # <<>>
       \/ then = "readi" /\ r.call = "read" /\ r.ip # 0
  BY <1>2, <1>7, <1>13
<1> QED BY <1>7, <1>9, <1>11, <1>12, <1>14, <1>15, <1>16, StepNamei

LEMMA readi_hopStep ==
  ASSUME IInv, NEW p \in Proc, readi_hop(p)
  PROVE  IInv'
<1>0. PICK r : r = proc[p]
  OBVIOUS
<1>1. r \in Rec /\ WalkOK(r) /\ CallOK(r) /\ proc \in [Proc -> Rec]
  BY <1>0, RecOf DEF IInv, CallsOK
<1>2. r.pc = "readi" /\ UNCHANGED <<inode, lock, fd, cwd>>
      /\ panicked' = (panicked \/ (r.dp # 0 /\ inode[r.dp].type = "free"))
  BY <1>0 DEF readi_hop, At
<1>3. /\ Stage(r) = "readi" /\ DpOf(r) = r.dp /\ LockOf(r) = 0 /\ P1(r) = 0 /\ P2(r) = 0
      /\ IpOf(r) = 0 /\ OwesOf(r) = 0 /\ r.dp \in 0..NINODE /\ r.puts = <<>>
  <2>1. r.pc \in Lookups /\ r.pc # "dirlink"
    BY <1>2 DEF Lookups
  <2> QED BY <1>1, <1>2, <2>1, LookupRec
<1>4. r.call = "read" /\ r.ip # 0
  BY <1>1, <1>3 DEF CallOK, WalkOK
<1>5. PICK x : x = r.dp
  OBVIOUS
<1>6. x # 0 => x \in Inum /\ inode[x].type # "free"
  BY <1>0, <1>3, <1>5, Numbers, HeldKept DEF IInv
<1>7. panicked' = FALSE
  BY <1>2, <1>5, <1>6 DEF IInv, TypeOK
<1>8. /\ x \in 0..NINODE /\ DpOf(proc[p]) = x /\ IpOf(proc[p]) = 0 /\ P1(proc[p]) = 0
      /\ P2(proc[p]) = 0 /\ LockOf(proc[p]) = 0 /\ OwesOf(proc[p]) = 0
      /\ Stage(proc[p]) # "created"
  BY <1>0, <1>3, <1>5
<1>9. CASE /\ proc' = [proc EXCEPT ![p] = [r EXCEPT !.pc = "readi_end"]] /\ ref' = ref
           /\ (x = 0 => leaked' = leaked) /\ (x # 0 => leaked' = [leaked EXCEPT ![x] = @ + 1])
  <2>1. PICK n : n = [r EXCEPT !.pc = "readi_end"]
    OBVIOUS
  <2>2. n \in Rec /\ n.pc = "readi_end" /\ n.call = "read" /\ n.ip = r.ip /\ n.puts = <<>>
    BY <1>1, <1>3, <1>4, <2>1 DEF Rec, Stages
  <2>3. Stage(n) = "readi_end"
    BY <2>2 DEF Stage
  <2>4. WalkOK(n) /\ CallOK(n)
    BY <1>4, <2>2, <2>3 DEF WalkOK, CallOK, Lookups, Parents, DirLocked
  <2>5. DpOf(n) = 0 /\ IpOf(n) = 0 /\ LockOf(n) = 0 /\ OwesOf(n) = 0
    BY <2>3 DEF DpOf, IpOf, LockOf, OwesOf, Lookups, Parents, DirLocked, HasIp, IpLocked
  <2>6. P1(n) = 0 /\ P2(n) = 0
    BY <2>2, ListPuts
  <2>7. GoodRec(n) /\ Stage(n) \in {"idle", "readi_end"} /\ n.call \notin {"open", "create"}
        /\ proc' = [proc EXCEPT ![p] = n]
    BY <1>9, <2>1, <2>2, <2>3, <2>4 DEF GoodRec
  <2> QED BY <1>2, <1>7, <1>8, <1>9, <2>5, <2>6, <2>7, StepForget
<1>10. CASE /\ x # 0 /\ leaked' = [leaked EXCEPT ![x] = @ + 1] /\ lock[x] = None
            /\ inode[x].type = "symlink" /\ ref' = Get(cwd[p])
            /\ proc' = [proc EXCEPT ![p] = namei(p,
                 [r EXCEPT !.hops = @ + 1], inode[x].to, FALSE, "readi")]
  <2>1. inode[x].to \in Paths
    BY <1>6, <1>10 DEF IInv, LinksReady, TypeOK
  <2>2. PICK path \in Paths : path = inode[x].to
    BY <2>1
  <2>3. PICK s : s = [r EXCEPT !.hops = @ + 1]
    OBVIOUS
  <2>4. s \in Rec /\ s.call = "read" /\ s.ip = r.ip /\ s.puts = <<>>
    <3>1. r.hops + 1 \in Nat
      BY <1>1 DEF Rec
    <3>2. PICK h \in Nat : h = r.hops + 1
      BY <3>1
    <3>3. s = [r EXCEPT !.hops = h]
      BY <2>3, <3>2
    <3> QED BY <1>1, <1>3, <1>4, <3>3 DEF Rec
  <2>5. "readi" \in Lookups /\ "readi" \notin Parents
    BY DEF Lookups, Parents
  <2>6. PICK par \in BOOLEAN, then \in Lookups : par = FALSE /\ then = "readi"
    BY <2>5
  <2>7. PICK n : n = namei(p, s, path, par, then)
    OBVIOUS
  <2>8. proc' = [proc EXCEPT ![p] = n] /\ (par <=> then \in Parents)
    BY <1>10, <2>2, <2>3, <2>5, <2>6, <2>7
  <2>9. \/ then \in {"symlink_new", "create"} /\ s.call = "symlink" /\ s.new # <<>> /\ s.old # <<>>
        \/ then = "readi" /\ s.call = "read" /\ s.ip # 0
    BY <1>4, <2>4, <2>6
  <2>10. (x = 0 => leaked' = leaked) /\ (x # 0 => leaked' = [leaked EXCEPT ![x] = @ + 1])
         /\ UNCHANGED <<inode, lock, fd, cwd>> /\ ref' = Get(cwd[p])
    BY <1>2, <1>10
  <2> QED BY <1>7, <1>8, <2>4, <2>7, <2>8, <2>9, <2>10, StepNamei
<1>11. \/ /\ proc' = [proc EXCEPT ![p] = [r EXCEPT !.pc = "readi_end"]] /\ ref' = ref
          /\ (x = 0 => leaked' = leaked) /\ (x # 0 => leaked' = [leaked EXCEPT ![x] = @ + 1])
       \/ /\ x # 0 /\ leaked' = [leaked EXCEPT ![x] = @ + 1] /\ lock[x] = None
          /\ inode[x].type = "symlink" /\ ref' = Get(cwd[p])
          /\ proc' = [proc EXCEPT ![p] = namei(p,
               [r EXCEPT !.hops = @ + 1], inode[x].to, FALSE, "readi")]
  <2>1. proc' = [proc EXCEPT ![p].pc = "readi_end"]
          => proc' = [proc EXCEPT ![p] = [r EXCEPT !.pc = "readi_end"]]
    BY <1>0, <1>1
  <2> QED BY <1>0, <1>5, <2>1 DEF readi_hop, Unlocked
<1> QED BY <1>9, <1>10, <1>11

LEMMA readi_endStep ==
  ASSUME IInv, NEW p \in Proc, readi_end(p)
  PROVE  IInv'
<1>0. PICK r : r = proc[p]
  OBVIOUS
<1>1. r \in Rec /\ WalkOK(r) /\ CallOK(r) /\ r.pc = "readi_end"
  BY <1>0, RecOf DEF IInv, readi_end, At
<1>2. Stage(r) = "readi_end" /\ r.puts = <<>>
  BY <1>1 DEF Stage, WalkOK
<1>3. DpOf(r) = 0 /\ IpOf(r) = 0 /\ LockOf(r) = 0 /\ OwesOf(r) = 0 /\ P1(r) = 0 /\ P2(r) = 0
  BY <1>2, ListPuts
     DEF DpOf, IpOf, LockOf, OwesOf, Lookups, Parents, DirLocked, HasIp, IpLocked
<1>4. panicked' = FALSE
  BY DEF readi_end, IInv, TypeOK
<1> QED BY <1>0, <1>2, <1>3, <1>4, StepFail DEF readi_end, Fails
-----------------------------------------------------------------------------
(* create, link and unlink up to the change of an inode                    *)

\* A call that puts one reference and goes on
LEMMA PutOne ==
  ASSUME NEW r \in Rec, NEW x \in Inum,
         NEW then \in AfterPut, then \in DirLocked => r.dp # 0, then \in HasIp => r.ip # 0,
         NEW n, n = Put(r, <<x>>, then)
  PROVE  /\ n \in Rec /\ WalkOK(n) /\ Stage(n) = then /\ n.pc = "put" /\ n.then = then
         /\ DpOf(n) = (IF then \in DirLocked THEN r.dp ELSE 0)
         /\ IpOf(n) = (IF then \in HasIp THEN r.ip ELSE 0)
         /\ LockOf(n) = (IF then \in DirLocked THEN r.dp ELSE IF then \in IpLocked THEN r.ip ELSE 0)
         /\ n.call = r.call /\ n.name = r.name /\ n.dp = r.dp /\ n.ip = r.ip
         /\ n.new = r.new /\ n.old = r.old /\ P1(n) = x /\ P2(n) = 0
<1> DEFINE list == <<x>>
<1>1. list \in Seq(Inum) /\ list # <<>> /\ Len(list) <= 2 /\ n = Put(r, list, then)
  OBVIOUS
<1>2. n.puts = list => P1(n) = x /\ P2(n) = 0
  BY ListPuts
<1> HIDE DEF list
<1> QED BY <1>1, <1>2, PutGood

\* A call that has an inode locked, or is about to take its link back
LEMMA StagedRec ==
  ASSUME NEW r \in Rec, WalkOK(r), r.pc \in DirLocked \cup IpLocked \cup {"link_bad"}
  PROVE  /\ Stage(r) = r.pc /\ r.puts = <<>> /\ P1(r) = 0 /\ P2(r) = 0
         /\ r.pc \in DirLocked => DpOf(r) = r.dp /\ LockOf(r) = r.dp /\ r.dp \in Inum /\ r.dp # 0
         /\ r.pc \notin DirLocked => DpOf(r) = 0
         /\ r.pc \in HasIp => IpOf(r) = r.ip /\ r.ip \in Inum /\ r.ip # 0
         /\ r.pc \notin HasIp => IpOf(r) = 0
         /\ r.pc \in IpLocked => LockOf(r) = r.ip
         /\ r.pc = "link_bad" => LockOf(r) = 0
<1>1. Stage(r) = r.pc /\ r.pc # "put" /\ r.pc \notin Lookups
  BY DEF Stage, DirLocked, IpLocked, Lookups, Parents
<1>2. r.puts = <<>> /\ (r.pc \in DirLocked => r.dp # 0) /\ (r.pc \in HasIp => r.ip # 0)
      /\ r.dp \in 0..NINODE /\ r.ip \in 0..NINODE
  BY <1>1 DEF WalkOK, Rec
<1>3. P1(r) = 0 /\ P2(r) = 0
  BY <1>2, ListPuts
<1>4. (r.pc \in DirLocked => DpOf(r) = r.dp /\ LockOf(r) = r.dp)
      /\ (r.pc \notin DirLocked => DpOf(r) = 0)
  BY <1>1 DEF DpOf, LockOf
<1>5. (r.pc \in HasIp => IpOf(r) = r.ip) /\ (r.pc \notin HasIp => IpOf(r) = 0)
  BY <1>1 DEF IpOf
<1>6. (r.pc \in IpLocked => LockOf(r) = r.ip) /\ (r.pc = "link_bad" => LockOf(r) = 0)
  BY <1>1 DEF LockOf, IpLocked, DirLocked
<1> QED BY <1>1, <1>2, <1>3, <1>4, <1>5, <1>6, Numbers

\* The record r of a call that becomes n when the call locks its directory and takes
\* a reference to i
Taken(r, n, i) ==
  /\ GoodRec(n) /\ n.call = r.call /\ n.dp = r.dp /\ n.name = r.name
  /\ Stage(n) \in DirLocked /\ DpOf(n) = r.dp /\ LockOf(n) = r.dp /\ OwesOf(n) = OwesOf(r)
  /\ P2(n) = 0
  /\ \/ IpOf(n) = i /\ P1(n) = 0 /\ IpOf(r) = 0
     \/ IpOf(n) = IpOf(r) /\ P1(n) = i
  /\ Stage(n) = "unlink_ip" => n.name \in Name /\ n.ip = i

LEMMA OnesTake ==
  ASSUME NEW j \in Inum, NEW f, NEW c, NEW d, NEW k, NEW m, NEW l, NEW i,
         \/ m = i /\ l = 0 /\ k = 0
         \/ m = k /\ l = i
  PROVE  Ones(f, c, d, m, l, 0, j) = Ones(f, c, d, k, 0, 0, j) + One(i, j)
<1>1. One(0, j) = 0 /\ One(f, j) \in Nat /\ One(c, j) \in Nat /\ One(d, j) \in Nat
      /\ One(k, j) \in Nat /\ One(i, j) \in Nat
  BY OneNat, OneZero
<1> QED BY <1>1 DEF Ones

\* A call locks the directory that it has found and takes a reference to the inode
\* that it has found there.
LEMMA StepTake ==
  ASSUME IInv, NEW p \in Proc, NEW r, r = proc[p], r.pc \in Parents, r.dp # 0,
         NEW i, i = inode[r.dp].ents[r.name], i # 0, Unlocked(r.dp),
         lock' = [lock EXCEPT ![r.dp] = p], ref' = Get(i),
         UNCHANGED <<inode, fd, cwd, leaked>>, panicked' = FALSE,
         NEW n, proc' = [proc EXCEPT ![p] = n],
         Taken(r, n, i),
         Stage(n) = "link_exists" => ~IsDir(n.ip),
         Stage(n) = "exists" /\ n.call = "symlink" => ~IsDir(n.ip)
  PROVE  IInv'
<1>0. /\ GoodRec(n) /\ n.call = r.call /\ n.dp = r.dp /\ n.name = r.name
      /\ Stage(n) \in DirLocked /\ DpOf(n) = r.dp /\ LockOf(n) = r.dp /\ OwesOf(n) = OwesOf(r)
      /\ P2(n) = 0
      /\ \/ IpOf(n) = i /\ P1(n) = 0 /\ IpOf(r) = 0
         \/ IpOf(n) = IpOf(r) /\ P1(n) = i
      /\ Stage(n) = "unlink_ip" => n.name \in Name /\ n.ip = i
  BY DEF Taken
<1>1. r \in Rec /\ WalkOK(r) /\ CallOK(r) /\ (r.call \in {"open", "create"} => fd[p] = 0)
  BY RecOf DEF IInv
<1>2. /\ Stage(r) = r.pc /\ DpOf(r) = r.dp /\ LockOf(r) = 0 /\ P1(r) = 0 /\ P2(r) = 0
      /\ r.dp \in 0..NINODE
  BY <1>1, LookupRec DEF Lookups
<1>3. r.dp \in Inum /\ r.name \in Elems
  BY <1>1, <1>2, Numbers DEF Rec
<1>4. IsDir(r.dp) /\ ~Removed(r.dp)
  BY <1>2, <1>3 DEF IInv, AllKnow, Knows, RemovedLeft
<1>5. i \in Inum /\ inode[i].type # "free"
  BY <1>3, <1>4, NextKept
<1>6. Acts(p) /\ proc'[p] = n
  BY <1>0, <1>1, ActsOne DEF IInv
<1>7. RefMoves(p)
  <2>1. ASSUME NEW j \in Inum
        PROVE  After(p, j) = Before(p, j) + One(i, j)
    <3>1. Before(p, j) = Ones(fd[p], cwd[p], r.dp, IpOf(r), 0, 0, j)
      BY <1>2, MineBefore
    <3>2. After(p, j) = Ones(fd[p], cwd[p], r.dp, IpOf(n), P1(n), 0, j)
      BY <1>0, <1>6, MineAfter
    <3>3. \/ IpOf(n) = i /\ P1(n) = 0 /\ IpOf(r) = 0
          \/ IpOf(n) = IpOf(r) /\ P1(n) = i
      BY <1>0
    <3>4. PICK k, m, l : k = IpOf(r) /\ m = IpOf(n) /\ l = P1(n)
      OBVIOUS
    <3>5. \/ m = i /\ l = 0 /\ k = 0
          \/ m = k /\ l = i
      BY <3>3, <3>4
    <3>6. PICK f, c, d : f = fd[p] /\ c = cwd[p] /\ d = r.dp
      OBVIOUS
    <3>7. Ones(f, c, d, m, l, 0, j) = Ones(f, c, d, k, 0, 0, j) + One(i, j)
      BY ONLY j \in Inum, <3>5, OnesTake
    <3> QED BY <3>1, <3>2, <3>4, <3>6, <3>7
  <2> QED BY <1>5, <2>1, RefGet DEF IInv
<1>8. LockMoves(p)
  BY <1>0, <1>2, <1>3, <1>6, LockTake DEF IInv, Unlocked
<1>9. RefGrows
  BY <1>5, GrowsGet DEF IInv
<1>10. Stays(p) /\ OwesOf(proc'[p]) = OwesOf(proc[p])
  BY <1>0, <1>2, <1>6 DEF Stays
<1>11. MakesOn(p)
  BY <1>2 DEF MakesOn, Parents
<1>12. Knows(proc[p])'
  <2>1. IsDir(n.dp)' /\ (Stage(n) = "link_exists" => ~IsDir(n.ip)')
        /\ (Stage(n) = "exists" /\ n.call = "symlink" => ~IsDir(n.ip)')
        /\ (Stage(n) = "unlink_ip" => n.name \in Name /\ inode'[n.dp].ents[n.name] = n.ip)
    BY <1>0, <1>4 DEF IsDir
  <2>2. Stage(n) \notin {"dirlink", "link_bad"} /\ n.pc \notin Parents
    BY <1>0 DEF DirLocked, Parents, Stage
  <2> QED BY <1>6, <2>1, <2>2 DEF Knows
<1> QED BY <1>6, <1>7, <1>8, <1>9, <1>10, <1>11, <1>12, StepPlain

LEMMA createFails ==
  ASSUME IInv, NEW p \in Proc, At(p, "create"), proc[p].dp = 0, Fails(p),
         UNCHANGED <<inode, ref, lock, panicked>>, UNCHANGED <<fd, cwd, leaked>>
  PROVE  IInv'
<1>0. PICK r : r = proc[p]
  OBVIOUS
<1>1. r \in Rec /\ WalkOK(r) /\ r.pc = "create"
  BY <1>0, RecOf DEF IInv, At
<1>2. /\ Stage(r) = "create" /\ DpOf(r) = 0 /\ LockOf(r) = 0 /\ P1(r) = 0 /\ P2(r) = 0
      /\ IpOf(r) = 0 /\ OwesOf(r) = 0
  BY <1>0, <1>1, LookupRec DEF Lookups, Parents
<1>3. panicked' = FALSE
  BY DEF IInv, TypeOK
<1> QED BY <1>0, <1>2, <1>3, StepFail DEF Fails

\* The name is there.
LEMMA createFinds ==
  ASSUME IInv, ~Intrude, NEW p \in Proc, NEW r, r = proc[p], r.pc = "create", r.dp # 0,
         Unlocked(r.dp), NEW i, i = inode[r.dp].ents[r.name], i # 0,
         Intrude \/ r.call # "symlink" \/ ~IsDir(i),
         lock' = [lock EXCEPT ![r.dp] = p], ref' = Get(i), inode' = inode,
         UNCHANGED <<fd, cwd, leaked>>, panicked' = FALSE,
         proc' = [proc EXCEPT ![p] = [r EXCEPT !.pc = "exists", !.ip = i]]
  PROVE  IInv'
<1>1. r \in Rec /\ WalkOK(r) /\ CallOK(r) /\ r.pc \in Parents
  BY RecOf DEF IInv, Parents
<1>2. /\ Stage(r) = "create" /\ r.puts = <<>> /\ IpOf(r) = 0 /\ OwesOf(r) = 0
      /\ r.dp \in 0..NINODE
  BY <1>1, LookupRec DEF Lookups
<1>3. i \in 0..NINODE
  <2>1. r.dp \in Inum /\ r.name \in Elems
    BY <1>1, <1>2, Numbers DEF Rec
  <2> QED BY <2>1 DEF IInv, TypeOK, Elems
<1>4. PICK n : n = [r EXCEPT !.pc = "exists", !.ip = i]
  OBVIOUS
<1>5. /\ n \in Rec /\ n.pc = "exists" /\ n.ip = i /\ n.dp = r.dp /\ n.name = r.name
      /\ n.call = r.call /\ n.puts = <<>> /\ n.new = r.new /\ n.old = r.old
  BY <1>1, <1>2, <1>3, <1>4, ZenonT(30) DEF Rec, Stages, DirLocked
<1>6. Stage(n) = "exists" /\ n.call \in {"create", "mkdir", "mknod", "symlink"}
  BY <1>1, <1>2, <1>5 DEF Stage, CallOK
<1>7. WalkOK(n)
  BY <1>5, <1>6 DEF WalkOK, Lookups, Parents
<1>8. CallOK(n)
  <2>1. n.call = "symlink" => n.new # <<>> /\ n.old # <<>>
    BY <1>1, <1>5 DEF CallOK
  <2> QED BY <1>5, <1>6, <2>1 DEF CallOK
<1>9. /\ DpOf(n) = r.dp /\ LockOf(n) = r.dp /\ IpOf(n) = i /\ OwesOf(n) = 0
      /\ P1(n) = 0 /\ P2(n) = 0 /\ Stage(n) \in DirLocked
  BY <1>5, <1>6, <1>7, StagedRec DEF DirLocked, HasIp, OwesOf
<1>10. Stage(n) = "exists" /\ n.call = "symlink" => ~IsDir(n.ip)
  BY <1>5
<1>11. Taken(r, n, i)
  BY <1>2, <1>5, <1>6, <1>7, <1>8, <1>9 DEF Taken, GoodRec
<1>12. Stage(n) # "link_exists" /\ proc' = [proc EXCEPT ![p] = n]
  BY <1>4, <1>6
<1> QED BY <1>1, <1>10, <1>11, <1>12, StepTake
LEMMA unlinkFinds ==
  ASSUME IInv, NEW p \in Proc, NEW r, r = proc[p], r.pc = "unlink", r.dp # 0,
         Unlocked(r.dp), NEW i, i = inode[r.dp].ents[r.name], i # 0, r.name \notin Dots,
         lock' = [lock EXCEPT ![r.dp] = p], ref' = Get(i), panicked' = FALSE,
         UNCHANGED <<inode, fd, cwd, leaked>>,
         proc' = [proc EXCEPT ![p] = [r EXCEPT !.pc = "unlink_ip", !.ip = i]]
  PROVE  IInv'
<1>1. r \in Rec /\ WalkOK(r) /\ CallOK(r) /\ r.pc \in Parents
  BY RecOf DEF IInv, Parents
<1>2. /\ Stage(r) = "unlink" /\ r.puts = <<>> /\ IpOf(r) = 0 /\ OwesOf(r) = 0
      /\ r.dp \in 0..NINODE
  BY <1>1, LookupRec DEF Lookups
<1>3. i \in 0..NINODE /\ r.name \in Name
  <2>1. r.dp \in Inum /\ r.name \in Elems
    BY <1>1, <1>2, Numbers DEF Rec
  <2> QED BY <2>1 DEF IInv, TypeOK, Elems
<1>4. PICK n : n = [r EXCEPT !.pc = "unlink_ip", !.ip = i]
  OBVIOUS
<1>5. /\ n \in Rec /\ n.pc = "unlink_ip" /\ n.ip = i /\ n.dp = r.dp /\ n.name = r.name
      /\ n.call = r.call /\ n.puts = <<>> /\ n.then = r.then
  BY <1>1, <1>2, <1>3, <1>4 DEF Rec, Stages, DirLocked
<1>6. Stage(n) = "unlink_ip" /\ n.call = "unlink" /\ n.then # "unlinked"
  BY <1>1, <1>2, <1>5 DEF Stage, CallOK
<1>7. WalkOK(n)
  BY <1>5, <1>6 DEF WalkOK, Lookups, Parents
<1>8. CallOK(n)
  BY <1>5, <1>6 DEF CallOK
<1>9. /\ DpOf(n) = r.dp /\ LockOf(n) = r.dp /\ IpOf(n) = i /\ OwesOf(n) = 0
      /\ P1(n) = 0 /\ P2(n) = 0 /\ Stage(n) \in DirLocked
  BY <1>5, <1>6, <1>7, StagedRec DEF DirLocked, HasIp, OwesOf
<1>10. Taken(r, n, i)
  BY <1>2, <1>3, <1>5, <1>6, <1>7, <1>8, <1>9 DEF Taken, GoodRec
<1>11. Stage(n) # "link_exists" /\ Stage(n) # "exists" /\ proc' = [proc EXCEPT ![p] = n]
  BY <1>4, <1>6
<1> QED BY <1>1, <1>10, <1>11, StepTake

LEMMA sys_unlinkStep ==
  ASSUME IInv, NEW p \in Proc, sys_unlink(p)
  PROVE  IInv'
<1>0. PICK r : r = proc[p]
  OBVIOUS
<1>1. r \in Rec /\ WalkOK(r) /\ r.pc = "unlink" /\ UNCHANGED <<inode, fd, cwd, leaked, panicked>>
  BY <1>0, RecOf DEF IInv, sys_unlink, At
<1>2. /\ Stage(r) = "unlink" /\ DpOf(r) = r.dp /\ LockOf(r) = 0 /\ P1(r) = 0 /\ P2(r) = 0
      /\ IpOf(r) = 0 /\ OwesOf(r) = 0 /\ r.dp \in 0..NINODE
  BY <1>1, LookupRec DEF Lookups, Parents
<1>3. panicked' = FALSE
  BY <1>1 DEF IInv, TypeOK
<1>4. PICK i : i = inode[r.dp].ents[r.name]
  OBVIOUS
<1>5. CASE r.dp = 0 /\ Fails(p) /\ UNCHANGED <<ref, lock>>
  BY <1>0, <1>1, <1>2, <1>3, <1>5, StepFail DEF Fails
<1>6. CASE r.dp # 0 /\ UNCHANGED <<ref, lock>>
           /\ proc' = [proc EXCEPT ![p] = Put(r, <<r.dp>>, "idle")]
  <2>1. PICK x \in Inum : x = r.dp
    BY <1>2, <1>6, Numbers
  <2>2. proc' = [proc EXCEPT ![p] = Put(proc[p], <<x>>, "idle")]
    BY <1>0, <1>6, <2>1
  <2> QED BY <1>0, <1>1, <1>2, <1>3, <1>6, <2>1, <2>2, StepEnd
<1>7. CASE /\ r.dp # 0 /\ Unlocked(r.dp) /\ r.name \notin Dots /\ i # 0
           /\ lock' = [lock EXCEPT ![r.dp] = p]
           /\ ref' = Get(i)
           /\ proc' = [proc EXCEPT ![p] = [r EXCEPT !.pc = "unlink_ip", !.ip = i]]
  BY <1>0, <1>1, <1>3, <1>4, <1>7, unlinkFinds
<1>8. \/ r.dp = 0 /\ Fails(p) /\ UNCHANGED <<ref, lock>>
      \/ /\ r.dp # 0 /\ UNCHANGED <<ref, lock>>
         /\ proc' = [proc EXCEPT ![p] = Put(r, <<r.dp>>, "idle")]
      \/ /\ r.dp # 0 /\ Unlocked(r.dp) /\ r.name \notin Dots /\ i # 0
         /\ lock' = [lock EXCEPT ![r.dp] = p]
         /\ ref' = Get(i)
         /\ proc' = [proc EXCEPT ![p] = [r EXCEPT !.pc = "unlink_ip", !.ip = i]]
  BY <1>0, <1>4 DEF sys_unlink
<1> QED BY <1>5, <1>6, <1>7, <1>8

\* What a call that has the name of an inode to be removed knows
LEMMA UnlinkKnows ==
  ASSUME IInv, NEW p \in Proc, NEW r, r = proc[p], r.pc = "unlink_ip"
  PROVE  /\ r \in Rec /\ WalkOK(r) /\ CallOK(r) /\ Stage(r) = "unlink_ip" /\ r.puts = <<>>
         /\ P1(r) = 0 /\ P2(r) = 0 /\ DpOf(r) = r.dp /\ LockOf(r) = r.dp /\ IpOf(r) = r.ip
         /\ r.dp \in Inum /\ r.ip \in Inum /\ OwesOf(r) = 0 /\ lock[r.dp] = p
         /\ IsDir(r.dp) /\ r.name \in Name /\ inode[r.dp].ents[r.name] = r.ip
         /\ <<r.dp, r.name>> \in Entries(r.ip)
         /\ inode[r.ip].type # "free" /\ inode[r.ip].nlink >= 1
         /\ r.call = "unlink" /\ r.then # "unlinked"
<1>1. r \in Rec /\ WalkOK(r) /\ CallOK(r)
  BY RecOf DEF IInv
<1>2. /\ Stage(r) = "unlink_ip" /\ r.puts = <<>> /\ P1(r) = 0 /\ P2(r) = 0
      /\ DpOf(r) = r.dp /\ LockOf(r) = r.dp /\ IpOf(r) = r.ip /\ r.dp \in Inum /\ r.ip \in Inum
  BY <1>1, StagedRec DEF DirLocked, HasIp
<1>3. IsDir(r.dp) /\ r.name \in Name /\ inode[r.dp].ents[r.name] = r.ip
  BY <1>2 DEF IInv, AllKnow, Knows, DirLocked
<1>4. <<r.dp, r.name>> \in Entries(r.ip)
  BY <1>2, <1>3 DEF Entries
<1>5. inode[r.ip].type # "free" /\ inode[r.ip].nlink >= 1
  BY <1>2, <1>4, NamedKept
<1>6. OwesOf(r) = 0 /\ r.call = "unlink" /\ r.then # "unlinked"
  BY <1>1, <1>2 DEF OwesOf, CallOK
<1>7. lock[r.dp] = p
  BY <1>2, Numbers DEF IInv, LocksExact
<1> QED BY <1>1, <1>2, <1>3, <1>4, <1>5, <1>6, <1>7

\* The record r of a call that has its directory locked, when the call becomes n to
\* put the directory or its inode
Passed(r, n) ==
  /\ GoodRec(n) /\ n.call = r.call /\ P2(n) = 0 /\ OwesOf(n) = OwesOf(r)
  /\ \/ P1(n) = r.dp /\ DpOf(n) = 0 /\ IpOf(n) = IpOf(r) /\ LockOf(n) = 0
     \/ P1(n) = IpOf(r) /\ DpOf(n) = r.dp /\ IpOf(n) = 0 /\ LockOf(n) = r.dp

\* A call puts its directory, and unlocks it, or its inode.
LEMMA StepPut ==
  ASSUME IInv, NEW p \in Proc, NEW r, r = proc[p], r.pc \in DirLocked,
         NEW n, proc' = [proc EXCEPT ![p] = n], Passed(r, n),
         UNCHANGED <<inode, ref, fd, cwd, leaked>>, panicked' = FALSE,
         LockOf(n) = 0 => lock' = [lock EXCEPT ![r.dp] = None],
         LockOf(n) # 0 => lock' = lock,
         Knows(proc[p])'
  PROVE  IInv'
<1>0. /\ GoodRec(n) /\ n.call = r.call /\ P2(n) = 0 /\ OwesOf(n) = OwesOf(r)
      /\ \/ P1(n) = r.dp /\ DpOf(n) = 0 /\ IpOf(n) = IpOf(r) /\ LockOf(n) = 0
         \/ P1(n) = IpOf(r) /\ DpOf(n) = r.dp /\ IpOf(n) = 0 /\ LockOf(n) = r.dp
  BY DEF Passed
<1>1. r \in Rec /\ WalkOK(r) /\ (r.call \in {"open", "create"} => fd[p] = 0)
  BY RecOf DEF IInv
<1>2. /\ Stage(r) = r.pc /\ DpOf(r) = r.dp /\ LockOf(r) = r.dp /\ P1(r) = 0 /\ P2(r) = 0
      /\ r.dp \in Inum
  BY <1>1, StagedRec
<1>3. Acts(p) /\ proc'[p] = n
  BY <1>0, <1>1, ActsOne DEF IInv
<1>4. RefMoves(p)
  <2>1. ASSUME NEW j \in Inum
        PROVE  After(p, j) = Before(p, j)
    <3>1. Before(p, j) = Ones(fd[p], cwd[p], r.dp, IpOf(r), 0, 0, j)
      BY <1>2, MineBefore
    <3>2. After(p, j) = Ones(fd[p], cwd[p], DpOf(n), IpOf(n), P1(n), 0, j)
      BY <1>0, <1>3, MineAfter
    <3>3. One(0, j) = 0 /\ One(fd[p], j) \in Nat /\ One(cwd[p], j) \in Nat
          /\ One(r.dp, j) \in Nat /\ One(IpOf(r), j) \in Nat
      BY OneNat, OneZero
    <3> QED BY <1>0, <3>1, <3>2, <3>3 DEF Ones
  <2> QED BY <2>1, RefSame DEF IInv
<1>5. LockMoves(p)
  BY <1>0, <1>2, <1>3, Numbers, LockSame, LockRelease DEF IInv
<1>6. RefGrows /\ Stays(p) /\ OwesOf(proc'[p]) = OwesOf(proc[p])
  BY <1>0, <1>2, <1>3, GrowsSame DEF IInv, Stays
<1>7. MakesOn(p)
  BY <1>2 DEF MakesOn, DirLocked
<1> QED BY <1>3, <1>4, <1>5, <1>6, <1>7, StepPlain

LEMMA unlinkRefused ==
  ASSUME IInv, NEW p \in Proc, NEW r, r = proc[p], r.pc = "unlink_ip", panicked' = FALSE,
         proc' = [proc EXCEPT ![p] = Put(r, <<r.ip>>, "unlink_bad")],
         UNCHANGED <<inode, lock, ref, fd, cwd, leaked>>
  PROVE  IInv'
<1>1. /\ r \in Rec /\ CallOK(r) /\ IpOf(r) = r.ip /\ r.dp \in Inum /\ r.ip \in Inum
      /\ OwesOf(r) = 0 /\ IsDir(r.dp) /\ r.call = "unlink"
  BY UnlinkKnows
<1>2. "unlink_bad" \in AfterPut /\ "unlink_bad" \in DirLocked /\ "unlink_bad" \notin HasIp
      /\ "unlink_bad" \notin IpLocked /\ r.dp # 0 /\ r.pc \in DirLocked
  BY <1>1, Numbers DEF AfterPut, DirLocked, HasIp, IpLocked
<1>3. PICK n : n = Put(r, <<r.ip>>, "unlink_bad")
  OBVIOUS
<1>4. PICK x \in Inum : x = r.ip
  BY <1>1
<1>5. n = Put(r, <<x>>, "unlink_bad")
  BY <1>3, <1>4
<1>6. /\ n \in Rec /\ WalkOK(n) /\ Stage(n) = "unlink_bad" /\ n.pc = "put"
      /\ n.then = "unlink_bad" /\ DpOf(n) = r.dp /\ IpOf(n) = 0 /\ LockOf(n) = r.dp
      /\ n.call = r.call /\ n.dp = r.dp /\ P1(n) = r.ip /\ P2(n) = 0
  BY <1>1, <1>2, <1>4, <1>5, PutOne
<1>7. CallOK(n) /\ OwesOf(n) = 0
  BY <1>1, <1>6 DEF CallOK, OwesOf
<1>8. Acts(p) /\ proc'[p] = n
  BY <1>1, <1>3, <1>6, <1>7, ActsOne DEF IInv, GoodRec
<1>9. Knows(proc[p])'
  <2>1. IsDir(n.dp)'
    BY <1>1, <1>6 DEF IsDir
  <2> QED BY <1>6, <1>8, <2>1 DEF Knows, Parents
<1>10. Passed(r, n) /\ LockOf(n) # 0 /\ proc' = [proc EXCEPT ![p] = n]
  BY <1>1, <1>2, <1>3, <1>6, <1>7 DEF GoodRec, Passed
<1> QED BY <1>2, <1>9, <1>10, StepPut

LEMMA unlink_badStep ==
  ASSUME IInv, NEW p \in Proc, unlink_bad(p)
  PROVE  IInv'
<1>0. PICK r : r = proc[p]
  OBVIOUS
<1>1. r \in Rec /\ WalkOK(r) /\ r.pc = "unlink_bad"
      /\ UNCHANGED <<inode, ref, fd, cwd, leaked, panicked>>
      /\ lock' = [lock EXCEPT ![r.dp] = None]
      /\ proc' = [proc EXCEPT ![p] = Put(r, <<r.dp>>, "idle")]
  BY <1>0, RecOf DEF IInv, unlink_bad, At, CallsOK
<1>2. /\ Stage(r) = "unlink_bad" /\ DpOf(r) = r.dp /\ LockOf(r) = r.dp /\ P1(r) = 0
      /\ P2(r) = 0 /\ IpOf(r) = 0 /\ r.dp \in Inum /\ r.dp # 0
  BY <1>1, StagedRec DEF DirLocked, HasIp, IpLocked
<1>3. OwesOf(r) = 0
  BY <1>2 DEF OwesOf
<1>4. panicked' = FALSE
  BY <1>1 DEF IInv, TypeOK
<1>5. PICK x \in Inum : x = r.dp
  BY <1>2
<1>6. proc' = [proc EXCEPT ![p] = Put(proc[p], <<x>>, "idle")]
  BY <1>0, <1>1, <1>5
<1> QED BY <1>0, <1>1, <1>2, <1>3, <1>4, <1>5, <1>6, StepEnd
LEMMA link_existsStep ==
  ASSUME IInv, NEW p \in Proc, link_exists(p)
  PROVE  IInv'
<1>0. PICK r : r = proc[p]
  OBVIOUS
<1>1. /\ r \in Rec /\ WalkOK(r) /\ CallOK(r) /\ r.pc = "link_exists" /\ Knows(r)
      /\ UNCHANGED <<inode, ref, fd, cwd, leaked, panicked>>
      /\ lock' = [lock EXCEPT ![r.dp] = None]
      /\ proc' = [proc EXCEPT ![p] = Put(r, <<r.dp>>, "link_bad")]
  BY <1>0, RecOf DEF IInv, link_exists, At, AllKnow
<1>2. /\ Stage(r) = "link_exists" /\ r.dp \in Inum /\ IpOf(r) = r.ip /\ r.ip \in Inum
  BY <1>1, StagedRec DEF DirLocked, HasIp
<1>3. OwesOf(r) = r.ip /\ ~IsDir(r.ip) /\ r.call = "link" /\ r.new # <<>>
  BY <1>1, <1>2 DEF OwesOf, Knows, CallOK
<1>4. panicked' = FALSE
  BY <1>1 DEF IInv, TypeOK
<1>5. PICK n : n = Put(r, <<r.dp>>, "link_bad")
  OBVIOUS
<1>6. PICK x \in Inum : x = r.dp
  BY <1>2
<1>7. n = Put(r, <<x>>, "link_bad")
  BY <1>5, <1>6
<1>8. "link_bad" \in AfterPut /\ "link_bad" \notin DirLocked /\ "link_bad" \in HasIp
      /\ "link_bad" \notin IpLocked /\ r.ip # 0 /\ r.pc \in DirLocked
  BY <1>1, <1>2, Numbers DEF AfterPut, DirLocked, HasIp, IpLocked
<1>9. /\ n \in Rec /\ WalkOK(n) /\ Stage(n) = "link_bad" /\ n.pc = "put"
      /\ n.then = "link_bad" /\ DpOf(n) = 0 /\ IpOf(n) = r.ip /\ LockOf(n) = 0
      /\ n.call = r.call /\ n.ip = r.ip /\ n.new = r.new /\ P1(n) = r.dp /\ P2(n) = 0
  BY <1>1, <1>6, <1>7, <1>8, PutOne
<1>10. CallOK(n) /\ OwesOf(n) = r.ip
  BY <1>3, <1>9 DEF CallOK, OwesOf
<1>11. Acts(p) /\ proc'[p] = n
  BY <1>1, <1>3, <1>5, <1>9, <1>10, ActsOne DEF IInv, GoodRec
<1>12. Knows(proc[p])'
  <2>1. ~IsDir(n.ip)'
    BY <1>1, <1>3, <1>9 DEF IsDir
  <2> QED BY <1>9, <1>11, <2>1 DEF Knows, Parents, DirLocked
<1>13. Passed(r, n) /\ LockOf(n) = 0 /\ proc' = [proc EXCEPT ![p] = n]
  BY <1>1, <1>2, <1>3, <1>5, <1>9, <1>10 DEF GoodRec, Passed
<1>14. UNCHANGED <<inode, ref, fd, cwd, leaked>> /\ lock' = [lock EXCEPT ![r.dp] = None]
  BY <1>1
<1> QED BY <1>0, <1>4, <1>8, <1>12, <1>13, <1>14, StepPut

\* What a call that looks up the parent of a new link knows
LEMMA LinkKnows ==
  ASSUME IInv, NEW p \in Proc, NEW r, r = proc[p], r.pc = "dirlink"
  PROVE  /\ r \in Rec /\ WalkOK(r) /\ CallOK(r) /\ Stage(r) = "dirlink" /\ r.puts = <<>>
         /\ P1(r) = 0 /\ P2(r) = 0 /\ DpOf(r) = r.dp /\ LockOf(r) = 0 /\ IpOf(r) = r.ip
         /\ r.dp \in 0..NINODE /\ r.ip \in Inum /\ OwesOf(r) = r.ip /\ ~IsDir(r.ip)
         /\ r.call = "link" /\ r.new # <<>> /\ r.then # "idle" /\ r.name \in Elems
<1>1. r \in Rec /\ WalkOK(r) /\ CallOK(r)
  BY RecOf DEF IInv
<1>2. /\ Stage(r) = "dirlink" /\ r.puts = <<>> /\ P1(r) = 0 /\ P2(r) = 0
      /\ DpOf(r) = r.dp /\ LockOf(r) = 0 /\ IpOf(r) = r.ip /\ OwesOf(r) = r.ip
      /\ r.dp \in 0..NINODE
  BY <1>1, LookupRec DEF Lookups, Parents
<1>3. r.ip # 0 /\ r.ip \in 0..NINODE /\ r.name \in Elems
  BY <1>1, <1>2 DEF WalkOK, HasIp, Rec
<1>4. r.call = "link" /\ r.new # <<>> /\ r.then # "idle"
  BY <1>1, <1>2 DEF CallOK
<1>5. ~IsDir(r.ip)
  BY <1>2 DEF IInv, AllKnow, Knows
<1> QED BY <1>1, <1>2, <1>3, <1>4, <1>5, Numbers

LEMMA dirlinkFails ==
  ASSUME IInv, NEW p \in Proc, NEW r, r = proc[p], r.pc = "dirlink", r.dp = 0,
         proc' = [proc EXCEPT ![p] = [r EXCEPT !.pc = "link_bad"]], panicked' = FALSE,
         UNCHANGED <<inode, lock, ref, fd, cwd, leaked>>
  PROVE  IInv'
<1>1. /\ r \in Rec /\ r.puts = <<>> /\ P1(r) = 0 /\ P2(r) = 0 /\ DpOf(r) = 0
      /\ LockOf(r) = 0 /\ IpOf(r) = r.ip /\ r.ip \in Inum /\ OwesOf(r) = r.ip /\ ~IsDir(r.ip)
      /\ r.call = "link" /\ r.new # <<>> /\ r.then # "idle" /\ Stage(r) = "dirlink"
  BY LinkKnows
<1>2. PICK n : n = [r EXCEPT !.pc = "link_bad"]
  OBVIOUS
<1>3. /\ n \in Rec /\ n.pc = "link_bad" /\ n.ip = r.ip /\ n.puts = <<>> /\ n.call = "link"
      /\ n.new # <<>> /\ n.then # "idle"
  BY <1>1, <1>2 DEF Rec, Stages, HasIp
<1>4. Stage(n) = "link_bad" /\ r.ip # 0
  BY <1>1, <1>3, Numbers DEF Stage
<1>5. WalkOK(n) /\ CallOK(n)
  BY <1>3, <1>4 DEF WalkOK, CallOK, Lookups, Parents, DirLocked
<1>6. /\ P1(n) = 0 /\ P2(n) = 0 /\ DpOf(n) = 0 /\ IpOf(n) = r.ip /\ LockOf(n) = 0
      /\ OwesOf(n) = r.ip
  BY <1>3, <1>4, <1>5, StagedRec DEF DirLocked, HasIp, IpLocked, OwesOf
<1>7. Acts(p) /\ proc'[p] = n
  BY <1>2, <1>3, <1>5, ActsOne DEF IInv, GoodRec
<1>8. RefMoves(p) /\ RefGrows
  <2>1. \A i \in Inum : After(p, i) = Before(p, i)
    BY <1>1, <1>6, <1>7, MineBefore, MineAfter
  <2> QED BY <2>1, RefSame, GrowsSame DEF IInv
<1>9. LockMoves(p) /\ Stays(p) /\ OwesOf(proc'[p]) = OwesOf(proc[p]) /\ MakesOn(p)
  BY <1>1, <1>6, <1>7, LockSame DEF IInv, Stays, MakesOn
<1>10. Knows(proc[p])'
  <2>1. ~IsDir(n.ip)'
    BY <1>1, <1>3 DEF IsDir
  <2> QED BY <1>3, <1>4, <1>7, <2>1 DEF Knows, Parents, DirLocked
<1> QED BY <1>7, <1>8, <1>9, <1>10, StepPlain

LEMMA dirlinkFinds ==
  ASSUME IInv, NEW p \in Proc, NEW r, r = proc[p], r.pc = "dirlink", r.dp # 0,
         Unlocked(r.dp), NEW i, i = inode[r.dp].ents[r.name], i # 0,
         lock' = [lock EXCEPT ![r.dp] = p], ref' = Get(i), panicked' = FALSE,
         UNCHANGED <<inode, fd, cwd, leaked>>,
         proc' = [proc EXCEPT ![p] = Put(r, <<i>>, "link_exists")]
  PROVE  IInv'
<1>1. /\ r \in Rec /\ IpOf(r) = r.ip /\ r.ip \in Inum /\ OwesOf(r) = r.ip /\ ~IsDir(r.ip)
      /\ r.call = "link" /\ r.new # <<>> /\ r.dp \in 0..NINODE /\ r.name \in Elems
  BY LinkKnows
<1>2. i \in Inum
  <2>1. r.dp \in Inum /\ r.name \in Name \cup Dots
    BY <1>1, Numbers DEF Elems
  <2>2. inode[r.dp].ents \in [Name \cup Dots -> 0..NINODE]
    BY <2>1 DEF IInv, TypeOK
  <2>3. i \in 0..NINODE
    BY <2>1, <2>2
  <2> QED BY <2>3, Numbers
<1>3. PICK n : n = Put(r, <<i>>, "link_exists")
  OBVIOUS
<1>4. "link_exists" \in AfterPut /\ "link_exists" \in DirLocked /\ "link_exists" \in HasIp
      /\ r.ip # 0
  BY <1>1, Numbers DEF AfterPut, DirLocked, HasIp
<1>5. /\ n \in Rec /\ WalkOK(n) /\ Stage(n) = "link_exists" /\ n.pc = "put"
      /\ n.then = "link_exists" /\ DpOf(n) = r.dp /\ IpOf(n) = r.ip /\ LockOf(n) = r.dp
      /\ n.call = r.call /\ n.ip = r.ip /\ n.dp = r.dp /\ n.name = r.name /\ n.new = r.new
      /\ P1(n) = i /\ P2(n) = 0
  <2>1. PICK x \in Inum : x = i
    BY <1>2
  <2>2. n = Put(r, <<x>>, "link_exists")
    BY <1>3, <2>1
  <2>3. PICK then \in AfterPut : then = "link_exists"
    BY <1>4
  <2>4. n = Put(r, <<x>>, then) /\ (then \in DirLocked => r.dp # 0) /\ (then \in HasIp => r.ip # 0)
    BY <1>4, <2>2, <2>3
  <2>5. r \in Rec
    BY <1>1
  <2>6. /\ n \in Rec /\ WalkOK(n) /\ Stage(n) = then /\ n.pc = "put" /\ n.then = then
        /\ DpOf(n) = (IF then \in DirLocked THEN r.dp ELSE 0)
        /\ IpOf(n) = (IF then \in HasIp THEN r.ip ELSE 0)
        /\ LockOf(n) = (IF then \in DirLocked THEN r.dp ELSE IF then \in IpLocked THEN r.ip ELSE 0)
        /\ n.call = r.call /\ n.name = r.name /\ n.dp = r.dp /\ n.ip = r.ip
        /\ n.new = r.new /\ n.old = r.old /\ P1(n) = x /\ P2(n) = 0
    BY <2>4, <2>5, PutOne
  <2> QED BY <1>4, <2>1, <2>3, <2>6
<1>6. CallOK(n) /\ OwesOf(n) = r.ip
  BY <1>1, <1>5 DEF CallOK, OwesOf
<1>7. Taken(r, n, i)
  BY <1>1, <1>4, <1>5, <1>6 DEF Taken, GoodRec
<1>8. ~IsDir(n.ip) /\ Stage(n) # "exists" /\ proc' = [proc EXCEPT ![p] = n]
      /\ r.pc \in Parents
  BY <1>1, <1>3, <1>5 DEF Parents
<1> QED BY <1>7, <1>8, StepTake

\* The end of create() for open(), mkdir() and mknod()
LEMMA createdEnds ==
  ASSUME IInv, NEW p \in Proc, NEW r, r = proc[p], r.pc \in {"created", "refused"},
         lock' = [lock EXCEPT ![r.ip] = None], panicked' = FALSE,
         UNCHANGED <<inode, ref, cwd, leaked>>,
         \/ /\ r.call = "create" /\ fd' = [fd EXCEPT ![p] = r.ip]
            /\ proc' = [proc EXCEPT ![p] = Idle]
         \/ /\ r.pc = "refused" \/ r.call # "symlink"
            /\ fd' = fd /\ proc' = [proc EXCEPT ![p] = Put(r, <<r.ip>>, "idle")]
  PROVE  IInv'
<1>1. r \in Rec /\ WalkOK(r) /\ CallOK(r) /\ (r.call \in {"open", "create"} => fd[p] = 0)
  BY RecOf DEF IInv
<1>2. /\ Stage(r) = r.pc /\ DpOf(r) = 0 /\ P1(r) = 0 /\ P2(r) = 0 /\ IpOf(r) = r.ip
      /\ r.ip \in Inum /\ r.ip # 0 /\ LockOf(r) = r.ip
  BY <1>1, StagedRec DEF DirLocked, HasIp, IpLocked
<1>3. OwesOf(r) = 0
  BY <1>2 DEF OwesOf
<1>4. r.pc = "refused" => r.call # "symlink"
  BY <1>1, <1>2 DEF CallOK
<1>5. PICK x \in Inum : x = r.ip
  BY <1>2
<1>6. CASE /\ r.call = "create" /\ fd' = [fd EXCEPT ![p] = r.ip]
           /\ proc' = [proc EXCEPT ![p] = Idle]
  BY <1>1, <1>2, <1>3, <1>5, <1>6, StepOpen
<1>7. CASE /\ r.pc = "refused" \/ r.call # "symlink"
           /\ fd' = fd /\ proc' = [proc EXCEPT ![p] = Put(r, <<r.ip>>, "idle")]
  <2>1. proc' = [proc EXCEPT ![p] = Put(proc[p], <<x>>, "idle")] /\ r.call # "symlink"
    BY <1>4, <1>5, <1>7
  <2> QED BY <1>2, <1>3, <1>5, <1>7, <2>1, StepEnd
<1> QED BY <1>6, <1>7

\* link() finds nothing, or a directory.
LEMMA sys_linkEnds ==
  ASSUME IInv, NEW p \in Proc, NEW r, r = proc[p], r.pc = "link", panicked' = FALSE,
         UNCHANGED <<inode, ref, lock, fd, cwd, leaked>>,
         \/ r.dp = 0 /\ Fails(p)
         \/ r.dp # 0 /\ proc' = [proc EXCEPT ![p] = Put(r, <<r.dp>>, "idle")]
  PROVE  IInv'
<1>1. r \in Rec /\ WalkOK(r)
  BY RecOf DEF IInv
<1>2. /\ Stage(r) = "link" /\ DpOf(r) = r.dp /\ LockOf(r) = 0 /\ P1(r) = 0 /\ P2(r) = 0
      /\ IpOf(r) = 0 /\ OwesOf(r) = 0 /\ r.dp \in 0..NINODE
  BY <1>1, LookupRec DEF Lookups, Parents
<1>3. CASE r.dp = 0 /\ Fails(p)
  BY <1>2, <1>3, StepFail DEF Fails
<1>4. CASE r.dp # 0 /\ proc' = [proc EXCEPT ![p] = Put(r, <<r.dp>>, "idle")]
  <2>1. PICK x \in Inum : x = r.dp
    BY <1>2, <1>4, Numbers
  <2>2. proc' = [proc EXCEPT ![p] = Put(proc[p], <<x>>, "idle")]
    BY <1>4, <2>1
  <2> QED BY <1>2, <2>1, <2>2, StepEnd
<1> QED BY <1>3, <1>4
-----------------------------------------------------------------------------
(* Steps that change one inode, but no entry                               *)

\* An inode before it is known that its link count is not negative
InodeI == [type : Types, nlink : Int, ents : [Name \cup Dots -> 0..NINODE], to : Paths \cup {<<>>}]

\* Inode x, which p refers to, becomes v.
Edits(x, v) ==
  /\ inode' = [inode EXCEPT ![x] = v] /\ ref[x] >= 1 /\ inode[x].type # "free"
  /\ v \in InodeI /\ v.type # "free" /\ v.ents = inode[x].ents
  /\ (v.type = "dir" <=> inode[x].type = "dir")

LEMMA EditsTree ==
  ASSUME TypeOK, NEW x \in Inum, NEW v, Edits(x, v)
  PROVE  SameTree /\ \A i \in Inum : inode'[i] = IF i = x THEN v ELSE inode[i]
<1>1. \A i \in Inum : inode'[i] = IF i = x THEN v ELSE inode[i]
  BY DEF Edits, TypeOK
<1>2. SameTree
  BY <1>1 DEF SameTree, IsDir, Edits
<1> QED BY <1>1, <1>2

LEMMA StepSame ==
  ASSUME IInv, NEW p \in Proc, Acts(p), RefMoves(p), LockMoves(p), RefGrows, Stays(p),
         Knows(proc[p])', panicked' = FALSE, NEW x \in Inum, NEW v, Edits(x, v),
         OwesOf(proc[p]) \in {0, x}, OwesOf(proc'[p]) \in {0, x},
         v.nlink + One(OwesOf(proc[p]), x) = inode[x].nlink + One(OwesOf(proc'[p]), x),
         Stage(proc[p]) # "created" \/ LockOf(proc[p]) = x,
         v.type = "symlink" /\ v.to = <<>> =>
           (Bare(x) /\ Stage(proc[p]) # "created") \/ Making(proc'[p], x)
  PROVE  IInv'
<1> USE DEF IInv
<1>1. SameTree /\ \A i \in Inum : inode'[i] = IF i = x THEN v ELSE inode[i]
  BY EditsTree
<1>2. CallsOK'
  BY CallsStep
<1>3. RefsExact' /\ ref' \in [Inum -> Nat]
  BY RefsStep DEF TypeOK
<1>4. LocksExact'
  BY LocksStep
<1>5. LinksExact' /\ \A i \in Inum : inode'[i].nlink \in Nat
  <2>1. \A i \in Inum : NamesOf(i)' = NamesOf(i)
    BY <1>1, SameNames DEF NamesOf
  <2>2. \A i \in Inum : inode[i].nlink \in Int /\ NamesOf(i) \in Nat
    BY NamesNat DEF TypeOK
  <2>3. ASSUME NEW i \in Inum
        PROVE  inode'[i].nlink \in Int /\
               inode'[i].nlink + One(OwesOf(proc[p]), i) = inode[i].nlink + One(OwesOf(proc'[p]), i)
    <3>1. CASE i = x
      BY <1>1, <3>1 DEF Edits, InodeI
    <3>2. CASE i # x
      <4>1. One(OwesOf(proc[p]), i) = 0 /\ One(OwesOf(proc'[p]), i) = 0
        BY <3>2, Numbers DEF One
      <4> QED BY <1>1, <2>2, <3>2, <4>1
    <3> QED BY <3>1, <3>2
  <2>4. LinkMoves(p)
    <3> SUFFICES ASSUME NEW i \in Inum
                 PROVE  inode'[i].nlink \in Int /\
                        inode'[i].nlink + One(OwesOf(proc[p]), i) + NamesOf(i)
                          = inode[i].nlink + One(OwesOf(proc'[p]), i) + NamesOf(i)'
      BY DEF LinkMoves
    <3>1. NamesOf(i)' = NamesOf(i) /\ NamesOf(i) \in Nat
      BY <2>1, <2>2
    <3> QED BY <2>3, <3>1
  <2> QED BY <1>2, <2>4, LinksStep
<1>6. TypeOK'
  <2>1. lock' \in [Inum -> Proc \cup {None}] /\ leaked' \in [Inum -> Nat]
    BY DEF LockMoves, RefMoves
  <2>2. fd' \in [Proc -> 0..NINODE] /\ cwd' \in [Proc -> Inum]
    BY DEF Acts
  <2>3. \A q \in Proc : proc'[q].dp \in 0..NINODE /\ proc'[q].ip \in 0..NINODE
    BY <1>2 DEF CallsOK, Rec
  <2>4. v \in Inode
    <3>1. v.nlink \in Nat /\ v \in InodeI
      BY <1>1, <1>5 DEF Edits
    <3> QED BY <3>1 DEF InodeI, Inode
  <2>5. inode' \in [Inum -> Inode]
    BY <2>4 DEF Edits, TypeOK, Inode
  <2> QED BY <1>3, <2>1, <2>2, <2>3, <2>5 DEF TypeOK, Inode
<1>7. FreeUnused'
  <2> SUFFICES ASSUME NEW i \in Inum, inode'[i].type = "free"
               PROVE  inode'[i] = Free /\ ref'[i] = 0
    BY DEF FreeUnused
  <2>1. inode'[i] = inode[i]
    BY <1>1 DEF Edits
  <2> QED BY <2>1 DEF FreeUnused, RefGrows
<1>8. TreeOK' /\ RemovedLeft' /\ AllKnow'
  BY <1>1, SameTreeOK, SameRemoved, SameKnow
<1>9. LinksReady'
  <2>1. ASSUME NEW i \in Inum, Bare(i), lock[i] = p
        PROVE  Stage(proc[p]) = "created" /\ LockOf(proc[p]) = i
    BY <2>1, Numbers DEF LinksReady, LocksExact, Bare
  <2>2. ASSUME NEW i \in Inum, Bare(i)'
        PROVE  (Bare(i) /\ lock[i] # p) \/ Making(proc'[p], i)
    <3>1. CASE i = x
      BY <1>1, <2>1, <2>2, <3>1 DEF Bare
    <3>2. CASE i # x
      BY <1>1, <2>1, <2>2, <3>2 DEF Bare
    <3> QED BY <3>1, <3>2
  <2> QED BY <2>2, ReadyStep
<1>10. Reclaimed'
  <2> SUFFICES ASSUME NEW i \in Inum, inode'[i].type # "free", inode'[i].nlink = 0
               PROVE  ref'[i] > 0
    BY DEF Reclaimed
  <2>1. ref[i] \in Nat /\ ref'[i] \in Nat /\ ref'[i] >= ref[i]
    BY <1>3 DEF RefGrows, TypeOK
  <2>2. CASE i = x
    BY <2>1, <2>2 DEF Edits
  <2>3. CASE i # x
    BY <1>1, <2>1, <2>3 DEF Reclaimed
  <2> QED BY <2>2, <2>3
<1> QED BY <1>2, <1>3, <1>4, <1>5, <1>6, <1>7, <1>8, <1>9, <1>10
\* The references of a call when it puts one that it has kept
LEMMA OnesLeft ==
  ASSUME NEW i \in Inum, NEW f, NEW c, NEW d, NEW k
  PROVE  /\ Ones(f, c, 0, k, d, 0, i) = Ones(f, c, d, k, 0, 0, i)
         /\ Ones(f, c, 0, 0, d, k, i) = Ones(f, c, d, k, 0, 0, i)
<1>1. One(0, i) = 0 /\ One(f, i) \in Nat /\ One(c, i) \in Nat /\ One(d, i) \in Nat
      /\ One(k, i) \in Nat
  BY OneNat, OneZero
<1> QED BY <1>1 DEF Ones

LEMMA create_existsStep ==
  ASSUME IInv, NEW p \in Proc, create_exists(p)
  PROVE  IInv'
<1>0. PICK r : r = proc[p]
  OBVIOUS
<1>1. /\ r \in Rec /\ WalkOK(r) /\ CallOK(r) /\ Knows(r) /\ r.pc = "exists"
      /\ (r.call \in {"open", "create"} => fd[p] = 0)
  BY <1>0, RecOf DEF IInv, create_exists, At, AllKnow
<1>2. /\ Stage(r) = "exists" /\ P1(r) = 0 /\ P2(r) = 0 /\ DpOf(r) = r.dp /\ LockOf(r) = r.dp
      /\ IpOf(r) = r.ip /\ r.dp \in Inum /\ r.ip \in Inum /\ r.dp # 0 /\ r.ip # 0
  BY <1>1, StagedRec DEF DirLocked, HasIp
<1>3. PICK x \in Inum : x = r.ip
  BY <1>2
<1>4. /\ lock[x] = None /\ lock' = [lock EXCEPT ![x] = p, ![r.dp] = None]
      /\ inode' = [inode EXCEPT ![x].type = IF r.call = "symlink" THEN "symlink" ELSE @]
      /\ proc' = [proc EXCEPT ![p] = Put(r, <<r.dp>>,
           IF r.call = "symlink" \/ (r.call = "create" /\ inode[x].type = "file")
           THEN "created" ELSE "refused")]
      /\ panicked' = (panicked \/ inode[x].type = "free")
      /\ UNCHANGED <<ref, fd, cwd, leaked>>
  BY <1>0, <1>3 DEF create_exists, Unlocked
<1>5. inode[x].type # "free" /\ ref[x] >= 1 /\ inode[x] \in Inode
  BY <1>0, <1>2, <1>3, HeldKept DEF IInv, TypeOK, Inode
<1>6. panicked' = FALSE
  BY <1>4, <1>5 DEF IInv, TypeOK
<1>7. PICK then \in {"created", "refused"} :
        /\ r.call = "symlink" => then = "created"
        /\ proc' = [proc EXCEPT ![p] = Put(r, <<r.dp>>, then)]
  BY <1>4
<1>8. PICK v : v = [inode[x] EXCEPT !.type = IF r.call = "symlink" THEN "symlink" ELSE @]
  OBVIOUS
<1>9. /\ v \in Inode /\ v.type = (IF r.call = "symlink" THEN "symlink" ELSE inode[x].type)
      /\ v.ents = inode[x].ents /\ v.nlink = inode[x].nlink /\ v.to = inode[x].to
  BY <1>5, <1>8 DEF Inode, Types
<1>10. r.call = "symlink" => ~IsDir(x)
  BY <1>1, <1>2, <1>3 DEF Knows
<1>11. Edits(x, v)
  <2>1. inode' = [inode EXCEPT ![x] = v]
    BY <1>4, <1>8 DEF IInv, TypeOK
  <2>2. v \in InodeI
    BY <1>9 DEF Inode, InodeI
  <2> QED BY <1>5, <1>9, <1>10, <2>1, <2>2 DEF Edits, IsDir
<1>12. PICK n : n = Put(r, <<r.dp>>, then)
  OBVIOUS
<1>13. PICK d \in Inum : d = r.dp
  BY <1>2
<1>14. then \in AfterPut /\ then \notin DirLocked /\ then \in HasIp /\ then \in IpLocked
  BY DEF AfterPut, DirLocked, HasIp, IpLocked
<1>15. /\ n \in Rec /\ WalkOK(n) /\ Stage(n) = then /\ n.pc = "put" /\ n.then = then
       /\ DpOf(n) = 0 /\ IpOf(n) = r.ip /\ LockOf(n) = r.ip
       /\ n.call = r.call /\ n.dp = r.dp /\ n.ip = r.ip /\ n.new = r.new /\ n.old = r.old
       /\ P1(n) = r.dp /\ P2(n) = 0
  <2>1. n = Put(r, <<d>>, then)
    BY <1>12, <1>13
  <2> QED BY <1>1, <1>2, <1>13, <1>14, <2>1, PutOne
<1>16. CallOK(n)
  BY <1>1, <1>2, <1>7, <1>15 DEF CallOK
<1>17. OwesOf(n) = 0 /\ OwesOf(r) = 0
  BY <1>2, <1>15 DEF OwesOf
<1>18. Acts(p) /\ proc'[p] = n
  BY <1>1, <1>4, <1>7, <1>12, <1>15, <1>16, ActsOne DEF IInv, GoodRec
<1>19. RefMoves(p) /\ RefGrows
  <2>1. ASSUME NEW i \in Inum
        PROVE  After(p, i) = Before(p, i)
    <3>1. After(p, i) = Ones(fd[p], cwd[p], 0, r.ip, r.dp, 0, i)
      BY <1>4, <1>15, <1>18, MineAfter
    <3>2. Before(p, i) = Ones(fd[p], cwd[p], r.dp, r.ip, 0, 0, i)
      BY <1>0, <1>2, MineBefore
    <3> QED BY <3>1, <3>2, OnesLeft
  <2> QED BY <1>4, <2>1, RefSame, GrowsSame DEF IInv
<1>20. LockMoves(p)
  <2>1. lock[r.dp] = p
    BY <1>0, <1>2, Numbers DEF IInv, LocksExact
  <2>2. d # x /\ LockOf(proc[p]) = d /\ LockOf(proc'[p]) = x
        /\ lock' = [lock EXCEPT ![x] = p, ![d] = None]
    BY <1>0, <1>2, <1>3, <1>4, <1>13, <1>15, <1>18, <2>1, Numbers
  <2> QED BY <1>4, <2>2, LockSwap DEF IInv
<1>21. Stays(p)
  BY <1>4, <1>15, <1>18 DEF Stays
<1>22. Knows(proc[p])'
  BY <1>14, <1>15, <1>18 DEF Knows, Parents, DirLocked
<1>23. v.type = "symlink" /\ v.to = <<>> => Bare(x) \/ Making(proc'[p], x)
  BY <1>3, <1>7, <1>9, <1>15, <1>18 DEF Bare, Making
<1>24. /\ OwesOf(proc[p]) \in {0, x} /\ OwesOf(proc'[p]) \in {0, x}
       /\ v.nlink + One(OwesOf(proc[p]), x) = inode[x].nlink + One(OwesOf(proc'[p]), x)
       /\ Stage(proc[p]) # "created"
  BY <1>0, <1>2, <1>9, <1>17, <1>18
<1> QED BY <1>6, <1>11, <1>18, <1>19, <1>20, <1>21, <1>22, <1>23, <1>24, StepSame

LEMMA symlinkEnds ==
  ASSUME IInv, NEW p \in Proc, NEW r, r = proc[p], r.pc = "created", r.call = "symlink",
         lock' = [lock EXCEPT ![r.ip] = None], panicked' = FALSE,
         inode' = [inode EXCEPT ![r.ip].to = r.old],
         leaked' = [leaked EXCEPT ![r.ip] = @ + 1],
         proc' = [proc EXCEPT ![p] = Idle], UNCHANGED <<ref, fd, cwd>>
  PROVE  IInv'
<1>1. r \in Rec /\ WalkOK(r) /\ CallOK(r)
  BY RecOf DEF IInv
<1>2. /\ Stage(r) = "created" /\ DpOf(r) = 0 /\ P1(r) = 0 /\ P2(r) = 0 /\ IpOf(r) = r.ip
      /\ r.ip \in Inum /\ r.ip # 0 /\ LockOf(r) = r.ip
  BY <1>1, StagedRec DEF DirLocked, HasIp, IpLocked
<1>3. OwesOf(r) = 0 /\ r.old \in Paths /\ r.old # <<>>
  BY <1>1, <1>2 DEF OwesOf, CallOK, Rec
<1>4. PICK x \in Inum : x = r.ip
  BY <1>2
<1>5. inode[x].type # "free" /\ ref[x] >= 1 /\ inode[x] \in Inode
  BY <1>2, <1>4, HeldKept DEF IInv, TypeOK, Inode
<1>6. PICK v : v = [inode[x] EXCEPT !.to = r.old]
  OBVIOUS
<1>7. /\ v \in Inode /\ v.type = inode[x].type /\ v.to = r.old
      /\ v.ents = inode[x].ents /\ v.nlink = inode[x].nlink
  BY <1>3, <1>5, <1>6 DEF Inode
<1>8. Edits(x, v)
  <2>1. inode' = [inode EXCEPT ![x] = v]
    BY <1>4, <1>6 DEF IInv, TypeOK
  <2>2. v \in InodeI
    BY <1>7 DEF Inode, InodeI
  <2> QED BY <1>5, <1>7, <2>1, <2>2 DEF Edits
<1>9. Acts(p) /\ proc'[p] = Idle
  BY IdleRec, ActsOne DEF IInv
<1>10. RefMoves(p) /\ RefGrows
  <2>1. ASSUME NEW i \in Inum
        PROVE  After(p, i) + One(x, i) = Before(p, i)
    <3>1. After(p, i) = Ones(fd[p], cwd[p], 0, 0, 0, 0, i)
      BY <1>9, IdleRec, MineAfter
    <3>2. Before(p, i) = Ones(fd[p], cwd[p], 0, x, 0, 0, i)
      BY <1>2, <1>4, MineBefore
    <3> QED BY <3>1, <3>2, OnesMoves
  <2>2. PICK y \in 0..NINODE : y = 0
    BY Numbers
  <2>3. \A i \in Inum : After(p, i) + One(x, i) = Before(p, i) + One(y, i)
    BY <2>1, <2>2, OneZero, BeforeNat
  <2>4. ref' = (IF y = 0 THEN ref ELSE Get(y)) /\ leaked' = [leaked EXCEPT ![x] = @ + 1]
    BY <1>4, <2>2
  <2> QED BY <2>3, <2>4, RefLeak, GrowsSame DEF IInv
<1>11. LockMoves(p)
  BY <1>2, <1>9, IdleRec, LockRelease DEF IInv
<1>12. Stays(p)
  BY <1>9, IdleRec DEF Stays
<1>13. Knows(proc[p])'
  BY <1>9, IdleRec, QuietKnows
<1>14. /\ OwesOf(proc[p]) \in {0, x} /\ OwesOf(proc'[p]) \in {0, x}
       /\ v.nlink + One(OwesOf(proc[p]), x) = inode[x].nlink + One(OwesOf(proc'[p]), x)
       /\ LockOf(proc[p]) = x /\ ~(v.type = "symlink" /\ v.to = <<>>)
  BY <1>2, <1>3, <1>4, <1>7, <1>9, IdleRec
<1> QED BY <1>8, <1>9, <1>10, <1>11, <1>12, <1>13, <1>14, StepSame

LEMMA createdStep ==
  ASSUME IInv, NEW p \in Proc, created(p)
  PROVE  IInv'
<1>0. PICK r : r = proc[p]
  OBVIOUS
<1>1. /\ r.pc \in {"created", "refused"} /\ lock' = [lock EXCEPT ![r.ip] = None]
      /\ UNCHANGED <<ref, cwd, panicked>> /\ proc \in [Proc -> Rec]
  BY <1>0 DEF created, At, IInv, CallsOK
<1>2. panicked' = FALSE
  BY <1>1 DEF IInv, TypeOK
<1>3. \/ /\ r.call = "create" /\ fd' = [fd EXCEPT ![p] = r.ip]
         /\ proc' = [proc EXCEPT ![p] = Idle] /\ UNCHANGED <<inode, leaked>>
      \/ /\ r.pc = "created" /\ r.call = "symlink"
         /\ inode' = [inode EXCEPT ![r.ip].to = r.old]
         /\ leaked' = [leaked EXCEPT ![r.ip] = @ + 1]
         /\ proc' = [proc EXCEPT ![p] = Idle] /\ UNCHANGED fd
      \/ /\ r.pc = "refused" \/ r.call # "symlink"
         /\ proc' = [proc EXCEPT ![p] = Put(r, <<r.ip>>, "idle")]
         /\ UNCHANGED <<inode, fd, leaked>>
  BY <1>0, <1>1 DEF created, At, Fails
<1> QED BY <1>0, <1>1, <1>2, <1>3, createdEnds, symlinkEnds
\* The link count of x becomes k.
LEMMA EditsLink ==
  ASSUME TypeOK, NEW x \in Inum, ref[x] >= 1, inode[x].type # "free", NEW k \in Int,
         inode' = [inode EXCEPT ![x].nlink = k]
  PROVE  \E v : /\ Edits(x, v) /\ v.type = inode[x].type /\ v.to = inode[x].to
                /\ v.nlink = k
<1>1. inode[x] \in Inode
  BY DEF TypeOK, Inode
<1>2. PICK v : v = [inode[x] EXCEPT !.nlink = k]
  OBVIOUS
<1>3. /\ v \in InodeI /\ v.type = inode[x].type /\ v.to = inode[x].to
      /\ v.ents = inode[x].ents /\ v.nlink = k
  BY <1>1, <1>2 DEF Inode, InodeI
<1>4. inode' = [inode EXCEPT ![x] = v]
  BY <1>2 DEF TypeOK
<1> QED BY <1>3, <1>4 DEF Edits

LEMMA sys_linkMakes ==
  ASSUME IInv, NEW p \in Proc, NEW r, r = proc[p], r.pc = "link", r.dp # 0, ~IsDir(r.dp),
         inode' = [inode EXCEPT ![r.dp].nlink = @ + 1], ref' = Get(cwd[p]),
         proc' = [proc EXCEPT ![p] =
           namei(p, [r EXCEPT !.ip = r.dp], r.new, TRUE, "dirlink")],
         UNCHANGED <<lock, fd, cwd, leaked>>, panicked' = FALSE
  PROVE  IInv'
<1>1. r \in Rec /\ WalkOK(r) /\ CallOK(r)
  BY RecOf DEF IInv
<1>2. /\ Stage(r) = "link" /\ DpOf(r) = r.dp /\ LockOf(r) = 0 /\ P1(r) = 0 /\ P2(r) = 0
      /\ IpOf(r) = 0 /\ OwesOf(r) = 0 /\ r.dp \in 0..NINODE /\ r.puts = <<>>
  BY <1>1, LookupRec DEF Lookups, Parents
<1>3. r.call = "link" /\ r.new \in Paths /\ r.new # <<>>
  BY <1>1, <1>2 DEF CallOK, Rec
<1>4. PICK x \in Inum : x = r.dp
  BY <1>2, Numbers
<1>5. inode[x].type # "free" /\ ref[x] >= 1 /\ TypeOK /\ CallsOK /\ x \in 0..NINODE /\ x # 0
  BY <1>2, <1>4, HeldKept, Numbers DEF IInv
<1>6. PICK v : /\ Edits(x, v) /\ v.type = inode[x].type /\ v.to = inode[x].to
               /\ v.nlink = inode[x].nlink + 1
  <2>1. inode[x].nlink \in Nat
    BY <1>5 DEF TypeOK
  <2>2. PICK k \in Int : k = inode[x].nlink + 1
    BY <2>1
  <2>3. inode' = [inode EXCEPT ![x].nlink = k]
    BY <1>4, <2>2
  <2> QED BY <1>5, <2>2, <2>3, EditsLink
<1>7. PICK s : s = [r EXCEPT !.ip = r.dp]
  OBVIOUS
<1>8. s \in Rec /\ s.ip = x /\ s.call = "link" /\ s.new = r.new /\ s.puts = <<>>
  BY <1>1, <1>2, <1>3, <1>4, <1>7 DEF Rec
<1>9. PICK path \in Seq(Elems) : path = r.new /\ path # <<>>
  BY <1>3, PathSeq
<1>10. "dirlink" \in Lookups /\ "dirlink" \in Parents
  BY DEF Lookups, Parents
<1>11. PICK par \in BOOLEAN, then \in Lookups : par = TRUE /\ then = "dirlink"
  BY <1>10
<1>12. PICK n : n = namei(p, s, path, par, then)
  OBVIOUS
<1>13. proc' = [proc EXCEPT ![p] = n]
  BY <1>7, <1>9, <1>11, <1>12
<1>14. /\ n \in Rec /\ WalkOK(n) /\ DpOf(n) = cwd[p] /\ P1(n) = 0 /\ P2(n) = 0
       /\ IpOf(n) = x /\ OwesOf(n) = x /\ LockOf(n) = 0 /\ Stage(n) = "dirlink"
       /\ n.pc = "walk" /\ n.then = "dirlink" /\ n.call = "link" /\ n.ip = x /\ n.new # <<>>
  <2>1. (par <=> then \in Parents) /\ (then \in {"dirlink", "readi"} => s.ip # 0)
    BY <1>5, <1>8, <1>10, <1>11
  <2>2. /\ n \in Rec /\ WalkOK(n) /\ DpOf(n) = cwd[p] /\ P1(n) = 0 /\ P2(n) = 0
        /\ IpOf(n) = (IF then = "dirlink" THEN s.ip ELSE 0) /\ OwesOf(n) = IpOf(n)
        /\ LockOf(n) = 0 /\ Stage(n) = then /\ n.pc = "walk" /\ n.then = then
        /\ n.call = s.call /\ n.ip = s.ip /\ n.new = s.new /\ n.old = s.old
    BY <1>5, <1>8, <1>9, <1>12, <2>1, NameiGood
  <2> QED BY <1>3, <1>8, <1>11, <2>2
<1>15. CallOK(n)
  BY <1>14 DEF CallOK
<1>16. Acts(p) /\ proc'[p] = n
  BY <1>5, <1>13, <1>14, <1>15, ActsOne DEF GoodRec
<1>17. cwd[p] \in Inum /\ inode[cwd[p]].type # "free" /\ Stays(p)
  BY <1>14, <1>16, StartStays
<1>18. RefMoves(p) /\ RefGrows
  <2>1. ASSUME NEW i \in Inum
        PROVE  After(p, i) = Before(p, i) + One(cwd[p], i)
    <3>1. Before(p, i) = Ones(fd[p], cwd[p], x, 0, 0, 0, i)
      BY <1>2, <1>4, MineBefore
    <3>2. After(p, i) = Ones(fd[p], cwd[p], cwd[p], x, 0, 0, i)
      BY <1>14, <1>16, MineAfter
    <3>3. One(0, i) = 0 /\ One(fd[p], i) \in Nat /\ One(cwd[p], i) \in Nat /\ One(x, i) \in Nat
      BY OneNat, OneZero
    <3> QED BY <3>1, <3>2, <3>3 DEF Ones
  <2> QED BY <1>5, <1>17, <2>1, RefGet, GrowsGet
<1>19. LockMoves(p)
  BY <1>2, <1>5, <1>14, <1>16, LockSame DEF IInv
<1>20. Knows(proc[p])'
  <2>1. ~IsDir(n.ip)'
    <3>1. SameTree
      BY <1>5, <1>6, EditsTree
    <3> QED BY <1>4, <1>14, <3>1 DEF SameTree
  <2> QED BY <1>11, <1>14, <1>16, <2>1, WalkKnows
<1>21. /\ OwesOf(proc[p]) \in {0, x} /\ OwesOf(proc'[p]) \in {0, x}
       /\ v.nlink + One(OwesOf(proc[p]), x) = inode[x].nlink + One(OwesOf(proc'[p]), x)
       /\ Stage(proc[p]) # "created"
  <2>1. One(0, x) = 0 /\ One(x, x) = 1 /\ inode[x].nlink \in Nat
    BY <1>5, OneZero DEF One, TypeOK
  <2>2. OwesOf(proc[p]) = 0 /\ OwesOf(proc'[p]) = x /\ Stage(proc[p]) # "created"
    BY <1>2, <1>14, <1>16
  <2>3. v.nlink = inode[x].nlink + 1
    BY <1>6
  <2>4. One(OwesOf(proc[p]), x) = 0 /\ One(OwesOf(proc'[p]), x) = 1
    BY <2>1, <2>2, Zenon
  <2>5. v.nlink + 0 = inode[x].nlink + 1
    BY <2>1, <2>3
  <2> QED BY <2>2, <2>4, <2>5, Zenon
<1>22. v.type = "symlink" /\ v.to = <<>> => Bare(x)
  BY <1>6 DEF Bare
<1> QED BY <1>6, <1>16, <1>17, <1>18, <1>19, <1>20, <1>21, <1>22, StepSame

\* A call takes back a link or finishes an unlink(), and ends.
LEMMA StepDrop ==
  ASSUME IInv, NEW p \in Proc, NEW r, r = proc[p], r.pc \in {"link_bad", "unlinked"},
         inode' = [inode EXCEPT ![r.ip].nlink = @ - 1],
         proc' = [proc EXCEPT ![p] = Put(r, <<r.ip>>, "idle")],
         UNCHANGED <<ref, fd, cwd, leaked>>, panicked' = FALSE,
         r.pc = "link_bad" => lock' = lock,
         r.pc = "unlinked" => lock' = [lock EXCEPT ![r.ip] = None]
  PROVE  IInv'
<1>1. r \in Rec /\ WalkOK(r) /\ CallOK(r)
  BY RecOf DEF IInv
<1>2. /\ Stage(r) = r.pc /\ DpOf(r) = 0 /\ P1(r) = 0 /\ P2(r) = 0 /\ IpOf(r) = r.ip
      /\ r.ip \in Inum /\ LockOf(r) = (IF r.pc = "unlinked" THEN r.ip ELSE 0)
  BY <1>1, StagedRec DEF DirLocked, HasIp, IpLocked
<1>3. OwesOf(r) = r.ip /\ r.call \in {"link", "unlink"}
  BY <1>1, <1>2 DEF OwesOf, CallOK
<1>4. PICK x \in Inum : x = r.ip
  BY <1>2
<1>5. inode[x].type # "free" /\ ref[x] >= 1 /\ TypeOK /\ CallsOK
  BY <1>2, <1>4, HeldKept DEF IInv
<1>6. PICK v : /\ Edits(x, v) /\ v.type = inode[x].type /\ v.to = inode[x].to
               /\ v.nlink = inode[x].nlink - 1
  <2>1. inode[x].nlink \in Nat
    BY <1>5 DEF TypeOK
  <2>2. PICK k \in Int : k = inode[x].nlink - 1
    BY <2>1
  <2>3. inode' = [inode EXCEPT ![x].nlink = k]
    BY <1>4, <2>2
  <2> QED BY <1>5, <2>2, <2>3, EditsLink
<1>7. PICK n : n = Put(r, <<x>>, "idle")
  OBVIOUS
<1>8. /\ GoodRec(n) /\ Stage(n) = "idle" /\ n.pc = "put" /\ n.call = r.call
      /\ DpOf(n) = 0 /\ IpOf(n) = 0 /\ LockOf(n) = 0 /\ OwesOf(n) = 0
      /\ P1(n) = x /\ P2(n) = 0
  BY <1>1, <1>7, PutOneEnd
<1>9. Acts(p) /\ proc'[p] = n
  <2>1. n.call \notin {"open", "create"}
    BY <1>3, <1>8
  <2>2. proc' = [proc EXCEPT ![p] = n]
    BY <1>4, <1>7
  <2>3. fd' = fd /\ cwd' = cwd
    OBVIOUS
  <2> QED BY ONLY p \in Proc, <1>5, <1>8, <2>1, <2>2, <2>3, ActsOne
<1>10. RefMoves(p) /\ RefGrows
  <2>1. ASSUME NEW i \in Inum
        PROVE  After(p, i) = Before(p, i)
    <3>1. After(p, i) = Ones(fd[p], cwd[p], 0, 0, x, 0, i)
      BY <1>8, <1>9, MineAfter
    <3>2. Before(p, i) = Ones(fd[p], cwd[p], 0, x, 0, 0, i)
      BY <1>2, <1>4, MineBefore
    <3>3. One(0, i) = 0 /\ One(fd[p], i) \in Nat /\ One(cwd[p], i) \in Nat /\ One(x, i) \in Nat
      BY OneNat, OneZero
    <3> QED BY <3>1, <3>2, <3>3 DEF Ones
  <2> QED BY <1>5, <2>1, RefSame, GrowsSame
<1>11. LockMoves(p)
  <2>1. CASE r.pc = "link_bad"
    BY <1>2, <1>5, <1>8, <1>9, <2>1, LockSame DEF IInv
  <2>2. CASE r.pc = "unlinked"
    BY <1>2, <1>5, <1>8, <1>9, <2>2, LockRelease
  <2> QED BY <2>1, <2>2
<1>12. Stays(p)
  BY <1>8, <1>9 DEF Stays
<1>13. Knows(proc[p])'
  BY <1>8, <1>9, QuietKnows
<1>14. /\ OwesOf(proc[p]) \in {0, x} /\ OwesOf(proc'[p]) \in {0, x}
       /\ v.nlink + One(OwesOf(proc[p]), x) = inode[x].nlink + One(OwesOf(proc'[p]), x)
       /\ Stage(proc[p]) # "created"
  <2>1. One(0, x) = 0 /\ One(x, x) = 1 /\ inode[x].nlink \in Nat
    BY <1>5, OneZero DEF One, TypeOK
  <2> QED BY <1>2, <1>3, <1>4, <1>6, <1>8, <1>9, <2>1
<1>15. v.type = "symlink" /\ v.to = <<>> => Bare(x)
  BY <1>6 DEF Bare
<1> QED BY <1>6, <1>9, <1>10, <1>11, <1>12, <1>13, <1>14, <1>15, StepSame

LEMMA link_badStep ==
  ASSUME IInv, NEW p \in Proc, link_bad(p)
  PROVE  IInv'
<1>0. PICK r : r = proc[p]
  OBVIOUS
<1>1. /\ r.pc = "link_bad" /\ inode' = [inode EXCEPT ![r.ip].nlink = @ - 1]
      /\ proc' = [proc EXCEPT ![p] = Put(r, <<r.ip>>, "idle")]
      /\ UNCHANGED <<ref, fd, cwd, leaked>> /\ lock' = lock /\ panicked' = FALSE
  BY <1>0 DEF link_bad, At, IInv, CallsOK, TypeOK
<1> QED BY <1>0, <1>1, StepDrop

LEMMA unlinkedStep ==
  ASSUME IInv, NEW p \in Proc, unlinked(p)
  PROVE  IInv'
<1>0. PICK r : r = proc[p]
  OBVIOUS
<1>1. /\ r.pc = "unlinked" /\ inode' = [inode EXCEPT ![r.ip].nlink = @ - 1]
      /\ proc' = [proc EXCEPT ![p] = Put(r, <<r.ip>>, "idle")]
      /\ UNCHANGED <<ref, fd, cwd, leaked>> /\ lock' = [lock EXCEPT ![r.ip] = None]
      /\ panicked' = FALSE
  BY <1>0 DEF unlinked, At, IInv, CallsOK, TypeOK
<1> QED BY <1>0, <1>1, StepDrop

LEMMA sys_linkStep ==
  ASSUME IInv, NEW p \in Proc, sys_link(p)
  PROVE  IInv'
<1>0. PICK r : r = proc[p]
  OBVIOUS
<1>1. /\ r.pc = "link" /\ UNCHANGED <<lock, fd, cwd, leaked>> /\ panicked' = FALSE
      /\ proc \in [Proc -> Rec]
  BY <1>0 DEF sys_link, At, IInv, CallsOK, TypeOK
<1>2. \/ r.dp = 0 /\ Fails(p) /\ UNCHANGED <<inode, ref>>
      \/ r.dp # 0 /\ proc' = [proc EXCEPT ![p] = Put(r, <<r.dp>>, "idle")]
           /\ UNCHANGED <<inode, ref>>
      \/ /\ r.dp # 0 /\ ~IsDir(r.dp)
         /\ inode' = [inode EXCEPT ![r.dp].nlink = @ + 1]
         /\ ref' = Get(cwd[p])
         /\ proc' = [proc EXCEPT ![p] =
              namei(p, [r EXCEPT !.ip = r.dp], r.new, TRUE, "dirlink")]
  BY <1>0, <1>1 DEF sys_link
<1> QED BY <1>0, <1>1, <1>2, sys_linkEnds, sys_linkMakes
-----------------------------------------------------------------------------
(* iput                                                                    *)

LEMMA TailPuts ==
  ASSUME NEW list \in Seq(Inum), list # <<>>, Len(list) <= 2
  PROVE  /\ Head(list) = list[1] /\ list[1] \in Inum /\ Len(list) >= 1
         /\ Tail(list) \in Seq(Inum)
         /\ Tail(list) = <<>> => Len(list) = 1
         /\ Tail(list) # <<>> =>
              Len(list) = 2 /\ Len(Tail(list)) = 1 /\ Tail(list)[1] = list[2] /\ list[2] \in Inum
<1>1. Head(list) \in Inum /\ Tail(list) \in Seq(Inum) /\ Len(Tail(list)) = Len(list) - 1
      /\ \A i \in 1..Len(Tail(list)) : Tail(list)[i] = list[i + 1]
  BY HeadTailProperties
<1>2. Len(list) \in Nat /\ Len(list) # 0 /\ Head(list) = list[1] /\ list[1] \in Inum
  <2>1. Len(list) \in Nat \ {0}
    BY EmptySeq
  <2>2. Head(list) = list[1]
    OBVIOUS
  <2> QED BY <1>1, <2>1, <2>2
<1>3. Len(list) = 1 \/ Len(list) = 2
  <2>1. PICK k : k = Len(list)
    OBVIOUS
  <2>2. k \in Nat /\ k # 0 /\ k <= 2
    BY <1>2, <2>1, Zenon
  <2>3. k = 1 \/ k = 2
    BY <2>2
  <2> QED BY <2>1, <2>3, Zenon
<1>4. PICK t : t = Tail(list)
  OBVIOUS
<1>5. (t = <<>>) <=> Len(t) = 0
  <2>1. t = <<>> => Len(t) = 0
    OBVIOUS
  <2>2. t # <<>> => Len(t) \in Nat \ {0}
    BY <1>1, <1>4, EmptySeq
  <2> QED BY <2>1, <2>2
<1>6. Len(list) = 2 => 1 \in 1..Len(t) /\ list[2] \in Inum
  <2> SUFFICES ASSUME Len(list) = 2
               PROVE  1 \in 1..Len(t) /\ list[2] \in Inum
    OBVIOUS
  <2>1. Len(t) = 2 - 1
    BY <1>1, <1>4, Zenon
  <2>2. Len(t) = 1
    BY <2>1
  <2>3. 1 \in 1..1 /\ 2 \in 1..2
    OBVIOUS
  <2>4. 1 \in 1..Len(t) /\ 2 \in 1..Len(list)
    BY <2>2, <2>3, Zenon
  <2> QED BY <2>4, ElementOfSeq
<1> QED BY <1>1, <1>2, <1>3, <1>4, <1>5, <1>6

\* What becomes of a call when it has put a reference
Next1(r) == LET s == [r EXCEPT !.puts = Tail(@)]
            IN  IF s.puts = <<>> THEN Resume(s) ELSE s

LEMMA ResumeGood ==
  ASSUME NEW r \in Rec, WalkOK(r), CallOK(r), r.pc = "put", NEW n, n = Next1(r)
  PROVE  /\ GoodRec(n) /\ Stage(n) = Stage(r) /\ DpOf(n) = DpOf(r) /\ IpOf(n) = IpOf(r)
         /\ LockOf(n) = LockOf(r) /\ OwesOf(n) = OwesOf(r)
         /\ n.call \in {r.call, "none"} /\ (Stage(r) # "idle" => n.call = r.call)
         /\ Head(r.puts) = P1(r) /\ P1(r) \in Inum /\ P1(n) = P2(r) /\ P2(n) = 0
         /\ (n.pc \in Parents => n.dp = 0)
         /\ (Stage(r) # "idle" => n.ip = r.ip /\ n.dp = r.dp /\ n.name = r.name)
<1>1. /\ r.puts \in Seq(Inum) /\ r.puts # <<>> /\ Len(r.puts) <= 2
      /\ r.then \in Lookups \cup AfterPut /\ Stage(r) = r.then
      /\ (r.path # <<>> => r.then \in Lookups /\ r.dp # 0)
      /\ (r.path = <<>> /\ r.then \in Parents => r.dp = 0)
  BY DEF WalkOK, Rec, Stage
<1>2. /\ Head(r.puts) = r.puts[1] /\ r.puts[1] \in Inum /\ Len(r.puts) >= 1
      /\ Tail(r.puts) \in Seq(Inum)
      /\ Tail(r.puts) = <<>> => Len(r.puts) = 1
      /\ Tail(r.puts) # <<>> =>
           Len(r.puts) = 2 /\ Len(Tail(r.puts)) = 1 /\ Tail(r.puts)[1] = r.puts[2]
  BY <1>1, TailPuts
<1>3. P1(r) = r.puts[1] /\ Head(r.puts) = P1(r) /\ P1(r) \in Inum
  BY <1>2 DEF P1
<1>4. PICK t : t = Tail(r.puts)
  OBVIOUS
<1>5. PICK s : s = [r EXCEPT !.puts = t]
  OBVIOUS
<1>6. /\ s \in Rec /\ s.puts = t /\ s.pc = "put" /\ s.call = r.call /\ s.path = r.path
      /\ s.par = r.par /\ s.dp = r.dp /\ s.ip = r.ip /\ s.then = r.then /\ s.new = r.new
      /\ s.old = r.old /\ s.name = r.name
  BY <1>2, <1>4, <1>5 DEF Rec
<1>7. n = IF t = <<>> THEN Resume(s) ELSE s
  BY <1>4, <1>5, <1>6 DEF Next1
<1>8. CASE t # <<>>
  <2>1. n = s /\ Stage(s) = r.then
    BY <1>6, <1>7, <1>8 DEF Stage
  <2>2. WalkOK(s)
    BY <1>1, <1>2, <1>4, <1>6, <1>8, <2>1 DEF WalkOK
  <2>3. CallOK(s)
    BY <1>1, <1>6, <2>1, CallSame
  <2>4. P1(s) = P2(r) /\ P2(s) = 0
    BY <1>2, <1>4, <1>6, <1>8 DEF P1, P2
  <2>5. DpOf(s) = DpOf(r) /\ IpOf(s) = IpOf(r) /\ LockOf(s) = LockOf(r) /\ OwesOf(s) = OwesOf(r)
    BY <1>1, <1>6, <2>1 DEF DpOf, IpOf, LockOf, OwesOf
  <2> QED BY <1>1, <1>3, <1>6, <2>1, <2>2, <2>3, <2>4, <2>5 DEF GoodRec, Parents
<1>9. ASSUME t = <<>>
      PROVE  n = Resume(s) /\ P2(r) = 0 /\ s.puts = <<>>
  BY <1>2, <1>4, <1>6, <1>7, <1>9 DEF P2
<1>10. CASE t = <<>> /\ r.path # <<>>
  <2>1. n = [s EXCEPT !.pc = "walk"]
    BY <1>6, <1>9, <1>10 DEF Resume
  <2>2. /\ n \in Rec /\ n.puts = <<>> /\ n.pc = "walk" /\ n.call = r.call /\ n.path = r.path
        /\ n.par = r.par /\ n.dp = r.dp /\ n.ip = r.ip /\ n.then = r.then /\ n.new = r.new
        /\ n.old = r.old /\ n.name = r.name
    BY <1>6, <1>9, <1>10, <2>1 DEF Rec
  <2>3. Stage(n) = r.then
    BY <2>2 DEF Stage
  <2>4. WalkOK(n)
    BY <1>1, <1>10, <2>2, <2>3 DEF WalkOK
  <2>5. CallOK(n)
    BY <1>1, <2>2, <2>3, CallSame
  <2>6. DpOf(n) = DpOf(r) /\ IpOf(n) = IpOf(r) /\ LockOf(n) = LockOf(r) /\ OwesOf(n) = OwesOf(r)
    BY <1>1, <2>2, <2>3 DEF DpOf, IpOf, LockOf, OwesOf
  <2>7. P1(n) = P2(r) /\ P2(n) = 0
    BY <1>9, <1>10, <2>2, ListPuts
  <2> QED BY <1>1, <1>3, <2>2, <2>3, <2>4, <2>5, <2>6, <2>7 DEF GoodRec, Parents
<1>11. CASE t = <<>> /\ r.path = <<>> /\ r.then = "idle"
  <2>1. n = Idle
    BY <1>6, <1>9, <1>11 DEF Resume
  <2>2. DpOf(r) = 0 /\ IpOf(r) = 0 /\ LockOf(r) = 0 /\ OwesOf(r) = 0
    BY <1>1, <1>11
       DEF DpOf, IpOf, LockOf, OwesOf, Lookups, Parents, DirLocked, HasIp, IpLocked
  <2> QED BY <1>1, <1>3, <1>9, <1>11, <2>1, <2>2, IdleRec DEF Parents
<1>12. CASE t = <<>> /\ r.path = <<>> /\ r.then # "idle"
  <2>1. n = [s EXCEPT !.pc = s.then]
    BY <1>6, <1>9, <1>12 DEF Resume
  <2>2. /\ n \in Rec /\ n.puts = <<>> /\ n.pc = r.then /\ n.call = r.call
        /\ n.par = r.par /\ n.dp = r.dp /\ n.ip = r.ip /\ n.then = r.then /\ n.new = r.new
        /\ n.old = r.old /\ n.name = r.name
    BY <1>6, <1>9, <1>12, <2>1 DEF Rec
  <2>3. r.then \notin {"walk", "put", "idle"}
    BY <1>1, <1>12 DEF Lookups, Parents, AfterPut
  <2>4. Stage(n) = r.then
    BY <2>2, <2>3 DEF Stage
  <2>5. WalkOK(n)
    BY <1>1, <2>2, <2>3, <2>4 DEF WalkOK
  <2>6. CallOK(n)
    BY <1>1, <2>2, <2>3, <2>4 DEF CallOK
  <2>7. DpOf(n) = DpOf(r) /\ IpOf(n) = IpOf(r) /\ LockOf(n) = LockOf(r) /\ OwesOf(n) = OwesOf(r)
    BY <1>1, <2>2, <2>4 DEF DpOf, IpOf, LockOf, OwesOf
  <2>8. P1(n) = P2(r) /\ P2(n) = 0
    BY <1>9, <1>12, <2>2, ListPuts
  <2> QED BY <1>1, <1>3, <1>12, <2>2, <2>4, <2>5, <2>6, <2>7, <2>8 DEF GoodRec
<1> QED BY <1>8, <1>10, <1>11, <1>12

\* A step that changes what is a directory, or an entry
LEMMA StepTree ==
  ASSUME IInv, NEW p \in Proc, Acts(p), RefMoves(p), LockMoves(p), LinkMoves(p),
         inode' \in [Inum -> InodeI], FreeUnused', TreeOK', RemovedLeft', AllKnow',
         LinksReady', Reclaimed', panicked' = FALSE
  PROVE  IInv'
<1>1. CallsOK'
  BY CallsStep DEF IInv
<1>2. RefsExact' /\ ref' \in [Inum -> Nat]
  BY RefsStep DEF IInv, TypeOK
<1>3. LocksExact'
  BY LocksStep DEF IInv
<1>4. LinksExact' /\ \A i \in Inum : inode'[i].nlink \in Nat
  BY <1>1, LinksStep DEF IInv
<1>5. TypeOK'
  <2>1. lock' \in [Inum -> Proc \cup {None}] /\ leaked' \in [Inum -> Nat]
    BY DEF LockMoves, RefMoves
  <2>2. fd' \in [Proc -> 0..NINODE] /\ cwd' \in [Proc -> Inum]
    BY DEF Acts
  <2>3. \A q \in Proc : proc'[q].dp \in 0..NINODE /\ proc'[q].ip \in 0..NINODE
    BY <1>1 DEF CallsOK, Rec
  <2>4. ASSUME NEW i \in Inum
        PROVE  inode'[i] \in Inode
    <3>1. inode'[i] \in InodeI /\ inode'[i].nlink \in Nat
      BY <1>4
    <3> QED BY <3>1 DEF InodeI, Inode
  <2>5. inode' \in [Inum -> Inode]
    BY <2>4
  <2> QED BY <1>2, <2>1, <2>2, <2>3, <2>5 DEF TypeOK, Inode
<1> QED BY <1>1, <1>2, <1>3, <1>4, <1>5 DEF IInv

LEMMA InodesI ==
  ASSUME TypeOK
  PROVE  /\ inode \in [Inum -> InodeI] /\ Free \in InodeI
         /\ Free.type = "free" /\ Free.nlink = 0 /\ Free.ents = NoEntries /\ Free.to = <<>>
<1>1. ASSUME NEW i \in Inum
      PROVE  inode[i] \in InodeI
  <2>1. inode[i] \in Inode
    BY DEF TypeOK, Inode
  <2> QED BY <2>1 DEF Inode, InodeI
<1>2. inode \in [Inum -> InodeI]
  BY <1>1 DEF TypeOK
<1>3. NoEntries \in [Name \cup Dots -> 0..NINODE]
  BY Numbers DEF NoEntries
<1>4. Free \in InodeI
  BY <1>3 DEF Free, InodeI, Types
<1> QED BY <1>2, <1>4 DEF Free

\* What a call knows it still knows when the inodes that it refers to are directories
\* as before, and the one that it has locked has the same entries.
LEMMA KnowKept ==
  ASSUME NEW r \in Rec, WalkOK(r), Knows(r),
         \A i \in Inum : i \in {DpOf(r), IpOf(r)} =>
           (IsDir(i)' <=> IsDir(i)) /\ (LockOf(r) = i => inode'[i].ents = inode[i].ents)
  PROVE  Knows(r)'
<1>1. /\ r.pc \in Parents /\ r.dp # 0 => r.dp \in Inum /\ DpOf(r) = r.dp
      /\ Stage(r) \in DirLocked => r.dp \in Inum /\ DpOf(r) = r.dp /\ LockOf(r) = r.dp
      /\ Stage(r) \in HasIp => r.ip \in Inum /\ IpOf(r) = r.ip
  BY KnownInodes
<1>2. r.pc \in Parents /\ r.dp # 0 => IsDir(r.dp)'
  BY <1>1 DEF Knows
<1>3. Stage(r) \in DirLocked => IsDir(r.dp)'
  BY <1>1 DEF Knows
<1>4. Stage(r) \in {"dirlink", "link_exists", "link_bad"} => ~IsDir(r.ip)'
  BY <1>1 DEF Knows, HasIp
<1>5. Stage(r) = "exists" /\ r.call = "symlink" => ~IsDir(r.ip)'
  BY <1>1 DEF Knows, HasIp
<1>6. Stage(r) = "unlink_ip" => r.name \in Name /\ inode'[r.dp].ents[r.name] = r.ip
  BY <1>1 DEF Knows, DirLocked
<1> QED BY <1>2, <1>3, <1>4, <1>5, <1>6 DEF Knows

\* Nobody refers to an inode with no references.
LEMMA NobodyRefers ==
  ASSUME NEW F, NEW C, NEW P, NEW i, RefsTo(F, C, P, i) = 0, NEW q \in Proc
  PROVE  i \notin {F[q], C[q], DpOf(P[q]), IpOf(P[q]), P1(P[q]), P2(P[q])}
<1>1. Mine(F[q], C[q], P[q], i) \in Nat /\ RefsTo(F, C, P, i) >= Mine(F[q], C[q], P[q], i)
  BY RefsHeld, MineNat
<1>2. Mine(F[q], C[q], P[q], i) = 0
  BY <1>1
<1>3. /\ One(F[q], i) \in 0..1 /\ One(C[q], i) \in 0..1 /\ One(DpOf(P[q]), i) \in 0..1
      /\ One(IpOf(P[q]), i) \in 0..1 /\ One(P1(P[q]), i) \in 0..1
      /\ One(P2(P[q]), i) \in 0..1
  BY OneNat
<1>4. /\ One(F[q], i) = 0 /\ One(C[q], i) = 0 /\ One(DpOf(P[q]), i) = 0
      /\ One(IpOf(P[q]), i) = 0 /\ One(P1(P[q]), i) = 0 /\ One(P2(P[q]), i) = 0
  BY <1>2, <1>3 DEF Mine
<1> QED BY <1>4 DEF One

LEMMA SumZero ==
  ASSUME NEW a \in Nat, NEW b \in Nat, NEW c \in Nat, NEW d \in Nat, a + b + c + d = 0
  PROVE  a = 0 /\ b = 0 /\ c = 0
OBVIOUS

\* An inode without links has no names, and is empty if it is a directory.
LEMMA Nameless ==
  ASSUME IInv, NEW i \in Inum, inode[i].nlink = 0
  PROVE  /\ Entries(i) = {} /\ Subdirs(i) = {} /\ i # ROOTINO
         /\ IsDir(i) => Removed(i) /\ IsDirEmpty(i)
<1>1. IsFiniteSet(Entries(i)) /\ IsFiniteSet(Subdirs(i))
      /\ Cardinality(Entries(i)) \in Nat /\ Cardinality(Subdirs(i)) \in Nat
  BY NamesFinite
<1>2. Cardinality({q \in Proc : Counted(q, i)}) \in Nat
  BY NamesAssumption, FS_Subset, FS_CardinalityType
<1>3. inode[i].nlink = Cardinality(Entries(i)) + Cardinality(Subdirs(i))
        + (IF i = ROOTINO THEN 1 ELSE 0) + Cardinality({q \in Proc : Counted(q, i)})
  BY DEF IInv, LinksExact
<1>4. Cardinality(Entries(i)) = 0 /\ Cardinality(Subdirs(i)) = 0 /\ i # ROOTINO
  <2>1. PICK a, b, c, d : /\ a = Cardinality(Entries(i)) /\ b = Cardinality(Subdirs(i))
                          /\ c = (IF i = ROOTINO THEN 1 ELSE 0)
                          /\ d = Cardinality({q \in Proc : Counted(q, i)})
    OBVIOUS
  <2>2. a \in Nat /\ b \in Nat /\ c \in Nat /\ d \in Nat
    BY <1>1, <1>2, <2>1
  <2>3. a + b + c + d = 0
    BY <1>3, <2>1
  <2>4. a = 0 /\ b = 0 /\ c = 0
    BY <2>2, <2>3, SumZero
  <2>5. i # ROOTINO
    BY <2>1, <2>4
  <2> QED BY <2>1, <2>4, <2>5, Zenon
<1>5. Entries(i) = {} /\ Subdirs(i) = {}
  BY <1>1, <1>4, FS_EmptySet
<1>6. IsDir(i) => Removed(i)
  BY <1>4, <1>5 DEF Removed
<1>7. IsDir(i) => IsDirEmpty(i)
  BY <1>6 DEF IInv, RemovedLeft
<1> QED BY <1>4, <1>5, <1>6, <1>7

\* Process p, whose record is r, puts a reference to i and becomes n.
Puts(p, r, i, n) ==
  /\ r = proc[p] /\ r.pc = "put" /\ i = Head(r.puts) /\ n = Next1(r)
  /\ proc' = [proc EXCEPT ![p] = n] /\ ref' = [ref EXCEPT ![i] = @ - 1]
  /\ lock' = lock /\ fd' = fd /\ cwd' = cwd /\ leaked' = leaked

LEMMA PutRefs ==
  ASSUME IInv, NEW p \in Proc, NEW r, NEW i, NEW n, Puts(p, r, i, n)
  PROVE  /\ Acts(p) /\ proc'[p] = n /\ RefMoves(p) /\ LockMoves(p) /\ Stays(p) /\ MakesOn(p)
         /\ OwesOf(proc'[p]) = OwesOf(proc[p]) /\ Knows(n) /\ GoodRec(n)
         /\ DpOf(n) = DpOf(r) /\ IpOf(n) = IpOf(r)
         /\ i \in Inum /\ i = P1(r) /\ ref[i] \in Nat /\ ref[i] >= 1
         /\ inode[i].type # "free" /\ ref'[i] = ref[i] - 1
         /\ \A j \in Inum : j # i => ref'[j] = ref[j]
<1>0. /\ r = proc[p] /\ r.pc = "put" /\ i = Head(r.puts) /\ n = Next1(r)
      /\ proc' = [proc EXCEPT ![p] = n] /\ ref' = [ref EXCEPT ![i] = @ - 1]
      /\ lock' = lock /\ fd' = fd /\ cwd' = cwd /\ leaked' = leaked
  BY DEF Puts
<1>1. r \in Rec /\ WalkOK(r) /\ CallOK(r) /\ Knows(r)
      /\ (r.call \in {"open", "create"} => fd[p] = 0)
  BY <1>0, RecOf DEF IInv, AllKnow
<1>2. /\ GoodRec(n) /\ Stage(n) = Stage(r) /\ DpOf(n) = DpOf(r) /\ IpOf(n) = IpOf(r)
      /\ LockOf(n) = LockOf(r) /\ OwesOf(n) = OwesOf(r)
      /\ n.call \in {r.call, "none"} /\ (Stage(r) # "idle" => n.call = r.call)
      /\ Head(r.puts) = P1(r) /\ P1(r) \in Inum /\ P1(n) = P2(r) /\ P2(n) = 0
      /\ (n.pc \in Parents => n.dp = 0)
      /\ (Stage(r) # "idle" => n.ip = r.ip /\ n.dp = r.dp /\ n.name = r.name)
  BY <1>0, <1>1, ResumeGood
<1>3. Acts(p) /\ proc'[p] = n
  BY <1>0, <1>1, <1>2, ActsOne DEF IInv
<1>4. i \in Inum /\ i = P1(r)
  BY <1>0, <1>2
<1>5. ref[i] \in Nat /\ ref[i] >= 1 /\ inode[i].type # "free"
  BY <1>0, <1>4, HeldKept DEF IInv
<1>6. ref'[i] = ref[i] - 1 /\ \A j \in Inum : j # i => ref'[j] = ref[j]
  BY <1>0, <1>4 DEF IInv, TypeOK
<1>7. RefMoves(p)
  <2>1. ref' \in [Inum -> Int] /\ leaked' \in [Inum -> Nat]
    <3>1. ref \in [Inum -> Nat] /\ leaked \in [Inum -> Nat]
      BY DEF IInv, TypeOK
    <3>2. ref[i] - 1 \in Int
      BY <1>0, <1>5
    <3>3. PICK k \in Int : k = ref[i] - 1
      BY <3>2
    <3>4. ref' = [ref EXCEPT ![i] = k]
      BY <1>0, <3>3
    <3>5. ref \in [Inum -> Int]
      BY <3>1
    <3>6. ref' \in [Inum -> Int]
      BY <3>4, <3>5
    <3> QED BY <1>0, <3>1, <3>6
  <2>2. ASSUME NEW j \in Inum
        PROVE  ref'[j] + Before(p, j) + leaked[j] = ref[j] + After(p, j) + leaked'[j]
    <3>1. Before(p, j) = Ones(fd[p], cwd[p], DpOf(r), IpOf(r), i, P2(r), j)
      BY <1>0, <1>4, MineBefore
    <3>2. After(p, j) = Ones(fd[p], cwd[p], DpOf(r), IpOf(r), P2(r), 0, j)
      BY <1>0, <1>2, <1>3, MineAfter
    <3>3. Before(p, j) = After(p, j) + One(i, j)
      <4>1. One(0, j) = 0 /\ One(fd[p], j) \in Nat /\ One(cwd[p], j) \in Nat
            /\ One(DpOf(r), j) \in Nat /\ One(IpOf(r), j) \in Nat /\ One(i, j) \in Nat
            /\ One(P2(r), j) \in Nat
        BY OneNat, OneZero
      <4> QED BY <3>1, <3>2, <4>1 DEF Ones
    <3>4. ref'[j] + One(i, j) = ref[j]
      <4>1. CASE j = i
        <5>1. ref'[j] = ref[i] - 1 /\ One(i, j) = 1
          BY <1>0, <1>6, <4>1 DEF One
        <5> QED BY <1>0, <1>5, <4>1, <5>1
      <4>2. CASE j # i
        <5>1. ref'[j] = ref[j] /\ One(i, j) = 0 /\ ref[j] \in Nat
          BY <1>0, <1>6, <4>2 DEF One, IInv, TypeOK
        <5> QED BY <5>1
      <4> QED BY <4>1, <4>2
    <3>5. ref[j] \in Nat /\ ref'[j] \in Int /\ leaked[j] \in Nat /\ After(p, j) \in Nat
          /\ One(i, j) \in Nat /\ leaked'[j] = leaked[j]
      <4>1. ref[j] \in Nat /\ leaked[j] \in Nat
        BY DEF IInv, TypeOK
      <4>2. ref'[j] \in Int
        BY <2>1
      <4>3. After(p, j) \in Nat /\ One(i, j) \in Nat
        BY BeforeNat, OneNat
      <4> QED BY <1>0, <4>1, <4>2, <4>3
    <3> QED BY <3>3, <3>4, <3>5
  <2> QED BY <2>1, <2>2 DEF RefMoves, Before, After
<1>8. LockMoves(p)
  BY <1>0, <1>2, <1>3, LockSame DEF IInv
<1>9. Stays(p) /\ OwesOf(proc'[p]) = OwesOf(proc[p])
  BY <1>0, <1>2, <1>3 DEF Stays
<1>10. MakesOn(p)
  BY <1>0, <1>2, <1>3 DEF MakesOn
<1>11. Knows(n)
  <2>1. Stage(r) \in Lookups \cup AfterPut
    BY <1>0, <1>1 DEF WalkOK, Stage
  <2>2. Stage(r) \notin {"exists", "unlink_ip"}
    BY <2>1 DEF Lookups, Parents, AfterPut
  <2>3. Stage(r) \in DirLocked => IsDir(n.dp)
    BY <1>0, <1>1, <1>2 DEF Knows, DirLocked
  <2>4. Stage(r) \in {"dirlink", "link_exists", "link_bad"} => ~IsDir(n.ip)
    BY <1>0, <1>1, <1>2 DEF Knows
  <2> QED BY <1>0, <1>2, <2>2, <2>3, <2>4 DEF Knows
<1> QED BY <1>0, <1>2, <1>3, <1>4, <1>5, <1>6, <1>7, <1>8, <1>9, <1>10, <1>11

\* The inode stays.
LEMMA iputKeeps ==
  ASSUME IInv, NEW p \in Proc, NEW r, NEW i, NEW n, Puts(p, r, i, n),
         ~LastPut(i), inode' = inode, panicked' = FALSE
  PROVE  IInv'
<1>1. /\ Acts(p) /\ proc'[p] = n /\ RefMoves(p) /\ LockMoves(p) /\ Stays(p) /\ MakesOn(p)
      /\ OwesOf(proc'[p]) = OwesOf(proc[p]) /\ Knows(n) /\ GoodRec(n)
      /\ i \in Inum /\ ref[i] \in Nat /\ ref[i] >= 1
      /\ inode[i].type # "free" /\ ref'[i] = ref[i] - 1
      /\ \A j \in Inum : j # i => ref'[j] = ref[j]
  BY PutRefs
<1>2. SameTree
  BY DEF SameTree, IsDir
<1>3. Knows(proc[p])'
  <2>1. Knows(n)'
    BY <1>1, <1>2, KnowKept DEF GoodRec, SameTree
  <2> QED BY <1>1, <2>1
<1>4. TreeOK' /\ RemovedLeft' /\ AllKnow'
  BY <1>1, <1>2, <1>3, SameTreeOK, SameRemoved, SameKnow DEF IInv
<1>5. LinksReady'
  <2>1. \A j \in Inum : Bare(j)' => Bare(j)
    BY DEF Bare
  <2> QED BY <1>1, <2>1, ReadySame DEF MakesOn, IInv
<1>6. LinkMoves(p)
  <2>1. \A j \in Inum : NamesOf(j)' = NamesOf(j)
    BY <1>2, SameNames DEF NamesOf
  <2>2. \A j \in Inum : inode[j].nlink \in Int
    BY DEF IInv, TypeOK
  <2> QED BY <1>1, <2>1, <2>2 DEF LinkMoves
<1>7. FreeUnused'
  <2> SUFFICES ASSUME NEW j \in Inum, inode[j].type = "free"
               PROVE  inode[j] = Free /\ ref'[j] = 0
    BY DEF FreeUnused
  <2> QED BY <1>1 DEF IInv, FreeUnused
<1>8. Reclaimed'
  <2> SUFFICES ASSUME NEW j \in Inum, inode[j].type # "free", inode[j].nlink = 0
               PROVE  ref'[j] > 0
    BY DEF Reclaimed
  <2>1. CASE j = i
    BY <1>1, <2>1 DEF LastPut
  <2>2. CASE j # i
    BY <1>1, <2>2 DEF IInv, Reclaimed
  <2> QED BY <2>1, <2>2
<1>9. inode' \in [Inum -> InodeI] /\ panicked' = FALSE
  BY InodesI DEF IInv, TypeOK
<1> QED BY <1>1, <1>4, <1>5, <1>6, <1>7, <1>8, <1>9, StepTree

\* The inode is freed.
LEMMA iputFrees ==
  ASSUME IInv, NEW p \in Proc, NEW r, NEW i, NEW n, Puts(p, r, i, n),
         LastPut(i), inode' = [inode EXCEPT ![i] = Free], panicked' = FALSE
  PROVE  IInv'
<1>1. /\ Acts(p) /\ proc'[p] = n /\ RefMoves(p) /\ LockMoves(p) /\ Stays(p) /\ MakesOn(p)
      /\ OwesOf(proc'[p]) = OwesOf(proc[p]) /\ Knows(n) /\ GoodRec(n)
      /\ DpOf(n) = DpOf(r) /\ IpOf(n) = IpOf(r)
      /\ i \in Inum /\ ref[i] \in Nat /\ ref[i] >= 1
      /\ inode[i].type # "free" /\ ref'[i] = ref[i] - 1
      /\ \A j \in Inum : j # i => ref'[j] = ref[j]
  BY PutRefs
<1>2. r = proc[p] /\ cwd' = cwd /\ lock' = lock /\ fd' = fd
  BY DEF Puts
<1>3. inode[i].nlink = 0 /\ ref'[i] = 0
  BY <1>1 DEF LastPut
<1>4. /\ Entries(i) = {} /\ Subdirs(i) = {} /\ i # ROOTINO
      /\ IsDir(i) => Removed(i) /\ IsDirEmpty(i)
  BY <1>1, <1>3, Nameless
<1>5. /\ inode'[i] = Free /\ \A j \in Inum : j # i => inode'[j] = inode[j]
      /\ inode' \in [Inum -> InodeI] /\ ~IsDir(i)' /\ inode'[i].type = "free"
      /\ inode'[i].nlink = 0
  BY <1>1, InodesI DEF IInv, IsDir
<1>6. \A j \in Inum : j # i => (IsDir(j)' <=> IsDir(j)) /\ inode'[j].ents = inode[j].ents
  BY <1>5 DEF IsDir
<1>7. \A j \in Inum : Entries(j)' = Entries(j)
  <2> SUFFICES ASSUME NEW j \in Inum, NEW d \in Inum, NEW e \in Name
               PROVE  (IsDir(d)' /\ inode'[d].ents[e] = j) <=> (IsDir(d) /\ inode[d].ents[e] = j)
    BY DEF Entries
  <2>1. CASE d = i
    BY <1>4, <1>5, <2>1, Numbers DEF IsDirEmpty
  <2>2. CASE d # i
    BY <1>6, <2>2
  <2> QED BY <2>1, <2>2
<1>8. \A j : Subdirs(j)' = Subdirs(j)
  <2> SUFFICES ASSUME NEW j, NEW d \in Inum
               PROVE  (IsDir(d)' /\ Entries(d)' # {} /\ inode'[d].ents[".."] = j)
                        <=> (IsDir(d) /\ Entries(d) # {} /\ inode[d].ents[".."] = j)
    BY DEF Subdirs
  <2>1. CASE d = i
    BY <1>4, <1>5, <2>1
  <2>2. CASE d # i
    BY <1>6, <1>7, <2>2
  <2> QED BY <2>1, <2>2
<1>9. RefsExact'
  BY <1>1, RefsStep DEF IInv, TypeOK
<1>10. ASSUME NEW q \in Proc
       PROVE  i \notin {fd'[q], cwd'[q], DpOf(proc'[q]), IpOf(proc'[q])}
  <2>1. ref'[i] = leaked'[i] + RefsTo(fd', cwd', proc', i)
    BY <1>1, <1>9 DEF RefsExact
  <2>2. RefsTo(fd', cwd', proc', i) \in Nat /\ leaked'[i] \in Nat
    BY <1>1, RefsToNat DEF RefMoves
  <2>3. RefsTo(fd', cwd', proc', i) = 0
    BY <1>3, <2>1, <2>2
  <2> QED BY <2>3, NobodyRefers
<1>11. TreeOK'
  <2>1. IsDir(ROOTINO)' /\ inode'[ROOTINO].ents[".."] = ROOTINO /\ Entries(ROOTINO)' = {}
    BY <1>4, <1>6, <1>7, Numbers DEF IInv, TreeOK
  <2>2. ASSUME NEW d \in Inum, IsDir(d)'
        PROVE  /\ inode'[d].ents["."] = d
               /\ \A e \in Entries(d)' : e[1] = inode'[d].ents[".."]
               /\ \A e, f \in Entries(d)' : e = f
    <3>1. d # i /\ IsDir(d) /\ inode'[d].ents = inode[d].ents /\ Entries(d)' = Entries(d)
      BY <1>5, <1>6, <1>7, <2>2
    <3> QED BY <3>1 DEF IInv, TreeOK
  <2> QED BY <2>1, <2>2 DEF TreeOK
<1>12. RemovedLeft'
  <2> SUFFICES ASSUME NEW d \in Inum, Removed(d)'
               PROVE  IsDirEmpty(d)' /\ \A q \in Proc : cwd'[q] # d /\ DpOf(proc'[q]) # d
    BY DEF RemovedLeft
  <2>1. d # i /\ Removed(d) /\ inode'[d] = inode[d]
    BY <1>5, <1>6, <1>7 DEF Removed
  <2>2. IsDirEmpty(d) /\ \A q \in Proc : cwd[q] # d /\ DpOf(proc[q]) # d
    BY <2>1 DEF IInv, RemovedLeft
  <2>3. IsDirEmpty(d)'
    BY <2>1, <2>2 DEF IsDirEmpty
  <2>4. \A q \in Proc : DpOf(proc'[q]) # d
    BY <1>1, <1>2, <2>2 DEF Acts
  <2> QED BY <1>2, <2>2, <2>3, <2>4
<1>13. AllKnow'
  <2> SUFFICES ASSUME NEW q \in Proc
               PROVE  Knows(proc[q])'
    BY DEF AllKnow
  <2>1. PICK x : x = proc'[q]
    OBVIOUS
  <2>2. x \in Rec /\ WalkOK(x) /\ Knows(x)
    <3>1. CASE q = p
      BY <1>1, <2>1, <3>1 DEF GoodRec
    <3>2. CASE q # p
      BY <1>1, <2>1, <3>2 DEF Acts, IInv, CallsOK, AllKnow
    <3> QED BY <3>1, <3>2
  <2>3. i # DpOf(x) /\ i # IpOf(x)
    BY <1>10, <2>1
  <2>4. Knows(x)'
    BY <1>6, <2>2, <2>3, KnowKept
  <2> QED BY <2>1, <2>4
<1>14. LinksReady'
  <2>1. \A j \in Inum : Bare(j)' => Bare(j)
    BY <1>5 DEF Bare
  <2> QED BY <1>1, <2>1, ReadySame DEF MakesOn, IInv
<1>15. LinkMoves(p)
  <2>1. \A j \in Inum : NamesOf(j)' = NamesOf(j)
    BY <1>7, <1>8 DEF NamesOf
  <2>2. \A j \in Inum : inode[j].nlink \in Int /\ inode'[j].nlink = inode[j].nlink
    BY <1>3, <1>5 DEF IInv, TypeOK
  <2> QED BY <1>1, <2>1, <2>2 DEF LinkMoves
<1>16. FreeUnused' /\ Reclaimed'
  BY <1>1, <1>3, <1>5 DEF IInv, FreeUnused, Reclaimed
<1> QED BY <1>1, <1>5, <1>11, <1>12, <1>13, <1>14, <1>15, <1>16, StepTree

LEMMA iputStep ==
  ASSUME IInv, NEW p \in Proc, iput(p)
  PROVE  IInv'
<1>1. PICK r : r = proc[p]
  OBVIOUS
<1>2. PICK i : i = Head(r.puts)
  OBVIOUS
<1>3. PICK n : n = Next1(r)
  OBVIOUS
<1>4. /\ Puts(p, r, i, n) /\ inode' = [inode EXCEPT ![i] = IF LastPut(i) THEN Free ELSE @]
      /\ panicked' = FALSE
  BY <1>1, <1>2, <1>3 DEF iput, Puts, Next1, IInv, TypeOK
<1>5. CASE LastPut(i)
  BY <1>4, <1>5, iputFrees
<1>6. CASE ~LastPut(i)
  <2>1. inode' = inode
    BY <1>4, <1>6 DEF IInv, TypeOK
  <2> QED BY <1>4, <1>6, <2>1, iputKeeps
<1> QED BY <1>5, <1>6

-----------------------------------------------------------------------------
(* Steps that make or remove an entry                                      *)

\* The entry of directory dp for a name turns from 0 to t, or from t to 0.
Turns(dp, name, t) ==
  /\ dp \in Inum /\ name \in Name /\ t \in Inum /\ t # dp /\ t # ROOTINO
  /\ IsDir(dp) /\ IsDir(dp)'
  /\ \A x \in Elems : x # name => inode'[dp].ents[x] = inode[dp].ents[x]
  /\ inode[dp].ents[name] \in {0, t} /\ inode'[dp].ents[name] \in {0, t}
  /\ \A d \in Inum : d \notin {dp, t} => inode'[d] = inode[d]
  /\ \A x \in Name, j \in Inum :
       (IsDir(t)' /\ inode'[t].ents[x] = j) <=> (IsDir(t) /\ inode[t].ents[x] = j)

\* Which entries are as before
LEMMA TurnsKeep ==
  ASSUME NEW dp, NEW name, NEW t, Turns(dp, name, t), NEW j \in Inum, NEW d \in Inum,
         NEW x \in Name, j # t \/ <<d, x>> # <<dp, name>>
  PROVE  (IsDir(d)' /\ inode'[d].ents[x] = j) <=> (IsDir(d) /\ inode[d].ents[x] = j)
<1>1. CASE d = t
  BY <1>1 DEF Turns
<1>2. CASE d \notin {dp, t}
  BY <1>2 DEF Turns, IsDir
<1>3. CASE d = dp /\ x # name
  <2>1. x \in Elems
    BY DEF Elems
  <2> QED BY <1>3, <2>1 DEF Turns
<1>4. CASE d = dp /\ x = name /\ j # t
  BY <1>4, Numbers DEF Turns
<1> QED BY <1>1, <1>2, <1>3, <1>4

\* The other inodes have the names that they had.
LEMMA TurnsNames ==
  ASSUME NEW dp, NEW name, NEW t, Turns(dp, name, t), NEW j \in Inum, j # t
  PROVE  /\ Entries(j)' = Entries(j) /\ (IsDir(j)' <=> IsDir(j))
         /\ inode'[j].ents["."] = inode[j].ents["."]
         /\ inode'[j].ents[".."] = inode[j].ents[".."]
<1>1. "." \in Elems /\ ".." \in Elems /\ name \notin {".", ".."}
  BY NamesAssumption DEF Turns, Elems, Dots
<1>2. Entries(j)' = Entries(j)
  <2>1. \A d \in Inum, x \in Name :
          (IsDir(d)' /\ inode'[d].ents[x] = j) <=> (IsDir(d) /\ inode[d].ents[x] = j)
    BY TurnsKeep
  <2> QED BY <2>1 DEF Entries
<1>3. CASE j = dp
  BY <1>1, <1>2, <1>3 DEF Turns
<1>4. CASE j # dp
  BY <1>2, <1>4 DEF Turns, IsDir
<1> QED BY <1>3, <1>4

LEMMA TurnsEntry ==
  ASSUME NEW dp, NEW name, NEW t, Turns(dp, name, t)
  PROVE  /\ Entries(t)' \ {<<dp, name>>} = Entries(t) \ {<<dp, name>>}
         /\ <<dp, name>> \in Entries(t) <=> inode[dp].ents[name] = t
         /\ <<dp, name>> \in Entries(t)' <=> inode'[dp].ents[name] = t
<1>1. Entries(t)' \ {<<dp, name>>} = Entries(t) \ {<<dp, name>>}
  <2>1. t \in Inum
    BY DEF Turns
  <2>2. \A d \in Inum, x \in Name : <<d, x>> # <<dp, name>> =>
          ((IsDir(d)' /\ inode'[d].ents[x] = t) <=> (IsDir(d) /\ inode[d].ents[x] = t))
    BY <2>1, TurnsKeep
  <2> QED BY <2>2 DEF Entries
<1>2. /\ <<dp, name>> \in Entries(t) <=> inode[dp].ents[name] = t
      /\ <<dp, name>> \in Entries(t)' <=> inode'[dp].ents[name] = t
  BY DEF Entries, Turns
<1> QED BY <1>1, <1>2

LEMMA TurnsSubdirs ==
  ASSUME NEW dp, NEW name, NEW t, Turns(dp, name, t), NEW j
  PROVE  Subdirs(j)' \ {t} = Subdirs(j) \ {t}
<1>1. ASSUME NEW d \in Inum, d # t
      PROVE  /\ Entries(d)' = Entries(d) /\ (IsDir(d)' <=> IsDir(d))
             /\ inode'[d].ents[".."] = inode[d].ents[".."]
  BY <1>1, TurnsNames
<1> QED BY <1>1 DEF Subdirs

LEMMA SameBut ==
  ASSUME NEW A, NEW B, NEW t, A \ {t} = B \ {t}, t \in A <=> t \in B
  PROVE  A = B
OBVIOUS

LEMMA TurnsTree ==
  ASSUME IInv, NEW dp, NEW name, NEW t, Turns(dp, name, t),
         IsDir(t)' => /\ inode'[t].ents["."] = t
                      /\ \A e \in Entries(t)' : e[1] = inode'[t].ents[".."]
                      /\ \A e, f \in Entries(t)' : e = f
  PROVE  TreeOK'
<1>1. \A j \in Inum : j # t => Entries(j)' = Entries(j) /\ (IsDir(j)' <=> IsDir(j))
        /\ inode'[j].ents["."] = inode[j].ents["."]
        /\ inode'[j].ents[".."] = inode[j].ents[".."]
  BY TurnsNames
<1>2. IsDir(ROOTINO)' /\ inode'[ROOTINO].ents[".."] = ROOTINO /\ Entries(ROOTINO)' = {}
  BY <1>1, Numbers DEF IInv, TreeOK, Turns
<1>3. ASSUME NEW d \in Inum, IsDir(d)'
      PROVE  /\ inode'[d].ents["."] = d
             /\ \A e \in Entries(d)' : e[1] = inode'[d].ents[".."]
             /\ \A e, f \in Entries(d)' : e = f
  <2>1. CASE d = t
    BY <1>3, <2>1
  <2>2. CASE d # t
    BY <1>1, <1>3, <2>2 DEF IInv, TreeOK
  <2> QED BY <2>1, <2>2
<1> QED BY <1>2, <1>3 DEF TreeOK

LEMMA TurnsRemoved ==
  ASSUME IInv, NEW dp, NEW name, NEW t, Turns(dp, name, t), ~Removed(dp),
         NEW p \in Proc, Acts(p), cwd' = cwd, DpOf(proc'[p]) = 0,
         Removed(t)' => IsDirEmpty(t)' /\ \A q \in Proc : cwd[q] # t /\ DpOf(proc[q]) # t
  PROVE  RemovedLeft'
<1> SUFFICES ASSUME NEW d \in Inum, Removed(d)'
             PROVE  IsDirEmpty(d)' /\ \A q \in Proc : cwd'[q] # d /\ DpOf(proc'[q]) # d
  BY DEF RemovedLeft
<1>1. \A j \in Inum : j # t => Entries(j)' = Entries(j) /\ (IsDir(j)' <=> IsDir(j))
  BY TurnsNames
<1>2. IsDirEmpty(d)' /\ \A q \in Proc : cwd[q] # d /\ DpOf(proc[q]) # d
  <2>1. CASE d = t
    BY <2>1
  <2>2. CASE d # t
    <3>1. Removed(d) /\ d # dp
      BY <1>1, <2>2 DEF Removed
    <3>2. IsDirEmpty(d) /\ \A q \in Proc : cwd[q] # d /\ DpOf(proc[q]) # d
      BY <3>1 DEF IInv, RemovedLeft
    <3>3. inode'[d] = inode[d]
      BY <2>2, <3>1 DEF Turns
    <3> QED BY <3>2, <3>3 DEF IsDirEmpty
  <2> QED BY <2>1, <2>2
<1>3. \A q \in Proc : DpOf(proc'[q]) # d
  BY <1>2, Numbers DEF Acts
<1> QED BY <1>2, <1>3

LEMMA TurnsKnow ==
  ASSUME IInv, NEW dp, NEW name, NEW t, Turns(dp, name, t), NEW p \in Proc, Acts(p),
         Knows(proc[p])', lock[dp] \in {None, p},
         \/ (IsDir(t)' <=> IsDir(t)) /\ inode'[t].ents = inode[t].ents
         \/ inode[t].type = "free"
  PROVE  AllKnow'
<1> SUFFICES ASSUME NEW q \in Proc
             PROVE  Knows(proc[q])'
  BY DEF AllKnow
<1>1. CASE q = p
  BY <1>1
<1>2. CASE q # p
  <2>1. PICK x : x = proc[q]
    OBVIOUS
  <2>2. x \in Rec /\ WalkOK(x) /\ Knows(x) /\ proc'[q] = x
    BY <1>2, <2>1 DEF Acts, IInv, CallsOK, AllKnow
  <2>3. LockOf(x) # dp
    BY <1>2, <2>1, Numbers DEF IInv, LocksExact, Turns
  <2>4. t \in {DpOf(x), IpOf(x)} => inode[t].type # "free"
    BY <2>1, HeldKept DEF IInv, Turns
  <2>5. ASSUME NEW i \in Inum, i \in {DpOf(x), IpOf(x)}
        PROVE  (IsDir(i)' <=> IsDir(i)) /\ (LockOf(x) = i => inode'[i].ents = inode[i].ents)
    <3>1. CASE i = t
      BY <2>4, <2>5, <3>1
    <3>2. CASE i = dp
      BY <2>3, <3>2 DEF Turns
    <3>3. CASE i \notin {dp, t}
      BY <3>3 DEF Turns, IsDir
    <3> QED BY <3>1, <3>2, <3>3
  <2>6. Knows(x)'
    BY <2>2, <2>5, KnowKept
  <2> QED BY <2>2, <2>6
<1> QED BY <1>1, <1>2

\* A name that is free in a directory is not "." or "..".
LEMMA FreeName ==
  ASSUME IInv, NEW dp \in Inum, IsDir(dp), ~Removed(dp), NEW e \in Elems,
         inode[dp].ents[e] = 0
  PROVE  e \in Name
<1>1. CASE e = "."
  BY <1>1, Numbers DEF IInv, TreeOK
<1>2. CASE e = ".." /\ dp = ROOTINO
  BY <1>2, Numbers DEF IInv, TreeOK
<1>3. CASE e = ".." /\ dp # ROOTINO
  <2>1. PICK f \in Entries(dp) : TRUE
    BY <1>3 DEF Removed
  <2>2. f[1] = 0 /\ f \in Inum \X Name
    BY <1>3, <2>1 DEF IInv, TreeOK, Entries
  <2> QED BY <2>2, Numbers
<1> QED BY <1>1, <1>2, <1>3 DEF Elems, Dots

\* One more name, or one less
LEMMA OneName ==
  ASSUME NEW A, NEW B, NEW e, IsFiniteSet(A), A = B \cup {e}, e \notin B
  PROVE  Cardinality(A) = Cardinality(B) + 1 /\ Cardinality(B) \in Nat
<1>1. IsFiniteSet(B)
  BY FS_Subset
<1> QED BY <1>1, FS_AddElement, FS_CardinalityType

LEMMA NamesFiniteNext ==
  ASSUME NEW i
  PROVE  /\ IsFiniteSet(Entries(i)') /\ IsFiniteSet(Subdirs(i)')
         /\ Cardinality(Entries(i)') \in Nat /\ Cardinality(Subdirs(i)') \in Nat
<1>1. IsFiniteSet(Inum \X Name)
  BY Numbers, NamesAssumption, FS_Product
<1>2. Entries(i)' \in SUBSET (Inum \X Name) /\ Subdirs(i)' \in SUBSET Inum
  BY DEF Entries, Subdirs
<1>3. IsFiniteSet(Entries(i)') /\ IsFiniteSet(Subdirs(i)')
  BY <1>1, <1>2, Numbers, FS_Subset
<1> QED BY <1>3, FS_CardinalityType

\* The inode that has one name more or less
LEMMA TurnsCount ==
  ASSUME NEW dp, NEW name, NEW t, Turns(dp, name, t), Subdirs(t)' = Subdirs(t)
  PROVE  /\ inode[dp].ents[name] = 0 /\ inode'[dp].ents[name] = t =>
              NamesOf(t)' = NamesOf(t) + 1
         /\ inode[dp].ents[name] = t /\ inode'[dp].ents[name] = 0 =>
              NamesOf(t) = NamesOf(t)' + 1
<1>1. /\ Entries(t)' \ {<<dp, name>>} = Entries(t) \ {<<dp, name>>}
      /\ <<dp, name>> \in Entries(t) <=> inode[dp].ents[name] = t
      /\ <<dp, name>> \in Entries(t)' <=> inode'[dp].ents[name] = t
  BY TurnsEntry
<1>2. t # 0 /\ t # ROOTINO
  BY Numbers DEF Turns
<1>3. /\ IsFiniteSet(Entries(t)) /\ IsFiniteSet(Entries(t)')
      /\ Cardinality(Subdirs(t)) \in Nat
  BY NamesFinite, NamesFiniteNext
<1>4. PICK A, B, e : A = Entries(t) /\ B = Entries(t)' /\ e = <<dp, name>>
  OBVIOUS
<1>5. inode[dp].ents[name] = 0 /\ inode'[dp].ents[name] = t => NamesOf(t)' = NamesOf(t) + 1
  <2> SUFFICES ASSUME inode[dp].ents[name] = 0, inode'[dp].ents[name] = t
               PROVE  NamesOf(t)' = NamesOf(t) + 1
    OBVIOUS
  <2>1. B = A \cup {e} /\ e \notin A
    BY <1>1, <1>2, <1>4
  <2>2. Cardinality(B) = Cardinality(A) + 1 /\ Cardinality(A) \in Nat
    BY <1>3, <1>4, <2>1, OneName
  <2> QED BY <1>2, <1>3, <1>4, <2>2 DEF NamesOf
<1>6. inode[dp].ents[name] = t /\ inode'[dp].ents[name] = 0 => NamesOf(t) = NamesOf(t)' + 1
  <2> SUFFICES ASSUME inode[dp].ents[name] = t, inode'[dp].ents[name] = 0
               PROVE  NamesOf(t) = NamesOf(t)' + 1
    OBVIOUS
  <2>1. A = B \cup {e} /\ e \notin B
    BY <1>1, <1>2, <1>4
  <2>2. Cardinality(A) = Cardinality(B) + 1 /\ Cardinality(B) \in Nat
    BY <1>3, <1>4, <2>1, OneName
  <2> QED BY <1>2, <1>3, <1>4, <2>2 DEF NamesOf
<1> QED BY <1>5, <1>6

\* A function that changes in one place
LEMMA ChangeOne ==
  ASSUME NEW S, NEW T, NEW f \in [S -> T], NEW x \in S, NEW v \in T, NEW g,
         g = [f EXCEPT ![x] = v]
  PROVE  g[x] = v /\ (\A y \in S : y # x => g[y] = f[y]) /\ g \in [S -> T]
OBVIOUS

\* A free inode that stays as it is
LEMMA FreeSame ==
  ASSUME FreeUnused, NEW j \in Inum, inode'[j].type = "free",
         inode'[j] = inode[j], ref'[j] = ref[j]
  PROVE  inode'[j] = Free /\ ref'[j] = 0
BY DEF FreeUnused

\* A new name
LEMMA dirlinkMakes ==
  ASSUME IInv, NEW p \in Proc, NEW r, r = proc[p], r.pc = "dirlink", r.dp # 0,
         Unlocked(r.dp), inode[r.dp].ents[r.name] = 0,
         inode' = [inode EXCEPT ![r.dp].ents[r.name] = r.ip], panicked' = FALSE,
         UNCHANGED <<ref, lock, fd, cwd, leaked>>,
         proc' = [proc EXCEPT ![p] = Put(r, <<r.dp, r.ip>>, "idle")]
  PROVE  IInv'
<1>1. /\ r \in Rec /\ WalkOK(r) /\ CallOK(r) /\ Stage(r) = "dirlink" /\ P1(r) = 0 /\ P2(r) = 0
      /\ DpOf(r) = r.dp /\ LockOf(r) = 0 /\ IpOf(r) = r.ip /\ r.dp \in 0..NINODE
      /\ r.ip \in Inum /\ OwesOf(r) = r.ip /\ ~IsDir(r.ip)
      /\ r.call = "link" /\ r.new # <<>> /\ r.name \in Elems
  BY LinkKnows
<1>2. PICK dp \in Inum, t \in Inum, name \in Elems : dp = r.dp /\ t = r.ip /\ name = r.name
  BY <1>1, Numbers
<1>3. IsDir(dp) /\ ~Removed(dp) /\ lock[dp] = None
  <2>1. IsDir(dp)
    BY <1>2 DEF IInv, AllKnow, Knows, Parents
  <2>2. ~Removed(dp)
    BY <1>1, <1>2 DEF IInv, RemovedLeft
  <2> QED BY <1>2, <2>1, <2>2 DEF Unlocked
<1>4. name \in Name
  BY <1>2, <1>3, FreeName
<1>5. t # dp /\ t # ROOTINO
  BY <1>1, <1>2, <1>3 DEF IInv, TreeOK
<1>6. /\ inode'[dp].type = inode[dp].type /\ inode'[dp].nlink = inode[dp].nlink
      /\ inode'[dp].to = inode[dp].to /\ inode'[dp].ents[name] = t
      /\ \A x \in Elems : x # name => inode'[dp].ents[x] = inode[dp].ents[x]
      /\ \A d \in Inum : d # dp => inode'[d] = inode[d]
      /\ inode' \in [Inum -> InodeI]
  <2>1. inode[dp] \in InodeI /\ inode \in [Inum -> InodeI]
    BY InodesI DEF IInv
  <2>2. PICK v : v = [inode[dp] EXCEPT !.ents[name] = t]
    OBVIOUS
  <2>3. t \in 0..NINODE
    BY Numbers
  <2>4. /\ v \in InodeI /\ v.type = inode[dp].type /\ v.nlink = inode[dp].nlink
        /\ v.to = inode[dp].to /\ v.ents[name] = t
        /\ \A x \in Elems : x # name => v.ents[x] = inode[dp].ents[x]
    BY <2>1, <2>2, <2>3 DEF InodeI, Elems
  <2>5. inode' = [inode EXCEPT ![dp] = v]
    BY <1>2, <2>1, <2>2
  <2>6. inode'[dp] = v /\ (\A d \in Inum : d # dp => inode'[d] = inode[d])
        /\ inode' \in [Inum -> InodeI]
    <3>1. v \in InodeI
      BY <2>4
    <3>2. PICK f, g : f = inode /\ g = inode'
      OBVIOUS
    <3>3. g = [f EXCEPT ![dp] = v] /\ f \in [Inum -> InodeI]
      BY <2>1, <2>5, <3>2
    <3>4. g[dp] = v /\ (\A d \in Inum : d # dp => g[d] = f[d]) /\ g \in [Inum -> InodeI]
      BY <3>1, <3>3, ChangeOne
    <3> QED BY <3>2, <3>4
  <2> QED BY <2>4, <2>6
<1>7. Turns(dp, name, t)
  BY <1>2, <1>3, <1>4, <1>5, <1>6 DEF Turns, IsDir
<1>8. PICK list : list = <<dp, t>>
  OBVIOUS
<1>8a. list \in Seq(Inum) /\ list # <<>> /\ Len(list) <= 2
  BY <1>8
<1>9. PICK n : n = Put(r, list, "idle")
  OBVIOUS
<1>10. /\ GoodRec(n) /\ Stage(n) = "idle" /\ DpOf(n) = 0 /\ IpOf(n) = 0 /\ LockOf(n) = 0
       /\ OwesOf(n) = 0 /\ P1(n) = dp /\ P2(n) = t /\ n.call = "link"
  <2>1. "idle" \in AfterPut /\ "idle" \notin DirLocked /\ "idle" \notin HasIp
        /\ "idle" \notin IpLocked
    BY DEF AfterPut, DirLocked, HasIp, IpLocked
  <2>2. /\ n \in Rec /\ WalkOK(n) /\ Stage(n) = "idle" /\ n.pc = "put" /\ n.then = "idle"
        /\ DpOf(n) = 0 /\ IpOf(n) = 0 /\ LockOf(n) = 0 /\ n.call = r.call
        /\ n.new = r.new /\ n.puts = list
    <3>1. PICK then \in AfterPut : then = "idle"
      BY <2>1
    <3>2. (then \in DirLocked => r.dp # 0) /\ (then \in HasIp => r.ip # 0)
          /\ n = Put(r, list, then)
      BY <1>9, <2>1, <3>1
    <3>3. /\ n \in Rec /\ WalkOK(n) /\ Stage(n) = then /\ n.pc = "put" /\ n.then = then
          /\ DpOf(n) = (IF then \in DirLocked THEN r.dp ELSE 0)
          /\ IpOf(n) = (IF then \in HasIp THEN r.ip ELSE 0)
          /\ LockOf(n) = (IF then \in DirLocked THEN r.dp ELSE IF then \in IpLocked THEN r.ip ELSE 0)
          /\ n.call = r.call /\ n.name = r.name /\ n.dp = r.dp /\ n.ip = r.ip
          /\ n.new = r.new /\ n.old = r.old /\ n.puts = list /\ n.path = <<>>
      BY <1>1, <1>8a, <3>2, PutGood
    <3> QED BY <2>1, <3>1, <3>3
  <2>3. CallOK(n) /\ OwesOf(n) = 0
    BY <1>1, <2>2 DEF CallOK, OwesOf
  <2>4. P1(n) = dp /\ P2(n) = t
    BY <1>8, <2>2, ListPuts
  <2> QED BY <1>1, <2>2, <2>3, <2>4 DEF GoodRec
<1>11. Acts(p) /\ proc'[p] = n
  BY <1>2, <1>8, <1>9, <1>10, ActsOne DEF IInv
<1>12. RefMoves(p)
  <2>1. ASSUME NEW i \in Inum
        PROVE  After(p, i) = Before(p, i)
    <3>1. After(p, i) = Ones(fd[p], cwd[p], 0, 0, dp, t, i)
      BY <1>10, <1>11, MineAfter
    <3>2. Before(p, i) = Ones(fd[p], cwd[p], dp, t, 0, 0, i)
      BY <1>1, <1>2, MineBefore
    <3> QED BY <3>1, <3>2, OnesLeft
  <2> QED BY <2>1, RefSame DEF IInv
<1>13. LockMoves(p)
  BY <1>1, <1>10, <1>11, LockSame DEF IInv
<1>14. Knows(proc[p])'
  BY <1>10, <1>11, QuietKnows
<1>15. ~IsDir(t) /\ ~IsDir(t)' /\ inode'[t] = inode[t]
  BY <1>1, <1>2, <1>5, <1>6 DEF IsDir
<1>16. TreeOK'
  BY <1>7, <1>15, TurnsTree
<1>17. RemovedLeft'
  <2>1. ~Removed(t)'
    BY <1>15 DEF Removed
  <2> QED BY <1>3, <1>7, <1>10, <1>11, <2>1, TurnsRemoved
<1>18. AllKnow'
  BY <1>3, <1>7, <1>11, <1>14, <1>15, TurnsKnow
<1>19. LinksReady'
  <2>1. \A i \in Inum : Bare(i)' => Bare(i)
    BY <1>6 DEF Bare
  <2> QED BY <1>1, <1>11, <1>13, <2>1, ReadySame DEF IInv
<1>20. ASSUME NEW j
       PROVE  Subdirs(j)' = Subdirs(j)
  <2>1. Subdirs(j)' \ {t} = Subdirs(j) \ {t}
    BY <1>7, TurnsSubdirs
  <2>2. t \notin Subdirs(j) /\ t \notin Subdirs(j)'
    BY <1>15 DEF Subdirs
  <2> QED BY <2>1, <2>2, SameBut
<1>21. LinkMoves(p)
  <2> SUFFICES ASSUME NEW j \in Inum
               PROVE  inode'[j].nlink \in Int /\
                      inode'[j].nlink + One(t, j) + NamesOf(j) = inode[j].nlink + One(0, j) + NamesOf(j)'
    BY <1>1, <1>2, <1>10, <1>11 DEF LinkMoves
  <2>1. inode'[j].nlink = inode[j].nlink /\ inode[j].nlink \in Nat
    BY <1>6 DEF IInv, TypeOK
  <2>2. One(0, j) = 0 /\ NamesOf(j) \in Nat
    BY OneZero, NamesNat
  <2>3. CASE j = t
    <3>1. NamesOf(t)' = NamesOf(t) + 1
      <4>1. Subdirs(t)' = Subdirs(t)
        BY <1>20
      <4>2. inode[dp].ents[name] = 0 /\ inode'[dp].ents[name] = t
        BY <1>2, <1>6
      <4> QED BY <1>7, <4>1, <4>2, TurnsCount
    <3>2. One(t, j) = 1
      BY <2>3 DEF One
    <3> QED BY <2>1, <2>2, <2>3, <3>1, <3>2
  <2>4. CASE j # t
    <3>1. NamesOf(j)' = NamesOf(j)
      BY <1>7, <1>20, <2>4, TurnsNames DEF NamesOf
    <3>2. One(t, j) = 0
      BY <2>4 DEF One
    <3> QED BY <2>1, <2>2, <3>1, <3>2
  <2> QED BY <2>3, <2>4
<1>22. FreeUnused'
  <2> SUFFICES ASSUME NEW j \in Inum, inode'[j].type = "free"
               PROVE  inode'[j] = Free /\ ref'[j] = 0
    BY DEF FreeUnused
  <2>1. j # dp
    BY <1>3, <1>6 DEF IsDir
  <2>2. inode'[j] = inode[j]
    BY <1>6, <2>1
  <2>3. ref'[j] = ref[j]
    OBVIOUS
  <2>4. FreeUnused
    BY DEF IInv
  <2> QED BY <2>2, <2>3, <2>4, FreeSame
<1>23. Reclaimed'
  <2> SUFFICES ASSUME NEW j \in Inum, inode'[j].type # "free", inode'[j].nlink = 0
               PROVE  ref'[j] > 0
    BY DEF Reclaimed
  <2>1. inode[j].type # "free" /\ inode[j].nlink = 0
    BY <1>6
  <2>2. ref[j] > 0
    BY <2>1 DEF IInv, Reclaimed
  <2> QED BY <2>2
<1> QED BY <1>6, <1>11, <1>12, <1>13, <1>16, <1>17, <1>18, <1>19, <1>21, <1>22, <1>23, StepTree

LEMMA dirlinkStep ==
  ASSUME IInv, NEW p \in Proc, dirlink(p)
  PROVE  IInv'
<1>0. PICK r : r = proc[p]
  OBVIOUS
<1>1. r.pc = "dirlink" /\ panicked' = FALSE /\ fd' = fd /\ cwd' = cwd /\ leaked' = leaked
      /\ r = proc[p] /\ proc \in [Proc -> Rec]
  BY <1>0 DEF dirlink, At, IInv, TypeOK, CallsOK
<1>2. PICK i : i = inode[r.dp].ents[r.name]
  OBVIOUS
<1>3. \/ /\ r.dp = 0 /\ proc' = [proc EXCEPT ![p] = [r EXCEPT !.pc = "link_bad"]]
         /\ inode' = inode /\ ref' = ref /\ lock' = lock
      \/ /\ r.dp # 0 /\ Unlocked(r.dp) /\ i = 0
         /\ inode' = [inode EXCEPT ![r.dp].ents[r.name] = r.ip]
         /\ proc' = [proc EXCEPT ![p] = Put(r, <<r.dp, r.ip>>, "idle")]
         /\ ref' = ref /\ lock' = lock
      \/ /\ r.dp # 0 /\ Unlocked(r.dp) /\ i # 0
         /\ lock' = [lock EXCEPT ![r.dp] = p] /\ ref' = Get(i)
         /\ proc' = [proc EXCEPT ![p] = Put(r, <<i>>, "link_exists")]
         /\ inode' = inode
  BY <1>1, <1>2 DEF dirlink
<1>4. CASE /\ r.dp = 0 /\ proc' = [proc EXCEPT ![p] = [r EXCEPT !.pc = "link_bad"]]
           /\ inode' = inode /\ ref' = ref /\ lock' = lock
  BY <1>1, <1>4, dirlinkFails
<1>5. CASE /\ r.dp # 0 /\ Unlocked(r.dp) /\ i = 0
           /\ inode' = [inode EXCEPT ![r.dp].ents[r.name] = r.ip]
           /\ proc' = [proc EXCEPT ![p] = Put(r, <<r.dp, r.ip>>, "idle")]
           /\ ref' = ref /\ lock' = lock
  BY <1>1, <1>2, <1>5, dirlinkMakes
<1>6. CASE /\ r.dp # 0 /\ Unlocked(r.dp) /\ i # 0
           /\ lock' = [lock EXCEPT ![r.dp] = p] /\ ref' = Get(i)
           /\ proc' = [proc EXCEPT ![p] = Put(r, <<i>>, "link_exists")]
           /\ inode' = inode
  BY <1>1, <1>2, <1>6, dirlinkFinds
<1> QED BY <1>3, <1>4, <1>5, <1>6

\* The name goes, and with it, if it is of a directory, the link of its "..".
LEMMA unlinkRemoves ==
  ASSUME IInv, NEW p \in Proc, NEW r, r = proc[p], r.pc = "unlink_ip", Unlocked(r.ip),
         ~IsDir(r.ip) \/ (IsDirEmpty(r.ip) /\ ref[r.ip] = 1),
         inode' = [inode EXCEPT ![r.dp].ents[r.name] = 0,
                     ![r.dp].nlink = IF IsDir(r.ip) THEN @ - 1 ELSE @],
         lock' = [lock EXCEPT ![r.dp] = None, ![r.ip] = p], panicked' = FALSE,
         UNCHANGED <<ref, fd, cwd, leaked>>,
         proc' = [proc EXCEPT ![p] = Put(r, <<r.dp>>, "unlinked")]
  PROVE  IInv'
<1>1. /\ r \in Rec /\ WalkOK(r) /\ CallOK(r) /\ Stage(r) = "unlink_ip"
      /\ P1(r) = 0 /\ P2(r) = 0 /\ DpOf(r) = r.dp /\ LockOf(r) = r.dp /\ IpOf(r) = r.ip
      /\ r.dp \in Inum /\ r.ip \in Inum /\ OwesOf(r) = 0 /\ lock[r.dp] = p
      /\ IsDir(r.dp) /\ r.name \in Name /\ inode[r.dp].ents[r.name] = r.ip
      /\ <<r.dp, r.name>> \in Entries(r.ip) /\ r.call = "unlink"
  BY UnlinkKnows
<1>2. PICK dp \in Inum, t \in Inum, name \in Name : dp = r.dp /\ t = r.ip /\ name = r.name
  BY <1>1
<1>3. IsDir(dp) /\ ~Removed(dp) /\ lock[dp] = p /\ lock[t] = None
  <2>1. ~Removed(dp)
    BY <1>1, <1>2 DEF IInv, RemovedLeft
  <2> QED BY <1>1, <1>2, <2>1 DEF Unlocked
<1>4. t # dp /\ t # ROOTINO /\ name \in Elems
  BY <1>1, <1>2, <1>3, Numbers DEF IInv, TreeOK, Elems
<1>5. PICK k \in Int : k = IF IsDir(t) THEN inode[dp].nlink - 1 ELSE inode[dp].nlink
  <2>1. inode[dp].nlink \in Nat
    BY DEF IInv, TypeOK
  <2>2. inode[dp].nlink - 1 \in Int /\ inode[dp].nlink \in Int
    BY <2>1
  <2> QED BY <2>2
<1>6. /\ inode'[dp].type = inode[dp].type /\ inode'[dp].nlink = k
      /\ inode'[dp].to = inode[dp].to /\ inode'[dp].ents[name] = 0
      /\ \A x \in Elems : x # name => inode'[dp].ents[x] = inode[dp].ents[x]
      /\ \A d \in Inum : d # dp => inode'[d] = inode[d]
      /\ inode' \in [Inum -> InodeI]
  <2>1. inode[dp] \in InodeI /\ inode \in [Inum -> InodeI]
    BY InodesI DEF IInv
  <2>2. PICK v : v = [inode[dp] EXCEPT !.ents[name] = 0, !.nlink = k]
    OBVIOUS
  <2>3. 0 \in 0..NINODE
    BY Numbers
  <2>4. /\ v \in InodeI /\ v.type = inode[dp].type /\ v.nlink = k
        /\ v.to = inode[dp].to /\ v.ents[name] = 0
        /\ \A x \in Elems : x # name => v.ents[x] = inode[dp].ents[x]
    BY <1>4, <2>1, <2>2, <2>3 DEF InodeI, Elems
  <2>5. inode' = [inode EXCEPT ![dp] = v]
    BY <1>2, <1>5, <2>1, <2>2 DEF InodeI
  <2>6. inode'[dp] = v /\ (\A d \in Inum : d # dp => inode'[d] = inode[d])
        /\ inode' \in [Inum -> InodeI]
    <3>1. v \in InodeI
      BY <2>4
    <3>2. PICK f, g : f = inode /\ g = inode'
      OBVIOUS
    <3>3. g = [f EXCEPT ![dp] = v] /\ f \in [Inum -> InodeI]
      BY <2>1, <2>5, <3>2
    <3>4. g[dp] = v /\ (\A d \in Inum : d # dp => g[d] = f[d]) /\ g \in [Inum -> InodeI]
      BY <3>1, <3>3, ChangeOne
    <3> QED BY <3>2, <3>4
  <2> QED BY <2>4, <2>6
<1>7. inode'[t] = inode[t] /\ (IsDir(t)' <=> IsDir(t)) /\ (IsDirEmpty(t)' <=> IsDirEmpty(t))
  <2>1. inode'[t] = inode[t]
    BY <1>4, <1>6
  <2> QED BY <2>1 DEF IsDir, IsDirEmpty
<1>8. Turns(dp, name, t)
  BY <1>1, <1>2, <1>3, <1>4, <1>6, <1>7 DEF Turns, IsDir
<1>9. PICK n : n = Put(r, <<dp>>, "unlinked")
  OBVIOUS
<1>10. /\ GoodRec(n) /\ Stage(n) = "unlinked" /\ n.pc = "put" /\ DpOf(n) = 0 /\ IpOf(n) = t
       /\ LockOf(n) = t /\ OwesOf(n) = t /\ P1(n) = dp /\ P2(n) = 0 /\ n.call = "unlink"
  <2>1. "unlinked" \in AfterPut /\ "unlinked" \notin DirLocked /\ "unlinked" \in HasIp
        /\ "unlinked" \in IpLocked
    BY DEF AfterPut, DirLocked, HasIp, IpLocked
  <2>2. r.ip # 0
    BY <1>1, Numbers
  <2>3. /\ n \in Rec /\ WalkOK(n) /\ Stage(n) = "unlinked" /\ n.pc = "put"
        /\ n.then = "unlinked" /\ DpOf(n) = 0 /\ IpOf(n) = r.ip /\ LockOf(n) = r.ip
        /\ n.call = r.call /\ n.ip = r.ip /\ P1(n) = dp /\ P2(n) = 0
    BY <1>1, <1>9, <2>1, <2>2, PutOne
  <2>4. CallOK(n) /\ OwesOf(n) = r.ip
    BY <1>1, <2>3 DEF CallOK, OwesOf
  <2> QED BY <1>1, <1>2, <2>3, <2>4 DEF GoodRec
<1>11. Acts(p) /\ proc'[p] = n
  BY <1>2, <1>9, <1>10, ActsOne DEF IInv
<1>12. RefMoves(p)
  <2>1. ASSUME NEW i \in Inum
        PROVE  After(p, i) = Before(p, i)
    <3>1. After(p, i) = Ones(fd[p], cwd[p], 0, t, dp, 0, i)
      BY <1>10, <1>11, MineAfter
    <3>2. Before(p, i) = Ones(fd[p], cwd[p], dp, t, 0, 0, i)
      BY <1>1, <1>2, MineBefore
    <3> QED BY <3>1, <3>2, OnesLeft
  <2> QED BY <2>1, RefSame DEF IInv
<1>13. LockMoves(p)
  <2>1. LockOf(proc[p]) = dp /\ LockOf(proc'[p]) = t
        /\ lock' = [lock EXCEPT ![dp] = None, ![t] = p]
    BY <1>1, <1>2, <1>10, <1>11
  <2>2. TypeOK /\ t # dp /\ lock[t] = None
    BY <1>3, <1>4 DEF IInv
  <2> QED BY <2>1, <2>2, LockSwap, ZenonT(30)
<1>14. Knows(proc[p])'
  BY <1>10, <1>11 DEF Knows, Parents, DirLocked
<1>15. \A e \in Entries(t)' : e \in Entries(t)
  <2>1. /\ Entries(t)' \ {<<dp, name>>} = Entries(t) \ {<<dp, name>>}
        /\ <<dp, name>> \in Entries(t)
    <3>1. inode[dp].ents[name] = t
      BY <1>1, <1>2
    <3> QED BY <1>8, <3>1, TurnsEntry
  <2> QED BY <2>1
<1>16. TreeOK'
  <2>1. IsDir(t)' => /\ inode'[t].ents["."] = t
                     /\ \A e \in Entries(t)' : e[1] = inode'[t].ents[".."]
                     /\ \A e, f \in Entries(t)' : e = f
    <3> SUFFICES ASSUME IsDir(t)'
                 PROVE  /\ inode'[t].ents["."] = t
                        /\ \A e \in Entries(t)' : e[1] = inode'[t].ents[".."]
                        /\ \A e, f \in Entries(t)' : e = f
      OBVIOUS
    <3>1. /\ inode[t].ents["."] = t
          /\ \A e \in Entries(t) : e[1] = inode[t].ents[".."]
          /\ \A e, f \in Entries(t) : e = f
      BY <1>7 DEF IInv, TreeOK
    <3> QED BY <1>7, <1>15, <3>1
  <2> QED BY <1>8, <2>1, TurnsTree
<1>17. RemovedLeft'
  <2>1. Removed(t)' => IsDirEmpty(t)' /\ \A q \in Proc : cwd[q] # t /\ DpOf(proc[q]) # t
    <3>1. SUFFICES ASSUME Removed(t)'
                   PROVE  IsDirEmpty(t)' /\ \A q \in Proc : cwd[q] # t /\ DpOf(proc[q]) # t
      OBVIOUS
    <3>2. IsDirEmpty(t) /\ ref[t] = 1
      BY <1>2, <1>7, <3>1 DEF Removed
    <3>3. IpOf(proc[p]) = t
      BY <1>1, <1>2
    <3> QED BY <1>7, <3>2, <3>3, OnlyRef DEF IInv
  <2> QED BY <1>3, <1>8, <1>10, <1>11, <2>1, TurnsRemoved
<1>18. AllKnow'
  BY <1>3, <1>7, <1>8, <1>11, <1>14, TurnsKnow
<1>19. LinksReady'
  <2>1. \A i \in Inum : Bare(i)' => Bare(i)
    BY <1>6 DEF Bare
  <2> QED BY <1>1, <1>11, <1>13, <2>1, ReadySame DEF IInv
<1>22. FreeUnused'
  <2> SUFFICES ASSUME NEW j \in Inum, inode'[j].type = "free"
               PROVE  inode'[j] = Free /\ ref'[j] = 0
    BY DEF FreeUnused
  <2>1. j # dp
    BY <1>3, <1>6 DEF IsDir
  <2>2. inode'[j] = inode[j]
    BY <1>6, <2>1
  <2>3. ref'[j] = ref[j]
    OBVIOUS
  <2>4. FreeUnused
    BY DEF IInv
  <2> QED BY <2>2, <2>3, <2>4, FreeSame
<1>23. Reclaimed'
  <2> SUFFICES ASSUME NEW j \in Inum, inode'[j].type # "free", inode'[j].nlink = 0
               PROVE  ref'[j] > 0
    BY DEF Reclaimed
  <2>1. CASE j = dp
    <3>1. ref[dp] \in Nat /\ ref[dp] >= 1
      BY <1>1, <1>2, HeldKept DEF IInv
    <3> QED BY <2>1, <3>1
  <2>2. CASE j # dp
    BY <1>6, <2>2 DEF IInv, Reclaimed
  <2> QED BY <2>1, <2>2
<1>24. LinkMoves(p)
  <2>1. inode'[dp].ents[name] = 0 /\ inode[dp].ents[name] = t
    BY <1>1, <1>2, <1>6
  <2>2. ASSUME NEW j \in Inum, j # dp \/ ~IsDir(t)
        PROVE  Subdirs(j)' = Subdirs(j)
    <3>1. Subdirs(j)' \ {t} = Subdirs(j) \ {t}
      BY <1>8, TurnsSubdirs
    <3>2. t \notin Subdirs(j)
      <4>1. IsDir(t) => inode[t].ents[".."] = dp
        BY <1>1, <1>2 DEF IInv, TreeOK
      <4> QED BY <2>2, <4>1 DEF Subdirs
    <3>3. t \notin Subdirs(j)'
      <4>1. t \in Subdirs(j)' => t \in Subdirs(j)
        BY <1>7, <1>15 DEF Subdirs
      <4> QED BY <3>2, <4>1
    <3> QED BY <3>1, <3>2, <3>3, SameBut
  <2>3. IsDir(t) => NamesOf(dp) = NamesOf(dp)' + 1
    <3> SUFFICES ASSUME IsDir(t)
                 PROVE  NamesOf(dp) = NamesOf(dp)' + 1
      OBVIOUS
    <3>1. Entries(dp)' = Entries(dp)
      BY <1>4, <1>8, TurnsNames
    <3>2. Subdirs(dp)' \ {t} = Subdirs(dp) \ {t}
      BY <1>8, TurnsSubdirs
    <3>3. t \in Subdirs(dp)
      BY <1>1, <1>2 DEF Subdirs, IInv, TreeOK
    <3>4. t \notin Subdirs(dp)'
      <4>1. Entries(t)' = {}
        <5>1. \A e \in Entries(t)' : e = <<dp, name>>
          BY <1>1, <1>2, <1>15 DEF IInv, TreeOK
        <5>2. <<dp, name>> \notin Entries(t)'
          <6>1. <<dp, name>> \in Entries(t)' <=> inode'[dp].ents[name] = t
            BY <1>8, TurnsEntry
          <6> QED BY <2>1, <6>1, Numbers
        <5> QED BY <5>1, <5>2
      <4> QED BY <4>1 DEF Subdirs
    <3>5. PICK A, B : A = Subdirs(dp) /\ B = Subdirs(dp)'
      OBVIOUS
    <3>6. A = B \cup {t} /\ t \notin B /\ IsFiniteSet(A)
      BY <3>2, <3>3, <3>4, <3>5, NamesFinite
    <3>7. Cardinality(A) = Cardinality(B) + 1 /\ Cardinality(B) \in Nat
      BY <3>6, OneName
    <3>8. Cardinality(Entries(dp)) \in Nat
      BY NamesFinite
    <3> QED BY <3>1, <3>5, <3>7, <3>8 DEF NamesOf
  <2>4. ASSUME NEW j \in Inum, j # t, j # dp \/ ~IsDir(t)
        PROVE  NamesOf(j)' = NamesOf(j)
    <3>1. Entries(j)' = Entries(j) /\ Subdirs(j)' = Subdirs(j)
      BY <1>8, <2>2, <2>4, TurnsNames
    <3> QED BY <3>1 DEF NamesOf
  <2>5. NamesOf(t) = NamesOf(t)' + 1
    <3>1. Subdirs(t)' = Subdirs(t)
      BY <1>4, <2>2
    <3> QED BY <1>8, <2>1, <3>1, TurnsCount, ZenonT(30)
  <2> SUFFICES ASSUME NEW j \in Inum
               PROVE  inode'[j].nlink \in Int /\
                      inode'[j].nlink + One(0, j) + NamesOf(j) = inode[j].nlink + One(t, j) + NamesOf(j)'
    BY <1>1, <1>2, <1>10, <1>11 DEF LinkMoves
  <2>6. inode[j].nlink \in Nat /\ One(0, j) = 0 /\ NamesOf(j) \in Nat /\ NamesOf(j)' \in Nat
    BY OneZero, NamesNat DEF IInv, TypeOK
  <2>7. CASE j = t
    <3>1. One(t, j) = 1 /\ inode'[j].nlink = inode[j].nlink
      BY <1>7, <2>7 DEF One
    <3>2. NamesOf(j) = NamesOf(j)' + 1
      BY <2>5, <2>7
    <3> QED BY ONLY <2>6, <3>1, <3>2
  <2>8. CASE j = dp /\ IsDir(t)
    <3>1. One(t, j) = 0 /\ inode'[j].nlink = inode[j].nlink - 1
      BY <1>4, <1>5, <1>6, <2>8 DEF One
    <3>2. NamesOf(j) = NamesOf(j)' + 1
      BY <2>3, <2>8
    <3> QED BY ONLY <2>6, <3>1, <3>2
  <2>9. CASE j # t /\ (j # dp \/ ~IsDir(t))
    <3>1. One(t, j) = 0 /\ inode'[j].nlink = inode[j].nlink
      BY <1>5, <1>6, <2>9 DEF One
    <3>2. NamesOf(j)' = NamesOf(j)
      BY <2>4, <2>9
    <3> QED BY ONLY <2>6, <3>1, <3>2
  <2> QED BY <1>4, <2>7, <2>8, <2>9
<1> QED BY <1>6, <1>11, <1>12, <1>13, <1>16, <1>17, <1>18, <1>19, <1>22, <1>23, <1>24, StepTree

LEMMA unlink_ipStep ==
  ASSUME IInv, ~Intrude, NEW p \in Proc, unlink_ip(p)
  PROVE  IInv'
<1>0. PICK r : r = proc[p]
  OBVIOUS
<1>1. /\ r.pc = "unlink_ip" /\ Unlocked(r.ip) /\ UNCHANGED <<ref, fd, cwd, leaked>>
      /\ panicked' = (panicked \/ inode[r.ip].nlink < 1)
  BY <1>0 DEF unlink_ip, At
<1>2. inode[r.ip].nlink >= 1 /\ r.ip \in Inum
  BY <1>0, <1>1, UnlinkKnows
<1>3. panicked' = FALSE
  <2>1. inode[r.ip].nlink \in Nat
    BY <1>2 DEF IInv, TypeOK
  <2>2. ~(inode[r.ip].nlink < 1)
    BY <1>2, <2>1
  <2> QED BY <1>1, <2>2 DEF IInv, TypeOK
<1>4. \/ /\ proc' = [proc EXCEPT ![p] = Put(r, <<r.ip>>, "unlink_bad")]
         /\ inode' = inode /\ lock' = lock
      \/ /\ ~IsDir(r.ip) \/ (IsDirEmpty(r.ip) /\ ref[r.ip] = 1)
         /\ inode' = [inode EXCEPT ![r.dp].ents[r.name] = 0,
                        ![r.dp].nlink = IF IsDir(r.ip) THEN @ - 1 ELSE @]
         /\ lock' = [lock EXCEPT ![r.dp] = None, ![r.ip] = p]
         /\ proc' = [proc EXCEPT ![p] = Put(r, <<r.dp>>, "unlinked")]
  BY <1>0 DEF unlink_ip
<1> QED BY <1>0, <1>1, <1>3, <1>4, unlinkRefused, unlinkRemoves

-----------------------------------------------------------------------------
(* create                                                                  *)

LEMMA LeastOf ==
  ASSUME NEW S \in SUBSET Nat, S # {}
  PROVE  \E x \in S : \A y \in S : x <= y
<1>1. IsWellFoundedOn(OpToRel(<, Nat), Nat)
  BY NatLessThanWellFounded
<1>2. PICK R : R = OpToRel(<, Nat)
  OBVIOUS
<1>3. R = {ss \in Nat \X Nat : ss[1] < ss[2]}
  BY <1>2 DEF OpToRel
<1>4. IsWellFoundedOn(R, Nat)
  BY <1>1, <1>2
<1>5. PICK x \in S : \A y \in S : ~(<<y, x>> \in R)
  BY <1>4, WFMin
<1>6. ASSUME NEW y \in S
      PROVE  x <= y
  <2>1. ~(<<y, x>> \in {ss \in Nat \X Nat : ss[1] < ss[2]})
    BY <1>3, <1>5
  <2>2. ~(y < x) /\ y \in Nat /\ x \in Nat
    BY <2>1
  <2> QED BY <2>2
<1> QED BY <1>6

\* The inode t is free, and becomes one of type ty with a name in directory dp.
Makes(dp, name, t, ty) ==
  /\ dp \in Inum /\ name \in Name /\ t \in Inum /\ t # dp /\ t # ROOTINO
  /\ IsDir(dp) /\ ~Removed(dp) /\ inode[t] = Free /\ Entries(t) = {} /\ Subdirs(t) = {}
  /\ ref[t] = 0 /\ lock[t] = None /\ lock[dp] = None
  /\ inode[dp].ents[name] = 0 /\ inode'[dp].ents[name] = t
  /\ inode'[dp].type = inode[dp].type /\ inode'[dp].to = inode[dp].to
  /\ inode'[dp].nlink = inode[dp].nlink + (IF ty = "dir" THEN 1 ELSE 0)
  /\ \A x \in Elems : x # name => inode'[dp].ents[x] = inode[dp].ents[x]
  /\ \A d \in Inum : d \notin {dp, t} => inode'[d] = inode[d]
  /\ inode' \in [Inum -> InodeI]
  /\ ty \in {"file", "dir", "dev", "symlink"}
  /\ inode'[t].type = ty /\ inode'[t].nlink = 1 /\ inode'[t].to = <<>>
  /\ \A x \in Name : inode'[t].ents[x] = 0
  /\ ty = "dir" => inode'[t].ents["."] = t /\ inode'[t].ents[".."] = dp

LEMMA MadeMakes ==
  ASSUME IInv, NEW dp \in Inum, NEW name \in Name, NEW t \in Inum, t # dp, IsDir(dp),
         ~Removed(dp), inode[t].type = "free", lock[dp] = None, inode[dp].ents[name] = 0,
         NEW ty \in {"file", "dir", "dev", "symlink"}, inode' = MadeIn(dp, t, name, ty)
  PROVE  Makes(dp, name, t, ty)
<1>1. inode[t] = Free /\ ref[t] = 0
  BY DEF IInv, FreeUnused
<1>2. Entries(t) = {} /\ Subdirs(t) = {} /\ t # ROOTINO
  <2>1. inode[t].nlink = 0
    BY <1>1, InodesI DEF IInv
  <2> QED BY <2>1, Nameless
<1>3. lock[t] = None
  BY LockedKept DEF IInv
<1>4. inode \in [Inum -> InodeI] /\ Free \in InodeI /\ Free.ents = NoEntries /\ Free.to = <<>>
  BY InodesI DEF IInv
<1>5. NoEntries \in [Name \cup Dots -> 0..NINODE] /\ \A x \in Name \cup Dots : NoEntries[x] = 0
  BY Numbers DEF NoEntries
<1>6. name \in Name \cup Dots /\ "." \in Dots /\ ".." \in Dots /\ "." \notin Name /\ ".." \notin Name
  BY NamesAssumption DEF Dots
<1>7. t \in 0..NINODE /\ dp \in 0..NINODE
  BY Numbers
<1>8. PICK E : E = IF ty = "dir" THEN [NoEntries EXCEPT !["."] = t, ![".."] = dp] ELSE NoEntries
  OBVIOUS
<1>9. /\ E \in [Name \cup Dots -> 0..NINODE] /\ \A x \in Name : E[x] = 0
      /\ ty = "dir" => E["."] = t /\ E[".."] = dp
  BY <1>5, <1>6, <1>7, <1>8
<1>10. PICK u : u = [Free EXCEPT !.type = ty, !.nlink = 1, !.ents = E]
  OBVIOUS
<1>11. u \in InodeI /\ u.type = ty /\ u.nlink = 1 /\ u.ents = E /\ u.to = <<>>
  <2>1. u = [type |-> ty, nlink |-> 1, ents |-> E, to |-> <<>>]
    BY <1>10 DEF Free
  <2> QED BY <1>9, <2>1 DEF InodeI, Types
<1>12. PICK k \in Int : k = inode[dp].nlink + (IF ty = "dir" THEN 1 ELSE 0)
  <2>1. inode[dp].nlink \in Nat
    BY DEF IInv, TypeOK
  <2> QED BY <2>1
<1>13. PICK v : v = [inode[dp] EXCEPT !.ents[name] = t, !.nlink = k]
  OBVIOUS
<1>14. /\ v \in InodeI /\ v.type = inode[dp].type /\ v.nlink = k
       /\ v.to = inode[dp].to /\ v.ents[name] = t
       /\ \A x \in Elems : x # name => v.ents[x] = inode[dp].ents[x]
  BY <1>4, <1>6, <1>7, <1>13 DEF InodeI, Elems
<1>15. inode' = [inode EXCEPT ![t] = u, ![dp] = v]
  <2>1. inode[dp].nlink \in Nat
    BY DEF IInv, TypeOK
  <2>2. k = IF ty = "dir" THEN inode[dp].nlink + 1 ELSE inode[dp].nlink
    BY <1>12, <2>1
  <2>3. u = [Free EXCEPT !.type = ty, !.nlink = 1,
               !.ents = IF ty = "dir" THEN [@ EXCEPT !["."] = t, ![".."] = dp] ELSE @]
    BY <1>4, <1>8, <1>10
  <2>4. inode[dp] \in InodeI
    BY <1>4
  <2> QED BY <1>4, <1>13, <2>2, <2>3, <2>4 DEF MadeIn, InodeI
<1>16. inode'[t] = u /\ inode'[dp] = v /\ (\A d \in Inum : d \notin {dp, t} => inode'[d] = inode[d])
       /\ inode' \in [Inum -> InodeI]
  BY <1>4, <1>11, <1>14, <1>15
<1> QED BY <1>1, <1>2, <1>3, <1>9, <1>11, <1>12, <1>14, <1>16 DEF Makes

LEMMA MakesTurns ==
  ASSUME IInv, NEW dp, NEW name, NEW t, NEW ty, Makes(dp, name, t, ty)
  PROVE  /\ Turns(dp, name, t)
         /\ IsDir(t)' <=> ty = "dir"
         /\ Entries(t)' = {<<dp, name>>} /\ Subdirs(t)' = {}
<1>1. ~IsDir(t) /\ (IsDir(t)' <=> ty = "dir") /\ IsDir(dp)'
  BY InodesI DEF Makes, IsDir, IInv
<1>2. Turns(dp, name, t)
  <2>1. ASSUME NEW x \in Name, NEW j \in Inum
        PROVE  ~(inode'[t].ents[x] = j)
    BY Numbers DEF Makes
  <2> QED BY <1>1, <2>1 DEF Makes, Turns
<1>3. Entries(t)' = {<<dp, name>>}
  <2>1. /\ Entries(t)' \ {<<dp, name>>} = Entries(t) \ {<<dp, name>>}
        /\ <<dp, name>> \in Entries(t)' <=> inode'[dp].ents[name] = t
    BY <1>2, TurnsEntry
  <2> QED BY <2>1 DEF Makes
<1>4. Subdirs(t)' = {}
  <2>1. Subdirs(t)' \ {t} = Subdirs(t) \ {t}
    BY <1>2, TurnsSubdirs
  <2>2. t \notin Subdirs(t)'
    <3>1. IsDir(t)' => inode'[t].ents[".."] # t
      BY <1>1 DEF Makes
    <3> QED BY <3>1 DEF Subdirs
  <2> QED BY <2>1, <2>2 DEF Makes
<1> QED BY <1>1, <1>2, <1>3, <1>4

\* The directory has a link more when the new inode is one too.
LEMMA MakesCount ==
  ASSUME IInv, NEW dp, NEW name, NEW t, NEW ty, Makes(dp, name, t, ty), NEW j \in Inum
  PROVE  inode'[j].nlink \in Nat /\ inode'[j].nlink + NamesOf(j) = inode[j].nlink + NamesOf(j)'
<1>1. /\ Turns(dp, name, t) /\ (IsDir(t)' <=> ty = "dir")
      /\ Entries(t)' = {<<dp, name>>} /\ Subdirs(t)' = {}
  BY MakesTurns
<1>2. inode[j].nlink \in Nat /\ NamesOf(j) \in Nat /\ NamesOf(j)' \in Nat
  BY NamesNat DEF IInv, TypeOK
<1>3. t \notin Subdirs(j)
  BY DEF Makes, Subdirs
<1>4. Subdirs(j)' \ {t} = Subdirs(j) \ {t}
  BY <1>1, TurnsSubdirs
<1>5. CASE j = t
  <2>1. Subdirs(t)' = Subdirs(t) /\ inode[dp].ents[name] = 0 /\ inode'[dp].ents[name] = t
    BY <1>1 DEF Makes
  <2>2. NamesOf(t)' = NamesOf(t) + 1
    BY <1>1, <2>1, TurnsCount
  <2>3. inode[j].nlink = 0 /\ inode'[j].nlink = 1
    BY <1>5, InodesI DEF Makes, IInv
  <2> QED BY <1>2, <1>5, <2>2, <2>3
<1>6. CASE j = dp /\ ty = "dir"
  <2>1. Entries(dp)' = Entries(dp)
    BY <1>1, TurnsNames DEF Makes
  <2>2. t \in Subdirs(dp)'
    BY <1>1, <1>6 DEF Subdirs, Makes
  <2>3. PICK A, B : A = Subdirs(dp)' /\ B = Subdirs(dp)
    OBVIOUS
  <2>4. A = B \cup {t} /\ t \notin B /\ IsFiniteSet(A)
    BY <1>3, <1>4, <1>6, <2>2, <2>3, NamesFiniteNext
  <2>5. Cardinality(A) = Cardinality(B) + 1 /\ Cardinality(B) \in Nat
    BY <2>4, OneName
  <2>6. Cardinality(Entries(dp)) \in Nat
    BY NamesFinite
  <2>7. NamesOf(dp)' = NamesOf(dp) + 1
    BY <2>1, <2>3, <2>5, <2>6 DEF NamesOf
  <2>8. inode'[dp].nlink = inode[dp].nlink + 1
    BY <1>6 DEF Makes
  <2> QED BY <1>2, <1>6, <2>7, <2>8
<1>7. CASE j # t /\ (j # dp \/ ty # "dir")
  <2>1. t \notin Subdirs(j)'
    BY <1>1, <1>7 DEF Subdirs, Makes
  <2>2. Subdirs(j)' = Subdirs(j)
    BY <1>3, <1>4, <2>1, SameBut
  <2>3. Entries(j)' = Entries(j)
    BY <1>1, <1>7, TurnsNames
  <2>4. NamesOf(j)' = NamesOf(j)
    BY <2>2, <2>3 DEF NamesOf
  <2>5. inode'[j].nlink = inode[j].nlink
    BY <1>2, <1>7 DEF Makes
  <2> QED BY <1>2, <2>4, <2>5
<1> QED BY <1>5, <1>6, <1>7 DEF Makes

\* The calls that create() is for, and what they make
LEMMA CreateKnows ==
  ASSUME IInv, NEW p \in Proc, NEW r, r = proc[p], r.pc = "create", r.dp # 0
  PROVE  /\ r \in Rec /\ WalkOK(r) /\ CallOK(r) /\ Stage(r) = "create"
         /\ P1(r) = 0 /\ P2(r) = 0 /\ DpOf(r) = r.dp /\ LockOf(r) = 0 /\ IpOf(r) = 0
         /\ OwesOf(r) = 0 /\ r.dp \in Inum /\ r.name \in Elems /\ IsDir(r.dp)
         /\ ~Removed(r.dp) /\ inode[r.dp].type # "free"
         /\ r.call \in {"create", "mkdir", "mknod", "symlink"}
         /\ TypeOf[r.call] \in {"file", "dir", "dev", "symlink"}
         /\ TypeOf[r.call] = "symlink" => r.call = "symlink"
         /\ r.call \in {"open", "create"} => fd[p] = 0
<1>1. r \in Rec /\ WalkOK(r) /\ CallOK(r) /\ (r.call \in {"open", "create"} => fd[p] = 0)
  BY RecOf DEF IInv
<1>2. /\ Stage(r) = "create" /\ P1(r) = 0 /\ P2(r) = 0 /\ DpOf(r) = r.dp /\ LockOf(r) = 0
      /\ IpOf(r) = 0 /\ OwesOf(r) = 0 /\ r.dp \in 0..NINODE
  BY <1>1, LookupRec DEF Lookups, Parents
<1>3. r.dp \in Inum /\ r.name \in Elems
  BY <1>1, <1>2, Numbers DEF Rec
<1>4. IsDir(r.dp)
  BY DEF IInv, AllKnow, Knows, Parents
<1>5. ~Removed(r.dp)
  BY <1>2, <1>3 DEF IInv, RemovedLeft
<1>6. r.call \in {"create", "mkdir", "mknod", "symlink"}
  BY <1>1, <1>2 DEF CallOK
<1>7. /\ TypeOf[r.call] \in {"file", "dir", "dev", "symlink"}
      /\ TypeOf[r.call] = "symlink" => r.call = "symlink"
  BY <1>6 DEF TypeOf
<1> QED BY <1>1, <1>2, <1>3, <1>4, <1>5, <1>6, <1>7 DEF IsDir

\* A new inode
LEMMA createMakes ==
  ASSUME IInv, NEW p \in Proc, NEW r, r = proc[p], r.pc = "create", r.dp # 0,
         Unlocked(r.dp), inode[r.dp].ents[r.name] = 0,
         NEW t \in Inum, inode[t].type = "free",
         inode' = MadeIn(r.dp, t, r.name, TypeOf[r.call]), ref' = Get(t),
         lock' = [lock EXCEPT ![t] = p],
         proc' = [proc EXCEPT ![p] = Put([r EXCEPT !.ip = t], <<r.dp>>, "created")],
         UNCHANGED <<fd, cwd, leaked>>, panicked' = FALSE
  PROVE  IInv'
<1>1. /\ r \in Rec /\ WalkOK(r) /\ CallOK(r) /\ Stage(r) = "create"
      /\ P1(r) = 0 /\ P2(r) = 0 /\ DpOf(r) = r.dp /\ LockOf(r) = 0 /\ IpOf(r) = 0
      /\ OwesOf(r) = 0 /\ r.dp \in Inum /\ r.name \in Elems /\ IsDir(r.dp)
      /\ ~Removed(r.dp) /\ inode[r.dp].type # "free"
      /\ r.call \in {"create", "mkdir", "mknod", "symlink"}
      /\ TypeOf[r.call] \in {"file", "dir", "dev", "symlink"}
      /\ TypeOf[r.call] = "symlink" => r.call = "symlink"
      /\ r.call \in {"open", "create"} => fd[p] = 0
  BY CreateKnows
<1>2. PICK dp \in Inum, name \in Elems, ty \in {"file", "dir", "dev", "symlink"} :
        dp = r.dp /\ name = r.name /\ ty = TypeOf[r.call]
  BY <1>1
<1>3. name \in Name
  BY <1>1, <1>2, FreeName
<1>4. Makes(dp, name, t, ty)
  <2>1. t # dp /\ IsDir(dp) /\ ~Removed(dp) /\ lock[dp] = None /\ inode[dp].ents[name] = 0
        /\ inode' = MadeIn(dp, t, name, ty)
    BY <1>1, <1>2 DEF Unlocked
  <2> QED BY <1>3, <2>1, MadeMakes
<1>5. /\ Turns(dp, name, t) /\ (IsDir(t)' <=> ty = "dir")
      /\ Entries(t)' = {<<dp, name>>} /\ Subdirs(t)' = {}
  BY <1>4, MakesTurns
<1>6. PICK s : s = [r EXCEPT !.ip = t]
  OBVIOUS
<1>7. s \in Rec /\ s.ip = t /\ s.call = r.call /\ s.new = r.new /\ s.old = r.old
  <2>1. t \in 0..NINODE
    BY Numbers
  <2> QED BY <1>1, <1>6, <2>1 DEF Rec
<1>8. PICK n : n = Put(s, <<dp>>, "created")
  OBVIOUS
<1>9. /\ GoodRec(n) /\ Stage(n) = "created" /\ n.pc = "put" /\ DpOf(n) = 0 /\ IpOf(n) = t
      /\ LockOf(n) = t /\ OwesOf(n) = 0 /\ P1(n) = dp /\ P2(n) = 0 /\ n.call = r.call
  <2>1. "created" \in AfterPut /\ "created" \notin DirLocked /\ "created" \in HasIp
        /\ "created" \in IpLocked
    BY DEF AfterPut, DirLocked, HasIp, IpLocked
  <2>2. s.ip # 0
    BY <1>7, Numbers
  <2>3. /\ n \in Rec /\ WalkOK(n) /\ Stage(n) = "created" /\ n.pc = "put"
        /\ n.then = "created" /\ DpOf(n) = 0 /\ IpOf(n) = s.ip /\ LockOf(n) = s.ip
        /\ n.call = s.call /\ n.new = s.new /\ n.old = s.old /\ P1(n) = dp /\ P2(n) = 0
    BY <1>7, <1>8, <2>1, <2>2, PutOne
  <2>4. r.call = "symlink" => r.new # <<>> /\ r.old # <<>>
    BY <1>1 DEF CallOK
  <2>5. CallOK(n) /\ OwesOf(n) = 0
    BY <1>1, <1>7, <2>3, <2>4 DEF CallOK, OwesOf
  <2> QED BY <1>7, <2>3, <2>5 DEF GoodRec
<1>10. Acts(p) /\ proc'[p] = n
  <2>1. proc' = [proc EXCEPT ![p] = n]
    BY <1>2, <1>6, <1>8
  <2>2. n.call \in {"open", "create"} => fd[p] = 0
    BY <1>1, <1>9
  <2> QED BY <1>9, <2>1, <2>2, ActsOne DEF IInv
<1>11. RefMoves(p)
  <2>1. ASSUME NEW i \in Inum
        PROVE  After(p, i) = Before(p, i) + One(t, i)
    <3>1. After(p, i) = Ones(fd[p], cwd[p], 0, t, dp, 0, i)
      BY <1>9, <1>10, MineAfter
    <3>2. Before(p, i) = Ones(fd[p], cwd[p], dp, 0, 0, 0, i)
      BY <1>1, <1>2, MineBefore
    <3>3. One(0, i) = 0 /\ One(fd[p], i) \in Nat /\ One(cwd[p], i) \in Nat /\ One(dp, i) \in Nat
          /\ One(t, i) \in Nat
      BY OneNat, OneZero
    <3> QED BY <3>1, <3>2, <3>3 DEF Ones
  <2> QED BY <2>1, RefGet DEF IInv
<1>12. LockMoves(p)
  BY <1>1, <1>4, <1>9, <1>10, LockTake DEF IInv, Makes
<1>13. Knows(proc[p])'
  BY <1>9, <1>10 DEF Knows, Parents, DirLocked
<1>14. TreeOK'
  <2>1. IsDir(t)' => /\ inode'[t].ents["."] = t
                     /\ \A e \in Entries(t)' : e[1] = inode'[t].ents[".."]
                     /\ \A e, f \in Entries(t)' : e = f
    <3>1. IsDir(t)' => inode'[t].ents["."] = t /\ inode'[t].ents[".."] = dp
      BY <1>4 DEF Makes, IsDir
    <3>2. Entries(t)' = {<<dp, name>>}
      BY <1>5
    <3>3. <<dp, name>>[1] = dp
      OBVIOUS
    <3> QED BY <3>1, <3>2, <3>3
  <2> QED BY <1>5, <2>1, TurnsTree
<1>15. RemovedLeft'
  <2>1. ~Removed(t)'
    BY <1>5 DEF Removed
  <2>2. ~Removed(dp) /\ DpOf(proc'[p]) = 0
    BY <1>1, <1>2, <1>9, <1>10
  <2> QED BY <1>5, <1>10, <2>1, <2>2, TurnsRemoved
<1>16. AllKnow'
  <2>1. lock[dp] \in {None, p}
    BY <1>4 DEF Makes
  <2> QED BY <1>5, <1>10, <1>13, <2>1, TurnsKnow
<1>17. LinksReady'
  <2>1. ASSUME NEW i \in Inum, Bare(i)'
        PROVE  (Bare(i) /\ lock[i] # p) \/ Making(proc'[p], i)
    <3>1. CASE i = t
      <4>1. r.call = "symlink"
        <5>1. inode'[i].type = "symlink"
          BY <2>1 DEF Bare
        <5>2. inode'[t].type = ty
          BY <1>4 DEF Makes
        <5> QED BY <1>1, <1>2, <3>1, <5>1, <5>2
      <4>2. proc'[p] = n
        BY <1>10
      <4>3. LockOf(n) = i /\ Stage(n) = "created" /\ n.call = "symlink"
        BY <1>9, <3>1, <4>1
      <4> QED BY <4>2, <4>3 DEF Making
    <3>2. CASE i # t
      <4>1. Bare(i)
        <5>1. inode'[i].type = inode[i].type /\ inode'[i].to = inode[i].to
          <6>1. inode'[dp].type = inode[dp].type /\ inode'[dp].to = inode[dp].to
            BY <1>4 DEF Makes
          <6>2. i # dp => inode'[i] = inode[i]
            BY <1>4, <3>2 DEF Makes
          <6> QED BY <6>1, <6>2
        <5>2. inode'[i].type = "symlink" /\ inode'[i].to = <<>>
          BY <2>1 DEF Bare
        <5> QED BY <5>1, <5>2 DEF Bare
      <4>2. lock[i] # p
        <5>1. LockOf(proc[p]) # i /\ p # None
          BY <1>1, Numbers
        <5>2. lock[i] # None => LockOf(proc[lock[i]]) = i
          BY DEF IInv, LocksExact
        <5> QED BY <5>1, <5>2
      <4> QED BY <4>1, <4>2
    <3> QED BY <3>1, <3>2
  <2> QED BY <1>10, <1>12, <2>1, ReadyStep DEF IInv
<1>18. LinkMoves(p)
  <2> SUFFICES ASSUME NEW j \in Inum
               PROVE  inode'[j].nlink \in Int /\
                      inode'[j].nlink + One(0, j) + NamesOf(j) = inode[j].nlink + One(0, j) + NamesOf(j)'
    BY <1>1, <1>9, <1>10 DEF LinkMoves
  <2>1. inode'[j].nlink \in Nat /\ inode'[j].nlink + NamesOf(j) = inode[j].nlink + NamesOf(j)'
    BY <1>4, MakesCount
  <2>2. inode[j].nlink \in Nat /\ One(0, j) = 0 /\ NamesOf(j) \in Nat /\ NamesOf(j)' \in Nat
    BY OneZero, NamesNat DEF IInv, TypeOK
  <2> QED BY <2>1, <2>2
<1>19. \A j \in Inum : j # t => ref'[j] = ref[j]
  BY DEF Get, IInv, TypeOK
<1>20. ref'[t] = 1
  <2>1. ref'[t] = ref[t] + 1 /\ ref[t] = 0
    BY <1>4 DEF Get, IInv, TypeOK, Makes
  <2> QED BY <2>1
<1>21. FreeUnused'
  <2> SUFFICES ASSUME NEW j \in Inum, inode'[j].type = "free"
               PROVE  inode'[j] = Free /\ ref'[j] = 0
    BY DEF FreeUnused
  <2>1. j # dp /\ j # t
    BY <1>4 DEF IsDir, Makes
  <2>2. inode'[j] = inode[j] /\ ref'[j] = ref[j]
    BY <1>4, <1>19, <2>1 DEF Makes
  <2>3. FreeUnused
    BY DEF IInv
  <2> QED BY <2>2, <2>3, FreeSame
<1>22. Reclaimed'
  <2> SUFFICES ASSUME NEW j \in Inum, inode'[j].type # "free", inode'[j].nlink = 0
               PROVE  ref'[j] > 0
    BY DEF Reclaimed
  <2>1. CASE j = dp
    <3>1. ref[dp] \in Nat /\ ref[dp] >= 1
      BY <1>1, <1>2, HeldKept DEF IInv
    <3>2. dp # t
      BY <1>4 DEF Makes
    <3> QED BY <1>19, <2>1, <3>1, <3>2
  <2>2. CASE j = t
    BY <1>20, <2>2
  <2>3. CASE j \notin {dp, t}
    <3>1. inode'[j] = inode[j] /\ ref'[j] = ref[j]
      BY <1>4, <1>19, <2>3 DEF Makes
    <3> QED BY <3>1 DEF IInv, Reclaimed
  <2> QED BY <2>1, <2>2, <2>3
<1>23. inode' \in [Inum -> InodeI]
  BY <1>4 DEF Makes
<1> QED BY <1>10, <1>11, <1>12, <1>14, <1>15, <1>16, <1>17, <1>18, <1>21, <1>22, <1>23, StepTree

LEMMA createStep ==
  ASSUME IInv, ~Intrude, NEW p \in Proc, create(p)
  PROVE  IInv'
<1>0. PICK r : r = proc[p]
  OBVIOUS
<1>1. r.pc = "create" /\ fd' = fd /\ cwd' = cwd /\ leaked' = leaked
  BY <1>0 DEF create, At
<1>2. CASE r.dp = 0
  <2>1. Fails(p) /\ UNCHANGED <<inode, ref, lock, panicked>>
    BY <1>0, <1>2 DEF create
  <2> QED BY <1>0, <1>1, <1>2, <2>1, createFails DEF At
<1>3. CASE r.dp # 0
  <2>1. Unlocked(r.dp) /\ panicked' = (panicked \/ inode[r.dp].type = "free")
    BY <1>0, <1>3 DEF create
  <2>2. panicked' = FALSE
    <3>1. inode[r.dp].type # "free"
      BY <1>0, <1>1, <1>3, CreateKnows
    <3> QED BY <2>1, <3>1 DEF IInv, TypeOK
  <2>3. PICK U : U = {j \in Inum : inode[j].type = "free"}
    OBVIOUS
  <2>4. PICK t : t = CHOOSE j \in U : \A k \in U : j <= k
    OBVIOUS
  <2>5. PICK i : i = inode[r.dp].ents[r.name]
    OBVIOUS
  <2>6. \/ /\ i # 0
           /\ Intrude \/ r.call # "symlink" \/ ~IsDir(i)
           /\ lock' = [lock EXCEPT ![r.dp] = p] /\ ref' = Get(i)
           /\ proc' = [proc EXCEPT ![p] = [r EXCEPT !.pc = "exists", !.ip = i]]
           /\ inode' = inode
        \/ /\ i = 0 /\ U # {}
           /\ inode' = MadeIn(r.dp, t, r.name, TypeOf[r.call])
           /\ ref' = Get(t) /\ lock' = [lock EXCEPT ![t] = p]
           /\ proc' = [proc EXCEPT ![p] = Put([r EXCEPT !.ip = t], <<r.dp>>, "created")]
    BY <1>0, <1>3, <2>3, <2>4, <2>5 DEF create
  <2>7. CASE /\ i # 0
             /\ Intrude \/ r.call # "symlink" \/ ~IsDir(i)
             /\ lock' = [lock EXCEPT ![r.dp] = p] /\ ref' = Get(i)
             /\ proc' = [proc EXCEPT ![p] = [r EXCEPT !.pc = "exists", !.ip = i]]
             /\ inode' = inode
    BY <1>0, <1>1, <1>3, <2>1, <2>2, <2>5, <2>7, createFinds
  <2>8. CASE /\ i = 0 /\ U # {}
             /\ inode' = MadeIn(r.dp, t, r.name, TypeOf[r.call])
             /\ ref' = Get(t) /\ lock' = [lock EXCEPT ![t] = p]
             /\ proc' = [proc EXCEPT ![p] = Put([r EXCEPT !.ip = t], <<r.dp>>, "created")]
    <3>1. U \in SUBSET Nat
      BY <2>3, Numbers DEF Inum
    <3>2. \E j \in U : \A k \in U : j <= k
      BY <2>8, <3>1, LeastOf
    <3>3. t \in U
      BY <2>4, <3>2
    <3>4. t \in Inum /\ inode[t].type = "free"
      BY <2>3, <3>3
    <3> QED BY <1>0, <1>1, <1>3, <2>1, <2>2, <2>5, <2>8, <3>4, createMakes
  <2> QED BY <2>6, <2>7, <2>8
<1> QED BY <1>2, <1>3

-----------------------------------------------------------------------------
(* The specification                                                       *)

\* Nobody has a call, and every process is in the root directory.
LEMMA InitRefs ==
  ASSUME Init, NEW i \in Inum
  PROVE  ref[i] = leaked[i] + RefsTo(fd, cwd, proc, i)
<1>1. /\ fd = [p \in Proc |-> 0] /\ cwd = [p \in Proc |-> ROOTINO]
      /\ proc = [p \in Proc |-> Idle] /\ leaked[i] = 0
      /\ ref[i] = IF i = ROOTINO THEN Cardinality(Proc) ELSE 0
  BY DEF Init
<1>2. ASSUME NEW f, \A q \in Proc : f[q] # i
      PROVE  HowMany(f, i) = 0
  <2>1. {q \in Proc : f[q] = i} = {}
    BY <1>2
  <2> QED BY <2>1, FS_EmptySet DEF HowMany
<1>3. /\ HowMany(fd, i) = 0 /\ HowMany(DpAll(proc), i) = 0 /\ HowMany(IpAll(proc), i) = 0
      /\ HowMany(P1All(proc), i) = 0 /\ HowMany(P2All(proc), i) = 0
  <2>1. i # 0 /\ \A q \in Proc : proc[q] = Idle
    BY <1>1, Numbers
  <2>2. /\ \A q \in Proc : fd[q] = 0 /\ DpAll(proc)[q] = 0 /\ IpAll(proc)[q] = 0
                           /\ P1All(proc)[q] = 0 /\ P2All(proc)[q] = 0
    BY <1>1, <2>1, IdleRec DEF DpAll, IpAll, P1All, P2All
  <2>3. /\ \A q \in Proc : fd[q] # i
        /\ \A q \in Proc : DpAll(proc)[q] # i
        /\ \A q \in Proc : IpAll(proc)[q] # i
        /\ \A q \in Proc : P1All(proc)[q] # i
        /\ \A q \in Proc : P2All(proc)[q] # i
    BY <2>1, <2>2
  <2> QED BY <1>2, <2>3
<1>4. HowMany(cwd, i) = ref[i]
  <2>1. CASE i = ROOTINO
    <3>1. {q \in Proc : cwd[q] = i} = Proc
      BY <1>1, <2>1
    <3> QED BY <1>1, <2>1, <3>1 DEF HowMany
  <2>2. CASE i # ROOTINO
    <3>1. \A q \in Proc : cwd[q] # i
      BY <1>1, <2>2
    <3> QED BY <1>1, <1>2, <2>2, <3>1
  <2> QED BY <2>1, <2>2
<1>5. HowMany(cwd, i) \in Nat
  BY CountNat
<1> QED BY <1>1, <1>3, <1>4, <1>5 DEF RefsTo

LEMMA InitTree ==
  ASSUME Init
  PROVE  /\ inode \in [Inum -> Inode]
         /\ \A i \in Inum : i # ROOTINO => inode[i] = Free
         /\ IsDir(ROOTINO) /\ inode[ROOTINO].nlink = 1
         /\ inode[ROOTINO].ents["."] = ROOTINO /\ inode[ROOTINO].ents[".."] = ROOTINO
         /\ \A d \in Inum : IsDir(d) => d = ROOTINO
         /\ \A d \in Inum : Entries(d) = {} /\ Subdirs(d) = {}
<1>1. ROOTINO \in Inum /\ ROOTINO \in 0..NINODE /\ 0 \in 0..NINODE
  BY Numbers
<1>2. PICK u : u = [Free EXCEPT !.type = "dir", !.nlink = 1,
                      !.ents["."] = ROOTINO, !.ents[".."] = ROOTINO]
  OBVIOUS
<1>3. inode = [i \in Inum |-> IF i # ROOTINO THEN Free ELSE u]
  BY <1>2 DEF Init
<1>4. PICK E : E = [NoEntries EXCEPT !["."] = ROOTINO, ![".."] = ROOTINO]
  OBVIOUS
<1>5. /\ "." \in Name \cup Dots /\ ".." \in Name \cup Dots
      /\ \A x \in Name : x \in Name \cup Dots /\ x # "." /\ x # ".."
  BY NamesAssumption DEF Dots
<1>6. /\ E \in [Name \cup Dots -> 0..NINODE] /\ E["."] = ROOTINO /\ E[".."] = ROOTINO
      /\ \A x \in Name : E[x] = 0
  BY <1>1, <1>4, <1>5 DEF NoEntries
<1>7. u = [type |-> "dir", nlink |-> 1, ents |-> E, to |-> <<>>]
  BY <1>2, <1>4 DEF Free
<1>8. u \in Inode /\ Free \in Inode /\ Free.type = "free" /\ \A x \in Name : Free.ents[x] = 0
  <2>1. NoEntries \in [Name \cup Dots -> 0..NINODE] /\ \A x \in Name : NoEntries[x] = 0
    BY <1>1, <1>5 DEF NoEntries
  <2>2. 1 \in Nat /\ 0 \in Nat
    OBVIOUS
  <2>3. u \in Inode
    BY <1>6, <1>7, <2>2 DEF Inode, Types
  <2>4. Free \in Inode
    BY <2>1, <2>2 DEF Inode, Types, Free
  <2> QED BY <2>1, <2>3, <2>4 DEF Free
<1>9. inode \in [Inum -> Inode] /\ inode[ROOTINO] = u
      /\ \A i \in Inum : i # ROOTINO => inode[i] = Free
  BY <1>1, <1>3, <1>8
<1>10. \A d \in Inum : IsDir(d) <=> d = ROOTINO
  BY <1>7, <1>8, <1>9 DEF IsDir
<1>11. \A d \in Inum, x \in Name : inode[d].ents[x] = 0
  BY <1>6, <1>7, <1>8, <1>9
<1>12. ASSUME NEW d \in Inum
       PROVE  Entries(d) = {}
  BY <1>11, Numbers DEF Entries
<1>13. \A d \in Inum : Entries(d) = {} /\ Subdirs(d) = {}
  BY <1>12 DEF Subdirs
<1> QED BY <1>1, <1>6, <1>7, <1>9, <1>10, <1>13

LEMMA InitInv == Init => IInv
<1> SUFFICES ASSUME Init
             PROVE  IInv
  OBVIOUS
<1>1. /\ inode \in [Inum -> Inode]
      /\ \A i \in Inum : i # ROOTINO => inode[i] = Free
      /\ IsDir(ROOTINO) /\ inode[ROOTINO].nlink = 1
      /\ inode[ROOTINO].ents["."] = ROOTINO /\ inode[ROOTINO].ents[".."] = ROOTINO
      /\ \A d \in Inum : IsDir(d) => d = ROOTINO
      /\ \A d \in Inum : Entries(d) = {} /\ Subdirs(d) = {}
  BY InitTree
<1>2. /\ fd = [p \in Proc |-> 0] /\ cwd = [p \in Proc |-> ROOTINO]
      /\ proc = [p \in Proc |-> Idle] /\ leaked = [i \in Inum |-> 0]
      /\ lock = [i \in Inum |-> None] /\ panicked = FALSE
      /\ ref = [i \in Inum |-> IF i = ROOTINO THEN Cardinality(Proc) ELSE 0]
  BY DEF Init
<1>3. \A p \in Proc : proc[p] = Idle
  BY <1>2
<1>4. Cardinality(Proc) \in Nat
  BY NamesAssumption, FS_CardinalityType
<1>5. TypeOK
  <2>1. Idle.dp = 0 /\ Idle.ip = 0 /\ 0 \in 0..NINODE /\ ROOTINO \in Inum
    BY Numbers DEF Idle
  <2> QED BY <1>1, <1>2, <1>3, <1>4, <2>1 DEF TypeOK, Inode
<1>6. CallsOK
  BY <1>2, <1>3, IdleRec DEF CallsOK, GoodRec
<1>7. RefsExact
  BY InitRefs DEF RefsExact
<1>8. LocksExact
  BY <1>2, <1>3, IdleRec DEF LocksExact
<1>9. FreeUnused
  <2> SUFFICES ASSUME NEW i \in Inum, inode[i].type = "free"
               PROVE  inode[i] = Free /\ ref[i] = 0
    BY DEF FreeUnused
  <2>1. i # ROOTINO
    BY <1>1 DEF IsDir
  <2> QED BY <1>1, <1>2, <2>1
<1>10. TreeOK
  BY <1>1, Numbers DEF TreeOK
<1>11. RemovedLeft
  BY <1>1 DEF RemovedLeft, Removed
<1>12. AllKnow
  <2>1. Knows(Idle)
    BY IdleRec DEF Knows, Parents, DirLocked
  <2> QED BY <1>3, <2>1 DEF AllKnow
<1>13. LinksReady
  <2> SUFFICES ASSUME NEW i \in Inum, inode[i].type = "symlink"
               PROVE  FALSE
    BY DEF LinksReady
  <2> QED BY <1>1 DEF IsDir, Free
<1>14. LinksExact
  <2> SUFFICES ASSUME NEW i \in Inum
               PROVE  inode[i].nlink = Cardinality(Entries(i)) + Cardinality(Subdirs(i))
                        + (IF i = ROOTINO THEN 1 ELSE 0) + Cardinality({p \in Proc : Counted(p, i)})
    BY DEF LinksExact
  <2>1. {p \in Proc : Counted(p, i)} = {}
    BY <1>3 DEF Counted, Idle
  <2>2. Cardinality(Entries(i)) = 0 /\ Cardinality(Subdirs(i)) = 0
        /\ Cardinality({p \in Proc : Counted(p, i)}) = 0
    BY <1>1, <2>1, FS_EmptySet
  <2>3. inode[i].nlink = IF i = ROOTINO THEN 1 ELSE 0
    BY <1>1 DEF Free
  <2> QED BY <2>2, <2>3
<1>15. Reclaimed
  <2> SUFFICES ASSUME NEW i \in Inum, inode[i].type # "free", inode[i].nlink = 0
               PROVE  FALSE
    BY DEF Reclaimed
  <2> QED BY <1>1 DEF Free
<1> QED BY <1>2, <1>5, <1>6, <1>7, <1>8, <1>9, <1>10, <1>11, <1>12, <1>13, <1>14, <1>15 DEF IInv

\* A step that is none
LEMMA IdleStep ==
  ASSUME IInv, UNCHANGED vars
  PROVE  IInv'
<1>1. /\ inode' = inode /\ ref' = ref /\ lock' = lock /\ fd' = fd /\ cwd' = cwd
      /\ proc' = proc /\ leaked' = leaked /\ panicked' = panicked
  BY DEF vars
<1>2. SameTree /\ \A i \in Inum : Entries(i)' = Entries(i) /\ Subdirs(i)' = Subdirs(i)
                                /\ (IsDirEmpty(i)' <=> IsDirEmpty(i)) /\ (Removed(i)' <=> Removed(i))
  <2>1. SameTree
    BY <1>1 DEF SameTree, IsDir
  <2> QED BY <2>1, SameNames
<1>3. TypeOK' /\ CallsOK' /\ panicked' = FALSE
  BY <1>1 DEF IInv, TypeOK, CallsOK
<1>4. RefsExact' /\ LocksExact' /\ FreeUnused'
  BY <1>1 DEF IInv, RefsExact, LocksExact, FreeUnused
<1>5. TreeOK'
  BY <1>2, SameTreeOK DEF IInv
<1>6. RemovedLeft'
  BY <1>1, <1>2 DEF IInv, RemovedLeft
<1>7. AllKnow'
  <2> SUFFICES ASSUME NEW p \in Proc
               PROVE  Knows(proc[p])'
    BY DEF AllKnow
  <2>1. PICK r : r = proc[p]
    OBVIOUS
  <2>2. r \in Rec /\ WalkOK(r) /\ Knows(r) /\ proc'[p] = r
    BY <1>1, <2>1, RecOf DEF IInv, AllKnow
  <2>3. \A i \in Inum : (IsDir(i)' <=> IsDir(i)) /\ inode'[i].ents = inode[i].ents
    BY <1>2 DEF SameTree
  <2>4. Knows(r)'
    BY <2>2, <2>3, KnowKept
  <2> QED BY <2>2, <2>4
<1>8. LinksReady' /\ Reclaimed'
  BY <1>1 DEF IInv, LinksReady, Reclaimed
<1>9. LinksExact'
  BY <1>1, <1>2 DEF IInv, LinksExact, Counted
<1> QED BY <1>3, <1>4, <1>5, <1>6, <1>7, <1>8, <1>9 DEF IInv

LEMMA NextInv ==
  ASSUME IInv, ~Intrude, [Next]_vars
  PROVE  IInv'
<1>1. CASE UNCHANGED vars
  BY <1>1, IdleStep
<1>2. ASSUME NEW p \in Proc, NEW kind \in Kinds[p], NEW path \in Paths,
             NEW new \in Paths \cup {<<>>}, Begin(p, kind, path, new)
      PROVE  IInv'
  BY <1>2, BeginStep
<1>3. ASSUME NEW p \in Proc, close(p) \/ readi(p)
      PROVE  IInv'
  BY <1>3, closeStep, readiStep
<1>4. ASSUME NEW p \in Proc, namex(p)
      PROVE  IInv'
  BY <1>4, namexStep
<1>5. ASSUME NEW p \in Proc, iput(p)
      PROVE  IInv'
  BY <1>5, iputStep
<1>6. ASSUME NEW p \in Proc, sys_open(p) \/ sys_chdir(p)
      PROVE  IInv'
  BY <1>6, sys_openStep, sys_chdirStep
<1>7. ASSUME NEW p \in Proc, create(p) \/ create_exists(p) \/ created(p)
      PROVE  IInv'
  BY <1>7, createStep, create_existsStep, createdStep
<1>8. ASSUME NEW p \in Proc, sys_symlink(p)
      PROVE  IInv'
  BY <1>8, sys_symlinkStep
<1>9. ASSUME NEW p \in Proc, sys_link(p) \/ dirlink(p) \/ link_exists(p) \/ link_bad(p)
      PROVE  IInv'
  BY <1>9, sys_linkStep, dirlinkStep, link_existsStep, link_badStep
<1>10. ASSUME NEW p \in Proc, sys_unlink(p) \/ unlink_ip(p) \/ unlink_bad(p) \/ unlinked(p)
       PROVE  IInv'
  BY <1>10, sys_unlinkStep, unlink_ipStep, unlink_badStep, unlinkedStep
<1>11. ASSUME NEW p \in Proc, readi_hop(p) \/ readi_end(p)
       PROVE  IInv'
  BY <1>11, readi_hopStep, readi_endStep
<1>12. CASE Next
  <2>1. PICK p \in Proc : Calls(p) \/ namex(p) \/ iput(p)
          \/ sys_open(p) \/ sys_chdir(p)
          \/ create(p) \/ create_exists(p) \/ created(p)
          \/ sys_symlink(p)
          \/ sys_link(p) \/ dirlink(p) \/ link_exists(p) \/ link_bad(p)
          \/ sys_unlink(p) \/ unlink_ip(p) \/ unlink_bad(p) \/ unlinked(p)
          \/ readi_hop(p) \/ readi_end(p)
    BY <1>12 DEF Next
  <2>2. CASE Calls(p)
    BY <1>2, <1>3, <2>2 DEF Calls
  <2> QED BY <1>4, <1>5, <1>6, <1>7, <1>8, <1>9, <1>10, <1>11, <2>1, <2>2
<1> QED BY <1>1, <1>12

\* The invariant holds of every run in which no program removes a directory that
\* another uses.
LEMMA SpecInv == ASSUME ~Intrude PROVE Spec => []IInv
<1>1. Init => IInv
  BY InitInv
<1>2. IInv /\ [Next]_vars => IInv'
  BY NextInv
<1> QED BY <1>1, <1>2, PTL DEF Spec

LEMMA InUse ==
  ASSUME IInv
  PROVE  InUseKept
<1>1. ASSUME NEW i \in Inum, Entries(i) # {}
      PROVE  inode[i].type # "free"
  BY <1>1, NamedKept
<1>2. ASSUME NEW p \in Proc, fd[p] # 0
      PROVE  inode[fd[p]].type # "free"
  <2>1. fd[p] \in Inum
    BY <1>2, Numbers DEF IInv, TypeOK
  <2> QED BY <2>1, HeldKept DEF IInv
<1> QED BY <1>1, <1>2 DEF InUseKept, IInv

\* The link counts, the entries and the reference counts of inodes never leave their
\* ranges: no count goes below zero, whatever calls interleave (fs.c, sysfile.c).
THEOREM TypesCorrect == ASSUME ~Intrude PROVE Spec => []TypeOK
<1>1. IInv => TypeOK
  BY DEF IInv
<1> QED BY <1>1, SpecInv, PTL

\* The link count of an inode is the number of its names and of the directories in
\* it, but for those that a link() is about to make or an unlink() has just removed:
\* link() counts a name before it looks up where to put it, and takes it back when
\* that fails, while others link, unlink and create (sysfile.c).
THEOREM LinksCounted == ASSUME ~Intrude PROVE Spec => []LinksExact
<1>1. IInv => LinksExact
  BY DEF IInv
<1> QED BY <1>1, SpecInv, PTL

\* An inode that has a name or is open is allocated: iput() frees none under another
\* call, so ilock() and unlink() do not panic (fs.c, sysfile.c).
THEOREM NamedInUse == ASSUME ~Intrude PROVE Spec => []InUseKept
<1>1. IInv => InUseKept
  BY InUse
<1> QED BY <1>1, SpecInv, PTL

\* An inode without a name is one that somebody refers to: the last iput() frees it,
\* and no order of unlink(), close() and failed calls leaves it behind, but for the
\* references that symlink() and readi() lose (fs.c, sysfile.c).
THEOREM NamelessReclaimed == ASSUME ~Intrude PROVE Spec => []Reclaimed
<1>1. IInv => Reclaimed
  BY DEF IInv
<1> QED BY <1>1, SpecInv, PTL
=============================================================================
