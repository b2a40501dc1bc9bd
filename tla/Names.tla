------------------------------- MODULE Names -------------------------------
(***************************************************************************)
(* Names, links and symbolic links of Project03-FileSystem: the inodes     *)
(* with their link counts, the references and locks of the inode cache,    *)
(* the lookup of paths, and the system calls that make, link and remove    *)
(* names (fs.c, sysfile.c).                                                *)
(*                                                                         *)
(* An action reaches from one ilock() or iput() of a call to the next:     *)
(* both take the sleep lock of the inode and may have to wait, and what is *)
(* in between is done under it.  An unlocked inode is the same in the      *)
(* cache and on the disk, since iupdate() follows every change, so there   *)
(* is one record of it; that a call is all or nothing is FSLog's matter.   *)
(***************************************************************************)
EXTENDS Naturals, Sequences, FiniteSets

CONSTANTS
  Proc,     \* processes
  NINODE,   \* inodes on the disk
  Name,     \* names of directory entries
  Paths,    \* the paths that programs use
  Kinds,    \* the calls that each process makes
  Intrude,  \* whether a program removes a directory that another is in or looks up,
            \* or makes a symbolic link of it while it makes the directory
  MaxHops,  \* symbolic links that readi() follows: 10 in the code
  MaxLeaks, \* references left behind, after which no call leaves more (bound)
  None

KindNames ==
  {"open", "create", "mkdir", "mknod", "link", "unlink", "symlink", "chdir"}
Dots == {".", ".."}

ASSUME NamesAssumption ==
  /\ IsFiniteSet(Proc) /\ IsFiniteSet(Name) /\ NINODE \in Nat \ {0} /\ Name \cap Dots = {}
  /\ Paths \subseteq Seq(Name \cup Dots) \ {<<>>} /\ Kinds \in [Proc -> SUBSET KindNames]
  /\ Intrude \in BOOLEAN /\ MaxHops \in Nat \ {0} /\ MaxLeaks \in Nat /\ None \notin Proc

Inum == 1..NINODE
ROOTINO == 1

VARIABLES
  inode,    \* type, nlink, the entries of a directory, the path in a link
  ref,      \* ip->ref
  lock,     \* the process that holds ip->lock
  fd,       \* the inode of the file that a process has open, or 0
  cwd,      \* its current directory
  proc,     \* where each process is in its system call
  leaked,   \* references to each inode that no call will put
  panicked

vars == <<inode, ref, lock, fd, cwd, proc, leaked, panicked>>

NoEntries == [n \in Name \cup Dots |-> 0]
Free == [type |-> "free", nlink |-> 0, ents |-> NoEntries, to |-> <<>>]

\* What a call remembers: the inode dp and name that namex() found, an inode ip
\* that it has a reference to, the references it puts next, and the path of a
\* link to be.
Idle == [pc |-> "idle", call |-> "none", path |-> <<>>, par |-> FALSE, dp |-> 0,
         name |-> ".", ip |-> 0, puts |-> <<>>, then |-> "idle", new |-> <<>>, old |-> <<>>,
         hops |-> 0]

Unlocked(i) == lock[i] = None
IsDir(i) == inode[i].type = "dir"
IsDirEmpty(i) == \A n \in Name : inode[i].ents[n] = 0

-----------------------------------------------------------------------------
(* fs.c                                                                    *)

\* One more reference: iget(), idup()
UncountedGet(i) == ref
Get(i) == [ref EXCEPT ![i] = @ + 1]

\* Process p enters namex(): from pc then on, dp is what it found, or 0.
namei(p, r, path, par, then) ==
  [r EXCEPT !.pc = "walk", !.path = path, !.par = par, !.dp = cwd[p], !.then = then]

\* One element of the path.  A reference to the next inode is taken under the
\* lock of the directory, and the one to the directory put after it.
namex(p) ==
  LET r    == proc[p]
      dp   == r.dp
      next == inode[dp].ents[Head(r.path)]
      Found(i) == [r EXCEPT !.pc = "put", !.puts = <<dp>>, !.dp = i,
                     !.path = IF i = 0 THEN <<>> ELSE Tail(@)]
  IN  /\ r.pc = "walk" /\ Unlocked(dp)
      /\ panicked' = (panicked \/ inode[dp].type = "free")
      /\ \/ /\ ~IsDir(dp) \/ (next = 0 /\ ~(r.par /\ Len(r.path) = 1))
            /\ proc' = [proc EXCEPT ![p] = Found(0)]
            /\ UNCHANGED ref
         \/ /\ IsDir(dp) /\ r.par /\ Len(r.path) = 1
            /\ proc' = [proc EXCEPT ![p] =
                 [r EXCEPT !.pc = r.then, !.name = Head(r.path), !.path = <<>>]]
            /\ UNCHANGED ref
         \/ /\ IsDir(dp) /\ next # 0 /\ ~(r.par /\ Len(r.path) = 1)
            /\ ref' = Get(next)
            /\ proc' = [proc EXCEPT ![p] = Found(next)]
      /\ UNCHANGED <<inode, lock, fd, cwd, leaked>>

\* Where a call goes on when its references are put
Resume(r) ==
  IF r.path # <<>> THEN [r EXCEPT !.pc = "walk"]
  ELSE IF r.then = "idle" THEN Idle ELSE [r EXCEPT !.pc = r.then]

\* The inode has no name and nobody else refers to it.
HastyLastPut(i) == inode[i].nlink = 0
LateLastPut(i) == inode[i].nlink = 0 /\ ref[i] = 0
LastPut(i) == inode[i].nlink = 0 /\ ref[i] = 1

\* iput() takes the lock even to look at the link count.
iput(p) ==
  LET r == proc[p]
      i == Head(r.puts)
      s == [r EXCEPT !.puts = Tail(@)]
  IN  /\ r.pc = "put" /\ Unlocked(i)
      /\ inode' = [inode EXCEPT ![i] = IF LastPut(i) THEN Free ELSE @]
      /\ ref' = [ref EXCEPT ![i] = @ - 1]
      /\ proc' = [proc EXCEPT ![p] = IF s.puts = <<>> THEN Resume(s) ELSE s]
      /\ UNCHANGED <<lock, fd, cwd, leaked, panicked>>

\* A call puts references and goes on, or ends
Put(r, list, then) == [r EXCEPT !.pc = "put", !.puts = list, !.then = then, !.path = <<>>]

-----------------------------------------------------------------------------
(* The calls up to their lookup                                            *)

\* How many references are lost
Leaks == LET Sum[i \in 0..NINODE] == IF i = 0 THEN 0 ELSE Sum[i - 1] + leaked[i]
         IN  Sum[NINODE]

Begin(p, kind, path, new) ==
  LET r == [Idle EXCEPT !.call = kind, !.new = new,
             !.old = IF kind = "symlink" THEN path ELSE <<>>]
      parent == kind \in {"create", "mkdir", "mknod", "unlink"}
      then == CASE kind \in {"create", "mkdir", "mknod"} -> "create"
                [] OTHER -> kind
  IN  /\ proc[p] = Idle
      /\ kind = "symlink" => Leaks < MaxLeaks
      /\ kind \in {"open", "create"} => fd[p] = 0
      /\ (new # <<>>) = (kind \in {"link", "symlink"})
      /\ ref' = Get(cwd[p])
      /\ proc' = [proc EXCEPT ![p] = namei(p, r, path, parent, then)]
      /\ UNCHANGED <<inode, lock, fd, cwd, leaked, panicked>>

\* fileclose() of the last descriptor
close(p) ==
  /\ proc[p] = Idle /\ fd[p] # 0
  /\ fd' = [fd EXCEPT ![p] = 0]
  /\ proc' = [proc EXCEPT ![p] = Put(Idle, <<fd[p]>>, "idle")]
  /\ UNCHANGED <<inode, ref, lock, cwd, leaked, panicked>>

At(p, pc) == proc[p].pc = pc
Fails(p) == proc' = [proc EXCEPT ![p] = Idle]

-----------------------------------------------------------------------------
(* open, chdir                                                             *)

sys_open(p) ==
  LET ip == proc[p].dp
  IN  /\ At(p, "open")
      /\ \/ /\ ip = 0 /\ Fails(p) /\ UNCHANGED <<fd, panicked>>
         \/ /\ ip # 0 /\ Unlocked(ip)
            /\ panicked' = (panicked \/ inode[ip].type = "free")
            /\ fd' = [fd EXCEPT ![p] = ip]
            /\ Fails(p)
         \/ /\ ip # 0 /\ Unlocked(ip)        \* a directory, or no descriptor left
            /\ proc' = [proc EXCEPT ![p] = Put(@, <<ip>>, "idle")]
            /\ UNCHANGED <<fd, panicked>>
      /\ UNCHANGED <<inode, ref, lock, cwd, leaked>>

sys_chdir(p) ==
  LET ip == proc[p].dp
  IN  /\ At(p, "chdir")
      /\ \/ /\ ip = 0 /\ Fails(p) /\ UNCHANGED cwd
         \/ /\ ip # 0 /\ Unlocked(ip) /\ ~IsDir(ip)
            /\ proc' = [proc EXCEPT ![p] = Put(@, <<ip>>, "idle")]
            /\ UNCHANGED cwd
         \/ /\ ip # 0 /\ Unlocked(ip) /\ IsDir(ip)
            /\ proc' = [proc EXCEPT ![p] = Put(@, <<cwd[p]>>, "idle")]
            /\ cwd' = [cwd EXCEPT ![p] = ip]
      /\ UNCHANGED <<inode, ref, lock, fd, leaked, panicked>>

-----------------------------------------------------------------------------
(* create() and the calls that use it                                      *)

TypeOf == [create |-> "file", mkdir |-> "dir", mknod |-> "dev", symlink |-> "symlink"]

\* A new inode: ialloc(), the entries of a directory, and dirlink()
MadeIn(dp, i, name, type) ==
  [inode EXCEPT
    ![i] = [Free EXCEPT !.type = type, !.nlink = 1,
              !.ents = IF type = "dir" THEN [@ EXCEPT !["."] = i, ![".."] = dp] ELSE @],
    ![dp].ents[name] = i,
    ![dp].nlink = IF type = "dir" THEN @ + 1 ELSE @]

\* Under the lock of the directory
create(p) ==
  LET r  == proc[p]
      dp == r.dp
      i  == inode[dp].ents[r.name]
      Unused == {j \in Inum : inode[j].type = "free"}
      new == CHOOSE j \in Unused : \A k \in Unused : j <= k
  IN  /\ At(p, "create")
      /\ \/ /\ dp = 0 /\ Fails(p)
            /\ UNCHANGED <<inode, ref, lock, panicked>>
         \/ /\ dp # 0 /\ Unlocked(dp)
            /\ panicked' = (panicked \/ inode[dp].type = "free")
            /\ \/ /\ i # 0
                  /\ Intrude \/ r.call # "symlink" \/ ~IsDir(i)
                  /\ lock' = [lock EXCEPT ![dp] = p]
                  /\ ref' = Get(i)
                  /\ proc' = [proc EXCEPT ![p] = [r EXCEPT !.pc = "exists", !.ip = i]]
                  /\ UNCHANGED inode
               \/ /\ i = 0 /\ Unused # {}
                  /\ inode' = MadeIn(dp, new, r.name, TypeOf[r.call])
                  /\ ref' = Get(new)
                  /\ lock' = [lock EXCEPT ![new] = p]
                  /\ proc' = [proc EXCEPT ![p] = Put([r EXCEPT !.ip = new], <<dp>>, "created")]
      /\ UNCHANGED <<fd, cwd, leaked>>

\* The name is there: the inode is locked before the directory is let go.
create_exists(p) ==
  LET r == proc[p]
      i == r.ip
  IN  /\ At(p, "exists") /\ Unlocked(i)
      /\ lock' = [lock EXCEPT ![i] = p, ![r.dp] = None]
      /\ inode' = [inode EXCEPT ![i].type = IF r.call = "symlink" THEN "symlink" ELSE @]
      /\ proc' = [proc EXCEPT ![p] = Put(r, <<r.dp>>,
           IF r.call = "symlink" \/ (r.call = "create" /\ inode[i].type = "file")
           THEN "created" ELSE "refused")]
      /\ panicked' = (panicked \/ inode[i].type = "free")
      /\ UNCHANGED <<ref, fd, cwd, leaked>>

\* The caller has the inode locked: open() keeps the reference in its file,
\* symlink() only forgets it, and the others put it.
created(p) ==
  LET r == proc[p]
      i == r.ip
  IN  /\ At(p, "created") \/ At(p, "refused")
      /\ lock' = [lock EXCEPT ![i] = None]
      /\ \/ /\ At(p, "created") /\ r.call = "create"
            /\ fd' = [fd EXCEPT ![p] = i]
            /\ Fails(p) /\ UNCHANGED <<inode, leaked>>
         \/ /\ At(p, "created") /\ r.call = "symlink"
            /\ inode' = [inode EXCEPT ![i].to = r.old]
            /\ leaked' = [leaked EXCEPT ![i] = @ + 1]
            /\ Fails(p) /\ UNCHANGED fd
         \/ /\ At(p, "refused") \/ r.call # "symlink"  \* no descriptor left, mkdir, mknod
            /\ proc' = [proc EXCEPT ![p] = Put(@, <<i>>, "idle")]
            /\ UNCHANGED <<inode, fd, leaked>>
      /\ UNCHANGED <<ref, cwd, panicked>>

\* symlink(old, new): neither of the inodes that are looked up is put.
sys_symlink(p) ==
  LET r == proc[p]
      Leak == leaked' = [leaked EXCEPT ![r.dp] = @ + 1]
  IN  /\ \/ /\ At(p, "symlink") /\ r.dp = 0
            /\ Fails(p) /\ UNCHANGED <<ref, leaked>>
         \/ /\ At(p, "symlink") /\ r.dp # 0 /\ Leak
            /\ ref' = Get(cwd[p])
            /\ proc' = [proc EXCEPT ![p] = namei(p, r, r.new, FALSE, "symlink_new")]
         \/ /\ At(p, "symlink_new") /\ r.dp # 0 /\ Leak
            /\ Fails(p) /\ UNCHANGED ref
         \/ /\ At(p, "symlink_new") /\ r.dp = 0
            /\ ref' = Get(cwd[p])
            /\ proc' = [proc EXCEPT ![p] = namei(p, r, r.new, TRUE, "create")]
            /\ UNCHANGED leaked
      /\ UNCHANGED <<inode, lock, fd, cwd, panicked>>

-----------------------------------------------------------------------------
(* link and unlink                                                         *)

\* The link count is raised before the new name is looked up.
sys_link(p) ==
  LET ip == proc[p].dp
  IN  /\ At(p, "link")
      /\ \/ /\ ip = 0 /\ Fails(p) /\ UNCHANGED <<inode, ref>>
         \/ /\ ip # 0 /\ Unlocked(ip) /\ IsDir(ip)
            /\ proc' = [proc EXCEPT ![p] = Put(@, <<ip>>, "idle")]
            /\ UNCHANGED <<inode, ref>>
         \/ /\ ip # 0 /\ Unlocked(ip) /\ ~IsDir(ip)
            /\ inode' = [inode EXCEPT ![ip].nlink = @ + 1]
            /\ ref' = Get(cwd[p])
            /\ proc' = [proc EXCEPT ![p] =
                 namei(p, [@ EXCEPT !.ip = ip], @.new, TRUE, "dirlink")]
      /\ UNCHANGED <<lock, fd, cwd, leaked, panicked>>

dirlink(p) ==
  LET r  == proc[p]
      dp == r.dp
      i  == inode[dp].ents[r.name]
  IN  /\ At(p, "dirlink")
      /\ \/ /\ dp = 0
            /\ proc' = [proc EXCEPT ![p].pc = "link_bad"]
            /\ UNCHANGED <<inode, ref, lock>>
         \/ /\ dp # 0 /\ Unlocked(dp) /\ i = 0
            /\ inode' = [inode EXCEPT ![dp].ents[r.name] = r.ip]
            /\ proc' = [proc EXCEPT ![p] = Put(r, <<dp, r.ip>>, "idle")]
            /\ UNCHANGED <<ref, lock>>
         \/ /\ dp # 0 /\ Unlocked(dp) /\ i # 0
            /\ lock' = [lock EXCEPT ![dp] = p]
            /\ ref' = Get(i)
            /\ proc' = [proc EXCEPT ![p] = Put(r, <<i>>, "link_exists")]
            /\ UNCHANGED inode
      /\ UNCHANGED <<fd, cwd, leaked, panicked>>

link_exists(p) ==
  LET r == proc[p]
  IN  /\ At(p, "link_exists")
      /\ lock' = [lock EXCEPT ![r.dp] = None]
      /\ proc' = [proc EXCEPT ![p] = Put(r, <<r.dp>>, "link_bad")]
      /\ UNCHANGED <<inode, ref, fd, cwd, leaked, panicked>>

Plainlink_bad(p) ==
  LET i == proc[p].ip
  IN  /\ At(p, "link_bad") /\ Unlocked(i)
      /\ proc' = [proc EXCEPT ![p] = Put(@, <<i>>, "idle")]
      /\ UNCHANGED <<inode, ref, lock, fd, cwd, leaked, panicked>>
link_bad(p) ==
  LET i == proc[p].ip
  IN  /\ At(p, "link_bad") /\ Unlocked(i)
      /\ inode' = [inode EXCEPT ![i].nlink = @ - 1]
      /\ proc' = [proc EXCEPT ![p] = Put(@, <<i>>, "idle")]
      /\ UNCHANGED <<ref, lock, fd, cwd, leaked, panicked>>

sys_unlink(p) ==
  LET r  == proc[p]
      dp == r.dp
      i  == inode[dp].ents[r.name]
  IN  /\ At(p, "unlink")
      /\ \/ /\ dp = 0 /\ Fails(p) /\ UNCHANGED <<ref, lock>>
         \/ /\ dp # 0 /\ Unlocked(dp) /\ (r.name \in Dots \/ i = 0)
            /\ proc' = [proc EXCEPT ![p] = Put(r, <<dp>>, "idle")]
            /\ UNCHANGED <<ref, lock>>
         \/ /\ dp # 0 /\ Unlocked(dp) /\ r.name \notin Dots /\ i # 0
            /\ lock' = [lock EXCEPT ![dp] = p]
            /\ ref' = Get(i)
            /\ proc' = [proc EXCEPT ![p] = [r EXCEPT !.pc = "unlink_ip", !.ip = i]]
      /\ UNCHANGED <<inode, fd, cwd, leaked, panicked>>

\* The entry is removed with both inodes locked; the directory is put before the
\* link count goes down.
unlink_ip(p) ==
  LET r  == proc[p]
      dp == r.dp
      i  == r.ip
  IN  /\ At(p, "unlink_ip") /\ Unlocked(i)
      /\ panicked' = (panicked \/ inode[i].nlink < 1)
      /\ \/ /\ IsDir(i) /\ ~IsDirEmpty(i)
            /\ proc' = [proc EXCEPT ![p] = Put(r, <<i>>, "unlink_bad")]
            /\ UNCHANGED <<inode, lock>>
         \/ /\ ~IsDir(i) \/ (IsDirEmpty(i) /\ (Intrude \/ ref[i] = 1))
            /\ inode' = [inode EXCEPT ![dp].ents[r.name] = 0,
                           ![dp].nlink = IF IsDir(i) THEN @ - 1 ELSE @]
            /\ lock' = [lock EXCEPT ![dp] = None, ![i] = p]
            /\ proc' = [proc EXCEPT ![p] = Put(r, <<dp>>, "unlinked")]
      /\ UNCHANGED <<ref, fd, cwd, leaked>>

unlink_bad(p) ==
  LET dp == proc[p].dp
  IN  /\ At(p, "unlink_bad")
      /\ lock' = [lock EXCEPT ![dp] = None]
      /\ proc' = [proc EXCEPT ![p] = Put(@, <<dp>>, "idle")]
      /\ UNCHANGED <<inode, ref, fd, cwd, leaked, panicked>>

unlinked(p) ==
  LET i == proc[p].ip
  IN  /\ At(p, "unlinked")
      /\ inode' = [inode EXCEPT ![i].nlink = @ - 1]
      /\ lock' = [lock EXCEPT ![i] = None]
      /\ proc' = [proc EXCEPT ![p] = Put(@, <<i>>, "idle")]
      /\ UNCHANGED <<ref, fd, cwd, leaked, panicked>>

-----------------------------------------------------------------------------
(* Reading and writing through a symbolic link                             *)

\* readi() and writei() look up the path in the link and do not put what they
\* find, not even when that is another link.
readi(p) ==
  LET i == fd[p]
  IN  /\ proc[p] = Idle /\ i # 0 /\ Leaks <= MaxLeaks
      /\ inode[i].type = "symlink" /\ Unlocked(i)
      /\ ref' = Get(cwd[p])
      /\ proc' = [proc EXCEPT ![p] = namei(p,
           [Idle EXCEPT !.call = "read", !.ip = i, !.hops = 1], inode[i].to, FALSE, "readi")]
      /\ UNCHANGED <<inode, lock, fd, cwd, leaked, panicked>>

readi_hop(p) ==
  LET r == proc[p]
      i == r.dp
  IN  /\ At(p, "readi")
      /\ \/ /\ i = 0
            /\ proc' = [proc EXCEPT ![p].pc = "readi_end"]
            /\ UNCHANGED <<ref, leaked>>
         \/ /\ i # 0 /\ Unlocked(i)
            /\ leaked' = [leaked EXCEPT ![i] = @ + 1]
            /\ IF inode[i].type = "symlink" /\ r.hops < MaxHops
               THEN /\ ref' = Get(cwd[p])
                    /\ proc' = [proc EXCEPT ![p] = namei(p,
                         [r EXCEPT !.hops = @ + 1], inode[i].to, FALSE, "readi")]
               ELSE /\ proc' = [proc EXCEPT ![p].pc = "readi_end"]
                    /\ UNCHANGED ref
      /\ panicked' = (panicked \/ (i # 0 /\ inode[i].type = "free"))
      /\ UNCHANGED <<inode, lock, fd, cwd>>

\* The first link is locked again for the caller.
readi_end(p) ==
  /\ At(p, "readi_end") /\ Unlocked(proc[p].ip)
  /\ Fails(p)
  /\ UNCHANGED <<inode, ref, lock, fd, cwd, leaked, panicked>>

-----------------------------------------------------------------------------
(* The specification                                                       *)

\* mkfs makes the root directory; every process starts in it.
Init ==
  /\ inode = [i \in Inum |-> IF i # ROOTINO THEN Free ELSE
       [Free EXCEPT !.type = "dir", !.nlink = 1, !.ents["."] = ROOTINO, !.ents[".."] = ROOTINO]]
  /\ ref = [i \in Inum |-> IF i = ROOTINO THEN Cardinality(Proc) ELSE 0]
  /\ lock = [i \in Inum |-> None]
  /\ fd = [p \in Proc |-> 0]
  /\ cwd = [p \in Proc |-> ROOTINO]
  /\ proc = [p \in Proc |-> Idle]
  /\ leaked = [i \in Inum |-> 0]
  /\ panicked = FALSE

Calls(p) ==
  \/ \E kind \in Kinds[p], path \in Paths, new \in Paths \cup {<<>>} : Begin(p, kind, path, new)
  \/ close(p)
  \/ readi(p)

Next == \E p \in Proc :
  \/ Calls(p)
  \/ namex(p) \/ iput(p)
  \/ sys_open(p) \/ sys_chdir(p)
  \/ create(p) \/ create_exists(p) \/ created(p)
  \/ sys_symlink(p)
  \/ sys_link(p) \/ dirlink(p) \/ link_exists(p) \/ link_bad(p)
  \/ sys_unlink(p) \/ unlink_ip(p) \/ unlink_bad(p) \/ unlinked(p)
  \/ readi_hop(p) \/ readi_end(p)

Spec == Init /\ [][Next]_vars

-----------------------------------------------------------------------------
(* Properties                                                              *)

Types == {"free", "dir", "file", "dev", "symlink"}

\* The fields have the types of fs.h and file.h.
TypeOK ==
  /\ inode \in [Inum -> [type : Types, nlink : Nat, ents : [Name \cup Dots -> 0..NINODE],
                         to : Paths \cup {<<>>}]]
  /\ ref \in [Inum -> Nat] /\ leaked \in [Inum -> Nat]
  /\ lock \in [Inum -> Proc \cup {None}]
  /\ fd \in [Proc -> 0..NINODE] /\ cwd \in [Proc -> Inum]
  /\ \A p \in Proc : proc[p].dp \in 0..NINODE /\ proc[p].ip \in 0..NINODE
  /\ panicked \in BOOLEAN

\* Entries that name inode i
Entries(i) == {e \in Inum \X Name : IsDir(e[1]) /\ inode[e[1]].ents[e[2]] = i}
Subdirs(i) == {d \in Inum : IsDir(d) /\ Entries(d) # {} /\ inode[d].ents[".."] = i}

\* link() counts the name it will make, unlink() the one it has removed.
Counted(p, i) ==
  /\ proc[p].ip = i
  /\ \/ proc[p].call = "link" /\ proc[p].then # "idle"
     \/ proc[p].call = "unlink" /\ proc[p].then = "unlinked"

\* The link count of an inode is the number of its names, and of the directories in
\* it, once no link() or unlink() is on its way, however such calls interleave.
LinksExact ==
  \A i \in Inum : inode[i].nlink =
      Cardinality(Entries(i)) + Cardinality(Subdirs(i))
    + (IF i = ROOTINO THEN 1 ELSE 0) + Cardinality({p \in Proc : Counted(p, i)})

\* A name names an inode that is allocated, and so does an open file: nobody frees
\* an inode under them.  So ilock() finds no inode without a type, and unlink() none
\* without links: neither panics (fs.c, sysfile.c).
InUseKept ==
  /\ ~panicked
  /\ \A i \in Inum : Entries(i) # {} => inode[i].type # "free"
  /\ \A p \in Proc : fd[p] # 0 => inode[fd[p]].type # "free"

\* An inode without names goes when its last reference does.
Reclaimed ==
  \A i \in Inum : inode[i].type # "free" /\ inode[i].nlink = 0 => ref[i] > 0

\* Process p waits for the lock of inode i.
Waits(p, i) == lock[i] # None /\
  LET r == proc[p] IN
  \/ r.pc = "put" /\ Head(r.puts) = i
  \/ r.pc \in {"walk", "open", "chdir", "create", "link", "dirlink", "unlink", "readi"} /\ r.dp = i
  \/ r.pc \in {"exists", "link_bad", "unlink_ip", "readi_end"} /\ r.ip = i

\* No processes wait for each other's inodes, and none for its own (fs.c:155: "The
\* separation also helps avoid deadlock").
NoDeadlock ==
  ~ \E S \in SUBSET Proc : S # {} /\
      \A p \in S : \E i \in Inum : Waits(p, i) /\ lock[i] \in S
=============================================================================
