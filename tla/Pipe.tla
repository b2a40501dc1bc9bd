-------------------------------- MODULE Pipe --------------------------------
(***************************************************************************)
(* Open files and pipes of Project03-FileSystem: the file table and the    *)
(* descriptors of the processes that refer to it (file.c, sysfile.c), and  *)
(* the ring of bytes between a writing and a reading end (pipe.c).  A file *)
(* that is no pipe only takes an entry; its inode is Names' matter.        *)
(*                                                                         *)
(* An action is one section under ftable.lock or under the lock of a pipe. *)
(* A section that ends in sleep() is cut at the test of p->killed: kill()  *)
(* takes only ptable.lock and can come between that test and the sleep.    *)
(***************************************************************************)
EXTENDS Naturals, Sequences, FiniteSets

CONSTANTS
  Proc,      \* processes
  first,     \* the one that is there at the start
  NFILE,     \* entries of the file table
  NOFILE,    \* descriptors of a process
  Pages,     \* pages that kalloc() has for pipes
  PIPESIZE,  \* bytes in a pipe
  WRAP,      \* nread and nwrite are counted modulo this: 2^32 in the code
  ReadSizes, WriteSizes, \* the numbers of bytes that are read and written
  Killable,  \* the processes that are killed
  None

ASSUME PipeAssumption ==
  /\ NFILE \in Nat \ {0} /\ NOFILE \in Nat \ {0} /\ PIPESIZE \in Nat \ {0}
  /\ WRAP \in Nat /\ WRAP > PIPESIZE /\ WRAP % PIPESIZE = 0
  /\ ReadSizes \cup WriteSizes \subseteq Nat \ {0} /\ None \notin Pages
  /\ first \in Proc /\ Killable \subseteq Proc /\ IsFiniteSet(Proc)

VARIABLES
  file,    \* ftable: references, the pipe behind the file, and whether it is its writing end
  ofile,   \* the descriptors of each process: a file, or 0
  pipe,    \* struct pipe in a page that has one
  proc,    \* where each process is
  killed,  \* p->killed
  cut      \* pipes that a killed writer has filled and left

vars == <<file, ofile, pipe, proc, killed, cut>>

File == 1..NFILE
Byte == 0..WRAP - 1
FD == 0..NOFILE - 1

\* Where a process is: the pipe it is at, the bytes it still has to move, the files
\* that it is about to close, and where it goes then.
Unused == [at |-> "unused", pg |-> None, n |-> 0, files |-> <<>>, then |-> "user", wr |-> FALSE]
User == [Unused EXCEPT !.at = "user"]
NoFile == [ref |-> 0, pipe |-> None, writable |-> FALSE]
NoPipe == [used |-> FALSE, readopen |-> FALSE, writeopen |-> FALSE, nread |-> 0, nwrite |-> 0,
           data |-> [i \in 0..PIPESIZE - 1 |-> None]]

\* Process p goes on at another place
Goto(p, r) == proc' = [proc EXCEPT ![p] = r]

\* Somebody is between the test and the sleep, with the lock of the pipe in its hands.
DroppedLocked(g) == FALSE
Locked(g) == \E p \in Proc : proc[p].pg = g /\ proc[p].at \in {"dozeread", "dozewrite"}

\* wakeup(): who sleeps on one end of the pipe takes its lock again.
wakeup(ps, g, at, again) ==
  [q \in Proc |-> IF ps[q].at = at /\ ps[q].pg = g THEN [ps[q] EXCEPT !.at = again] ELSE ps[q]]
wakeupReaders(ps, g) == wakeup(ps, g, "sleepread", "read")
wakeupWriters(ps, g) == wakeup(ps, g, "sleepwrite", "write")

-----------------------------------------------------------------------------
(* pipe.c                                                                  *)

Carry(x, k) == x + k
Advance(x, k) == (x + k) % WRAP
Empty(g) == pipe[g].nread = pipe[g].nwrite
Full(g) == pipe[g].nwrite = Advance(pipe[g].nread, PIPESIZE)
Held(g) == (pipe[g].nwrite + WRAP - pipe[g].nread) % WRAP

\* The code does not look at the bytes it moves: one is the count at which it is
\* written, so that no two in the ring, nor a new and the stale one below it, are
\* the same.
Buffer(g, k) == [j \in 1..k |-> Advance(pipe[g].nwrite, j - 1)]

\* Bytes s go into the ring, one after the other.
Put(g, s) ==
  LET d == pipe[g]
      at(j) == (d.nwrite + j - 1) % PIPESIZE
  IN  [d EXCEPT !.nwrite = Advance(@, Len(s)),
         !.data = [i \in DOMAIN @ |->
           IF \E j \in 1..Len(s) : at(j) = i
           THEN s[CHOOSE j \in 1..Len(s) : at(j) = i /\ \A k \in j+1..Len(s) : at(k) # i]
           ELSE @[i]]]

Excess(g, n) == IF n < PIPESIZE THEN n ELSE PIPESIZE
Fits(g, n) == IF n < PIPESIZE - Held(g) THEN n ELSE PIPESIZE - Held(g)

\* What fits is written; a full pipe with bytes left over is left for good when
\* nobody reads it, and slept on otherwise.  Readers are woken before the sleep
\* and at the end.
pipewrite(p) ==
  LET r == proc[p]
      g == r.pg
      k == Fits(g, r.n)
      left == [r EXCEPT !.n = @ - k]
      stop == ~pipe[g].readopen \/ killed[p]
  IN  /\ r.at = "write" /\ ~Locked(g)
      /\ pipe' = [pipe EXCEPT ![g] = Put(g, Buffer(g, k))]
      /\ \/ k = r.n /\ proc' = wakeupReaders([proc EXCEPT ![p] = User], g)
         \/ k < r.n /\ stop /\ Goto(p, User)
         \/ /\ k < r.n /\ ~stop
            /\ proc' = wakeupReaders([proc EXCEPT ![p] = [left EXCEPT !.at = "dozewrite"]], g)
      /\ cut' = IF k < r.n /\ killed[p] THEN cut \cup {g} ELSE cut \ {g}
      /\ UNCHANGED <<file, ofile, killed>>

piperead(p) ==
  LET r == proc[p]
      g == r.pg
      k == IF r.n < Held(g) THEN r.n ELSE Held(g)
      waits == Empty(g) /\ pipe[g].writeopen
  IN  /\ r.at = "read" /\ ~Locked(g)
      /\ \/ waits /\ killed[p] /\ Goto(p, User) /\ UNCHANGED pipe
         \/ waits /\ ~killed[p] /\ Goto(p, [r EXCEPT !.at = "dozeread"]) /\ UNCHANGED pipe
         \/ /\ ~waits
            /\ pipe' = [pipe EXCEPT ![g].nread = Advance(@, k)]
            /\ proc' = wakeupWriters([proc EXCEPT ![p] = User], g)
      /\ UNCHANGED <<file, ofile, killed, cut>>

\* sleep(&p->nread, &p->lock), sleep(&p->nwrite, &p->lock)
sleep(p) ==
  /\ \/ proc[p].at = "dozeread" /\ Goto(p, [proc[p] EXCEPT !.at = "sleepread"])
     \/ proc[p].at = "dozewrite" /\ Goto(p, [proc[p] EXCEPT !.at = "sleepwrite"])
  /\ UNCHANGED <<file, ofile, pipe, killed, cut>>

\* A process closes the files fs, one after the other, and goes on at then.
CloseAll(r, fs) ==
  IF fs # <<>> THEN [r EXCEPT !.at = "close", !.pg = None, !.files = fs]
  ELSE IF r.then = "exit" THEN Unused ELSE User

CloseWakes(ps, g, writable) ==
  IF writable THEN wakeupReaders(ps, g) ELSE wakeupWriters(ps, g)

\* One end of the pipe is closed for good; the page goes back with the second.
pipeclose(p) ==
  LET r == proc[p]
      g == r.pg
      d == IF r.wr THEN [pipe[g] EXCEPT !.writeopen = FALSE]
           ELSE [pipe[g] EXCEPT !.readopen = FALSE]
      gone == ~d.readopen /\ ~d.writeopen
  IN  /\ r.at = "pipeclose" /\ ~Locked(g)
      /\ pipe' = [pipe EXCEPT ![g] = IF gone THEN NoPipe ELSE d]
      /\ cut' = IF r.wr \/ gone THEN cut \ {g} ELSE cut
      /\ proc' = CloseWakes([proc EXCEPT ![p] = CloseAll(r, r.files)], g, r.wr)
      /\ UNCHANGED <<file, ofile, killed>>

-----------------------------------------------------------------------------
(* file.c                                                                  *)

\* The first entry of the file table that nobody refers to, or 0
FreeFile ==
  IF \E f \in File : file[f].ref = 0
  THEN CHOOSE f \in File : file[f].ref = 0 /\ \A e \in 1..f-1 : file[e].ref > 0
  ELSE 0

filealloc(f) == file' = [file EXCEPT ![f].ref = 1]

\* One more reference to every file of the bag fs
Unfiledup(fs) == file
filedup(fs) == [f \in File |-> [file[f] EXCEPT !.ref = @ + fs[f]]]

\* The last reference takes the entry back; the pipe behind it is closed after the
\* lock of the table is released.
fileclose(p) ==
  LET r == proc[p]
      f == Head(r.files)
      last == file[f].ref = 1
  IN  /\ r.at = "close"
      /\ file' = [file EXCEPT ![f] = IF last THEN NoFile ELSE [@ EXCEPT !.ref = file[f].ref - 1]]
      /\ IF last /\ file[f].pipe # None
         THEN Goto(p, [r EXCEPT !.at = "pipeclose", !.pg = file[f].pipe,
                         !.wr = file[f].writable, !.files = Tail(@)])
         ELSE Goto(p, CloseAll(r, Tail(r.files)))
      /\ UNCHANGED <<ofile, pipe, killed, cut>>

-----------------------------------------------------------------------------
(* pipealloc() and the system calls                                        *)

\* Before and after a system call a killed process exits.
MayCall(p) == proc[p] = User /\ ~killed[p]

\* The lowest n descriptors that are free, in order
FreeFDs(p) == {d \in FD : ofile[p][d] = 0}
Lowest(S) == CHOOSE d \in S : \A e \in S : d <= e

\* sys_pipe(): first one file, then the other, then the page; what it has is
\* given back when the next cannot be had.
sys_pipe(p) ==
  /\ MayCall(p) /\ FreeFile # 0
  /\ filealloc(FreeFile)
  /\ Goto(p, [User EXCEPT !.at = "pipealloc", !.files = <<FreeFile>>])
  /\ UNCHANGED <<ofile, pipe, killed, cut>>

pipealloc_second(p) ==
  LET r == proc[p]
  IN  /\ r.at = "pipealloc" /\ Len(r.files) = 1
      /\ IF FreeFile = 0 THEN Goto(p, CloseAll(r, r.files)) /\ UNCHANGED file
         ELSE /\ filealloc(FreeFile)
              /\ Goto(p, [r EXCEPT !.files = Append(@, FreeFile)])
      /\ UNCHANGED <<ofile, pipe, killed, cut>>

\* The page is had or not.  Nobody else knows it or the two files before the
\* descriptors are handed out; without two descriptors both files are closed.
pipealloc(p) ==
  LET r == proc[p]
      rf == r.files[1]
      wf == r.files[2]
      fd0 == Lowest(FreeFDs(p))
      fd1 == Lowest(FreeFDs(p) \ {fd0})
  IN  /\ r.at = "pipealloc" /\ Len(r.files) = 2
      /\ \/ /\ \A g \in Pages : pipe[g].used
            /\ Goto(p, CloseAll(r, r.files))
            /\ UNCHANGED <<file, ofile, pipe>>
         \/ \E g \in Pages :
              /\ ~pipe[g].used
              /\ pipe' = [pipe EXCEPT ![g] =
                   [NoPipe EXCEPT !.used = TRUE, !.readopen = TRUE, !.writeopen = TRUE]]
              /\ file' = [file EXCEPT ![rf].pipe = g, ![rf].writable = FALSE,
                                      ![wf].pipe = g, ![wf].writable = TRUE]
              /\ IF Cardinality(FreeFDs(p)) >= 2
                 THEN /\ ofile' = [ofile EXCEPT ![p][fd0] = rf, ![p][fd1] = wf]
                      /\ Goto(p, User)
                 ELSE Goto(p, CloseAll(r, r.files)) /\ UNCHANGED ofile
      /\ UNCHANGED <<killed, cut>>

sys_dup(p) == \E d \in FD :
  /\ MayCall(p) /\ ofile[p][d] # 0 /\ FreeFDs(p) # {}
  /\ ofile' = [ofile EXCEPT ![p][Lowest(FreeFDs(p))] = ofile[p][d]]
  /\ file' = filedup([f \in File |-> IF f = ofile[p][d] THEN 1 ELSE 0])
  /\ UNCHANGED <<pipe, proc, killed, cut>>

sys_close(p) == \E d \in FD :
  /\ MayCall(p) /\ ofile[p][d] # 0
  /\ ofile' = [ofile EXCEPT ![p][d] = 0]
  /\ Goto(p, CloseAll(User, <<ofile[p][d]>>))
  /\ UNCHANGED <<file, pipe, killed, cut>>

\* fileread() and filewrite() turn away from the wrong end.
sys_read(p) == \E d \in FD, n \in ReadSizes :
  LET f == ofile[p][d]
  IN  /\ MayCall(p) /\ f # 0 /\ file[f].pipe # None /\ ~file[f].writable
      /\ Goto(p, [User EXCEPT !.at = "read", !.pg = file[f].pipe, !.n = n])
      /\ UNCHANGED <<file, ofile, pipe, killed, cut>>

sys_write(p) == \E d \in FD, n \in WriteSizes :
  LET f == ofile[p][d]
  IN  /\ MayCall(p) /\ f # 0 /\ file[f].writable
      /\ Goto(p, [User EXCEPT !.at = "write", !.pg = file[f].pipe, !.n = n])
      /\ UNCHANGED <<file, ofile, pipe, killed, cut>>

-----------------------------------------------------------------------------
(* proc.c                                                                  *)

\* The child has every descriptor of its parent.  The parent keeps its own
\* references meanwhile, so that the filedup() calls can be one step.
fork(p, q) ==
  /\ MayCall(p) /\ proc[q] = Unused
  /\ ofile' = [ofile EXCEPT ![q] = ofile[p]]
  /\ file' = filedup([f \in File |-> Cardinality({d \in FD : ofile[p][d] = f})])
  /\ Goto(q, User)
  /\ UNCHANGED <<pipe, killed, cut>>

\* The files are closed in the order of their descriptors, which nobody else
\* looks at.  The entry of the process is free when wait() has found it: here,
\* when its files are closed.  Nobody looks at p->killed from here to the
\* wait() that clears it.
exit(p) ==
  LET open == {d \in FD : ofile[p][d] # 0}
      nth[i \in 1..Cardinality(open)] ==
        CHOOSE d \in open : Cardinality({e \in open : e <= d}) = i
  IN  /\ proc[p] = User
      /\ ofile' = [ofile EXCEPT ![p] = [d \in FD |-> 0]]
      /\ Goto(p, CloseAll([User EXCEPT !.then = "exit"],
                          [i \in 1..Cardinality(open) |-> ofile[p][nth[i]]]))
      /\ killed' = [killed EXCEPT ![p] = FALSE]
      /\ UNCHANGED <<file, pipe, cut>>

kill(q) ==
  /\ q \in Killable /\ proc[q] # Unused /\ proc[q].then # "exit" /\ ~killed[q]
  /\ killed' = [killed EXCEPT ![q] = TRUE]
  /\ \/ proc[q].at = "sleepread" /\ Goto(q, [proc[q] EXCEPT !.at = "read"])
     \/ proc[q].at = "sleepwrite" /\ Goto(q, [proc[q] EXCEPT !.at = "write"])
     \/ proc[q].at \notin {"sleepread", "sleepwrite"} /\ UNCHANGED proc
  /\ UNCHANGED <<file, ofile, pipe, cut>>

-----------------------------------------------------------------------------
\* The first process has one file, the console, which is no pipe.
Init ==
  /\ file = [f \in File |-> IF f = 1 THEN [NoFile EXCEPT !.ref = 1] ELSE NoFile]
  /\ ofile = [p \in Proc |-> [d \in FD |-> IF p = first /\ d = 0 THEN 1 ELSE 0]]
  /\ pipe = [g \in Pages |-> NoPipe]
  /\ proc = [p \in Proc |-> IF p = first THEN User ELSE Unused]
  /\ killed = [p \in Proc |-> FALSE]
  /\ cut = {}

Syscall(p) ==
  \/ sys_pipe(p) \/ sys_dup(p) \/ sys_close(p) \/ sys_read(p) \/ sys_write(p)
  \/ exit(p) \/ \E q \in Proc : fork(p, q)

Section(p) ==
  \/ pipealloc_second(p) \/ pipealloc(p) \/ fileclose(p) \/ pipeclose(p)
  \/ pipewrite(p) \/ piperead(p) \/ sleep(p)

Next == \E p \in Proc : Syscall(p) \/ Section(p) \/ kill(p)

Spec == Init /\ [][Next]_vars

-----------------------------------------------------------------------------
(* Properties                                                              *)

Places == {"unused", "user", "pipealloc", "read", "write", "dozeread", "dozewrite",
           "sleepread", "sleepwrite", "close", "pipeclose"}

\* The variables have their types, and a file in use has a reference: neither
\* panic("filedup") nor panic("fileclose") is reached (file.c:48-49, 62-63).
TypeOK ==
  /\ file \in [File -> [ref : Nat, pipe : Pages \cup {None}, writable : BOOLEAN]]
  /\ ofile \in [Proc -> [FD -> {0} \cup File]]
  /\ pipe \in [Pages -> [used : BOOLEAN, readopen : BOOLEAN, writeopen : BOOLEAN,
                         nread : 0..WRAP - 1, nwrite : 0..WRAP - 1,
                         data : [0..PIPESIZE - 1 -> Byte \cup {None}]]]
  /\ \A p \in Proc :
       /\ proc[p].at \in Places /\ proc[p].files \in Seq(File)
       /\ proc[p].pg \in Pages \cup {None} /\ proc[p].n \in Nat
       /\ \A i \in DOMAIN proc[p].files : file[proc[p].files[i]].ref > 0
       /\ \A d \in FD : ofile[p][d] # 0 => file[ofile[p][d]].ref > 0
  /\ killed \in [Proc -> BOOLEAN] /\ cut \subseteq Pages

Ends(g) ==
  (IF pipe[g].readopen THEN {"read"} ELSE {}) \cup (IF pipe[g].writeopen THEN {"write"} ELSE {})

\* The references of a file are the descriptors that show it and those that calls
\* are about to give back (file.c:45-80); an end of a pipe is open as long as a
\* file in use is that end, or its last reference is just being closed
\* (file.c:68-74); a page is a pipe as long as an end is open (pipe.c:70-72), and
\* whoever reads or writes it has that end open.
EndsMatch ==
  /\ \A f \in File : file[f].ref =
       Cardinality({x \in Proc \X FD : ofile[x[1]][x[2]] = f})
         + Cardinality({x \in Proc \X (1..NOFILE + 2) :
             x[2] \in DOMAIN proc[x[1]].files /\ proc[x[1]].files[x[2]] = f})
  /\ \A g \in Pages :
       /\ pipe[g].used <=> Ends(g) # {}
       /\ \A wr \in BOOLEAN :
            (IF wr THEN pipe[g].writeopen ELSE pipe[g].readopen)
              <=> \/ \E f \in File : file[f].ref > 0 /\ file[f].pipe = g /\ file[f].writable = wr
                  \/ \E p \in Proc : proc[p].at = "pipeclose" /\ proc[p].pg = g /\ proc[p].wr = wr
  /\ \A p \in Proc :
       /\ proc[p].at \in {"read", "dozeread", "sleepread"} => pipe[proc[p].pg].readopen
       /\ proc[p].at \in {"write", "dozewrite", "sleepwrite"} => pipe[proc[p].pg].writeopen

\* Who sleeps on a pipe has a reason to: a reader, that it is empty and can still
\* be written (pipe.c:106), a writer, that it is full and can still be read
\* (pipe.c:85-86).  The one exception is a writer that is killed when it has
\* filled the pipe: it leaves without the wakeup of the readers (pipe.c:86-90).
NoLostWakeup == \A p \in Proc : LET g == proc[p].pg IN
  /\ proc[p].at = "sleepread" => pipe[g].writeopen /\ (Empty(g) \/ g \in cut)
  /\ proc[p].at = "sleepwrite" => pipe[g].readopen /\ Full(g)

\* A pipe is a stream of bytes (ByteStream): what is written is read once and in
\* order, wherever nread and nwrite have wrapped, and nothing is added after the
\* writing end is closed.
Unread(g) == [i \in 1..Held(g) |-> pipe[g].data[(pipe[g].nread + i - 1) % PIPESIZE]]

Stream == INSTANCE ByteStream WITH
  Pipes <- Pages, Capacity <- PIPESIZE,
  stream <- [g \in Pages |-> [ends |-> Ends(g), unread |-> Unread(g)]]

StreamSpec == Stream!Spec
=============================================================================
