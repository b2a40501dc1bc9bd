------------------------------- MODULE FSLog --------------------------------
(***************************************************************************)
(* The write-ahead log of Project03-FileSystem (log.c) with the part of    *)
(* the buffer cache it relies on (bio.c): pinned dirty buffers, buffer     *)
(* locks, and the flush() that bget() starts when buffers run out.         *)
(* end_op() does not commit in this kernel: only sync() and flush() do.    *)
(*                                                                         *)
(* A buffer lock makes the copy of one block and its disk write one step,  *)
(* because nobody else can look between the two; log.lock does the same    *)
(* for begin_op, end_op and log_write.  Everything else interleaves, and   *)
(* the machine may stop between any two steps.                             *)
(***************************************************************************)
EXTENDS Integers, Sequences, FiniteSets

CONSTANTS
  Block,     \* home blocks
  Value,     \* contents of a block
  Proc,      \* processes in the file system
  NBUF,      \* buffers of the cache; also LOGSIZE, the blocks of the log area
  MaxHeld,   \* bound on the buffers a process holds at once: 2 in bmap()
  none       \* no block

ASSUME ConstantsAssumption ==
  /\ NBUF \in Nat \ {0} /\ MaxHeld \in Nat
  /\ Value # {} /\ Block # {} /\ none \notin Block

VARIABLES
  disk,         \* home blocks on disk
  logd,         \* log blocks on disk; their buffers are written at once
  hdr,          \* header block on disk, as the sequence of its n blocks
  cache,        \* contents of the home blocks as bread() returns them
  dirty,        \* blocks whose buffer has B_DIRTY
  lh,           \* log.lh, the blocks of the transaction in memory
  outstanding,  \* log.outstanding
  committing,   \* log.committing
  is_flush,     \* is_flush
  pc,           \* where a process is
  want,         \* the block a process asks bget() for
  held,         \* the buffers a process has locked
  tail,         \* tail of the loops of write_log() and install_trans()
  boot,         \* "up", or how far recover_from_log() is
  btail,        \* tail of install_trans() in recover_from_log()
  panicked      \* panic() was called

logVars  == <<outstanding, committing, is_flush>>
bootVars == <<boot, btail, panicked>>
vars == <<disk, logd, hdr, cache, dirty, lh, logVars, pc, want, held, tail, bootVars>>

Slots == 1..(NBUF - 1)    \* the log blocks behind the header

TypeOK ==
  /\ disk \in [Block -> Value] /\ cache \in [Block -> Value]
  /\ logd \in [Slots -> Value]
  /\ hdr \in Seq(Block) /\ lh \in Seq(Block) /\ dirty \subseteq Block
  /\ outstanding \in Nat /\ committing \in BOOLEAN /\ is_flush \in BOOLEAN
  /\ pc \in [Proc -> {"idle", "op", "flush", "bget", "lock", "set", "commit",
                      "write_log", "write_head", "install", "clear", "erase", "done"}]
  /\ want \in [Proc -> Block \cup {none}] /\ held \in [Proc -> SUBSET Block]
  /\ tail \in [Proc -> 1..NBUF] /\ btail \in 1..NBUF
  /\ boot \in {"up", "read_head", "install", "erase"} /\ panicked \in BOOLEAN

\* A file system made by mkfs, its log empty.
Init ==
  /\ \E v \in Value : disk = [b \in Block |-> v] /\ logd = [i \in Slots |-> v]
  /\ cache = disk /\ dirty = {} /\ hdr = <<>> /\ lh = <<>>
  /\ outstanding = 0 /\ committing = FALSE /\ is_flush = FALSE
  /\ pc = [p \in Proc |-> "idle"] /\ want = [p \in Proc |-> none]
  /\ held = [p \in Proc |-> {}] /\ tail = [p \in Proc |-> 1]
  /\ boot = "up" /\ btail = 1 /\ panicked = FALSE

-----------------------------------------------------------------------------
\* Buffers in use: pinned by the log, or with a refcnt.
Pinned  == (UNION {held[p] : p \in Proc}) \cup {want[p] : p \in {q \in Proc : pc[q] = "lock"}}
Unused  == NBUF - Cardinality(dirty \cup Pinned)
Free(b) == \A p \in Proc : b \notin held[p]

At(p, here) == boot = "up" /\ ~panicked /\ pc[p] = here
Goto(p, there) == pc' = [pc EXCEPT ![p] = there]
Panic == panicked' = TRUE /\ UNCHANGED <<boot, btail>>

UncountedEntered == outstanding
Entered == outstanding + 1
begin_op(p) ==
  /\ At(p, "idle") /\ ~committing
  /\ outstanding' = Entered
  /\ Goto(p, "op")
  /\ UNCHANGED <<disk, logd, hdr, cache, dirty, lh, committing, is_flush, want, held, tail, bootVars>>

end_op(p) ==
  /\ At(p, "op") /\ held[p] = {} /\ ~committing
  /\ outstanding' = outstanding - 1
  /\ Goto(p, "idle")
  /\ UNCHANGED <<disk, logd, hdr, cache, dirty, lh, committing, is_flush, want, held, tail, bootVars>>

\* bget() down to its call of flush().
LateMustFlush == ~is_flush /\ Unused = 0
MustFlush == ~is_flush /\ Unused <= 2
bget(p, b) ==
  /\ At(p, "op") /\ b \notin held[p] /\ Cardinality(held[p]) < MaxHeld
  /\ want' = [want EXCEPT ![p] = b]
  /\ Goto(p, IF MustFlush THEN "flush" ELSE "bget")
  /\ UNCHANGED <<disk, logd, hdr, cache, dirty, lh, logVars, held, tail, bootVars>>

\* The rest of bget(): a refcnt for the block's buffer, or panic.
bget_ref(p) ==
  /\ At(p, "bget")
  /\ IF Unused = 0 /\ want[p] \notin dirty \cup Pinned
     THEN Panic /\ UNCHANGED pc
     ELSE Goto(p, "lock") /\ UNCHANGED bootVars
  /\ UNCHANGED <<disk, logd, hdr, cache, dirty, lh, logVars, want, held, tail>>

acquiresleep(p) ==
  /\ At(p, "lock") /\ Free(want[p])
  /\ held' = [held EXCEPT ![p] = @ \cup {want[p]}]
  /\ want' = [want EXCEPT ![p] = none]
  /\ Goto(p, "op")
  /\ UNCHANGED <<disk, logd, hdr, cache, dirty, lh, logVars, tail, bootVars>>

brelse(p, b) ==
  /\ At(p, "op") /\ b \in held[p]
  /\ held' = [held EXCEPT ![p] = @ \ {b}]
  /\ UNCHANGED <<disk, logd, hdr, cache, dirty, lh, logVars, pc, want, tail, bootVars>>

\* A clean unused buffer is recycled; the next bread() reads the disk.
UnpinnedRecyclable(b) == b \notin Pinned
Recyclable(b) == b \notin dirty \cup Pinned
Recycle(b) ==
  /\ boot = "up" /\ ~panicked /\ Recyclable(b)
  /\ cache' = [cache EXCEPT ![b] = disk[b]]
  /\ UNCHANGED <<disk, logd, hdr, dirty, lh, logVars, pc, want, held, tail, bootVars>>

\* A caller fills a buffer it has locked and hands it to log_write().
Absorb(b) == IF \E i \in DOMAIN lh : lh[i] = b THEN lh ELSE Append(lh, b)
log_write(p, b, v) ==
  /\ At(p, "op") /\ b \in held[p]
  /\ cache' = [cache EXCEPT ![b] = v]
  /\ IF Len(lh) >= NBUF - 1 \/ outstanding < 1
     THEN Panic /\ UNCHANGED <<dirty, lh>>
     ELSE /\ lh' = Absorb(b) /\ dirty' = dirty \cup {b}
          /\ UNCHANGED bootVars
  /\ UNCHANGED <<disk, logd, hdr, logVars, pc, want, held, tail>>

-----------------------------------------------------------------------------
\* sync() reads log.committing without log.lock, and sleep() then releases a
\* lock that is not held.
SyncCheck(p) ==
  /\ At(p, "idle")
  /\ IF committing THEN Panic /\ UNCHANGED pc
     ELSE Goto(p, "set") /\ UNCHANGED bootVars
  /\ UNCHANGED <<disk, logd, hdr, cache, dirty, lh, logVars, want, held, tail>>

FlushCheck(p) ==
  /\ At(p, "flush")
  /\ Goto(p, IF committing THEN "bget" ELSE "set")
  /\ UNCHANGED <<disk, logd, hdr, cache, dirty, lh, logVars, want, held, tail, bootVars>>

StartCommit(p) ==
  /\ At(p, "set")
  /\ committing' = TRUE /\ is_flush' = TRUE
  /\ Goto(p, "commit")
  /\ UNCHANGED <<disk, logd, hdr, cache, dirty, lh, outstanding, want, held, tail, bootVars>>

\* commit() with nothing to do, or on its way.
CheckTransaction(p) ==
  /\ At(p, "commit")
  /\ tail' = [tail EXCEPT ![p] = 1]
  /\ Goto(p, IF lh = <<>> THEN "done" ELSE "write_log")
  /\ UNCHANGED <<disk, logd, hdr, cache, dirty, lh, logVars, want, held, bootVars>>

\* Another block to copy, its buffer and one for the log block at hand.
NoBuffer == Unused = 0 /\ Panic
Written(p) == tail[p] > Len(lh)
write_log(p) ==
  /\ At(p, "write_log")
  /\ IF Written(p) THEN Goto(p, "write_head") /\ UNCHANGED <<logd, tail, bootVars>>
     ELSE \/ NoBuffer /\ UNCHANGED <<logd, tail, pc>>
          \/ /\ Unused > 0 /\ Free(lh[tail[p]])
             /\ logd' = [logd EXCEPT ![tail[p]] = cache[lh[tail[p]]]]
             /\ tail' = [tail EXCEPT ![p] = @ + 1]
             /\ UNCHANGED <<pc, bootVars>>
  /\ UNCHANGED <<disk, hdr, cache, dirty, lh, logVars, want, held>>

\* The two calls of write_head() in commit().
write_head(p, here, there) ==
  /\ At(p, here)
  /\ \/ NoBuffer /\ UNCHANGED <<hdr, tail, pc>>
     \/ /\ Unused > 0
        /\ hdr' = lh
        /\ tail' = [tail EXCEPT ![p] = 1]
        /\ Goto(p, there) /\ UNCHANGED bootVars
  /\ UNCHANGED <<disk, logd, cache, dirty, lh, logVars, want, held>>

ShortInstalled(p) == tail[p] >= Len(lh)
Installed(p) == tail[p] > Len(lh)
install_trans(p) ==
  /\ At(p, "install")
  /\ IF Installed(p)
     THEN Goto(p, "clear") /\ UNCHANGED <<disk, cache, dirty, tail, bootVars>>
     ELSE \/ NoBuffer /\ UNCHANGED <<disk, cache, dirty, tail, pc>>
          \/ LET b == lh[tail[p]]
             IN /\ Unused > 0 /\ Free(b)
                /\ cache' = [cache EXCEPT ![b] = logd[tail[p]]]
                /\ disk' = [disk EXCEPT ![b] = logd[tail[p]]]
                /\ dirty' = dirty \ {b}
                /\ tail' = [tail EXCEPT ![p] = @ + 1]
                /\ UNCHANGED <<pc, bootVars>>
  /\ UNCHANGED <<logd, hdr, lh, logVars, want, held>>

ClearTransaction(p) ==
  /\ At(p, "clear")
  /\ lh' = <<>> /\ Goto(p, "erase")
  /\ UNCHANGED <<disk, logd, hdr, cache, dirty, logVars, want, held, tail, bootVars>>

\* The end of sync(), or of flush() and back to bget().
EndCommit(p) ==
  /\ At(p, "done")
  /\ committing' = FALSE /\ is_flush' = FALSE
  /\ Goto(p, IF want[p] = none THEN "idle" ELSE "bget")
  /\ UNCHANGED <<disk, logd, hdr, cache, dirty, lh, outstanding, want, held, tail, bootVars>>

-----------------------------------------------------------------------------
\* The machine stops, during recovery too, and starts again.
Crash ==
  /\ boot' = "read_head" /\ panicked' = FALSE /\ btail' = 1
  /\ lh' = <<>> /\ dirty' = {} /\ cache' = disk
  /\ outstanding' = 0 /\ committing' = FALSE /\ is_flush' = FALSE
  /\ pc' = [p \in Proc |-> "idle"] /\ want' = [p \in Proc |-> none]
  /\ held' = [p \in Proc |-> {}] /\ tail' = [p \in Proc |-> 1]
  /\ UNCHANGED <<disk, logd, hdr>>

recover_read_head ==
  /\ boot = "read_head"
  /\ lh' = hdr /\ boot' = "install" /\ btail' = 1
  /\ UNCHANGED <<disk, logd, hdr, cache, dirty, logVars, pc, want, held, tail, panicked>>

recover_install ==
  /\ boot = "install"
  /\ IF btail > Len(lh)
     THEN lh' = <<>> /\ boot' = "erase" /\ UNCHANGED <<disk, cache, btail>>
     ELSE /\ disk' = [disk EXCEPT ![lh[btail]] = logd[btail]]
          /\ cache' = [cache EXCEPT ![lh[btail]] = logd[btail]]
          /\ btail' = btail + 1 /\ UNCHANGED <<lh, boot>>
  /\ UNCHANGED <<logd, hdr, dirty, logVars, pc, want, held, tail, panicked>>

recover_write_head ==
  /\ boot = "erase"
  /\ hdr' = lh /\ boot' = "up"
  /\ UNCHANGED <<disk, logd, cache, dirty, lh, logVars, pc, want, held, tail, btail, panicked>>

recover_from_log == recover_read_head \/ recover_install \/ recover_write_head

commit(p) ==
  \/ StartCommit(p)
  \/ CheckTransaction(p)
  \/ write_log(p)
  \/ write_head(p, "write_head", "install")
  \/ install_trans(p)
  \/ ClearTransaction(p)
  \/ write_head(p, "erase", "done")
  \/ EndCommit(p)

Next ==
  \/ \E p \in Proc :
       \/ begin_op(p) \/ end_op(p) \/ bget_ref(p) \/ acquiresleep(p)
       \/ \E b \in Block :
            \/ bget(p, b) \/ brelse(p, b)
            \/ \E v \in Value : log_write(p, b, v)
       \/ SyncCheck(p) \/ FlushCheck(p) \/ commit(p)
  \/ \E b \in Block : Recycle(b)
  \/ recover_from_log
  \/ Crash

Spec == Init /\ [][Next]_vars

-----------------------------------------------------------------------------
\* What recovery makes of the disk as it is now: the header tells which log
\* blocks replace which home blocks.
Overlay(d, h, l) == [b \in Block |->
  LET copies == {i \in DOMAIN h : h[i] = b}
  IN IF copies = {} THEN d[b]
     ELSE l[CHOOSE i \in copies : \A j \in copies : j <= i]]
Recovered == Overlay(disk, hdr, logd)

\* The blocks as the calls see them, or will see them when recovery is over.
Visible == IF boot = "up" THEN cache ELSE Recovered

SD == INSTANCE SnapshotDisk WITH mem <- Visible, durable <- Recovered

\* Calls see every write until a crash; a crash at any step, during recovery
\* too, goes back to one snapshot, and only write_head() makes a new one
\* (the comment of write_head: "the true point at which the transaction commits").
Implements == SD!Spec

\* When sync() or flush() returns, what the calls wrote is on the home blocks
\* and the header is erased (commit(), its last three lines).
SyncDurable ==
  \A p \in Proc : At(p, "done") => disk = cache /\ hdr = <<>> /\ dirty = {}

\* Neither bget(), nor log_write(), nor sync() panics: bget() flushes while
\* two buffers are left, which commit() needs.
NoPanic == ~panicked
=============================================================================
