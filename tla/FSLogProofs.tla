---------------------------- MODULE FSLogProofs ----------------------------
(***************************************************************************)
(* With one process in the file system, the log of Project03-FileSystem    *)
(* implements SnapshotDisk, for any blocks, contents and number of buffers *)
(* (theorem Atomicity), and never panics if a call leaves two buffers to    *)
(* commit() (theorem CallsGoOn).                                           *)
(***************************************************************************)
EXTENDS FSLog, FiniteSetTheorems, TLAPS

-----------------------------------------------------------------------------
(* What recovery makes of the disk.                                        *)

NoDup(s) == \A i, j \in DOMAIN s : s[i] = s[j] => i = j

\* The header names b once: the log has its contents.
LEMMA OverlayCopy ==
  ASSUME NEW d, NEW h, NEW l, DOMAIN h \subseteq Int, NoDup(h),
         NEW i \in DOMAIN h, h[i] \in Block
  PROVE  Overlay(d, h, l)[h[i]] = l[i]
<1> DEFINE copies == {j \in DOMAIN h : h[j] = h[i]}
<1>1. copies = {i}
  BY DEF NoDup
<1>2. i \in Int
  OBVIOUS
<1>3. (CHOOSE j \in copies : \A k \in copies : k <= j) = i
  BY <1>1, <1>2
<1> QED BY <1>1, <1>3 DEF Overlay

\* The header does not name b: its home block counts.
LEMMA OverlayHome ==
  ASSUME NEW d, NEW h, NEW l, NEW b \in Block, \A i \in DOMAIN h : h[i] # b
  PROVE  Overlay(d, h, l)[b] = d[b]
BY DEF Overlay

\* Two disks that agree where the header says so recover to the same blocks.
LEMMA OverlayEqual ==
  ASSUME NEW d, NEW h, NEW l, NEW f \in [Block -> Value], NoDup(h),
         DOMAIN h \subseteq Int, \A i \in DOMAIN h : h[i] \in Block /\ l[i] = f[h[i]],
         \A b \in Block : (\A i \in DOMAIN h : h[i] # b) => d[b] = f[b]
  PROVE  Overlay(d, h, l) = f
<1>1. ASSUME NEW b \in Block PROVE Overlay(d, h, l)[b] = f[b]
  <2>1. CASE \A i \in DOMAIN h : h[i] # b
    BY <2>1, OverlayHome
  <2>2. CASE \E i \in DOMAIN h : h[i] = b
    <3>1. PICK i \in DOMAIN h : h[i] = b
      BY <2>2
    <3> QED BY <3>1, OverlayCopy
  <2> QED BY <2>1, <2>2
<1>2. Overlay(d, h, l) = [b \in Block |-> Overlay(d, h, l)[b]]
  BY DEF Overlay
<1>3. f = [b \in Block |-> f[b]]
  OBVIOUS
<1> QED BY <1>1, <1>2, <1>3

-----------------------------------------------------------------------------
(* The invariant.                                                          *)

\* Blocks of s before the n-th: copied to the log, installed at home.
Copied(s, n) == \A i \in DOMAIN s : i < n => logd[i] = cache[s[i]]
Home(s, n)   == \A i \in DOMAIN s : i < n => disk[s[i]] = logd[i]

InCall(p) == want[p] # none \/ pc[p] \in {"op", "flush", "bget", "lock"}

\* The transaction in memory holds the blocks that the disk does not have.
Logs ==
  /\ NoDup(lh) /\ Len(lh) < NBUF
  /\ \A b \in Block : b \notin dirty => cache[b] = disk[b]
  /\ \A b \in dirty : \E i \in DOMAIN lh : lh[i] = b

\* The process p between two steps of its calls, of sync() or of flush().
Running(p) ==
  /\ outstanding = IF InCall(p) THEN 1 ELSE 0
  /\ pc[p] \in {"idle", "op"} => want[p] = none
  /\ pc[p] \in {"flush", "bget", "lock"} => want[p] # none
  /\ pc[p] \notin {"install", "clear", "erase"} => hdr = <<>>
  /\ pc[p] = "write_log" => Copied(lh, tail[p])
  /\ pc[p] = "write_head" => Copied(lh, NBUF)
  /\ pc[p] = "install" => /\ hdr = lh /\ Copied(lh, NBUF) /\ Home(lh, tail[p])
                          /\ \A i \in DOMAIN lh : i < tail[p] => lh[i] \notin dirty
  /\ pc[p] \in {"clear", "erase"} => Home(hdr, NBUF)
  /\ pc[p] \in {"clear", "erase", "done"} => dirty = {}
  /\ pc[p] \in {"erase", "done"} => lh = <<>>

\* recover_from_log().
Booting(p) ==
  /\ dirty = {} /\ outstanding = 0 /\ want[p] = none /\ pc[p] = "idle"
  /\ boot = "read_head" => lh = <<>>
  /\ boot = "install" => lh = hdr /\ Home(hdr, btail)
  /\ boot = "erase" => lh = <<>> /\ Home(hdr, NBUF)

\* After a panic only the disk matters.
Active(p) == Logs /\ (boot = "up" => Running(p)) /\ (boot # "up" => Booting(p))
Disk == NoDup(hdr) /\ Len(hdr) < NBUF /\ (boot = "up" \/ ~panicked)
LogInv(p) == TypeOK /\ Disk /\ (~panicked => Active(p))

LEMMA Empty == NoDup(<<>>) /\ Len(<<>>) = 0 /\ DOMAIN <<>> = {} /\ <<>> \in Seq(Block)
BY DEF NoDup

LEMMA FirstTail == 1 \in 1..NBUF
BY ConstantsAssumption

\* The log of a new file system is empty.
LEMMA InitLog == ASSUME NEW p, Proc = {p}, Init PROVE LogInv(p)
<1>1. NBUF \in Nat /\ 0 < NBUF /\ none \notin Block
  BY ConstantsAssumption
<1>2. TypeOK
  <2>1. PICK v \in Value : disk = [b \in Block |-> v] /\ logd = [i \in Slots |-> v]
    BY DEF Init
  <2> QED BY <2>1, Empty, FirstTail DEF Init, TypeOK
<1>3. Disk
  BY <1>1, Empty DEF Disk, Init
<1>4. Logs
  BY <1>1, Empty DEF Logs, Init
<1>5. Running(p)
  BY <1>1, Empty DEF Running, InCall, Init
<1> QED BY <1>2, <1>3, <1>4, <1>5 DEF LogInv, Active, Init

-----------------------------------------------------------------------------
(* Steps of a call: they leave disk, log and header alone.                 *)

LEMMA CallType ==
  ASSUME NEW p, Proc = {p}, LogInv(p),
         \/ begin_op(p) \/ end_op(p) \/ bget_ref(p) \/ acquiresleep(p)
         \/ SyncCheck(p) \/ FlushCheck(p) \/ StartCommit(p) \/ EndCommit(p)
         \/ \E b \in Block : bget(p, b) \/ brelse(p, b)
  PROVE  TypeOK'
<1> USE DEF TypeOK, At, Goto, Panic, logVars, bootVars
<1>1. CASE begin_op(p)
  BY <1>1 DEF begin_op, Entered, LogInv
<1>2. CASE end_op(p)
  BY <1>2 DEF end_op, LogInv, Active, Running, InCall
<1>3. CASE bget_ref(p)
  BY <1>3 DEF bget_ref, LogInv
<1>4. CASE acquiresleep(p)
  BY <1>4 DEF acquiresleep, LogInv, Active, Running
<1>5. CASE SyncCheck(p) \/ FlushCheck(p) \/ StartCommit(p) \/ EndCommit(p)
  BY <1>5 DEF SyncCheck, FlushCheck, StartCommit, EndCommit, LogInv
<1>6. CASE \E b \in Block : bget(p, b) \/ brelse(p, b)
  BY <1>6 DEF bget, brelse, LogInv
<1> QED BY <1>1, <1>2, <1>3, <1>4, <1>5, <1>6

\* They change neither the blocks nor the transaction.
Untouched == UNCHANGED <<disk, logd, hdr, cache, dirty, lh, boot>>

LEMMA CallUntouched ==
  ASSUME NEW p, Proc = {p}, LogInv(p),
         \/ begin_op(p) \/ end_op(p) \/ bget_ref(p) \/ acquiresleep(p)
         \/ SyncCheck(p) \/ FlushCheck(p) \/ StartCommit(p) \/ EndCommit(p)
         \/ \E b \in Block : bget(p, b) \/ brelse(p, b)
  PROVE  Untouched
BY DEF Untouched, begin_op, end_op, bget_ref, acquiresleep, SyncCheck, FlushCheck,
   StartCommit, EndCommit, bget, brelse, Panic, bootVars

LEMMA CallInv ==
  ASSUME NEW p, Proc = {p}, LogInv(p),
         \/ begin_op(p) \/ end_op(p) \/ bget_ref(p) \/ acquiresleep(p)
         \/ SyncCheck(p) \/ FlushCheck(p) \/ StartCommit(p) \/ EndCommit(p)
         \/ \E b \in Block : bget(p, b) \/ brelse(p, b)
  PROVE  LogInv(p)'
<1>1. TypeOK' /\ Untouched
  BY CallType, CallUntouched
<1>2. boot = "up" /\ ~panicked /\ boot' = "up" /\ NBUF \in Nat
  BY <1>1, ConstantsAssumption
  DEF Untouched, At, begin_op, end_op, bget_ref, acquiresleep, SyncCheck, FlushCheck,
      StartCommit, EndCommit, bget, brelse
<1>3. Disk'
  BY <1>1, <1>2 DEF LogInv, Disk, Untouched, NoDup
<1>4. Logs'
  BY <1>1, <1>2 DEF LogInv, Active, Logs, Untouched, NoDup
<1>5. ASSUME ~panicked' PROVE Running(p)'
  <2>1. Running(p) /\ TypeOK /\ none \notin Block
    BY <1>2, ConstantsAssumption DEF LogInv, Active
  <2> USE DEF Running, InCall, At, Goto, Panic, TypeOK, Untouched, logVars, bootVars
  <2>2. \A s, n : (Copied(s, n) => Copied(s, n)') /\ (Home(s, n) => Home(s, n)')
    BY <1>1 DEF Copied, Home
  <2>3. CASE begin_op(p) \/ end_op(p)
    BY <1>1, <2>1, <2>2, <2>3 DEF begin_op, end_op, Entered, Copied, Home
  <2>4. CASE bget_ref(p) \/ acquiresleep(p)
    BY <1>1, <1>5, <2>1, <2>2, <2>4 DEF bget_ref, acquiresleep, Copied, Home
  <2>5. CASE SyncCheck(p) \/ FlushCheck(p)
    BY <1>1, <1>5, <2>1, <2>2, <2>5 DEF SyncCheck, FlushCheck, Copied, Home
  <2>6. CASE StartCommit(p) \/ EndCommit(p)
    BY <1>1, <1>5, <2>1, <2>2, <2>6 DEF StartCommit, EndCommit, Copied, Home
  <2>7. CASE \E b \in Block : bget(p, b) \/ brelse(p, b)
    BY <1>1, <1>5, <2>1, <2>2, <2>7 DEF bget, brelse, Copied, Home
  <2> QED BY <2>3, <2>4, <2>5, <2>6, <2>7
<1> QED BY <1>1, <1>2, <1>3, <1>4, <1>5 DEF LogInv, Active

-----------------------------------------------------------------------------
(* Steps that change the cache or the transaction.                         *)

\* A recycled buffer is read back unchanged.
LEMMA RecycleInv ==
  ASSUME NEW p, Proc = {p}, LogInv(p), NEW b \in Block, Recycle(b)
  PROVE  LogInv(p)' /\ cache' = cache
<1>1. TypeOK /\ Logs /\ Running(p) /\ boot = "up" /\ ~panicked
  BY DEF LogInv, Active, Recycle
<1>2. cache[b] = disk[b]
  BY <1>1 DEF Logs, Recycle, Recyclable
<1>3. cache' = cache
  BY <1>1, <1>2 DEF Recycle, TypeOK
<1>4. UNCHANGED <<disk, logd, hdr, cache, dirty, lh, logVars, pc, want, held, tail, bootVars>>
  BY <1>3 DEF Recycle
<1>5. TypeOK' /\ Disk'
  BY <1>4 DEF LogInv, TypeOK, Disk, NoDup, logVars, bootVars
<1>6. Logs'
  BY <1>1, <1>4 DEF Logs, NoDup
<1>7. Running(p)'
  BY <1>1, <1>4 DEF Running, InCall, Copied, Home, logVars
<1> QED BY <1>1, <1>3, <1>4, <1>5, <1>6, <1>7 DEF LogInv, Active, bootVars

LEMMA LogWriteInv ==
  ASSUME NEW p, Proc = {p}, LogInv(p), NEW b \in Block, NEW v \in Value, log_write(p, b, v)
  PROVE  LogInv(p)'
<1>1. TypeOK /\ Logs /\ Running(p) /\ boot = "up" /\ ~panicked /\ NBUF \in Nat
  BY ConstantsAssumption DEF LogInv, Active, log_write, At
<1>2. Disk' /\ boot' = "up"
  BY <1>1 DEF LogInv, Disk, NoDup, log_write, Panic, bootVars
<1>3. Absorb(b) \in Seq(Block)
  BY <1>1 DEF Absorb, TypeOK
<1>4. TypeOK'
  BY <1>1, <1>3 DEF TypeOK, log_write, Panic, logVars, bootVars
<1>5. ASSUME ~panicked' PROVE Active(p)'
  <2>1. lh' = Absorb(b) /\ dirty' = dirty \cup {b} /\ Len(lh) < NBUF - 1
    BY <1>1, <1>5 DEF log_write, Panic, TypeOK
  <2>2. NoDup(Absorb(b)) /\ Len(Absorb(b)) < NBUF
    BY <1>1, <2>1 DEF Absorb, NoDup, TypeOK, Logs
  <2>3. \A c \in dirty \cup {b} : \E i \in DOMAIN Absorb(b) : Absorb(b)[i] = c
    <3>1. CASE \E i \in DOMAIN lh : lh[i] = b
      BY <1>1, <3>1 DEF Absorb, Logs
    <3>2. CASE ~ \E i \in DOMAIN lh : lh[i] = b
      <4>1. Absorb(b) = Append(lh, b) /\ lh \in Seq(Block)
        BY <1>1, <3>2 DEF Absorb, TypeOK
      <4>2. \A i \in DOMAIN lh : i \in DOMAIN Append(lh, b) /\ Append(lh, b)[i] = lh[i]
        BY <4>1
      <4>3. Len(lh) + 1 \in DOMAIN Append(lh, b) /\ Append(lh, b)[Len(lh) + 1] = b
        BY <4>1
      <4> QED BY <1>1, <4>1, <4>2, <4>3 DEF Logs
    <3> QED BY <3>1, <3>2
  <2>4. \A c \in Block : c \notin dirty' => cache'[c] = disk'[c]
    BY <1>1, <2>1 DEF log_write, Logs, TypeOK
  <2>5. Running(p)'
    BY <1>1 DEF log_write, Running, InCall, At, logVars
  <2> QED BY <1>2, <2>1, <2>2, <2>3, <2>4, <2>5 DEF Active, Logs, NoDup
<1> QED BY <1>2, <1>4, <1>5 DEF LogInv

-----------------------------------------------------------------------------
(* Steps of commit().                                                      *)

LEMMA CheckTransactionInv ==
  ASSUME NEW p, Proc = {p}, LogInv(p), CheckTransaction(p)
  PROVE  LogInv(p)'
<1>1. TypeOK /\ Logs /\ Running(p) /\ boot = "up" /\ ~panicked
  BY DEF LogInv, Active, CheckTransaction, At
<1>2. TypeOK' /\ Disk'
  BY <1>1, FirstTail DEF LogInv, TypeOK, Disk, NoDup, CheckTransaction, Goto, logVars, bootVars
<1>3. Logs' /\ boot' = "up"
  BY <1>1 DEF Logs, NoDup, CheckTransaction, bootVars
<1>4. lh = <<>> => dirty = {}
  BY <1>1, Empty DEF Logs
<1>5. Running(p)'
  BY <1>1, <1>4 DEF Running, InCall, CheckTransaction, At, Goto, TypeOK, Copied, logVars
<1> QED BY <1>2, <1>3, <1>5 DEF LogInv, Active

LEMMA WriteLogInv ==
  ASSUME NEW p, Proc = {p}, LogInv(p), write_log(p)
  PROVE  LogInv(p)'
<1>1. TypeOK /\ Logs /\ Running(p) /\ boot = "up" /\ ~panicked /\ NBUF \in Nat
  BY ConstantsAssumption DEF LogInv, Active, write_log, At
<1>2. Copied(lh, tail[p]) /\ hdr = <<>> /\ pc[p] = "write_log" /\ tail[p] \in Nat
  BY <1>1 DEF Running, write_log, At, TypeOK
<1>3. \A i \in DOMAIN lh : i \in Slots /\ lh[i] \in Block
  BY <1>1 DEF Logs, Slots, TypeOK
<1>4. TypeOK'
  <2>1. CASE UNCHANGED <<logd, tail>>
    BY <1>1, <2>1 DEF TypeOK, write_log, NoBuffer, Panic, Goto, logVars, bootVars
  <2>2. CASE /\ ~Written(p) /\ UNCHANGED <<pc, bootVars>>
             /\ tail' = [tail EXCEPT ![p] = @ + 1]
             /\ logd' = [logd EXCEPT ![tail[p]] = cache[lh[tail[p]]]]
    <3>1. tail[p] \in DOMAIN lh /\ tail[p] + 1 \in 1..NBUF
      BY <1>1, <1>2, <2>2 DEF Written, TypeOK, Logs
    <3>2. tail[p] \in Slots /\ cache[lh[tail[p]]] \in Value
      BY <1>1, <1>3, <3>1 DEF TypeOK
    <3> QED BY <1>1, <2>2, <3>1, <3>2 DEF TypeOK, write_log, logVars, bootVars
  <2> QED BY <2>1, <2>2 DEF write_log
<1>5. Disk' /\ boot' = "up"
  BY <1>1 DEF LogInv, Disk, NoDup, write_log, NoBuffer, Panic, bootVars
<1>6. Logs'
  BY <1>1 DEF Logs, NoDup, write_log
<1>7. ASSUME ~panicked' PROVE Running(p)'
  <2>1. CASE Written(p)
    <3>1. Copied(lh, NBUF)
      BY <1>1, <1>2, <2>1 DEF Written, Copied, TypeOK
    <3> QED BY <1>1, <1>2, <2>1, <3>1 DEF Running, InCall, Copied, write_log, Goto, TypeOK, logVars
  <2>2. CASE ~Written(p)
    <3>1. logd' = [logd EXCEPT ![tail[p]] = cache[lh[tail[p]]]] /\ tail'[p] = tail[p] + 1
      BY <1>1, <1>7, <2>2 DEF write_log, NoBuffer, Panic, TypeOK
    <3>2. \A i \in DOMAIN lh : i < tail[p] + 1 => logd'[i] = cache[lh[i]]
      <4>1. TAKE i \in DOMAIN lh
      <4>2. i \in Slots /\ i \in Int /\ tail[p] \in Int
        BY <1>1, <1>2, <1>3 DEF TypeOK
      <4>3. CASE i = tail[p]
        BY <1>1, <3>1, <4>2, <4>3 DEF TypeOK
      <4>4. CASE i # tail[p]
        <5>1. logd'[i] = logd[i]
          BY <1>1, <3>1, <4>2, <4>4 DEF TypeOK
        <5> QED BY <1>2, <4>2, <4>4, <5>1 DEF Copied
      <4> QED BY <4>3, <4>4
    <3> QED
      BY <1>1, <1>2, <1>7, <2>2, <3>1, <3>2
      DEF Running, InCall, Copied, write_log, NoBuffer, Panic, TypeOK, logVars
  <2> QED BY <2>1, <2>2
<1> QED BY <1>4, <1>5, <1>6, <1>7 DEF LogInv, Active

LEMMA WriteHeadInv ==
  ASSUME NEW p, Proc = {p}, LogInv(p),
         \/ write_head(p, "write_head", "install")
         \/ write_head(p, "erase", "done")
  PROVE  LogInv(p)'
<1>1. TypeOK /\ Logs /\ Running(p) /\ boot = "up" /\ ~panicked /\ NBUF \in Nat /\ 0 < NBUF
  BY ConstantsAssumption DEF LogInv, Active, write_head, At
<1>2. TypeOK'
  BY <1>1, FirstTail DEF TypeOK, write_head, NoBuffer, Panic, Goto, logVars, bootVars
<1>3. Disk' /\ boot' = "up"
  BY <1>1 DEF LogInv, Disk, Logs, NoDup, write_head, NoBuffer, Panic, bootVars
<1>4. Logs'
  BY <1>1 DEF Logs, NoDup, write_head
<1>5. ASSUME ~panicked' PROVE Running(p)'
  <2>1. hdr' = lh /\ tail'[p] = 1 /\ pc[p] \in {"write_head", "erase"}
        /\ pc'[p] = IF pc[p] = "erase" THEN "done" ELSE "install"
    BY <1>1, <1>5 DEF write_head, NoBuffer, Panic, Goto, At, TypeOK
  <2>2. \A i \in DOMAIN lh : ~(i < 1)
    BY <1>1 DEF TypeOK
  <2> QED
    BY <1>1, <2>1, <2>2 DEF Running, InCall, Copied, Home, write_head, logVars
<1> QED BY <1>2, <1>3, <1>4, <1>5 DEF LogInv, Active

\* A block goes home: the cache had these contents already.
LEMMA InstallCopy ==
  ASSUME NEW p, Proc = {p}, LogInv(p), install_trans(p), ~Installed(p), ~panicked'
  PROVE  /\ tail[p] \in DOMAIN lh /\ tail[p] \in Slots /\ lh[tail[p]] \in Block
         /\ cache' = cache
         /\ disk' = [disk EXCEPT ![lh[tail[p]]] = cache[lh[tail[p]]]]
         /\ dirty' = dirty \ {lh[tail[p]]}
         /\ tail'[p] = tail[p] + 1
         /\ UNCHANGED <<pc, bootVars>>
         /\ logd[tail[p]] = cache[lh[tail[p]]]
<1>1. TypeOK /\ Logs /\ Running(p) /\ boot = "up" /\ ~panicked /\ NBUF \in Nat
  BY ConstantsAssumption DEF LogInv, Active, install_trans, At
<1>2. Copied(lh, NBUF) /\ tail[p] \in Nat
  BY <1>1 DEF Running, install_trans, At, TypeOK
<1>3. tail[p] \in DOMAIN lh /\ tail[p] \in Slots /\ lh[tail[p]] \in Block
  BY <1>1, <1>2 DEF Installed, TypeOK, Logs, Slots
<1>4. logd[tail[p]] = cache[lh[tail[p]]]
  BY <1>1, <1>2, <1>3 DEF Copied, Logs, TypeOK
<1>5. /\ cache' = [cache EXCEPT ![lh[tail[p]]] = logd[tail[p]]]
      /\ disk' = [disk EXCEPT ![lh[tail[p]]] = logd[tail[p]]]
      /\ dirty' = dirty \ {lh[tail[p]]}
      /\ tail' = [tail EXCEPT ![p] = @ + 1]
      /\ UNCHANGED <<pc, bootVars>>
  BY DEF install_trans, NoBuffer, Panic
<1>6. cache' = cache
  BY <1>1, <1>3, <1>4, <1>5 DEF TypeOK
<1> QED BY <1>1, <1>3, <1>4, <1>5, <1>6 DEF TypeOK

LEMMA InstallInv ==
  ASSUME NEW p, Proc = {p}, LogInv(p), install_trans(p)
  PROVE  LogInv(p)'
<1>1. TypeOK /\ Logs /\ Running(p) /\ boot = "up" /\ ~panicked /\ NBUF \in Nat
  BY ConstantsAssumption DEF LogInv, Active, install_trans, At
<1>2. pc[p] = "install" /\ hdr = lh /\ Copied(lh, NBUF) /\ Home(lh, tail[p])
      /\ (\A i \in DOMAIN lh : i < tail[p] => lh[i] \notin dirty)
  BY <1>1 DEF Running, install_trans, At
<1>3. Disk' /\ boot' = "up"
  BY <1>1 DEF LogInv, Disk, NoDup, install_trans, NoBuffer, Panic, bootVars
<1>4. CASE Installed(p)
  <2>1. TypeOK'
    BY <1>1, <1>4 DEF TypeOK, install_trans, Goto, logVars, bootVars
  <2>2. Home(lh, NBUF) /\ dirty = {}
    BY <1>1, <1>2, <1>4 DEF Home, Installed, TypeOK, Logs
  <2>3. Logs'
    BY <1>1, <1>4 DEF install_trans, Logs, NoDup
  <2>4. Running(p)'
    BY <1>1, <1>2, <1>4, <2>2 DEF Running, InCall, Home, install_trans, Goto, TypeOK, logVars
  <2> QED BY <1>3, <2>1, <2>3, <2>4 DEF LogInv, Active
<1>5. CASE ~Installed(p) /\ panicked'
  <2>1. TypeOK'
    <3>1. CASE NoBuffer /\ UNCHANGED <<disk, cache, dirty, tail, pc>>
      BY <1>1, <3>1 DEF TypeOK, install_trans, NoBuffer, Panic, logVars
    <3>2. CASE UNCHANGED bootVars
      BY <1>1, <1>5, <3>2 DEF bootVars
    <3> QED BY <1>5, <3>1, <3>2 DEF install_trans
  <2> QED BY <1>3, <1>5, <2>1 DEF LogInv
<1>6. CASE ~Installed(p) /\ ~panicked'
  <2> DEFINE b == lh[tail[p]]
  <2>1. /\ tail[p] \in DOMAIN lh /\ tail[p] \in Slots /\ b \in Block
        /\ cache' = cache /\ disk' = [disk EXCEPT ![b] = cache[b]]
        /\ dirty' = dirty \ {b} /\ tail'[p] = tail[p] + 1
        /\ UNCHANGED <<pc, bootVars>> /\ logd[tail[p]] = cache[b]
    BY <1>6, InstallCopy
  <2>2. UNCHANGED <<logd, hdr, lh, logVars, want, held>>
    BY DEF install_trans
  <2>3. tail' = [tail EXCEPT ![p] = @ + 1] /\ tail[p] + 1 <= NBUF
    BY <1>1, <1>6, <2>1 DEF install_trans, NoBuffer, Panic, TypeOK, Slots
  <2> HIDE DEF b
  <2>4. TypeOK'
    BY <1>1, <2>1, <2>2, <2>3 DEF TypeOK, logVars, bootVars
  <2>5. disk'[b] = cache[b] /\ \A c \in Block : c # b => disk'[c] = disk[c]
    BY <1>1, <2>1 DEF TypeOK
  <2>6. Logs'
    BY <1>1, <2>1, <2>2, <2>5 DEF Logs, NoDup
  <2>7. \A i \in DOMAIN lh : i < tail[p] + 1 =>
          disk'[lh[i]] = logd[i] /\ lh[i] \notin dirty \ {b}
    <3>1. TAKE i \in DOMAIN lh
    <3>2. CASE i = tail[p]
      BY <2>1, <2>5, <3>2 DEF b
    <3>3. CASE i # tail[p]
      <4>1. lh[i] # b /\ lh[i] \in Block
        BY <1>1, <2>1, <3>3 DEF Logs, NoDup, TypeOK, b
      <4> QED BY <1>1, <1>2, <2>5, <3>3, <4>1 DEF Home, TypeOK
    <3> QED BY <3>2, <3>3
  <2>8. Running(p)'
    BY <1>1, <1>2, <2>1, <2>2, <2>7 DEF Running, InCall, Copied, Home, logVars
  <2> QED BY <1>3, <2>4, <2>6, <2>8 DEF LogInv, Active
<1> QED BY <1>4, <1>5, <1>6

LEMMA ClearTransactionInv ==
  ASSUME NEW p, Proc = {p}, LogInv(p), ClearTransaction(p)
  PROVE  LogInv(p)'
<1>1. TypeOK /\ Logs /\ Running(p) /\ boot = "up" /\ ~panicked /\ NBUF \in Nat /\ 0 < NBUF
  BY ConstantsAssumption DEF LogInv, Active, ClearTransaction, At
<1>2. TypeOK' /\ Disk'
  BY <1>1, Empty DEF LogInv, TypeOK, Disk, NoDup, ClearTransaction, Goto, logVars, bootVars
<1>3. dirty = {} /\ Home(hdr, NBUF)
  BY <1>1 DEF Running, ClearTransaction, At
<1>4. Logs' /\ boot' = "up"
  BY <1>1, <1>3, Empty DEF Logs, NoDup, ClearTransaction, bootVars
<1>5. Running(p)'
  BY <1>1, <1>3 DEF Running, InCall, Home, ClearTransaction, At, Goto, TypeOK, logVars
<1> QED BY <1>2, <1>4, <1>5 DEF LogInv, Active

-----------------------------------------------------------------------------
(* A crash, and recovery.                                                  *)

LEMMA CrashInv ==
  ASSUME NEW p, Proc = {p}, LogInv(p), Crash
  PROVE  LogInv(p)'
<1>1. TypeOK /\ Disk /\ NBUF \in Nat /\ 0 < NBUF
  BY ConstantsAssumption DEF LogInv
<1>2. Disk'
  BY <1>1 DEF Disk, NoDup, Crash
<1>3. Logs'
  BY <1>1, Empty DEF Logs, NoDup, Crash
<1>4. TypeOK'
  BY <1>1, Empty, FirstTail DEF TypeOK, Crash
<1>5. Booting(p)'
  BY <1>1 DEF Booting, Crash
<1> QED BY <1>2, <1>3, <1>4, <1>5 DEF LogInv, Active, Crash

LEMMA RecoverInv ==
  ASSUME NEW p, Proc = {p}, LogInv(p), recover_from_log
  PROVE  LogInv(p)'
<1>1. TypeOK /\ Disk /\ ~panicked /\ Logs /\ Booting(p) /\ NBUF \in Nat /\ 0 < NBUF
  BY ConstantsAssumption
  DEF LogInv, Disk, Active, recover_from_log, recover_read_head, recover_install, recover_write_head
<1>2. CASE recover_read_head
  <2>1. TypeOK' /\ Disk'
    BY <1>1, <1>2 DEF TypeOK, Disk, NoDup, recover_read_head, logVars
  <2>2. Logs'
    BY <1>1, <1>2 DEF Logs, Disk, NoDup, Booting, recover_read_head
  <2>3. Booting(p)'
    BY <1>1, <1>2 DEF Booting, Home, TypeOK, recover_read_head, logVars
  <2> QED BY <1>2, <2>1, <2>2, <2>3 DEF LogInv, Active, recover_read_head
<1>3. CASE recover_install /\ btail > Len(lh)
  <2>1. TypeOK' /\ Disk'
    BY <1>1, <1>3, Empty DEF TypeOK, Disk, NoDup, recover_install, logVars
  <2>2. Logs'
    BY <1>1, <1>3, Empty DEF Logs, NoDup, Booting, recover_install
  <2>3. Booting(p)'
    BY <1>1, <1>3 DEF Booting, Home, TypeOK, recover_install, logVars
  <2> QED BY <1>3, <2>1, <2>2, <2>3 DEF LogInv, Active, recover_install
<1>4. CASE recover_install /\ ~(btail > Len(lh))
  <2> DEFINE b == lh[btail]
  <2>1. btail \in DOMAIN lh /\ btail \in Slots /\ b \in Block /\ btail + 1 <= NBUF
    BY <1>1, <1>4 DEF TypeOK, Logs, Slots
  <2>2. disk' = [disk EXCEPT ![b] = logd[btail]] /\ cache' = [cache EXCEPT ![b] = logd[btail]]
        /\ btail' = btail + 1 /\ UNCHANGED <<lh, boot, logd, hdr, dirty, logVars, pc, want, held, tail, panicked>>
    BY <1>4 DEF recover_install
  <2> HIDE DEF b
  <2>3. TypeOK' /\ Disk'
    BY <1>1, <2>1, <2>2 DEF TypeOK, Disk, NoDup, logVars
  <2>4. disk'[b] = logd[btail] /\ cache'[b] = logd[btail]
        /\ \A c \in Block : c # b => disk'[c] = disk[c] /\ cache'[c] = cache[c]
    BY <1>1, <2>1, <2>2 DEF TypeOK
  <2>5. Logs'
    BY <1>1, <2>2, <2>4 DEF Logs, NoDup, Booting
  <2>6. \A i \in DOMAIN lh : i < btail + 1 => disk'[lh[i]] = logd[i]
    <3>1. TAKE i \in DOMAIN lh
    <3>2. CASE i = btail
      BY <2>1, <2>4, <3>2 DEF b
    <3>3. CASE i # btail
      <4>1. lh[i] # b /\ lh[i] \in Block
        BY <1>1, <2>1, <3>3 DEF Logs, NoDup, TypeOK, b
      <4>2. i < btail => disk[lh[i]] = logd[i]
        BY <1>1, <1>4 DEF Booting, Home, recover_install
      <4>3. i \in Int /\ btail \in Int
        BY <1>1 DEF TypeOK
      <4>4. disk'[lh[i]] = disk[lh[i]]
        BY <2>4, <4>1
      <4> QED BY <3>3, <4>2, <4>3, <4>4
    <3> QED BY <3>2, <3>3
  <2>7. Booting(p)'
    BY <1>1, <1>4, <2>2, <2>6 DEF Booting, Home, recover_install, logVars
  <2> QED BY <1>4, <2>2, <2>3, <2>5, <2>7 DEF LogInv, Active, recover_install
<1>5. CASE recover_write_head
  <2>1. TypeOK' /\ Disk'
    BY <1>1, <1>5, Empty DEF TypeOK, Disk, Logs, NoDup, recover_write_head, logVars
  <2>2. Logs'
    BY <1>1, <1>5 DEF Logs, NoDup, recover_write_head
  <2>3. Running(p)'
    BY <1>1, <1>5 DEF Booting, Running, InCall, recover_write_head, logVars
  <2> QED BY <1>5, <2>1, <2>2, <2>3 DEF LogInv, Active, recover_write_head
<1> QED BY <1>2, <1>3, <1>4, <1>5 DEF recover_from_log

-----------------------------------------------------------------------------
(* Every step keeps the invariant.                                         *)

LEMMA NextInv ==
  ASSUME NEW p, Proc = {p}, LogInv(p), [Next]_vars
  PROVE  LogInv(p)'
<1>1. CASE UNCHANGED vars
  BY <1>1 DEF vars, logVars, bootVars, LogInv, TypeOK, Disk, Active, Logs, NoDup,
     Running, Booting, InCall, Copied, Home
<1>2. CASE \/ begin_op(p) \/ end_op(p) \/ bget_ref(p) \/ acquiresleep(p)
           \/ SyncCheck(p) \/ FlushCheck(p) \/ StartCommit(p) \/ EndCommit(p)
           \/ \E b \in Block : bget(p, b) \/ brelse(p, b)
  BY <1>2, CallInv
<1>3. CASE \E b \in Block, v \in Value : log_write(p, b, v)
  BY <1>3, LogWriteInv
<1>4. CASE CheckTransaction(p) \/ write_log(p)
  BY <1>4, CheckTransactionInv, WriteLogInv
<1>5. CASE write_head(p, "write_head", "install") \/ write_head(p, "erase", "done")
  BY <1>5, WriteHeadInv
<1>6. CASE install_trans(p) \/ ClearTransaction(p)
  BY <1>6, InstallInv, ClearTransactionInv
<1>7. CASE \E b \in Block : Recycle(b)
  BY <1>7, RecycleInv
<1>8. CASE recover_from_log \/ Crash
  BY <1>8, RecoverInv, CrashInv
<1> QED BY <1>1, <1>2, <1>3, <1>4, <1>5, <1>6, <1>7, <1>8 DEF Next, commit

-----------------------------------------------------------------------------
(* Every step is one of SnapshotDisk, or invisible.                        *)

Invisible == UNCHANGED <<Visible, Recovered>>

\* The header is empty, or all it names is home: the disk is the snapshot.
LEMMA SettledDisk ==
  TypeOK /\ NoDup(hdr) /\ Home(hdr, NBUF) /\ Len(hdr) < NBUF => Recovered = disk
<1> SUFFICES ASSUME TypeOK, NoDup(hdr), Home(hdr, NBUF), Len(hdr) < NBUF
             PROVE  Recovered = disk
  OBVIOUS
<1>1. DOMAIN hdr \subseteq Int /\ \A i \in DOMAIN hdr : i < NBUF /\ hdr[i] \in Block
  BY ConstantsAssumption DEF TypeOK
<1>2. \A i \in DOMAIN hdr : hdr[i] \in Block /\ logd[i] = disk[hdr[i]]
  BY <1>1 DEF Home
<1>3. disk \in [Block -> Value]
  BY DEF TypeOK
<1> QED BY <1>1, <1>2, <1>3, OverlayEqual DEF Recovered

\* The header names a transaction the log has a copy of: the cache is the snapshot.
LEMMA CommittedCache ==
  TypeOK /\ Logs /\ Copied(lh, NBUF) /\ hdr = lh => Recovered = cache
<1> SUFFICES ASSUME TypeOK, Logs, Copied(lh, NBUF), hdr = lh
             PROVE  Recovered = cache
  OBVIOUS
<1>1. NoDup(hdr) /\ DOMAIN hdr \subseteq Int /\ \A i \in DOMAIN hdr : i < NBUF /\ hdr[i] \in Block
  BY ConstantsAssumption DEF TypeOK, Logs
<1>2. \A i \in DOMAIN hdr : hdr[i] \in Block /\ logd[i] = cache[hdr[i]]
  BY <1>1 DEF Copied
<1>3. \A b \in Block : (\A i \in DOMAIN hdr : hdr[i] # b) => disk[b] = cache[b]
  BY DEF Logs
<1>4. cache \in [Block -> Value]
  BY DEF TypeOK
<1> QED BY <1>1, <1>2, <1>3, <1>4, OverlayEqual DEF Recovered

LEMMA EmptyHeader == TypeOK /\ hdr = <<>> => Recovered = disk
BY SettledDisk, Empty, ConstantsAssumption DEF Home

LEMMA CallRefines ==
  ASSUME NEW p, Proc = {p}, LogInv(p), UNCHANGED <<disk, logd, hdr, cache, boot>>
  PROVE  Invisible
BY DEF Invisible, Visible, Recovered, Overlay

LEMMA LogWriteRefines ==
  ASSUME NEW p, Proc = {p}, LogInv(p), NEW b \in Block, NEW v \in Value, log_write(p, b, v)
  PROVE  SD!Write
<1>1. boot = "up" /\ boot' = "up" /\ UNCHANGED <<disk, logd, hdr>>
      /\ cache' = [cache EXCEPT ![b] = v]
  BY DEF log_write, At, Panic, bootVars
<1>2. Visible = cache /\ Visible' = cache'
  BY <1>1 DEF Visible
<1>3. UNCHANGED Recovered
  BY <1>1 DEF Recovered, Overlay
<1> QED BY <1>1, <1>2, <1>3 DEF SD!Write

LEMMA CommitRefines ==
  ASSUME NEW p, Proc = {p}, LogInv(p), CheckTransaction(p) \/ write_log(p)
         \/ write_head(p, "write_head", "install") \/ write_head(p, "erase", "done")
         \/ install_trans(p) \/ ClearTransaction(p)
  PROVE  SD!Commit \/ Invisible
<1>1. TypeOK /\ Disk /\ Logs /\ Running(p) /\ boot = "up" /\ ~panicked
  BY DEF LogInv, Active, At, CheckTransaction, write_log, write_head, install_trans, ClearTransaction
<1>2. LogInv(p)'
  BY CheckTransactionInv, WriteLogInv, WriteHeadInv, InstallInv, ClearTransactionInv
<1>3. TypeOK' /\ boot' = "up"
  BY <1>1, <1>2 DEF LogInv, CheckTransaction, write_log, write_head, install_trans,
     ClearTransaction, NoBuffer, Panic, bootVars
<1>s. (TypeOK /\ hdr = <<>> => Recovered = disk)'
  BY EmptyHeader, PTL
<1>c. (TypeOK /\ Logs /\ Copied(lh, NBUF) /\ hdr = lh => Recovered = cache)'
  BY CommittedCache, PTL
<1>4. CASE UNCHANGED <<disk, logd, hdr, cache>>
  BY <1>1, <1>3, <1>4, CallRefines
<1>5. CASE write_log(p)
  <2>1. hdr = <<>> /\ hdr' = <<>> /\ UNCHANGED <<disk, cache>>
    BY <1>1, <1>5 DEF write_log, Running, At
  <2>2. Recovered = disk /\ Recovered' = disk'
    BY <1>1, <1>3, <1>s, <2>1, EmptyHeader
  <2> QED BY <1>1, <1>3, <2>1, <2>2 DEF Invisible, Visible
<1>6. CASE write_head(p, "write_head", "install") /\ hdr' # hdr
  <2>1. hdr' = lh /\ UNCHANGED <<disk, logd, cache, dirty, lh>> /\ Copied(lh, NBUF)
    BY <1>1, <1>6 DEF write_head, Running, At
  <2>2. Logs' /\ Copied(lh, NBUF)' /\ hdr' = lh'
    BY <1>1, <2>1 DEF Logs, NoDup, Copied
  <2>3. Recovered' = cache'
    BY <1>3, <1>c, <2>2
  <2> QED BY <1>1, <1>3, <2>1, <2>3 DEF SD!Commit, Visible
<1>7. CASE write_head(p, "erase", "done") /\ hdr' # hdr
  <2>1. hdr' = <<>> /\ UNCHANGED <<disk, logd, cache>> /\ Home(hdr, NBUF)
    BY <1>1, <1>7 DEF write_head, Running, At
  <2>2. Recovered = disk
    BY <1>1, <2>1, SettledDisk DEF Disk
  <2>3. Recovered' = disk'
    BY <1>3, <1>s, <2>1
  <2> QED BY <1>1, <1>3, <2>1, <2>2, <2>3 DEF Invisible, Visible
<1>8. CASE install_trans(p) /\ ~UNCHANGED disk
  <2>1. ~Installed(p) /\ ~panicked' /\ UNCHANGED <<logd, hdr, lh>> /\ hdr = lh /\ Copied(lh, NBUF)
    BY <1>1, <1>8 DEF install_trans, NoBuffer, Running, At, bootVars
  <2>2. UNCHANGED cache /\ UNCHANGED pc /\ ~panicked'
    BY <2>1, <1>8, InstallCopy
  <2>3. Copied(lh, NBUF)' /\ hdr' = lh' /\ Logs'
    BY <1>2, <1>3, <2>1, <2>2 DEF Copied, LogInv, Active
  <2>4. Recovered = cache /\ Recovered' = cache'
    BY <1>1, <1>3, <1>c, <2>1, <2>3, CommittedCache
  <2> QED BY <1>1, <1>3, <2>2, <2>4 DEF Invisible, Visible
<1>9. CASE install_trans(p) /\ UNCHANGED disk
  <2>1. UNCHANGED <<logd, hdr>>
    BY <1>9 DEF install_trans
  <2>2. UNCHANGED cache
    <3>1. CASE Installed(p) \/ panicked'
      BY <1>1, <1>9, <3>1 DEF install_trans, bootVars
    <3>2. CASE ~Installed(p) /\ ~panicked'
      BY <1>9, <3>2, InstallCopy
    <3> QED BY <3>1, <3>2
  <2> QED BY <1>4, <1>9, <2>1, <2>2
<1>10. CASE CheckTransaction(p) \/ ClearTransaction(p)
  BY <1>4, <1>10 DEF CheckTransaction, ClearTransaction
<1> QED BY <1>4, <1>5, <1>6, <1>7, <1>8, <1>9, <1>10 DEF write_head

\* A block the header names may be overwritten: recovery takes the log's.
LEMMA OverlayAgree ==
  ASSUME NEW d, NEW e, NEW h, NEW l,
         \A b \in Block : (\A i \in DOMAIN h : h[i] # b) => d[b] = e[b]
  PROVE  Overlay(d, h, l) = Overlay(e, h, l)
BY DEF Overlay

LEMMA RecoverRefines ==
  ASSUME NEW p, Proc = {p}, LogInv(p), recover_from_log
  PROVE  Invisible
<1>1. TypeOK /\ Disk /\ Logs /\ Booting(p) /\ boot # "up" /\ LogInv(p)'
  BY RecoverInv
  DEF LogInv, Disk, Active, recover_from_log, recover_read_head, recover_install, recover_write_head
<1>2. Visible = Recovered
  BY <1>1 DEF Visible
<1>3. CASE recover_read_head
  BY <1>2, <1>3 DEF recover_read_head, Invisible, Visible, Recovered, Overlay
<1>4. CASE recover_install
  <2>1. boot = "install" /\ boot' # "up" /\ UNCHANGED <<logd, hdr>> /\ lh = hdr
    BY <1>1, <1>4 DEF recover_install, Booting
  <2>2. \A b \in Block : (\A i \in DOMAIN hdr : hdr[i] # b) => disk'[b] = disk[b]
    <3>1. CASE btail > Len(lh)
      BY <1>4, <3>1 DEF recover_install
    <3>2. CASE ~(btail > Len(lh))
      <4>1. btail \in DOMAIN hdr
        BY <1>1, <2>1, <3>2 DEF TypeOK
      <4>2. disk' = [disk EXCEPT ![hdr[btail]] = logd[btail]]
        BY <1>4, <2>1, <3>2 DEF recover_install
      <4> QED BY <1>1, <4>1, <4>2 DEF TypeOK
    <3> QED BY <3>1, <3>2
  <2>3. Recovered' = Recovered
    BY <2>1, <2>2, OverlayAgree DEF Recovered
  <2> QED BY <1>2, <2>1, <2>3 DEF Invisible, Visible
<1>5. CASE recover_write_head
  <2>1. boot' = "up" /\ hdr' = <<>> /\ UNCHANGED <<disk, logd, cache>> /\ Home(hdr, NBUF) /\ cache = disk
    <3>1. cache = disk
      BY <1>1 DEF TypeOK, Logs, Booting
    <3> QED BY <1>1, <1>5, <3>1 DEF recover_write_head, Booting
  <2>2. Recovered = disk
    BY <1>1, <2>1, SettledDisk DEF Disk
  <2>3. (TypeOK /\ hdr = <<>> => Recovered = disk)'
    BY EmptyHeader, PTL
  <2>4. Recovered' = disk'
    BY <1>1, <2>1, <2>3 DEF LogInv
  <2> QED BY <1>2, <2>1, <2>2, <2>4 DEF Invisible, Visible
<1> QED BY <1>3, <1>4, <1>5 DEF recover_from_log

LEMMA CrashRefines == Crash => SD!Crash
BY DEF Crash, SD!Crash, Visible, Recovered, Overlay

LEMMA NextRefines ==
  ASSUME NEW p, Proc = {p}, LogInv(p), [Next]_vars
  PROVE  SD!Next \/ Invisible
<1>1. CASE UNCHANGED vars
  BY <1>1, CallRefines DEF vars, bootVars
<1>2. CASE \/ begin_op(p) \/ end_op(p) \/ bget_ref(p) \/ acquiresleep(p)
           \/ SyncCheck(p) \/ FlushCheck(p) \/ StartCommit(p) \/ EndCommit(p)
           \/ \E b \in Block : bget(p, b) \/ brelse(p, b)
  BY <1>2, CallUntouched, CallRefines DEF Untouched
<1>3. CASE \E b \in Block, v \in Value : log_write(p, b, v)
  BY <1>3, LogWriteRefines DEF SD!Next
<1>4. CASE CheckTransaction(p) \/ write_log(p)
           \/ write_head(p, "write_head", "install") \/ write_head(p, "erase", "done")
           \/ install_trans(p) \/ ClearTransaction(p)
  BY <1>4, CommitRefines DEF SD!Next
<1>5. ASSUME NEW b \in Block, Recycle(b) PROVE Invisible
  BY <1>5, RecycleInv, CallRefines DEF Recycle, bootVars
<1>6. CASE recover_from_log \/ Crash
  BY <1>6, RecoverRefines, CrashRefines DEF SD!Next
<1> QED BY <1>1, <1>2, <1>3, <1>4, <1>5, <1>6 DEF Next, commit

LEMMA InitRefines ==
  ASSUME NEW p, Proc = {p}, Init
  PROVE  SD!Init
<1>1. TypeOK /\ hdr = <<>> /\ boot = "up" /\ cache = disk
  BY InitLog DEF LogInv, Init
<1>2. Recovered = disk /\ Visible = disk
  BY <1>1, EmptyHeader DEF Visible
<1> QED BY <1>1, <1>2 DEF SD!Init, TypeOK

-----------------------------------------------------------------------------
(* The theorems.                                                           *)

LEMMA Invariance == ASSUME NEW CONSTANT p, Proc = {p} PROVE Spec => []LogInv(p)
<1>1. Init => LogInv(p)
  BY InitLog
<1>2. LogInv(p) /\ [Next]_vars => LogInv(p)'
  BY NextInv
<1> QED BY <1>1, <1>2, PTL DEF Spec

\* One process: whatever step the machine stops at, recovery ends with all the
\* writes before the last write_head() of a transaction, and with no other.
THEOREM Atomicity == ASSUME NEW CONSTANT p, Proc = {p} PROVE Spec => Implements
<1>1. Init => SD!Init
  BY InitRefines
<1>2. LogInv(p) /\ [Next]_vars => SD!Next \/ Invisible
  BY NextRefines
<1>3. SD!Next \/ Invisible => [SD!Next]_<<Visible, Recovered>>
  BY DEF Invisible
<1> QED BY <1>1, <1>2, <1>3, Invariance, PTL DEF Spec, Implements, SD!Spec

\* One process: when sync() or flush() is about to return, the home blocks on
\* disk are what the calls wrote, and the log is empty.
THEOREM SyncIsDurable == ASSUME NEW CONSTANT p, Proc = {p} PROVE Spec => []SyncDurable
<1>1. LogInv(p) => SyncDurable
  <2> SUFFICES ASSUME LogInv(p), At(p, "done") PROVE disk = cache /\ hdr = <<>> /\ dirty = {}
    BY DEF SyncDurable
  <2>1. TypeOK /\ Logs /\ Running(p) /\ pc[p] = "done"
    BY DEF LogInv, Active, At
  <2>2. dirty = {} /\ hdr = <<>>
    BY <2>1 DEF Running
  <2>3. disk = cache
    BY <2>1, <2>2 DEF Logs, TypeOK
  <2> QED BY <2>2, <2>3
<1> QED BY <1>1, Invariance, PTL

\* One process: the variables keep their types; the loops of write_log() and
\* install_trans() stay inside the log area.
THEOREM TypesCorrect == ASSUME NEW CONSTANT p, Proc = {p} PROVE Spec => []TypeOK
<1>1. LogInv(p) => TypeOK
  BY DEF LogInv
<1> QED BY <1>1, Invariance, PTL

-----------------------------------------------------------------------------
(* One process and two buffers more than a call holds: nothing panics.     *)

Commits == {"commit", "write_log", "write_head", "install", "clear", "erase", "done"}
Asked(p) == IF pc[p] = "lock" THEN {want[p]} ELSE {}
Used(p) == dirty \cup held[p] \cup Asked(p)

\* The transaction has no block more than the dirty ones.
LogIsDirty == Len(lh) <= Cardinality(dirty) /\ \A i \in DOMAIN lh : lh[i] \in dirty

\* bget() has found three buffers, or has flushed: two are left for commit().
RoomInv(p) ==
  /\ IsFiniteSet(dirty) /\ IsFiniteSet(held[p])
  /\ Cardinality(held[p]) <= MaxHeld
  /\ want[p] # none => Cardinality(held[p]) < MaxHeld
  /\ Cardinality(Used(p)) + 2 <= NBUF
  /\ pc[p] = "bget" => Cardinality(Used(p)) + 3 <= NBUF
  /\ committing \/ is_flush => pc[p] \in Commits
  /\ pc[p] \notin {"install", "clear", "erase", "done"} => LogIsDirty

QuietInv(p) == held[p] = {} /\ ~committing /\ ~is_flush

CalmInv(p) ==
  /\ LogInv(p) /\ ~panicked
  /\ boot = "up" => RoomInv(p)
  /\ boot # "up" => QuietInv(p)

LEMMA UnusedIs ==
  ASSUME NEW p, Proc = {p}
  PROVE  dirty \cup Pinned = Used(p) /\ Unused = NBUF - Cardinality(Used(p))
<1>1. dirty \cup Pinned = Used(p)
  BY DEF Pinned, Used, Asked
<1> QED BY <1>1 DEF Unused

LEMMA UsedSize ==
  ASSUME NEW p, RoomInv(p)
  PROVE  /\ IsFiniteSet(Used(p)) /\ Cardinality(Used(p)) \in Nat
         /\ Cardinality(dirty) \in Nat /\ Cardinality(held[p]) \in Nat
         /\ Cardinality(dirty) <= Cardinality(Used(p))
<1>1. IsFiniteSet(dirty) /\ IsFiniteSet(held[p]) /\ IsFiniteSet(Asked(p))
  BY FS_EmptySet, FS_Singleton DEF RoomInv, Asked
<1>2. IsFiniteSet(Used(p))
  BY <1>1, FS_Union DEF Used
<1>3. dirty \in SUBSET Used(p)
  BY DEF Used
<1> QED BY <1>1, <1>2, <1>3, FS_Subset, FS_CardinalityType

LEMMA BufferNumbers ==
  NBUF \in Nat /\ MaxHeld \in Nat /\ none \notin Block
BY ConstantsAssumption

\* Steps that move only the process.
LEMMA MoveRoom ==
  ASSUME NEW p, Proc = {p}, MaxHeld + 2 <= NBUF, CalmInv(p), boot = "up",
         \/ begin_op(p) \/ end_op(p) \/ SyncCheck(p) \/ FlushCheck(p)
         \/ StartCommit(p) \/ CheckTransaction(p) \/ write_log(p) \/ EndCommit(p)
         \/ write_head(p, "write_head", "install") \/ write_head(p, "erase", "done")
         \/ \E b \in Block : bget(p, b)
  PROVE  ~panicked' /\ RoomInv(p)'
<1> USE DEF At, Goto, Panic, logVars, bootVars
<1>1. TypeOK /\ Running(p) /\ RoomInv(p) /\ ~panicked
  BY DEF CalmInv, LogInv, Active
<1>2. Cardinality(Used(p)) \in Nat /\ Cardinality(held[p]) \in Nat /\ NBUF \in Nat /\ MaxHeld \in Nat
  BY <1>1, UsedSize, BufferNumbers
<1>3. Unused > 0 /\ (Unused > 2 => Cardinality(Used(p)) + 3 <= NBUF)
  BY <1>1, <1>2, UnusedIs DEF RoomInv
<1>4. UNCHANGED <<dirty, lh, held>> /\ pc[p] # "lock" /\ pc'[p] # "lock" /\ boot' = "up"
  BY <1>1, <1>3
  DEF TypeOK, begin_op, end_op, SyncCheck, FlushCheck, StartCommit, CheckTransaction,
      write_log, EndCommit, write_head, bget, NoBuffer
<1>5. Used(p)' = Used(p)
  BY <1>4 DEF Used, Asked
<1>6. ~panicked'
  BY <1>1, <1>3
  DEF begin_op, end_op, SyncCheck, FlushCheck, StartCommit, CheckTransaction,
      write_log, EndCommit, write_head, bget, NoBuffer, RoomInv, Commits
<1>7. /\ IsFiniteSet(dirty)' /\ IsFiniteSet(held[p])'
      /\ (Cardinality(held[p]) <= MaxHeld)'
      /\ (Cardinality(Used(p)) + 2 <= NBUF)'
  BY <1>1, <1>4, <1>5 DEF RoomInv
<1>8. want'[p] # none => (Cardinality(held[p]) < MaxHeld)'
  <2>1. CASE \E b \in Block : bget(p, b)
    BY <1>4, <2>1 DEF bget
  <2>2. CASE ~\E b \in Block : bget(p, b)
    <3>1. UNCHANGED want
      BY <2>2
      DEF begin_op, end_op, SyncCheck, FlushCheck, StartCommit, CheckTransaction,
          write_log, EndCommit, write_head
    <3> QED BY <1>1, <1>4, <3>1 DEF RoomInv
  <2> QED BY <2>1, <2>2
<1>9. pc'[p] = "bget" => (Cardinality(Used(p)) + 3 <= NBUF)'
  <2>1. CASE \E b \in Block : bget(p, b)
    <3>1. ~is_flush
      BY <1>1, <2>1 DEF bget, RoomInv, Commits
    <3>2. pc'[p] = "bget" => ~MustFlush
      BY <1>1, <2>1 DEF bget, TypeOK
    <3>3. pc'[p] = "bget" => Cardinality(Used(p)) + 3 <= NBUF
      BY <1>2, <1>3, <3>1, <3>2, UnusedIs DEF MustFlush
    <3> QED BY <1>5, <3>3
  <2>2. CASE EndCommit(p)
    <3>1. dirty = {} /\ pc[p] = "done"
      BY <1>1, <2>2 DEF EndCommit, Running
    <3>2. Used(p) = held[p]
      BY <3>1 DEF Used, Asked
    <3>3. pc'[p] = "bget" => want[p] # none
      BY <1>1, <2>2 DEF EndCommit, TypeOK
    <3> QED BY <1>1, <1>2, <1>5, <3>2, <3>3 DEF RoomInv
  <2>3. CASE FlushCheck(p)
    BY <1>1, <2>3 DEF FlushCheck, RoomInv, Commits, TypeOK
  <2>4. CASE ~(\E b \in Block : bget(p, b)) /\ ~EndCommit(p) /\ ~FlushCheck(p)
    BY <1>1, <1>3, <2>4
    DEF TypeOK, begin_op, end_op, SyncCheck, StartCommit, CheckTransaction, write_log, write_head, NoBuffer
  <2> QED BY <2>1, <2>2, <2>3, <2>4
<1>10. committing' \/ is_flush' => pc'[p] \in Commits
  BY <1>1, <1>3
  DEF TypeOK, begin_op, end_op, SyncCheck, FlushCheck, StartCommit, CheckTransaction,
      write_log, EndCommit, write_head, bget, NoBuffer, RoomInv, Commits
<1>11. pc'[p] \notin {"install", "clear", "erase", "done"} => LogIsDirty'
  <2>1. CASE EndCommit(p)
    <3>1. lh = <<>> /\ dirty = {}
      BY <1>1, <2>1 DEF EndCommit, Running
    <3> QED BY <1>4, <3>1, FS_EmptySet, Empty DEF LogIsDirty
  <2>2. CASE ~EndCommit(p)
    <3>1. pc'[p] \notin {"install", "clear", "erase", "done"} => pc[p] \notin {"install", "clear", "erase", "done"}
      BY <1>1, <1>3, <2>2
      DEF TypeOK, begin_op, end_op, SyncCheck, FlushCheck, StartCommit, CheckTransaction,
          write_log, write_head, bget, NoBuffer
    <3> QED BY <1>1, <1>4, <3>1 DEF RoomInv, LogIsDirty
  <2> QED BY <2>1, <2>2
<1> QED BY <1>6, <1>7, <1>8, <1>9, <1>10, <1>11 DEF RoomInv

\* bget() takes a reference, then the lock; brelse() gives both back.
LEMMA BufferRoom ==
  ASSUME NEW p, Proc = {p}, MaxHeld + 2 <= NBUF, CalmInv(p), boot = "up",
         bget_ref(p) \/ acquiresleep(p) \/ \E b \in Block : brelse(p, b)
  PROVE  ~panicked' /\ RoomInv(p)'
<1> USE DEF At, Goto, Panic, logVars, bootVars
<1>1. TypeOK /\ Running(p) /\ RoomInv(p) /\ ~panicked
  BY DEF CalmInv, LogInv, Active
<1>2. /\ Cardinality(Used(p)) \in Nat /\ Cardinality(held[p]) \in Nat /\ NBUF \in Nat /\ MaxHeld \in Nat
      /\ IsFiniteSet(Used(p)) /\ none \notin Block
  BY <1>1, UsedSize, BufferNumbers
<1>3. UNCHANGED <<dirty, lh, committing, is_flush>> /\ IsFiniteSet(dirty)
  BY <1>1 DEF bget_ref, acquiresleep, brelse, RoomInv
<1>4. LogIsDirty' /\ ~committing' /\ ~is_flush'
  BY <1>1, <1>3 DEF RoomInv, LogIsDirty, Commits, bget_ref, acquiresleep, brelse
<1>5. CASE bget_ref(p)
  <2>1. Unused > 0 /\ pc[p] = "bget" /\ Cardinality(Used(p)) + 3 <= NBUF
    BY <1>1, <1>2, <1>5, UnusedIs DEF bget_ref, RoomInv
  <2>2. UNCHANGED <<held, want>> /\ pc'[p] = "lock" /\ ~panicked'
    BY <1>1, <1>5, <2>1 DEF bget_ref, TypeOK
  <2>3. Used(p)' = Used(p) \cup {want[p]}
    BY <1>3, <2>1, <2>2 DEF Used, Asked
  <2>4. Cardinality(Used(p) \cup {want[p]}) <= Cardinality(Used(p)) + 1 /\ Cardinality(Used(p) \cup {want[p]}) \in Nat
    <3>1. IsFiniteSet(Used(p)) /\ Cardinality(Used(p)) \in Nat
      BY <1>2
    <3>2. Cardinality(Used(p) \cup {want[p]})
            = IF want[p] \in Used(p) THEN Cardinality(Used(p)) ELSE Cardinality(Used(p)) + 1
      BY ONLY <3>1, FS_AddElement
    <3> QED BY <3>1, <3>2
  <2>5. (Cardinality(Used(p)) + 2 <= NBUF)'
    BY <1>2, <2>1, <2>3, <2>4
  <2> QED BY <1>1, <1>3, <1>4, <2>2, <2>5 DEF RoomInv
<1>6. CASE acquiresleep(p)
  <2>1. pc[p] = "lock" /\ want[p] # none /\ want'[p] = none /\ pc'[p] = "op" /\ ~panicked'
    BY <1>1, <1>6 DEF acquiresleep, Running, TypeOK
  <2>2. held'[p] = held[p] \cup {want[p]}
    BY <1>1, <1>6 DEF acquiresleep, TypeOK
  <2>3. Used(p)' = Used(p)
    BY <1>3, <2>1, <2>2 DEF Used, Asked
  <2>4. IsFiniteSet(held[p]) /\ Cardinality(held[p]) < MaxHeld
    BY <1>1, <2>1 DEF RoomInv
  <2>5. IsFiniteSet(held'[p]) /\ Cardinality(held'[p]) <= MaxHeld
    <3>1. /\ IsFiniteSet(held[p] \cup {want[p]})
          /\ Cardinality(held[p] \cup {want[p]})
               = IF want[p] \in held[p] THEN Cardinality(held[p]) ELSE Cardinality(held[p]) + 1
      BY ONLY <2>4, FS_AddElement
    <3>2. Cardinality(held[p]) \in Nat /\ MaxHeld \in Nat
      BY <1>2
    <3>3. Cardinality(held[p] \cup {want[p]}) <= MaxHeld
      BY <2>4, <3>1, <3>2
    <3> QED BY <2>2, <3>1, <3>3
  <2>6. (Cardinality(Used(p)) + 2 <= NBUF)'
    BY <1>1, <2>3 DEF RoomInv
  <2> QED BY <1>3, <1>4, <2>1, <2>5, <2>6 DEF RoomInv
<1>7. ASSUME NEW b \in Block, brelse(p, b) PROVE ~panicked' /\ RoomInv(p)'
  <2>1. pc[p] = "op" /\ UNCHANGED <<pc, want>> /\ ~panicked' /\ held'[p] = held[p] \ {b}
    BY <1>1, <1>7 DEF brelse, TypeOK
  <2>2. want[p] = none
    BY <1>1, <2>1 DEF Running
  <2>3. held'[p] \in SUBSET held[p] /\ Used(p)' \in SUBSET Used(p)
    BY <1>3, <2>1 DEF Used, Asked
  <2>4. IsFiniteSet(held'[p]) /\ Cardinality(held'[p]) <= Cardinality(held[p]) /\ Cardinality(held'[p]) \in Nat
    BY <1>1, <2>3, FS_Subset, FS_CardinalityType DEF RoomInv
  <2>5. Cardinality(Used(p)') <= Cardinality(Used(p)) /\ Cardinality(Used(p)') \in Nat
    BY <1>2, <2>3, FS_Subset, FS_CardinalityType
  <2>6. (Cardinality(Used(p)) + 2 <= NBUF)' /\ (Cardinality(held[p]) <= MaxHeld)'
    BY <1>1, <1>2, <2>4, <2>5 DEF RoomInv
  <2> QED BY <1>3, <1>4, <2>1, <2>2, <2>4, <2>6 DEF RoomInv
<1> QED BY <1>5, <1>6, <1>7

\* A block that log_write() adds to the transaction is one that a call holds, so
\* LOGSIZE blocks are never too few for it.
LEMMA WriteRoom ==
  ASSUME NEW p, Proc = {p}, MaxHeld + 2 <= NBUF, CalmInv(p), boot = "up",
         NEW b \in Block, NEW v \in Value, log_write(p, b, v)
  PROVE  ~panicked' /\ RoomInv(p)'
<1> USE DEF At, Goto, Panic, logVars, bootVars
<1>1. TypeOK /\ Running(p) /\ RoomInv(p) /\ Logs /\ ~panicked /\ pc[p] = "op" /\ b \in held[p]
  BY DEF CalmInv, LogInv, Active, log_write
<1>2. /\ Cardinality(Used(p)) \in Nat /\ Cardinality(held[p]) \in Nat /\ NBUF \in Nat
      /\ Cardinality(dirty) \in Nat /\ Cardinality(dirty) <= Cardinality(Used(p)) /\ IsFiniteSet(dirty)
  BY <1>1, UsedSize, BufferNumbers DEF RoomInv
<1>3. LogIsDirty /\ Cardinality(Used(p)) + 2 <= NBUF /\ outstanding = 1
  BY <1>1 DEF RoomInv, Running, InCall
<1>4. Len(lh) \in Nat /\ Len(lh) < NBUF - 1
  BY <1>1, <1>2, <1>3 DEF LogIsDirty, TypeOK
<1>0. ~(Len(lh) >= NBUF - 1 \/ outstanding < 1)
  BY <1>2, <1>3, <1>4
<1>5. /\ lh' = Absorb(b) /\ dirty' = dirty \cup {b} /\ ~panicked'
      /\ UNCHANGED <<held, want, pc, committing, is_flush>>
  BY <1>0, <1>1 DEF log_write
<1>6. Used(p)' = Used(p)
  BY <1>1, <1>5 DEF Used, Asked
<1>7. LogIsDirty'
  <2>1. CASE \E i \in DOMAIN lh : lh[i] = b
    <3>1. b \in dirty /\ lh' = lh
      BY <1>3, <1>5, <2>1 DEF LogIsDirty, Absorb
    <3>2. dirty' = dirty
      BY <1>5, <3>1
    <3> QED BY <1>3, <3>1, <3>2 DEF LogIsDirty
  <2>2. CASE ~\E i \in DOMAIN lh : lh[i] = b
    <3>1. b \notin dirty /\ lh' = Append(lh, b)
      BY <1>1, <1>5, <2>2 DEF Logs, Absorb
    <3>2. Cardinality(dirty') = Cardinality(dirty) + 1
      BY <1>2, <1>5, <3>1, FS_AddElement
    <3>3. lh \in Seq(Block) /\ DOMAIN lh = 1..Len(lh)
      BY <1>1 DEF TypeOK
    <3>4. Len(lh') = Len(lh) + 1 /\ \A i \in 1..Len(lh) + 1 : lh'[i] \in dirty'
      BY <1>3, <1>5, <3>1, <3>3 DEF LogIsDirty
    <3>5. DOMAIN lh' = 1..Len(lh) + 1
      BY <3>1, <3>3
    <3> QED BY <1>2, <1>3, <1>4, <3>2, <3>4, <3>5 DEF LogIsDirty
  <2> QED BY <2>1, <2>2
<1>8. IsFiniteSet(dirty')
  BY <1>2, <1>5, FS_AddElement
<1> QED BY <1>1, <1>5, <1>6, <1>7, <1>8 DEF RoomInv

\* install_trans() unpins a block at a time.
LEMMA InstallRoom ==
  ASSUME NEW p, Proc = {p}, CalmInv(p), boot = "up",
         install_trans(p) \/ ClearTransaction(p)
  PROVE  ~panicked' /\ RoomInv(p)'
<1> USE DEF At, Goto, Panic, logVars, bootVars
<1>1. TypeOK /\ Running(p) /\ RoomInv(p) /\ ~panicked /\ NBUF \in Nat
  BY BufferNumbers DEF CalmInv, LogInv, Active
<1>2. Cardinality(Used(p)) \in Nat /\ IsFiniteSet(Used(p)) /\ IsFiniteSet(dirty)
  BY <1>1, UsedSize DEF RoomInv
<1>3. Unused > 0
  BY <1>1, <1>2, UnusedIs DEF RoomInv
<1>4. /\ dirty' \in SUBSET dirty /\ UNCHANGED <<held, want, committing, is_flush>> /\ ~panicked'
      /\ pc[p] \in {"install", "clear"} /\ pc'[p] \in {"install", "clear", "erase"}
  BY <1>1, <1>3 DEF TypeOK, install_trans, ClearTransaction, NoBuffer
<1>5. Used(p)' \in SUBSET Used(p)
  BY <1>4 DEF Used, Asked
<1>6. Cardinality(Used(p)') <= Cardinality(Used(p)) /\ Cardinality(Used(p)') \in Nat /\ IsFiniteSet(dirty')
  BY <1>2, <1>4, <1>5, FS_Subset, FS_CardinalityType
<1>7. (Cardinality(Used(p)) + 2 <= NBUF)'
  BY <1>1, <1>2, <1>6 DEF RoomInv
<1> QED BY <1>1, <1>4, <1>6, <1>7 DEF RoomInv, Commits

LEMMA RecycleRoom ==
  ASSUME NEW p, CalmInv(p), boot = "up", NEW b \in Block, Recycle(b)
  PROVE  ~panicked' /\ RoomInv(p)'
BY DEF CalmInv, Recycle, RoomInv, Used, Asked, LogIsDirty, logVars, bootVars

LEMMA NothingUsed ==
  ASSUME NEW p, dirty = {}, lh = <<>>, held[p] = {}, pc[p] = "idle", want[p] = none,
         ~committing, ~is_flush, MaxHeld + 2 <= NBUF
  PROVE  RoomInv(p)
<1>1. Used(p) = {}
  BY DEF Used, Asked
<1>2. NBUF \in Nat /\ MaxHeld \in Nat
  BY BufferNumbers
<1> QED BY <1>1, <1>2, FS_EmptySet, Empty DEF RoomInv, LogIsDirty

\* Recovery leaves nothing dirty and nothing in the log.
LEMMA RecoverRoom ==
  ASSUME NEW p, Proc = {p}, MaxHeld + 2 <= NBUF, CalmInv(p), recover_from_log
  PROVE  /\ ~panicked'
         /\ boot' = "up" => RoomInv(p)'
         /\ boot' # "up" => QuietInv(p)'
<1>1. Booting(p) /\ QuietInv(p) /\ ~panicked
  BY DEF CalmInv, LogInv, Active, recover_from_log, recover_read_head, recover_install, recover_write_head
<1>2. ~panicked' /\ UNCHANGED <<dirty, held, pc, want, committing, is_flush>>
  BY <1>1
  DEF recover_from_log, recover_read_head, recover_install, recover_write_head, logVars
<1>3. boot' = "up" => lh' = <<>>
  BY <1>1 DEF recover_from_log, recover_read_head, recover_install, recover_write_head, Booting
<1>4. Used(p)' = {}
  BY <1>1, <1>2 DEF Booting, QuietInv, Used, Asked
<1>5. NBUF \in Nat /\ MaxHeld \in Nat
  BY BufferNumbers
<1>6. dirty' = {} /\ held'[p] = {} /\ pc'[p] = "idle" /\ want'[p] = none /\ ~committing' /\ ~is_flush'
  BY <1>1, <1>2 DEF Booting, QuietInv
<1>7. boot' = "up" => LogIsDirty'
  BY <1>3, <1>6, FS_EmptySet, Empty DEF LogIsDirty
<1>8. boot' = "up" => RoomInv(p)'
  BY <1>4, <1>5, <1>6, <1>7, FS_EmptySet DEF RoomInv
<1> QED BY <1>2, <1>6, <1>8 DEF QuietInv

LEMMA CalmInit == ASSUME NEW p, Proc = {p}, MaxHeld + 2 <= NBUF, Init PROVE CalmInv(p)
BY InitLog, NothingUsed DEF Init, CalmInv

LEMMA CalmNext ==
  ASSUME NEW p, Proc = {p}, MaxHeld + 2 <= NBUF, CalmInv(p), [Next]_vars
  PROVE  CalmInv(p)'
<1>1. LogInv(p)'
  BY NextInv DEF CalmInv
<1>2. CASE UNCHANGED vars
  BY <1>1, <1>2
  DEF vars, logVars, bootVars, CalmInv, RoomInv, QuietInv, Used, Asked, LogIsDirty
<1>3. CASE Crash
  BY <1>1, <1>3 DEF Crash, CalmInv, QuietInv
<1>4. CASE recover_from_log
  BY <1>1, <1>4, RecoverRoom DEF CalmInv
<1>5. CASE Next /\ ~Crash /\ ~recover_from_log
  <2>1. boot = "up" /\ boot' = "up"
    BY <1>5
    DEF Next, commit, At, Panic, bootVars, begin_op, end_op, bget_ref, acquiresleep, bget, brelse,
        log_write, SyncCheck, FlushCheck, StartCommit, CheckTransaction, write_log, write_head,
        install_trans, NoBuffer, ClearTransaction, EndCommit, Recycle
  <2>2. ~panicked' /\ RoomInv(p)'
    BY <1>5, <2>1, MoveRoom, BufferRoom, WriteRoom, InstallRoom, RecycleRoom DEF Next, commit
  <2> QED BY <1>1, <2>1, <2>2 DEF CalmInv
<1> QED BY <1>2, <1>3, <1>4, <1>5

\* One process whose calls leave two buffers free: neither bget(), nor
\* log_write(), nor sync() panics (bio.c:79-81, log.c:181-184).
THEOREM CallsGoOn ==
  ASSUME NEW CONSTANT p, Proc = {p}, MaxHeld + 2 <= NBUF
  PROVE  Spec => []NoPanic
<1>1. Init => CalmInv(p)
  BY CalmInit
<1>2. CalmInv(p) /\ [Next]_vars => CalmInv(p)'
  BY CalmNext
<1>3. CalmInv(p) => NoPanic
  BY DEF CalmInv, NoPanic
<1> QED BY <1>1, <1>2, <1>3, PTL DEF Spec
=============================================================================
