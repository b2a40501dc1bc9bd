---------------------------- MODULE SnapshotDisk ----------------------------
(***************************************************************************)
(* What the log of Project03-FileSystem promises its users: the blocks they *)
(* see, and the snapshot of all of them that a crash goes back to.         *)
(***************************************************************************)
CONSTANTS Block, Value

VARIABLES mem,     \* the blocks as the file system calls see them
          durable  \* the blocks as they are after a crash and recovery

Init == durable \in [Block -> Value] /\ mem = durable

\* A file system call changes a block.
Write == /\ \E b \in Block, v \in Value : mem' = [mem EXCEPT ![b] = v]
         /\ UNCHANGED durable

\* sync() or flush(): all blocks become durable at once.
Commit == durable' = mem /\ UNCHANGED mem

\* The machine stops and recovers.
Crash == mem' = durable /\ UNCHANGED durable

Next == Write \/ Commit \/ Crash
Spec == Init /\ [][Next]_<<mem, durable>>
=============================================================================
