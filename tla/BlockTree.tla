----------------------------- MODULE BlockTree -----------------------------
(***************************************************************************)
(* The blocks of the files of Project03-FileSystem: the free map of        *)
(* balloc() and bfree(), the direct, single, double and triple indirect    *)
(* blocks of bmap() and itrunc(), and what readi() and writei() make of    *)
(* them (fs.c).                                                            *)
(*                                                                         *)
(* A block is NINDIRECT words; a word of an indirect block is a block      *)
(* number, or 0.  The inode is locked and the free map is changed under    *)
(* the lock of its buffer, so one call on an inode is one action; FSLog    *)
(* says what becomes of a call when the machine stops.  A call that would  *)
(* need more blocks than there are stops the kernel (balloc() panics) and  *)
(* leaves nothing on the disk: it is not enabled here.                     *)
(***************************************************************************)
EXTENDS Naturals, Sequences, FiniteSets

CONSTANTS
  Inodes,       \* numbers of the inodes of files
  NDIRECT,      \* addresses of data blocks in an inode
  NINDIRECT,    \* words in a block
  NBLOCKS,      \* data blocks on the disk (bound)
  WriteSizes,   \* how many words programs write at once (bound)
  Small,        \* inodes whose files stay below SmallSize words (bound)
  SmallSize,
  BigSize,      \* what the others stay below (bound)
  Symlinks,     \* inodes that sys_symlink() may make of a free one
  PathWords,    \* what the first word of its path may be
  Removable     \* inodes whose last link programs remove

ASSUME TreeAssumption ==
  /\ Inodes \subseteq Nat \ {0} /\ Symlinks \cup Removable \cup Small \subseteq Inodes
  /\ {NDIRECT, NINDIRECT, NBLOCKS} \subseteq Nat \ {0}
  /\ WriteSizes \subseteq Nat \ {0} /\ {SmallSize, BigSize} \subseteq Nat
  /\ PathWords \subseteq 1..NBLOCKS

VARIABLES
  addrs,   \* ip->addrs: block numbers, 0 where there is none
  data,    \* the words of each block
  used,    \* the blocks marked in the free map
  size     \* ip->size, in words

vars == <<addrs, data, used, size>>

Block == 1..NBLOCKS
NDINDIRECT == NINDIRECT * NINDIRECT
NTINDIRECT == NDINDIRECT * NINDIRECT
MAXFILE == NDIRECT + NINDIRECT + NDINDIRECT + NTINDIRECT

\* What programs write at an offset: another word for every file and offset
Word(ip, off) == NBLOCKS + ip * (MAXFILE * NINDIRECT + 1) + off

\* What a removed file has left in a free block: some words, and never all zero
Stale == [k \in 0..NINDIRECT - 1 |-> 1]

-----------------------------------------------------------------------------
(* The file system seen by one call: the addresses of the inode, the       *)
(* blocks, the free map, and the block the call is at                      *)

Start(ip) == [addr |-> addrs[ip], data |-> data, used |-> used, at |-> 0]

Uncleanballoc(s) ==
  LET b == CHOOSE b \in Block \ s.used : \A c \in Block \ s.used : b <= c
  IN  [s EXCEPT !.used = @ \cup {b}, !.at = b]
Lowballoc(s) ==
  LET b == CHOOSE b \in 0..NBLOCKS \ s.used : \A c \in 0..NBLOCKS \ s.used : b <= c
  IN  [s EXCEPT !.used = @ \cup {b},
                !.data = [c \in Block |-> IF c = b THEN [k \in 0..NINDIRECT - 1 |-> 0] ELSE @[c]],
                !.at = b]

\* balloc() and its bzero(): the first block that is not in use
balloc(s) ==
  LET b == CHOOSE b \in Block \ s.used : \A c \in Block \ s.used : b <= c
  IN  [addr |-> s.addr, data |-> [s.data EXCEPT ![b] = [k \in 0..NINDIRECT - 1 |-> 0]],
       used |-> s.used \cup {b}, at |-> b]

\* The way to data block bn: the place in the inode, then one in each indirect
\* block on the way.
Path(bn) ==
  LET b1 == bn - NDIRECT
      b2 == b1 - NINDIRECT
      b3 == b2 - NDINDIRECT
  IN  IF bn < NDIRECT THEN <<bn>>
      ELSE IF b1 < NINDIRECT THEN <<NDIRECT, b1>>
      ELSE IF b2 < NDINDIRECT THEN <<NDIRECT + 1, b2 \div NINDIRECT, b2 % NINDIRECT>>
      ELSE <<NDIRECT + 2, b3 \div NDINDIRECT,
             (b3 % NDINDIRECT) \div NINDIRECT, (b3 % NDINDIRECT) % NINDIRECT>>

\* From the indirect block s.at to the block at its place k
Follow(s, k) ==
  LET t == balloc(s)
  IN  IF s.data[s.at][k] # 0 THEN [s EXCEPT !.at = s.data[s.at][k]]
                             ELSE [t EXCEPT !.data[s.at][k] = t.at]

\* From the inode to the block at its place k
Enter(s, k) ==
  LET t == balloc(s)
  IN  IF s.addr[k] # 0 THEN [s EXCEPT !.at = s.addr[k]]
                       ELSE [t EXCEPT !.addr[k] = t.at]

\* bmap(): s.at becomes the block
bmap(s, bn) ==
  LET p  == Path(bn)
      s1 == Enter(s, p[1])
      s2 == Follow(s1, p[2])
      s3 == Follow(s2, p[3])
      s4 == Follow(s3, p[4])
  IN  CASE Len(p) = 1 -> s1 [] Len(p) = 2 -> s2 [] Len(p) = 3 -> s3 [] Len(p) = 4 -> s4

\* A turn of the loop of writei(): the words of block bn that are in off..end-1
Write(s, ip, bn, off, end) ==
  LET t == bmap(s, bn)
  IN  [t EXCEPT !.data[t.at] = [w \in 0..NINDIRECT - 1 |->
         LET o == bn * NINDIRECT + w
         IN  IF off <= o /\ o < end THEN Word(ip, o) ELSE @[w]]]

\* The loop of writei(): the words from off to end, block by block
writeWords(ip, off, end) ==
  LET First == off \div NINDIRECT
      Last  == (end - 1) \div NINDIRECT
      After[bn \in First..Last] ==
        Write(IF bn = First THEN Start(ip) ELSE After[bn - 1], ip, bn, off, end)
  IN  After[Last]

\* The places that lead to the first words of a file, as many as a size says
Places(words) ==
  UNION {{SubSeq(Path(bn), 1, n) : n \in 1..Len(Path(bn))} :
           bn \in {b \in 0..MAXFILE - 1 : b * NINDIRECT < words}}

-----------------------------------------------------------------------------
(* The calls                                                               *)

\* filewrite() of n words at off, one of the chunks it cuts its argument into
writei(ip, off, n) ==
  LET end == off + n
      s   == writeWords(ip, off, end)
  IN  /\ ip \notin Symlinks
      /\ end <= IF ip \in Small THEN SmallSize ELSE BigSize
      /\ off <= size[ip] /\ end <= MAXFILE * NINDIRECT
      /\ Cardinality(Places(end) \ Places(size[ip])) <= Cardinality(Block \ used)
      /\ addrs' = [addrs EXCEPT ![ip] = s.addr]
      /\ data' = s.data
      /\ used' = s.used
      /\ size' = [size EXCEPT ![ip] = IF end > @ THEN end ELSE @]

\* The blocks that the words of blocks B name
Named(B) == {data[b][k] : b \in B, k \in 0..NINDIRECT - 1} \ {0}
Addr(ip, k) == {addrs[ip][k]} \ {0}

Direct(ip) == UNION {Addr(ip, k) : k \in 0..NDIRECT - 1}
Single(ip) == LET B == Addr(ip, NDIRECT) IN B \cup Named(B)
Double(ip) == LET B == Addr(ip, NDIRECT + 1) IN B \cup Named(B) \cup Named(Named(B))
ShortTriple(ip) ==
  LET B == Addr(ip, NDIRECT + 2)
  IN  B \cup Named(B) \cup Named(Named(B))
Triple(ip) ==
  LET B == Addr(ip, NDIRECT + 2)
  IN  B \cup Named(B) \cup Named(Named(B)) \cup Named(Named(Named(B)))
BlocksOf(ip) == Direct(ip) \cup Single(ip) \cup Double(ip) \cup Triple(ip)

NoAddrs == [k \in 0..NDIRECT + 2 |-> 0]

\* itrunc() by the iput() that drops the last reference to an inode without links.
\* For a symbolic link that is after a restart: sys_symlink() keeps a reference.
itrunc(ip) ==
  /\ ip \in Removable
  /\ used' = used \ BlocksOf(ip)
  /\ addrs' = [addrs EXCEPT ![ip] = NoAddrs]
  /\ size' = [size EXCEPT ![ip] = 0]
  /\ data' = [b \in Block |-> IF b \in BlocksOf(ip) THEN Stale ELSE data[b]]

\* sys_symlink(): the path is put where the addresses of the blocks are, and its
\* first bytes may be the number of any block.
sys_symlink(ip) ==
  /\ ip \in Symlinks /\ size[ip] = 0
  /\ \E bytes \in PathWords : addrs' = [addrs EXCEPT ![ip][0] = bytes]
  /\ size' = [size EXCEPT ![ip] = 1]
  /\ UNCHANGED <<data, used>>

-----------------------------------------------------------------------------
(* The specification                                                       *)

\* No file has a block: the free map as mkfs makes it, and blocks that other files
\* were in before
Init ==
  /\ addrs = [ip \in Inodes |-> NoAddrs]
  /\ data = [b \in Block |-> Stale]
  /\ used = {}
  /\ size = [ip \in Inodes |-> 0]

Next == \E ip \in Inodes :
  \/ \E n \in WriteSizes : \E off \in 0..size[ip] : writei(ip, off, n)
  \/ itrunc(ip)
  \/ sys_symlink(ip)

Spec == Init /\ [][Next]_vars

-----------------------------------------------------------------------------
(* Properties                                                              *)

\* Addresses and words are what the declarations of fs.h allow.
TypeOK ==
  /\ addrs \in [Inodes -> [0..NDIRECT + 2 -> 0..NBLOCKS]]
  /\ data \in [Block -> [0..NINDIRECT - 1 -> Nat]]
  /\ used \subseteq Block
  /\ size \in [Inodes -> 0..MAXFILE * NINDIRECT]

Regular == Inodes \ Symlinks

\* Every block is marked in the free map if and only if a file has it, in one place:
\* neither does itrunc() forget a block that bmap() allocated, nor free one that is
\* in use, nor does bmap() put one block at two places of the trees.
BitmapExact ==
  /\ used = UNION {BlocksOf(ip) : ip \in Regular}
  /\ \A i, j \in Regular : i # j => BlocksOf(i) \cap BlocksOf(j) = {}
  /\ \A ip \in Regular : Cardinality(BlocksOf(ip)) = Cardinality(Places(size[ip]))

\* What readi() finds at an offset
WordAt(ip, off) ==
  data[bmap(Start(ip), off \div NINDIRECT).at][off % NINDIRECT]

\* A file is the words that were written to it, whatever happens to other files,
\* and whichever of the four kinds of blocks they are in.
WordsKept ==
  \A ip \in Regular : \A off \in 0..size[ip] - 1 : WordAt(ip, off) = Word(ip, off)
=============================================================================
