-------------------------- MODULE BlockTreeProofs --------------------------
(***************************************************************************)
(* The free map, the block maps and the words of the files of BlockTree,   *)
(* for every number of inodes, addresses, words in a block and blocks.     *)
(***************************************************************************)
EXTENDS BlockTree, FiniteSetTheorems, SequenceTheorems, WellFoundedInduction, TLAPS

-----------------------------------------------------------------------------
(* Arithmetic                                                              *)

\* A quotient and a remainder.
LEMMA DivMod ==
  ASSUME NEW a \in Nat, NEW b \in Nat \ {0}
  PROVE  a \div b \in Nat /\ (a % b) \in 0..b - 1 /\ a = b * (a \div b) + (a % b)
OBVIOUS

LEMMA DivBelow ==
  ASSUME NEW a \in Nat, NEW b \in Nat \ {0}, NEW c \in Nat, a < b * c
  PROVE  a \div b < c
OBVIOUS

LEMMA TimesGrows ==
  ASSUME NEW x \in Nat, NEW y \in Nat, NEW b \in Nat, x <= y
  PROVE  x * b <= y * b /\ x * b \in Nat /\ y * b \in Nat
OBVIOUS

\* A number of blocks that is before another ends before it starts.
LEMMA BlockOf ==
  ASSUME NEW x \in Nat, NEW y \in Nat, NEW b \in Nat \ {0}
  PROVE  x <= y \div b <=> x * b <= y
<1>1. y \div b \in Nat /\ (y % b) \in 0..b - 1 /\ y = b * (y \div b) + (y % b)
  BY DivMod
<1>2. PICK d \in Nat, r \in 0..b - 1 : d = y \div b /\ y = b * d + r
  BY <1>1
<1>3. CASE x <= d
  <2>1. x * b <= d * b
    BY <1>3, TimesGrows
  <2> QED BY <1>2, <1>3, <2>1
<1>4. CASE d + 1 <= x
  <2>1. (d + 1) * b <= x * b
    BY <1>4, TimesGrows
  <2>2. (d + 1) * b = b * d + b /\ b * d \in Nat /\ x * b \in Nat
    OBVIOUS
  <2> QED BY <1>2, <1>4, <2>1, <2>2
<1> QED BY <1>2, <1>3, <1>4

\* The least element of a set of numbers
LEMMA LeastOf ==
  ASSUME NEW S \in SUBSET Nat, S # {}
  PROVE  \E x \in S : \A y \in S : x <= y
<1>1. IsWellFoundedOn(OpToRel(<, Nat), Nat)
  BY NatLessThanWellFounded
<1>2. PICK R : R = OpToRel(<, Nat)
  OBVIOUS
<1>3. R = {ss \in Nat \X Nat : ss[1] < ss[2]}
  BY <1>2 DEF OpToRel
<1>4. IsWellFoundedOn(R, Nat)
  BY <1>1, <1>2
<1>5. PICK x \in S : \A y \in S : ~(<<y, x>> \in R)
  BY <1>4, WFMin
<1>6. ASSUME NEW y \in S
      PROVE  x <= y
  <2>1. ~(<<y, x>> \in {ss \in Nat \X Nat : ss[1] < ss[2]})
    BY <1>3, <1>5
  <2>2. ~(y < x) /\ y \in Nat /\ x \in Nat
    BY <2>1
  <2> QED BY <2>2
<1> QED BY <1>6

-----------------------------------------------------------------------------
(* Places                                                                  *)

Roots == 0..NDIRECT + 2
Slots == 0..NINDIRECT - 1

\* How many blocks there are on the way that begins at place k of the inode
Depth(k) == IF k < NDIRECT THEN 1 ELSE k - NDIRECT + 2

IsPlace(q) ==
  /\ q \in Seq(Nat) /\ Len(q) \in 1..4 /\ q[1] \in Roots /\ Len(q) <= Depth(q[1])
  /\ \A n \in 2..Len(q) : q[n] \in Slots

\* A place of a block of data
IsLeaf(q) == Len(q) = Depth(q[1])

Prefixes(bn) == {SubSeq(Path(bn), 1, n) : n \in 1..Len(Path(bn))}

LEMMA Sizes ==
  /\ NDIRECT \in Nat \ {0} /\ NINDIRECT \in Nat \ {0} /\ NBLOCKS \in Nat \ {0}
  /\ NDINDIRECT \in Nat \ {0} /\ NTINDIRECT \in Nat \ {0} /\ MAXFILE \in Nat \ {0}
<1>1. NDIRECT \in Nat \ {0} /\ NINDIRECT \in Nat \ {0} /\ NBLOCKS \in Nat \ {0}
  BY TreeAssumption
<1>2. NDINDIRECT \in Nat \ {0}
  BY <1>1 DEF NDINDIRECT
<1>3. NTINDIRECT \in Nat \ {0}
  BY <1>1, <1>2 DEF NTINDIRECT
<1> QED BY <1>1, <1>2, <1>3 DEF MAXFILE

\* The four ways to a block of data.
LEMMA PathWays ==
  ASSUME NEW bn \in 0..MAXFILE - 1
  PROVE  \/ bn < NDIRECT /\ Path(bn) = <<bn>>
         \/ \E a \in Slots : bn = NDIRECT + a /\ Path(bn) = <<NDIRECT, a>>
         \/ \E a, b \in Slots : /\ bn = NDIRECT + NINDIRECT + (NINDIRECT * a + b)
                                /\ Path(bn) = <<NDIRECT + 1, a, b>>
         \/ \E a, b, c \in Slots :
              /\ bn = NDIRECT + NINDIRECT + NDINDIRECT
                        + (NDINDIRECT * a + (NINDIRECT * b + c))
              /\ Path(bn) = <<NDIRECT + 2, a, b, c>>
<1>1. CASE bn < NDIRECT
  BY <1>1 DEF Path
<1>2. PICK b1 : b1 = bn - NDIRECT
  OBVIOUS
<1>3. CASE bn >= NDIRECT /\ b1 < NINDIRECT
  <2>1. b1 \in Slots /\ bn = NDIRECT + b1 /\ ~(bn < NDIRECT)
    BY <1>2, <1>3, Sizes DEF Slots
  <2>2. Path(bn) = <<NDIRECT, b1>>
    BY <1>2, <1>3, <2>1 DEF Path
  <2> QED BY <2>1, <2>2
<1>4. PICK b2 : b2 = b1 - NINDIRECT
  OBVIOUS
<1>5. CASE bn >= NDIRECT /\ b1 >= NINDIRECT /\ b2 < NDINDIRECT
  <2>1. /\ b2 \in Nat /\ bn = NDIRECT + NINDIRECT + b2 /\ ~(bn < NDIRECT) /\ ~(b1 < NINDIRECT)
        /\ b2 < NINDIRECT * NINDIRECT
    BY <1>2, <1>4, <1>5, Sizes DEF NDINDIRECT
  <2>2. PICK a, b : a = b2 \div NINDIRECT /\ b = b2 % NINDIRECT
    OBVIOUS
  <2>3. a \in Nat /\ b \in 0..NINDIRECT - 1 /\ b2 = NINDIRECT * a + b /\ a < NINDIRECT
    BY <2>1, <2>2, Sizes, DivMod, DivBelow
  <2>4. a \in Slots /\ b \in Slots
    BY <2>3, Sizes DEF Slots
  <2>5. Path(bn) = <<NDIRECT + 1, a, b>>
    BY <1>2, <1>4, <1>5, <2>1, <2>2 DEF Path
  <2> QED BY <2>1, <2>3, <2>4, <2>5
<1>6. PICK b3 : b3 = b2 - NDINDIRECT
  OBVIOUS
<1>7. CASE bn >= NDIRECT /\ b1 >= NINDIRECT /\ b2 >= NDINDIRECT
  <2>1. /\ b3 \in Nat /\ bn = NDIRECT + NINDIRECT + NDINDIRECT + b3
        /\ ~(bn < NDIRECT) /\ ~(b1 < NINDIRECT) /\ ~(b2 < NDINDIRECT)
        /\ b3 < NTINDIRECT
    BY <1>2, <1>4, <1>6, <1>7, Sizes DEF MAXFILE
  <2>2. PICK a, r : a = b3 \div NDINDIRECT /\ r = b3 % NDINDIRECT
    OBVIOUS
  <2>3. a \in Nat /\ r \in 0..NDINDIRECT - 1 /\ b3 = NDINDIRECT * a + r /\ a < NINDIRECT
    BY <2>1, <2>2, Sizes, DivMod, DivBelow DEF NTINDIRECT
  <2>4. PICK b, c : b = r \div NINDIRECT /\ c = r % NINDIRECT
    OBVIOUS
  <2>5. r \in Nat /\ r < NINDIRECT * NINDIRECT
    BY <2>3, Sizes DEF NDINDIRECT
  <2>6. b \in Nat /\ c \in 0..NINDIRECT - 1 /\ r = NINDIRECT * b + c /\ b < NINDIRECT
    BY <2>4, <2>5, Sizes, DivMod, DivBelow
  <2>7. a \in Slots /\ b \in Slots /\ c \in Slots
    BY <2>3, <2>6, Sizes DEF Slots
  <2>8. Path(bn) = <<NDIRECT + 2, a, b, c>>
    BY <1>2, <1>4, <1>6, <1>7, <2>1, <2>2, <2>4 DEF Path
  <2>9. bn = NDIRECT + NINDIRECT + NDINDIRECT + (NDINDIRECT * a + (NINDIRECT * b + c))
    BY <2>1, <2>3, <2>6
  <2> QED BY <2>7, <2>8, <2>9
<1> QED BY <1>1, <1>2, <1>3, <1>4, <1>5, <1>7, Sizes

\* The way to a block of data is a place for a block of data.
LEMMA PathPlace ==
  ASSUME NEW bn \in 0..MAXFILE - 1
  PROVE  IsPlace(Path(bn)) /\ IsLeaf(Path(bn))
<1>0. \A a \in Slots : a \in Nat
  BY Sizes DEF Slots
<1>1. CASE bn < NDIRECT /\ Path(bn) = <<bn>>
  <2>1. PICK q : q = <<bn>>
    OBVIOUS
  <2>2. q \in Seq(Nat) /\ Len(q) = 1 /\ q[1] = bn
    BY <2>1
  <2>3. bn \in Roots /\ Depth(bn) = 1
    BY <1>1, Sizes DEF Roots, Depth
  <2> QED BY <1>1, <2>1, <2>2, <2>3 DEF IsPlace, IsLeaf
<1>2. ASSUME NEW a \in Slots, Path(bn) = <<NDIRECT, a>>
      PROVE  IsPlace(Path(bn)) /\ IsLeaf(Path(bn))
  <2>1. PICK q : q = <<NDIRECT, a>>
    OBVIOUS
  <2>2. q \in Seq(Nat) /\ Len(q) = 2 /\ q[1] = NDIRECT /\ q[2] = a
    BY <1>0, <2>1, Sizes
  <2>3. NDIRECT \in Roots /\ Depth(NDIRECT) = 2
    BY Sizes DEF Roots, Depth
  <2> QED BY <1>2, <2>1, <2>2, <2>3 DEF IsPlace, IsLeaf
<1>3. ASSUME NEW a \in Slots, NEW b \in Slots, Path(bn) = <<NDIRECT + 1, a, b>>
      PROVE  IsPlace(Path(bn)) /\ IsLeaf(Path(bn))
  <2>1. PICK q : q = <<NDIRECT + 1, a, b>>
    OBVIOUS
  <2>2. q \in Seq(Nat) /\ Len(q) = 3 /\ q[1] = NDIRECT + 1 /\ q[2] = a /\ q[3] = b
    BY <1>0, <2>1, Sizes
  <2>3. NDIRECT + 1 \in Roots /\ Depth(NDIRECT + 1) = 3
    BY Sizes DEF Roots, Depth
  <2> QED BY <1>3, <2>1, <2>2, <2>3 DEF IsPlace, IsLeaf
<1>4. ASSUME NEW a \in Slots, NEW b \in Slots, NEW c \in Slots,
             Path(bn) = <<NDIRECT + 2, a, b, c>>
      PROVE  IsPlace(Path(bn)) /\ IsLeaf(Path(bn))
  <2>1. PICK q : q = <<NDIRECT + 2, a, b, c>>
    OBVIOUS
  <2>2. /\ q \in Seq(Nat) /\ Len(q) = 4 /\ q[1] = NDIRECT + 2
        /\ q[2] = a /\ q[3] = b /\ q[4] = c
    BY <1>0, <2>1, Sizes
  <2>3. NDIRECT + 2 \in Roots /\ Depth(NDIRECT + 2) = 4
    BY Sizes DEF Roots, Depth
  <2> QED BY <1>4, <2>1, <2>2, <2>3 DEF IsPlace, IsLeaf
<1> QED BY <1>1, <1>2, <1>3, <1>4, PathWays

\* The number of the block of data at a place
BlockAt(q) ==
  IF Len(q) = 1 THEN q[1]
  ELSE IF Len(q) = 2 THEN NDIRECT + q[2]
  ELSE IF Len(q) = 3 THEN NDIRECT + NINDIRECT + (NINDIRECT * q[2] + q[3])
  ELSE NDIRECT + NINDIRECT + NDINDIRECT + (NDINDIRECT * q[2] + (NINDIRECT * q[3] + q[4]))

\* Different blocks of data have different ways.
LEMMA PathInjective ==
  ASSUME NEW bn \in 0..MAXFILE - 1, NEW b2 \in 0..MAXFILE - 1, Path(bn) = Path(b2)
  PROVE  bn = b2
<1>1. ASSUME NEW x \in 0..MAXFILE - 1
      PROVE  BlockAt(Path(x)) = x
  <2>1. CASE x < NDIRECT /\ Path(x) = <<x>>
    BY <2>1 DEF BlockAt
  <2>2. ASSUME NEW a \in Slots, x = NDIRECT + a, Path(x) = <<NDIRECT, a>>
        PROVE  BlockAt(Path(x)) = x
    BY <2>2 DEF BlockAt
  <2>3. ASSUME NEW a \in Slots, NEW b \in Slots,
               x = NDIRECT + NINDIRECT + (NINDIRECT * a + b), Path(x) = <<NDIRECT + 1, a, b>>
        PROVE  BlockAt(Path(x)) = x
    BY <2>3 DEF BlockAt
  <2>4. ASSUME NEW a \in Slots, NEW b \in Slots, NEW c \in Slots,
               x = NDIRECT + NINDIRECT + NDINDIRECT + (NDINDIRECT * a + (NINDIRECT * b + c)),
               Path(x) = <<NDIRECT + 2, a, b, c>>
        PROVE  BlockAt(Path(x)) = x
    BY <2>4 DEF BlockAt
  <2> QED BY <2>1, <2>2, <2>3, <2>4, PathWays
<1> QED BY <1>1

LEMMA DepthRange ==
  ASSUME NEW k \in Roots
  PROVE  Depth(k) \in 1..4
BY Sizes DEF Depth, Roots

\* A place below another
LEMMA PlaceBelow ==
  ASSUME NEW q, IsPlace(q), ~IsLeaf(q), NEW k \in Slots
  PROVE  /\ IsPlace(Append(q, k)) /\ Len(Append(q, k)) = Len(q) + 1
         /\ Append(q, k)[1] = q[1] /\ Append(q, k)[Len(q) + 1] = k
         /\ \A n \in 1..Len(q) : Append(q, k)[n] = q[n]
<1>1. PICK r : r = Append(q, k)
  OBVIOUS
<1>2. /\ q \in Seq(Nat) /\ Len(q) \in 1..4 /\ k \in Nat /\ q[1] \in Roots
      /\ Len(q) < Depth(q[1]) /\ Depth(q[1]) \in 1..4 /\ \A n \in 2..Len(q) : q[n] \in Slots
  <2>1. /\ q \in Seq(Nat) /\ Len(q) \in 1..4 /\ q[1] \in Roots /\ Len(q) <= Depth(q[1])
        /\ \A n \in 2..Len(q) : q[n] \in Slots
    BY DEF IsPlace
  <2>2. k \in Nat
    BY Sizes DEF Slots
  <2>3. Depth(q[1]) \in 1..4
    BY <2>1, DepthRange
  <2>4. Len(q) # Depth(q[1])
    BY DEF IsLeaf
  <2> QED BY <2>1, <2>2, <2>3, <2>4
<1>3. r \in Seq(Nat) /\ Len(r) = Len(q) + 1 /\ r[Len(q) + 1] = k
      /\ \A n \in 1..Len(q) : r[n] = q[n]
  BY <1>1, <1>2
<1>4. IsPlace(r)
  <2>1. r[1] = q[1] /\ Len(r) \in 1..4 /\ Len(r) <= Depth(r[1])
    <3>1. r[1] = q[1]
      BY <1>2, <1>3
    <3>2. PICK l \in 1..4, e \in 1..4 : l = Len(q) /\ e = Depth(q[1]) /\ l < e /\ Len(r) = l + 1
      BY <1>2, <1>3
    <3>3. l + 1 \in 1..4 /\ l + 1 <= e
      BY <3>2
    <3> QED BY <3>1, <3>2, <3>3
  <2>2. ASSUME NEW n \in 2..Len(r)
        PROVE  r[n] \in Slots
    <3>1. n \in 2..Len(q) \/ n = Len(q) + 1
      BY <1>2, <1>3
    <3>2. n \in 2..Len(q) => n \in 1..Len(q)
      BY <1>2
    <3> QED BY <1>2, <1>3, <3>1, <3>2
  <2> QED BY <1>2, <1>3, <2>1, <2>2 DEF IsPlace
<1> QED BY <1>1, <1>2, <1>3, <1>4

\* Different places, or different words, lead to different places.
LEMMA BelowDiffer ==
  ASSUME NEW q, IsPlace(q), NEW r, IsPlace(r), NEW k \in Slots, NEW l \in Slots,
         Append(q, k) = Append(r, l)
  PROVE  q = r /\ k = l
<1>1. q \in Seq(Nat) /\ r \in Seq(Nat)
  BY DEF IsPlace
<1>2. k \in Nat /\ l \in Nat
  BY Sizes DEF Slots
<1> QED BY <1>1, <1>2, AppendInjective

\* A place that is not in the inode is below another.
LEMMA PlaceAbove ==
  ASSUME NEW r, IsPlace(r), NEW n \in 1..4, Len(r) = n + 1
  PROVE  LET q == SubSeq(r, 1, n)
         IN  /\ IsPlace(q) /\ ~IsLeaf(q) /\ Len(q) = n /\ q[1] = r[1] /\ r[n + 1] \in Slots
             /\ r = Append(q, r[n + 1])
<1>1. PICK q : q = SubSeq(r, 1, n)
  OBVIOUS
<1>2. /\ r \in Seq(Nat) /\ Len(r) \in 1..4 /\ r[1] \in Roots /\ Len(r) <= Depth(r[1])
      /\ \A m \in 2..Len(r) : r[m] \in Slots
  BY DEF IsPlace
<1>3. q \in Seq(Nat) /\ Len(q) = n /\ \A m \in 1..n : q[m] = r[m]
  BY <1>1, <1>2
<1>4. q[1] = r[1] /\ r[n + 1] \in Slots /\ r[n + 1] \in Nat
  BY <1>2, <1>3
<1>5. IsPlace(q) /\ ~IsLeaf(q)
  <2>1. Len(q) <= Depth(q[1]) /\ Len(q) # Depth(q[1]) /\ Len(q) \in 1..4
    <3>1. Depth(r[1]) \in 1..4
      BY <1>2, DepthRange
    <3> QED BY <1>2, <1>3, <1>4, <3>1
  <2>2. \A m \in 2..Len(q) : q[m] \in Slots
    BY <1>2, <1>3
  <2> QED BY <1>2, <1>3, <1>4, <2>1, <2>2 DEF IsPlace, IsLeaf
<1>6. r = Append(q, r[n + 1])
  <2>1. PICK a : a = Append(q, r[n + 1])
    OBVIOUS
  <2>2. a \in Seq(Nat) /\ Len(a) = n + 1 /\ a[n + 1] = r[n + 1] /\ \A m \in 1..n : a[m] = q[m]
    BY <1>3, <1>4, <2>1
  <2>3. \A m \in 1..n + 1 : a[m] = r[m]
    BY <1>3, <2>2
  <2> QED BY <1>2, <2>1, <2>2, <2>3, SeqEqual
<1> QED BY <1>1, <1>3, <1>4, <1>5, <1>6

\* The places on the way to a block of data
LEMMA PrefixPlaces ==
  ASSUME NEW bn \in 0..MAXFILE - 1, NEW p, p = Path(bn)
  PROVE  /\ Len(p) \in 1..4
         /\ SubSeq(p, 1, 1) = <<p[1]>> /\ p[1] \in Roots
         /\ \A n \in 1..Len(p) : IsPlace(SubSeq(p, 1, n)) /\ Len(SubSeq(p, 1, n)) = n
         /\ \A n \in 1..3 : n + 1 <= Len(p) =>
              /\ p[n + 1] \in Slots /\ ~IsLeaf(SubSeq(p, 1, n))
              /\ SubSeq(p, 1, n + 1) = Append(SubSeq(p, 1, n), p[n + 1])
         /\ SubSeq(p, 1, Len(p)) = p
<1>1. IsPlace(p) /\ IsLeaf(p)
  BY PathPlace
<1>2. /\ p \in Seq(Nat) /\ Len(p) \in 1..4 /\ p[1] \in Roots /\ Len(p) = Depth(p[1])
      /\ \A m \in 2..Len(p) : p[m] \in Slots
  BY <1>1 DEF IsPlace, IsLeaf
<1>3. SubSeq(p, 1, Len(p)) = p
  BY <1>2, SubSeqFull
<1>4. ASSUME NEW n \in 1..Len(p)
      PROVE  /\ SubSeq(p, 1, n) \in Seq(Nat) /\ Len(SubSeq(p, 1, n)) = n
             /\ \A m \in 1..n : SubSeq(p, 1, n)[m] = p[m]
  BY <1>2
<1>5. SubSeq(p, 1, 1) = <<p[1]>>
  <2>1. PICK q : q = SubSeq(p, 1, 1)
    OBVIOUS
  <2>2. q \in Seq(Nat) /\ Len(q) = 1 /\ q[1] = p[1]
    BY <1>2, <1>4, <2>1
  <2>3. p[1] \in Nat
    BY <1>2
  <2>4. <<p[1]>> \in Seq(Nat) /\ Len(<<p[1]>>) = 1 /\ <<p[1]>>[1] = p[1]
    BY <2>3
  <2>5. PICK t : t = <<p[1]>>
    OBVIOUS
  <2>6. t \in Seq(Nat) /\ Len(q) = Len(t) /\ \A m \in 1..Len(q) : q[m] = t[m]
    BY <2>2, <2>4, <2>5
  <2>7. q = t
    BY <2>2, <2>6, SeqEqual
  <2> QED BY <2>1, <2>5, <2>7
<1>6. ASSUME NEW n \in 1..Len(p)
      PROVE  IsPlace(SubSeq(p, 1, n))
  <2>0. PICK q : q = SubSeq(p, 1, n)
    OBVIOUS
  <2>1. q \in Seq(Nat) /\ Len(q) = n /\ \A m \in 1..n : q[m] = p[m]
    BY <1>4, <2>0
  <2>2. n <= Depth(p[1]) /\ n \in 1..4 /\ 1 \in 1..n
    BY <1>2
  <2>3. q[1] = p[1]
    BY <2>1, <2>2
  <2>4. \A m \in 2..n : m \in 1..n /\ m \in 2..Len(p)
    BY <1>2
  <2>5. \A m \in 2..n : q[m] \in Slots
    BY <1>2, <2>1, <2>4
  <2> QED BY <1>2, <2>0, <2>1, <2>2, <2>3, <2>5 DEF IsPlace
<1>7. ASSUME NEW n \in 1..3, n + 1 <= Len(p)
      PROVE  /\ p[n + 1] \in Slots /\ ~IsLeaf(SubSeq(p, 1, n))
             /\ SubSeq(p, 1, n + 1) = Append(SubSeq(p, 1, n), p[n + 1])
  <2>1. n \in 1..Len(p) /\ n + 1 \in 2..Len(p) /\ n + 1 \in 1..Len(p) /\ n < Len(p)
    BY <1>2, <1>7
  <2>2. p[n + 1] \in Slots
    BY <1>2, <2>1
  <2>3. ~IsLeaf(SubSeq(p, 1, n))
    BY <1>2, <1>4, <2>1 DEF IsLeaf
  <2>4. PICK q, r, a : q = SubSeq(p, 1, n) /\ r = SubSeq(p, 1, n + 1) /\ a = Append(q, p[n + 1])
    OBVIOUS
  <2>5. q \in Seq(Nat) /\ Len(q) = n /\ \A m \in 1..n : q[m] = p[m]
    BY <1>4, <2>1, <2>4
  <2>6. r \in Seq(Nat) /\ Len(r) = n + 1 /\ \A m \in 1..n + 1 : r[m] = p[m]
    BY <1>4, <2>1, <2>4
  <2>7. p[n + 1] \in Nat
    BY <1>2, <2>1
  <2>8. a \in Seq(Nat) /\ Len(a) = n + 1 /\ a[n + 1] = p[n + 1] /\ \A m \in 1..n : a[m] = q[m]
    BY <2>4, <2>5, <2>7
  <2>9. ASSUME NEW m \in 1..n + 1
        PROVE  a[m] = r[m]
    <3>1. m \in 1..n \/ m = n + 1
      OBVIOUS
    <3>2. r[m] = p[m]
      BY <2>6
    <3>3. CASE m \in 1..n
      BY <2>5, <2>8, <3>2, <3>3
    <3>4. CASE m = n + 1
      BY <2>8, <3>2, <3>4
    <3> QED BY <3>1, <3>3, <3>4
  <2>10. a = r
    BY <2>6, <2>8, <2>9, SeqEqual
  <2> QED BY <2>2, <2>3, <2>4, <2>10
<1> QED BY <1>2, <1>3, <1>4, <1>5, <1>6, <1>7

-----------------------------------------------------------------------------
(* The trees of the files: m[i][q] is the block at place q of file i.      *)

Zeros == [k \in 0..NINDIRECT - 1 |-> 0]

Dom(m, i) == DOMAIN m[i]

Maps(m) ==
  /\ m = [i \in Regular |-> m[i]]
  /\ \A i \in Regular : m[i] \in [Dom(m, i) -> Block]

\* The places are those of trees
Closed(m) ==
  \A i \in Regular :
    /\ \A q \in Dom(m, i) : IsPlace(q)
    /\ \A q : \A k \in Slots :
         IsPlace(q) /\ Append(q, k) \in Dom(m, i) => q \in Dom(m, i)

\* Every block is at one place
OnePlace(m) ==
  \A i, j \in Regular : \A q \in Dom(m, i), r \in Dom(m, j) :
    m[i][q] = m[j][r] => i = j /\ q = r

\* The free map u has the blocks of the trees
Marked(u, m) == \A b : b \in u <=> \E i \in Regular : \E q \in Dom(m, i) : b = m[i][q]

\* The addresses A of the inodes
Rooted(A, m) ==
  \A i \in Regular, k \in Roots :
    A[i][k] = IF <<k>> \in Dom(m, i) THEN m[i][<<k>>] ELSE 0

\* The words d of the indirect blocks
Linked(d, m) ==
  \A i \in Regular : \A q \in Dom(m, i) : \A k \in Slots : ~IsLeaf(q) =>
    d[m[i][q]][k] = IF Append(q, k) \in Dom(m, i) THEN m[i][Append(q, k)] ELSE 0

Tree(A, d, u, m) ==
  Maps(m) /\ Closed(m) /\ OnePlace(m) /\ Marked(u, m) /\ Rooted(A, m) /\ Linked(d, m)

\* Block b is put at place q of file ip.
Grows(m, m2, ip, q, b) ==
  /\ Maps(m2) /\ Dom(m2, ip) = Dom(m, ip) \cup {q} /\ m2[ip][q] = b
  /\ \A i \in Regular : i # ip => Dom(m2, i) = Dom(m, i)
  /\ \A i \in Regular : \A r \in Dom(m, i) : m2[i][r] = m[i][r]

LEMMA CanGrow ==
  ASSUME NEW m, Maps(m), NEW ip \in Regular, NEW q, q \notin Dom(m, ip), NEW b \in Block
  PROVE  \E m2 : Grows(m, m2, ip, q, b)
<1>1. PICK f : f = [r \in Dom(m, ip) \cup {q} |-> IF r = q THEN b ELSE m[ip][r]]
  OBVIOUS
<1>2. PICK m2 : m2 = [i \in Regular |-> IF i = ip THEN f ELSE m[i]]
  OBVIOUS
<1>3. f \in [Dom(m, ip) \cup {q} -> Block]
  BY <1>1 DEF Maps
<1>4. m2[ip] = f /\ Dom(m2, ip) = Dom(m, ip) \cup {q}
  BY <1>2, <1>3 DEF Dom
<1>5. \A i \in Regular : i # ip => m2[i] = m[i] /\ Dom(m2, i) = Dom(m, i)
  BY <1>2 DEF Dom
<1>6. f[q] = b /\ \A r \in Dom(m, ip) : f[r] = m[ip][r]
  BY <1>1
<1>7. Maps(m2)
  <2>1. m2 = [i \in Regular |-> m2[i]]
    BY <1>2
  <2>2. ASSUME NEW i \in Regular
        PROVE  m2[i] \in [Dom(m2, i) -> Block]
    <3>1. CASE i = ip
      BY <1>3, <1>4, <3>1
    <3>2. CASE i # ip
      BY <1>5, <3>2 DEF Maps
    <3> QED BY <3>1, <3>2
  <2> QED BY <2>1, <2>2 DEF Maps
<1> QED BY <1>4, <1>5, <1>6, <1>7 DEF Grows

\* What a new block is to the blocks that lead to it.
NewLink(A, d, A2, d2, m, ip, q, b) ==
  /\ \A i \in Regular, k \in Roots : A2[i][k] = IF i = ip /\ <<k>> = q THEN b ELSE A[i][k]
  /\ \A i \in Regular : \A r \in Dom(m, i) : \A k \in Slots : ~IsLeaf(r) =>
       d2[m[i][r]][k] = IF i = ip /\ Append(r, k) = q THEN b ELSE d[m[i][r]][k]
  /\ d2[b] = Zeros

LEMMA TreeGrows ==
  ASSUME NEW A, NEW d, NEW u, NEW m, Tree(A, d, u, m), NEW ip \in Regular,
         NEW q, IsPlace(q), q \notin Dom(m, ip), NEW b \in Block \ u,
         \A r : \A k \in Slots : IsPlace(r) /\ q = Append(r, k) => r \in Dom(m, ip),
         NEW A2, NEW d2, NewLink(A, d, A2, d2, m, ip, q, b), NEW m2, Grows(m, m2, ip, q, b)
  PROVE  Tree(A2, d2, u \cup {b}, m2)
<1>1. /\ Maps(m2) /\ Dom(m2, ip) = Dom(m, ip) \cup {q} /\ m2[ip][q] = b
      /\ \A i \in Regular : i # ip => Dom(m2, i) = Dom(m, i)
      /\ \A i \in Regular : \A r \in Dom(m, i) : m2[i][r] = m[i][r]
  BY DEF Grows
<1>2. \A i \in Regular : \A r \in Dom(m, i) : m[i][r] # b
  BY DEF Tree, Marked
<1>3. Closed(m2)
  <2>1. ASSUME NEW i \in Regular, NEW r \in Dom(m2, i)
        PROVE  IsPlace(r)
    <3>1. r \in Dom(m, i) \/ r = q
      BY <1>1
    <3>2. r \in Dom(m, i) => IsPlace(r)
      BY DEF Tree, Closed
    <3> QED BY <3>1, <3>2
  <2>2. ASSUME NEW i \in Regular, NEW r, NEW k \in Slots, IsPlace(r), Append(r, k) \in Dom(m2, i)
        PROVE  r \in Dom(m2, i)
    <3>1. PICK t : t = Append(r, k)
      OBVIOUS
    <3>2. t \in Dom(m, i) => r \in Dom(m, i)
      BY <2>2, <3>1 DEF Tree, Closed
    <3>3. t \in Dom(m, i) \/ (i = ip /\ t = q)
      BY <1>1, <2>2, <3>1
    <3>4. t = q => r \in Dom(m, ip)
      BY <2>2, <3>1
    <3> QED BY <1>1, <3>2, <3>3, <3>4
  <2> QED BY <2>1, <2>2 DEF Closed
<1>4. OnePlace(m2)
  <2> SUFFICES ASSUME NEW i \in Regular, NEW j \in Regular, NEW r \in Dom(m2, i),
                      NEW t \in Dom(m2, j), m2[i][r] = m2[j][t]
               PROVE  i = j /\ r = t
    BY DEF OnePlace
  <2>1. \/ r \in Dom(m, i) /\ m2[i][r] = m[i][r] /\ m[i][r] # b
        \/ i = ip /\ r = q /\ m2[i][r] = b
    BY <1>1, <1>2
  <2>2. \/ t \in Dom(m, j) /\ m2[j][t] = m[j][t] /\ m[j][t] # b
        \/ j = ip /\ t = q /\ m2[j][t] = b
    BY <1>1, <1>2
  <2>3. r \in Dom(m, i) /\ t \in Dom(m, j) /\ m[i][r] = m[j][t] => i = j /\ r = t
    BY DEF Tree, OnePlace
  <2> QED BY <2>1, <2>2, <2>3
<1>5. Marked(u \cup {b}, m2)
  <2>1. ASSUME NEW c
        PROVE  c \in u \cup {b} <=> \E i \in Regular : \E r \in Dom(m2, i) : c = m2[i][r]
    <3>1. c \in u <=> \E i \in Regular : \E r \in Dom(m, i) : c = m[i][r]
      BY DEF Tree, Marked
    <3>2. ASSUME NEW i \in Regular, NEW r \in Dom(m, i), c = m[i][r]
          PROVE  \E j \in Regular : \E t \in Dom(m2, j) : c = m2[j][t]
      <4>1. r \in Dom(m2, i) /\ c = m2[i][r]
        BY <1>1, <3>2
      <4> QED BY <4>1
    <3>3. ASSUME NEW i \in Regular, NEW r \in Dom(m2, i), c = m2[i][r]
          PROVE  c = b \/ (\E j \in Regular : \E t \in Dom(m, j) : c = m[j][t])
      <4>1. \/ r \in Dom(m, i) /\ c = m[i][r]
            \/ c = b
        BY <1>1, <3>3
      <4> QED BY <4>1
    <3>4. q \in Dom(m2, ip) /\ b = m2[ip][q]
      BY <1>1
    <3> QED BY <3>1, <3>2, <3>3, <3>4
  <2> QED BY <2>1 DEF Marked
<1>6. Rooted(A2, m2)
  <2> SUFFICES ASSUME NEW i \in Regular, NEW k \in Roots
               PROVE  A2[i][k] = IF <<k>> \in Dom(m2, i) THEN m2[i][<<k>>] ELSE 0
    BY DEF Rooted
  <2>1. A2[i][k] = IF i = ip /\ <<k>> = q THEN b ELSE A[i][k]
    BY DEF NewLink
  <2>2. A[i][k] = IF <<k>> \in Dom(m, i) THEN m[i][<<k>>] ELSE 0
    BY DEF Tree, Rooted
  <2>3. PICK t : t = <<k>>
    OBVIOUS
  <2>4. t \in Dom(m2, i) <=> t \in Dom(m, i) \/ (i = ip /\ t = q)
    BY <1>1
  <2>5. t \in Dom(m, i) => m2[i][t] = m[i][t]
    BY <1>1
  <2> QED BY <1>1, <2>1, <2>2, <2>3, <2>4, <2>5
<1>7. Linked(d2, m2)
  <2> SUFFICES ASSUME NEW i \in Regular, NEW r \in Dom(m2, i), NEW k \in Slots, ~IsLeaf(r)
               PROVE  d2[m2[i][r]][k] =
                        IF Append(r, k) \in Dom(m2, i) THEN m2[i][Append(r, k)] ELSE 0
    BY DEF Linked
  <2>1. PICK t : t = Append(r, k)
    OBVIOUS
  <2>2. t \in Dom(m2, i) <=> t \in Dom(m, i) \/ (i = ip /\ t = q)
    BY <1>1
  <2>3. t \in Dom(m, i) => m2[i][t] = m[i][t]
    BY <1>1
  <2>4. CASE r \in Dom(m, i)
    <3>1. d2[m[i][r]][k] = IF i = ip /\ t = q THEN b ELSE d[m[i][r]][k]
      BY <2>1, <2>4 DEF NewLink
    <3>2. d[m[i][r]][k] = IF t \in Dom(m, i) THEN m[i][t] ELSE 0
      BY <2>1, <2>4 DEF Tree, Linked
    <3>3. m2[i][r] = m[i][r]
      BY <1>1, <2>4
    <3> QED BY <1>1, <2>1, <2>2, <2>3, <3>1, <3>2, <3>3
  <2>5. CASE i = ip /\ r = q
    <3>1. t \notin Dom(m, i)
      BY <2>1, <2>5 DEF Tree, Closed
    <3>2. t # q
      <4>1. Len(t) = Len(q) + 1 /\ Len(q) \in 1..4
        BY <2>1, <2>5, PlaceBelow DEF IsPlace
      <4> QED BY <4>1
    <3>3. d2[m2[i][r]] = Zeros
      BY <1>1, <2>5 DEF NewLink
    <3>4. Zeros[k] = 0
      BY DEF Zeros, Slots
    <3> QED BY <2>1, <2>2, <3>1, <3>2, <3>3, <3>4
  <2> QED BY <1>1, <2>4, <2>5
<1> QED BY <1>1, <1>3, <1>4, <1>5, <1>6, <1>7 DEF Tree

-----------------------------------------------------------------------------
(* What bmap() does to the trees                                           *)

State ==
  [addr : [Roots -> 0..NBLOCKS], data : [Block -> [Slots -> Nat]], used : SUBSET Block,
   at : 0..NBLOCKS]

\* The addresses of the inodes while a call on ip goes on
AddrsOf(ip, addr) == [i \in Inodes |-> IF i = ip THEN addr ELSE addrs[i]]

TreeOf(s, ip, m) == Tree(AddrsOf(ip, s.addr), s.data, s.used, m)

\* The blocks that are free are enough for the places of G.
Room(s, m, ip, G) ==
  /\ IsFiniteSet(G) /\ Dom(m, ip) \subseteq G
  /\ Cardinality(G) + Cardinality(s.used) <= NBLOCKS + Cardinality(Dom(m, ip))

\* From s and m to t and m2: the places Q of file ip have blocks, the call is at
\* place q, and what was there before still is.
Came(s, t, m, m2, ip, Q, q) ==
  /\ t \in State /\ TreeOf(t, ip, m2) /\ q \in Dom(m2, ip) /\ t.at = m2[ip][q]
  /\ Dom(m2, ip) = Dom(m, ip) \cup Q
  /\ \A i \in Regular : i # ip => Dom(m2, i) = Dom(m, i)
  /\ \A i \in Regular : \A r \in Dom(m, i) :
       m2[i][r] = m[i][r] /\ (IsLeaf(r) => t.data[m[i][r]] = s.data[m[i][r]])

LEMMA UsedFinite ==
  ASSUME NEW u \in SUBSET Block
  PROVE  /\ IsFiniteSet(u) /\ Cardinality(u) \in Nat /\ Cardinality(u) <= NBLOCKS
         /\ Block \ u = {} => Cardinality(u) = NBLOCKS
         /\ IsFiniteSet(Block) /\ Cardinality(Block) = NBLOCKS
<1>1. IsFiniteSet(Block) /\ Cardinality(Block) = NBLOCKS
  BY Sizes, FS_Interval DEF Block
<1>2. IsFiniteSet(u) /\ Cardinality(u) <= NBLOCKS
  BY <1>1, FS_Subset
<1>3. Cardinality(u) \in Nat
  BY <1>2, FS_CardinalityType
<1>4. Block \ u = {} => u = Block
  OBVIOUS
<1> QED BY <1>1, <1>2, <1>3, <1>4

\* There is a free block for a place that has none.
LEMMA RoomFree ==
  ASSUME NEW s \in State, NEW m, NEW ip, NEW G, Room(s, m, ip, G), NEW q \in G,
         q \notin Dom(m, ip)
  PROVE  Block \ s.used # {}
<1>1. s.used \in SUBSET Block
  BY DEF State
<1>2. IsFiniteSet(G) /\ Dom(m, ip) \subseteq G /\ Dom(m, ip) # G
      /\ Cardinality(G) + Cardinality(s.used) <= NBLOCKS + Cardinality(Dom(m, ip))
  BY DEF Room
<1>3. PICK D : D = Dom(m, ip)
  OBVIOUS
<1>4. IsFiniteSet(D) /\ Cardinality(D) <= Cardinality(G) /\ Cardinality(D) # Cardinality(G)
  BY <1>2, <1>3, FS_Subset
<1>6. Cardinality(D) \in Nat /\ Cardinality(G) \in Nat
  BY <1>2, <1>4, FS_CardinalityType
<1>5. Cardinality(s.used) \in Nat /\ (Block \ s.used = {} => Cardinality(s.used) = NBLOCKS)
  BY <1>1, UsedFinite
<1> QED BY <1>2, <1>3, <1>4, <1>5, <1>6, Sizes

\* A block and a place more leave room for the others.
LEMMA RoomKept ==
  ASSUME NEW s \in State, NEW t, NEW m, NEW m2, NEW ip, NEW G, Room(s, m, ip, G), NEW q \in G,
         Dom(m2, ip) = Dom(m, ip) \cup {q},
         IF q \in Dom(m, ip) THEN t.used = s.used
                             ELSE \E b \in Block \ s.used : t.used = s.used \cup {b}
  PROVE  Room(t, m2, ip, G)
<1>1. IsFiniteSet(G) /\ Dom(m, ip) \subseteq G
      /\ Cardinality(G) + Cardinality(s.used) <= NBLOCKS + Cardinality(Dom(m, ip))
  BY DEF Room
<1>2. CASE q \in Dom(m, ip)
  <2>1. Dom(m2, ip) = Dom(m, ip) /\ t.used = s.used
    BY <1>2
  <2> QED BY <1>1, <2>1 DEF Room
<1>3. CASE q \notin Dom(m, ip)
  <2>1. PICK b \in Block \ s.used : t.used = s.used \cup {b}
    BY <1>3
  <2>2. IsFiniteSet(Dom(m, ip)) /\ Cardinality(Dom(m, ip)) \in Nat /\ Cardinality(G) \in Nat
    BY <1>1, FS_Subset, FS_CardinalityType
  <2>3. Cardinality(Dom(m2, ip)) = Cardinality(Dom(m, ip)) + 1
    BY <1>3, <2>2, FS_AddElement
  <2>4. IsFiniteSet(s.used) /\ Cardinality(s.used) \in Nat
    BY UsedFinite DEF State
  <2>5. Cardinality(t.used) = Cardinality(s.used) + 1
    BY <2>1, <2>4, FS_AddElement
  <2>6. Cardinality(G) + Cardinality(t.used) <= NBLOCKS + Cardinality(Dom(m2, ip))
    BY <1>1, <2>2, <2>3, <2>4, <2>5, Sizes
  <2> QED BY <1>1, <2>6 DEF Room
<1> QED BY <1>2, <1>3

\* balloc() finds a block that is not in use and clears it.
LEMMA BallocClears ==
  ASSUME NEW s \in State, Block \ s.used # {}
  PROVE  \E b \in Block \ s.used :
           balloc(s) = [addr |-> s.addr, data |-> [s.data EXCEPT ![b] = Zeros],
                        used |-> s.used \cup {b}, at |-> b]
<1>1. PICK S : S = Block \ s.used
  OBVIOUS
<1>2. S \in SUBSET Nat /\ S # {}
  BY <1>1, Sizes DEF Block
<1>3. PICK x \in S : \A y \in S : x <= y
  BY <1>2, LeastOf
<1>4. PICK b : b = CHOOSE d \in Block \ s.used : \A c \in Block \ s.used : d <= c
  OBVIOUS
<1>5. b \in Block \ s.used
  BY <1>1, <1>3, <1>4
<1>6. balloc(s) = [addr |-> s.addr, data |-> [s.data EXCEPT ![b] = Zeros],
                   used |-> s.used \cup {b}, at |-> b]
  BY <1>4 DEF balloc, Zeros
<1> QED BY <1>5, <1>6

LEMMA RootPlace ==
  ASSUME NEW k \in Roots
  PROVE  IsPlace(<<k>>) /\ \A r : \A n \in Slots : IsPlace(r) => Append(r, n) # <<k>>
<1>1. PICK q : q = <<k>>
  OBVIOUS
<1>2. k \in Nat /\ Depth(k) \in 1..4
  BY Sizes, DepthRange DEF Roots
<1>3. q \in Seq(Nat) /\ Len(q) = 1 /\ q[1] = k
  BY <1>1, <1>2
<1>4. IsPlace(q)
  BY <1>2, <1>3 DEF IsPlace
<1>5. ASSUME NEW r, NEW n \in Slots, IsPlace(r), Append(r, n) = q
      PROVE  FALSE
  <2>1. r \in Seq(Nat) /\ Len(r) \in 1..4 /\ n \in Nat
    BY <1>5, Sizes DEF IsPlace, Slots
  <2>2. PICK l \in 1..4 : l = Len(r)
    BY <2>1
  <2>3. Len(Append(r, n)) = l + 1
    BY <2>1, <2>2
  <2>4. l + 1 = 1
    BY <1>3, <1>5, <2>3
  <2> QED BY <2>4
<1> QED BY <1>1, <1>4, <1>5

\* What a call that goes on at place q finds, when q has a block.
LEMMA OldBlock ==
  ASSUME NEW s \in State, NEW m, NEW ip \in Regular, TreeOf(s, ip, m), NEW q \in Dom(m, ip),
         NEW t, t = [s EXCEPT !.at = m[ip][q]]
  PROVE  Came(s, t, m, m, ip, {q}, q) /\ t.used = s.used
<1>1. m[ip][q] \in Block /\ m[ip][q] \in 0..NBLOCKS
  BY Sizes DEF TreeOf, Tree, Maps, Block
<1>2. t.addr = s.addr /\ t.data = s.data /\ t.used = s.used /\ t.at = m[ip][q]
  BY DEF State
<1>3. t \in State
  BY <1>1 DEF State
<1>4. TreeOf(t, ip, m)
  BY <1>2 DEF TreeOf
<1>5. Dom(m, ip) = Dom(m, ip) \cup {q}
  OBVIOUS
<1> QED BY <1>2, <1>3, <1>4, <1>5 DEF Came

\* The same, when it has not.
LEMMA NewBlock ==
  ASSUME NEW s \in State, NEW m, NEW ip \in Regular, TreeOf(s, ip, m), NEW q, IsPlace(q),
         q \notin Dom(m, ip), NEW b \in Block \ s.used, NEW t \in State,
         \A r : \A k \in Slots : IsPlace(r) /\ q = Append(r, k) => r \in Dom(m, ip),
         t.used = s.used \cup {b}, t.at = b,
         NewLink(AddrsOf(ip, s.addr), s.data, AddrsOf(ip, t.addr), t.data, m, ip, q, b),
         \A i \in Regular : \A r \in Dom(m, i) :
           IsLeaf(r) => t.data[m[i][r]] = s.data[m[i][r]]
  PROVE  \E m2 : Came(s, t, m, m2, ip, {q}, q)
<1>1. PICK m2 : Grows(m, m2, ip, q, b)
  BY CanGrow DEF TreeOf, Tree
<1>2. PICK A, d, u : A = AddrsOf(ip, s.addr) /\ d = s.data /\ u = s.used
  OBVIOUS
<1>3. PICK A2, d2 : A2 = AddrsOf(ip, t.addr) /\ d2 = t.data
  OBVIOUS
<1>4. Tree(A, d, u, m) /\ NewLink(A, d, A2, d2, m, ip, q, b) /\ b \in Block \ u
  BY <1>2, <1>3 DEF TreeOf
<1>5. Tree(A2, d2, u \cup {b}, m2)
  BY <1>1, <1>4, TreeGrows
<1>6. TreeOf(t, ip, m2)
  BY <1>2, <1>3, <1>5 DEF TreeOf
<1>7. /\ q \in Dom(m2, ip) /\ t.at = m2[ip][q] /\ Dom(m2, ip) = Dom(m, ip) \cup {q}
      /\ \A i \in Regular : i # ip => Dom(m2, i) = Dom(m, i)
      /\ \A i \in Regular : \A r \in Dom(m, i) : m2[i][r] = m[i][r]
  BY <1>1 DEF Grows
<1> QED BY <1>6, <1>7 DEF Came

\* A call goes to the block at place k of its inode.
LEMMA EnterComes ==
  ASSUME NEW s \in State, NEW m, NEW ip \in Regular, TreeOf(s, ip, m), NEW k \in Roots,
         NEW G, Room(s, m, ip, G), <<k>> \in G, NEW t, t = Enter(s, k)
  PROVE  \E m2 : Came(s, t, m, m2, ip, {<<k>>}, <<k>>) /\ Room(t, m2, ip, G)
<1>1. PICK q : q = <<k>>
  OBVIOUS
<1>2. IsPlace(q) /\ \A r : \A n \in Slots : IsPlace(r) => Append(r, n) # q
  BY <1>1, RootPlace
<1>3. s.addr \in [Roots -> 0..NBLOCKS] /\ s.used \in SUBSET Block /\ ip \in Inodes
      /\ s.data \in [Block -> [Slots -> Nat]]
  BY DEF State, Regular
<1>4. AddrsOf(ip, s.addr)[ip][k] = s.addr[k]
  BY <1>3 DEF AddrsOf
<1>5. s.addr[k] = IF q \in Dom(m, ip) THEN m[ip][q] ELSE 0
  BY <1>1, <1>4 DEF TreeOf, Tree, Rooted
<1>6. CASE q \in Dom(m, ip)
  <2>1. s.addr[k] = m[ip][q] /\ m[ip][q] # 0
    BY <1>5, <1>6, Sizes DEF TreeOf, Tree, Maps, Block
  <2>2. t = [s EXCEPT !.at = m[ip][q]]
    BY <2>1 DEF Enter
  <2>3. Came(s, t, m, m, ip, {q}, q) /\ t.used = s.used
    BY <1>6, <2>2, OldBlock
  <2>4. Dom(m, ip) = Dom(m, ip) \cup {q}
    BY <1>6
  <2>5. Room(t, m, ip, G)
    BY <1>1, <1>6, <2>3, <2>4, RoomKept
  <2> QED BY <1>1, <2>3, <2>5
<1>7. CASE q \notin Dom(m, ip)
  <2>1. s.addr[k] = 0
    BY <1>5, <1>7
  <2>2. Block \ s.used # {}
    BY <1>1, <1>7, RoomFree
  <2>3. PICK b \in Block \ s.used :
          balloc(s) = [addr |-> s.addr, data |-> [s.data EXCEPT ![b] = Zeros],
                       used |-> s.used \cup {b}, at |-> b]
    BY <2>2, BallocClears
  <2>4. PICK x, d : x = [s.addr EXCEPT ![k] = b] /\ d = [s.data EXCEPT ![b] = Zeros]
    OBVIOUS
  <2>5. t = [balloc(s) EXCEPT !.addr[k] = balloc(s).at]
    BY <2>1 DEF Enter
  <2>6. t = [addr |-> x, data |-> d, used |-> s.used \cup {b}, at |-> b]
    <3>1. PICK w, z : w = s.addr /\ z = s.used \cup {b}
      OBVIOUS
    <3>2. balloc(s) = [addr |-> w, data |-> d, used |-> z, at |-> b]
      BY <2>3, <2>4, <3>1
    <3>3. t = [balloc(s) EXCEPT !.addr = x]
      BY <2>4, <2>5, <3>1, <3>2
    <3> QED BY <3>1, <3>2, <3>3
  <2>7. t \in State
    <3>1. x \in [Roots -> 0..NBLOCKS] /\ b \in 0..NBLOCKS
      BY <1>3, <2>4, Sizes DEF Block
    <3>2. Zeros \in [Slots -> Nat]
      BY DEF Zeros, Slots
    <3>3. d \in [Block -> [Slots -> Nat]]
      BY <1>3, <2>4, <3>2
    <3>4. s.used \cup {b} \in SUBSET Block
      BY <1>3
    <3> QED BY <2>6, <3>1, <3>3, <3>4 DEF State
  <2>8. \A i \in Regular : \A r \in Dom(m, i) :
          m[i][r] \in Block /\ m[i][r] # b /\ d[m[i][r]] = s.data[m[i][r]]
    <3>1. ASSUME NEW i \in Regular, NEW r \in Dom(m, i)
          PROVE  m[i][r] \in Block /\ m[i][r] # b
      BY <2>3 DEF TreeOf, Tree, Maps, Marked
    <3> QED BY <1>3, <2>4, <3>1
  <2>9. NewLink(AddrsOf(ip, s.addr), s.data, AddrsOf(ip, x), d, m, ip, q, b)
    <3>1. ASSUME NEW i \in Regular, NEW n \in Roots
          PROVE  AddrsOf(ip, x)[i][n] = IF i = ip /\ <<n>> = q THEN b ELSE AddrsOf(ip, s.addr)[i][n]
      <4>1. i \in Inodes /\ (<<n>> = q <=> n = k)
        BY <1>1 DEF Regular
      <4>2. x[n] = IF n = k THEN b ELSE s.addr[n]
        BY <1>3, <2>4
      <4> QED BY <4>1, <4>2 DEF AddrsOf
    <3>2. ASSUME NEW i \in Regular, NEW r \in Dom(m, i), NEW n \in Slots
          PROVE  d[m[i][r]][n] = IF i = ip /\ Append(r, n) = q THEN b ELSE s.data[m[i][r]][n]
      <4>1. IsPlace(r)
        BY DEF TreeOf, Tree, Closed
      <4>2. Append(r, n) # q
        BY <1>2, <4>1
      <4> QED BY <2>8, <4>2
    <3>3. d[b] = Zeros
      BY <1>3, <2>4
    <3> QED BY <3>1, <3>2, <3>3 DEF NewLink
  <2>10. t.addr = x /\ t.data = d /\ t.used = s.used \cup {b} /\ t.at = b
    BY <2>6
  <2>11. \A r : \A n \in Slots : IsPlace(r) /\ q = Append(r, n) => r \in Dom(m, ip)
    BY <1>2
  <2>12. PICK m2 : Came(s, t, m, m2, ip, {q}, q)
    <3>1. NewLink(AddrsOf(ip, s.addr), s.data, AddrsOf(ip, t.addr), t.data, m, ip, q, b)
      BY <2>9, <2>10
    <3>2. \A i \in Regular : \A r \in Dom(m, i) :
            IsLeaf(r) => t.data[m[i][r]] = s.data[m[i][r]]
      BY <2>8, <2>10
    <3> QED BY <1>2, <1>7, <2>7, <2>10, <2>11, <3>1, <3>2, NewBlock
  <2>13. Dom(m2, ip) = Dom(m, ip) \cup {q}
    BY <2>12 DEF Came
  <2>14. Room(t, m2, ip, G)
    <3>1. q \in G /\ \E a \in Block \ s.used : t.used = s.used \cup {a}
      BY <1>1, <2>10
    <3> QED BY <1>7, <2>13, <3>1, RoomKept
  <2> QED BY <1>1, <2>12, <2>14
<1> QED BY <1>6, <1>7

\* A call goes from the block that it is at to the block at its place k.
LEMMA FollowComes ==
  ASSUME NEW s \in State, NEW m, NEW ip \in Regular, TreeOf(s, ip, m), NEW k \in Slots,
         NEW r0 \in Dom(m, ip), ~IsLeaf(r0), s.at = m[ip][r0],
         NEW G, Room(s, m, ip, G), Append(r0, k) \in G, NEW t, t = Follow(s, k)
  PROVE  \E m2 : /\ Came(s, t, m, m2, ip, {Append(r0, k)}, Append(r0, k))
                 /\ Room(t, m2, ip, G)
<1>1. PICK q : q = Append(r0, k)
  OBVIOUS
<1>2. IsPlace(r0) /\ IsPlace(q)
  BY <1>1, PlaceBelow DEF TreeOf, Tree, Closed
<1>3. PICK c \in Block : c = m[ip][r0] /\ s.at = c
  BY DEF TreeOf, Tree, Maps
<1>4. s.addr \in [Roots -> 0..NBLOCKS] /\ s.used \in SUBSET Block /\ ip \in Inodes
      /\ s.data \in [Block -> [Slots -> Nat]]
  BY DEF State, Regular
<1>5. s.data[c][k] = IF q \in Dom(m, ip) THEN m[ip][q] ELSE 0
  BY <1>1, <1>3 DEF TreeOf, Tree, Linked
<1>6. CASE q \in Dom(m, ip)
  <2>1. s.data[s.at][k] = m[ip][q] /\ m[ip][q] # 0
    BY <1>3, <1>5, <1>6, Sizes DEF TreeOf, Tree, Maps, Block
  <2>2. t = [s EXCEPT !.at = m[ip][q]]
    BY <2>1 DEF Follow
  <2>3. Came(s, t, m, m, ip, {q}, q) /\ t.used = s.used
    BY <1>6, <2>2, OldBlock
  <2>4. Dom(m, ip) = Dom(m, ip) \cup {q}
    BY <1>6
  <2>5. Room(t, m, ip, G)
    BY <1>1, <1>6, <2>3, <2>4, RoomKept
  <2> QED BY <1>1, <2>3, <2>5
<1>7. CASE q \notin Dom(m, ip)
  <2>1. s.data[s.at][k] = 0
    BY <1>3, <1>5, <1>7
  <2>2. Block \ s.used # {}
    BY <1>1, <1>7, RoomFree
  <2>3. PICK b \in Block \ s.used :
          balloc(s) = [addr |-> s.addr, data |-> [s.data EXCEPT ![b] = Zeros],
                       used |-> s.used \cup {b}, at |-> b]
    BY <2>2, BallocClears
  <2>4. PICK e, d : e = [s.data EXCEPT ![b] = Zeros] /\ d = [e EXCEPT ![c][k] = b]
    OBVIOUS
  <2>5. t = [balloc(s) EXCEPT !.data[c][k] = balloc(s).at]
    BY <1>3, <2>1 DEF Follow
  <2>6. t = [addr |-> s.addr, data |-> d, used |-> s.used \cup {b}, at |-> b]
    <3>1. PICK w, z : w = s.addr /\ z = s.used \cup {b}
      OBVIOUS
    <3>2. balloc(s) = [addr |-> w, data |-> e, used |-> z, at |-> b]
      BY <2>3, <2>4, <3>1
    <3>3. t = [balloc(s) EXCEPT !.data = d]
      BY <2>4, <2>5, <3>2
    <3>4. PICK v : v = balloc(s)
      OBVIOUS
    <3>5. [v EXCEPT !.data = d] = [addr |-> w, data |-> d, used |-> z, at |-> b]
      BY ONLY <3>2, <3>4
    <3> QED BY <3>1, <3>3, <3>4, <3>5
  <2>7. \A i \in Regular : \A r \in Dom(m, i) :
          /\ m[i][r] \in Block /\ m[i][r] # b /\ IsPlace(r)
          /\ m[i][r] = c => i = ip /\ r = r0
    <3> SUFFICES ASSUME NEW i \in Regular, NEW r \in Dom(m, i)
                 PROVE  /\ m[i][r] \in Block /\ m[i][r] # b /\ IsPlace(r)
                        /\ m[i][r] = c => i = ip /\ r = r0
      OBVIOUS
    <3>1. m[i][r] \in Block /\ IsPlace(r)
      BY DEF TreeOf, Tree, Maps, Closed
    <3>2. m[i][r] # b
      BY <2>3 DEF TreeOf, Tree, Marked
    <3>3. m[i][r] = c => i = ip /\ r = r0
      BY <1>3 DEF TreeOf, Tree, OnePlace
    <3> QED BY <3>1, <3>2, <3>3
  <2>8. c # b
    BY <1>3, <2>7
  <2>9. b \in Nat /\ Zeros \in [Slots -> Nat]
    BY Sizes DEF Block, Zeros, Slots
  <2>10. /\ e \in [Block -> [Slots -> Nat]] /\ e[b] = Zeros
         /\ \A a \in Block : a # b => e[a] = s.data[a]
    BY <1>4, <2>4, <2>9
  <2>11. /\ d \in [Block -> [Slots -> Nat]] /\ d[b] = Zeros
         /\ \A a \in Block : a # b /\ a # c => d[a] = s.data[a]
         /\ \A n \in Slots : d[c][n] = IF n = k THEN b ELSE s.data[c][n]
    <3>1. e[c] \in [Slots -> Nat] /\ e[c] = s.data[c]
      BY <2>8, <2>10
    <3>2. PICK f : f = [e[c] EXCEPT ![k] = b]
      OBVIOUS
    <3>3. f \in [Slots -> Nat] /\ \A n \in Slots : f[n] = IF n = k THEN b ELSE s.data[c][n]
      BY <2>9, <3>1, <3>2
    <3>4. d = [e EXCEPT ![c] = f]
      BY <2>4, <3>2
    <3> QED BY <2>8, <2>10, <3>3, <3>4
  <2>12. t \in State
    <3>1. s.used \cup {b} \in SUBSET Block /\ b \in 0..NBLOCKS
      BY <1>4, Sizes DEF Block
    <3> QED BY <1>4, <2>6, <2>11, <3>1 DEF State
  <2>13. t.addr = s.addr /\ t.data = d /\ t.used = s.used \cup {b} /\ t.at = b
    BY <2>6
  <2>14. NewLink(AddrsOf(ip, s.addr), s.data, AddrsOf(ip, s.addr), d, m, ip, q, b)
    <3>1. ASSUME NEW i \in Regular, NEW n \in Roots
          PROVE  AddrsOf(ip, s.addr)[i][n] =
                   IF i = ip /\ <<n>> = q THEN b ELSE AddrsOf(ip, s.addr)[i][n]
      <4>1. q # <<n>>
        BY <1>1, <1>2, RootPlace
      <4> QED BY <4>1
    <3>2. ASSUME NEW i \in Regular, NEW r \in Dom(m, i), NEW n \in Slots
          PROVE  d[m[i][r]][n] = IF i = ip /\ Append(r, n) = q THEN b ELSE s.data[m[i][r]][n]
      <4>1. m[i][r] \in Block /\ m[i][r] # b /\ IsPlace(r)
        BY <2>7
      <4>2. CASE i = ip /\ r = r0
        <5>1. Append(r, n) = q <=> n = k
          BY <1>1, <1>2, <4>2, BelowDiffer
        <5> QED BY <1>3, <2>11, <4>2, <5>1
      <4>3. CASE ~(i = ip /\ r = r0)
        <5>1. i = ip => Append(r, n) # q
          BY <1>1, <1>2, <4>1, <4>3, BelowDiffer
        <5>2. m[i][r] # c
          BY <2>7, <4>3
        <5> QED BY <2>11, <4>1, <5>1, <5>2
      <4> QED BY <4>2, <4>3
    <3> QED BY <2>11, <3>1, <3>2 DEF NewLink
  <2>15. \A i \in Regular : \A r \in Dom(m, i) : IsLeaf(r) => d[m[i][r]] = s.data[m[i][r]]
    BY <2>7, <2>11
  <2>16. \A r : \A n \in Slots : IsPlace(r) /\ q = Append(r, n) => r \in Dom(m, ip)
    BY <1>1, <1>2, BelowDiffer
  <2>17. PICK m2 : Came(s, t, m, m2, ip, {q}, q)
    <3>1. NewLink(AddrsOf(ip, s.addr), s.data, AddrsOf(ip, t.addr), t.data, m, ip, q, b)
      BY <2>13, <2>14
    <3>2. \A i \in Regular : \A r \in Dom(m, i) :
            IsLeaf(r) => t.data[m[i][r]] = s.data[m[i][r]]
      BY <2>13, <2>15
    <3> QED BY <1>2, <1>7, <2>12, <2>13, <2>16, <3>1, <3>2, NewBlock
  <2>18. Dom(m2, ip) = Dom(m, ip) \cup {q}
    BY <2>17 DEF Came
  <2>19. Room(t, m2, ip, G)
    <3>1. q \in G /\ \E a \in Block \ s.used : t.used = s.used \cup {a}
      BY <1>1, <2>13
    <3> QED BY <1>7, <2>18, <3>1, RoomKept
  <2> QED BY <1>1, <2>17, <2>19
<1> QED BY <1>6, <1>7

\* One walk after another
LEMMA CameOn ==
  ASSUME NEW s, NEW t, NEW v, NEW m, NEW m2, NEW m3, NEW ip, NEW Q, NEW q, NEW R, NEW r,
         Came(s, t, m, m2, ip, Q, q), Came(t, v, m2, m3, ip, R, r)
  PROVE  Came(s, v, m, m3, ip, Q \cup R, r)
<1>1. v \in State /\ TreeOf(v, ip, m3) /\ r \in Dom(m3, ip) /\ v.at = m3[ip][r]
  BY DEF Came
<1>2. Dom(m3, ip) = Dom(m, ip) \cup (Q \cup R)
  BY DEF Came
<1>3. \A i \in Regular : i # ip => Dom(m3, i) = Dom(m, i)
  BY DEF Came
<1>4. ASSUME NEW i \in Regular, NEW x \in Dom(m, i)
      PROVE  m3[i][x] = m[i][x] /\ (IsLeaf(x) => v.data[m[i][x]] = s.data[m[i][x]])
  <2>1. m2[i][x] = m[i][x] /\ (IsLeaf(x) => t.data[m[i][x]] = s.data[m[i][x]])
    BY DEF Came
  <2>2. x \in Dom(m2, i)
    BY DEF Came
  <2>3. m3[i][x] = m2[i][x] /\ (IsLeaf(x) => v.data[m2[i][x]] = t.data[m2[i][x]])
    BY <2>2 DEF Came
  <2> QED BY <2>1, <2>3
<1> QED BY <1>1, <1>2, <1>3, <1>4 DEF Came

LEMMA FollowOn ==
  ASSUME NEW s0, NEW m0, NEW s, NEW m, NEW ip \in Regular, NEW Q, NEW q,
         Came(s0, s, m0, m, ip, Q, q), NEW G, Room(s, m, ip, G), ~IsLeaf(q),
         NEW k \in Slots, Append(q, k) \in G, NEW t, t = Follow(s, k)
  PROVE  \E m2 : /\ Came(s0, t, m0, m2, ip, Q \cup {Append(q, k)}, Append(q, k))
                 /\ Room(t, m2, ip, G)
<1>1. s \in State /\ TreeOf(s, ip, m) /\ q \in Dom(m, ip) /\ s.at = m[ip][q]
  BY DEF Came
<1>2. PICK m2 : /\ Came(s, t, m, m2, ip, {Append(q, k)}, Append(q, k))
                /\ Room(t, m2, ip, G)
  BY <1>1, FollowComes
<1>3. Came(s0, t, m0, m2, ip, Q \cup {Append(q, k)}, Append(q, k))
  BY <1>2, CameOn
<1> QED BY <1>2, <1>3

\* bmap() goes to the block of data, and makes those on its way that are missing.
LEMMA bmapComes ==
  ASSUME NEW s \in State, NEW m, NEW ip \in Regular, TreeOf(s, ip, m),
         NEW bn \in 0..MAXFILE - 1, NEW G, Room(s, m, ip, G), Prefixes(bn) \subseteq G,
         NEW t, t = bmap(s, bn)
  PROVE  \E m2 : Came(s, t, m, m2, ip, Prefixes(bn), Path(bn)) /\ Room(t, m2, ip, G)
<1> DEFINE Reached(v, Q, q) == \E m2 : Came(s, v, m, m2, ip, Q, q) /\ Room(v, m2, ip, G)
<1>1. PICK p : p = Path(bn)
  OBVIOUS
<1>2. PICK x1, x2, x3, x4 : /\ x1 = SubSeq(p, 1, 1) /\ x2 = SubSeq(p, 1, 2)
                            /\ x3 = SubSeq(p, 1, 3) /\ x4 = SubSeq(p, 1, 4)
  OBVIOUS
<1>3. PICK s1, s2, s3, s4 : /\ s1 = Enter(s, p[1]) /\ s2 = Follow(s1, p[2])
                            /\ s3 = Follow(s2, p[3]) /\ s4 = Follow(s3, p[4])
  OBVIOUS
<1>4. /\ Len(p) \in 1..4 /\ x1 = <<p[1]>> /\ p[1] \in Roots
      /\ Len(p) >= 2 => p[2] \in Slots /\ ~IsLeaf(x1) /\ x2 = Append(x1, p[2])
      /\ Len(p) >= 3 => p[3] \in Slots /\ ~IsLeaf(x2) /\ x3 = Append(x2, p[3])
      /\ Len(p) >= 4 => p[4] \in Slots /\ ~IsLeaf(x3) /\ x4 = Append(x3, p[4])
      /\ SubSeq(p, 1, Len(p)) = p
  <2>1. /\ Len(p) \in 1..4 /\ x1 = <<p[1]>> /\ p[1] \in Roots /\ SubSeq(p, 1, Len(p)) = p
        /\ \A n \in 1..3 : n + 1 <= Len(p) =>
              /\ p[n + 1] \in Slots /\ ~IsLeaf(SubSeq(p, 1, n))
              /\ SubSeq(p, 1, n + 1) = Append(SubSeq(p, 1, n), p[n + 1])
    BY <1>1, <1>2, PrefixPlaces
  <2>2. Len(p) >= 2 => p[1 + 1] \in Slots /\ ~IsLeaf(x1) /\ SubSeq(p, 1, 1 + 1) = Append(x1, p[1 + 1])
    <3>1. 1 \in 1..3 /\ (Len(p) >= 2 => 1 + 1 <= Len(p))
      OBVIOUS
    <3> QED BY <1>2, <2>1, <3>1
  <2>3. Len(p) >= 3 => p[2 + 1] \in Slots /\ ~IsLeaf(x2) /\ SubSeq(p, 1, 2 + 1) = Append(x2, p[2 + 1])
    <3>1. 2 \in 1..3 /\ (Len(p) >= 3 => 2 + 1 <= Len(p))
      OBVIOUS
    <3> QED BY <1>2, <2>1, <3>1
  <2>4. Len(p) >= 4 => p[3 + 1] \in Slots /\ ~IsLeaf(x3) /\ SubSeq(p, 1, 3 + 1) = Append(x3, p[3 + 1])
    <3>1. 3 \in 1..3 /\ (Len(p) >= 4 => 3 + 1 <= Len(p))
      OBVIOUS
    <3> QED BY <1>2, <2>1, <3>1
  <2>5. 1 + 1 = 2 /\ 2 + 1 = 3 /\ 3 + 1 = 4
    OBVIOUS
  <2> QED BY <1>2, <2>1, <2>2, <2>3, <2>4, <2>5
<1>5. Prefixes(bn) = {SubSeq(p, 1, n) : n \in 1..Len(p)}
  BY <1>1 DEF Prefixes
<1>6. /\ Len(p) = 1 => Prefixes(bn) = {x1} /\ x1 = p
      /\ Len(p) = 2 => Prefixes(bn) = {x1} \cup {x2} /\ x2 = p
      /\ Len(p) = 3 => Prefixes(bn) = {x1} \cup {x2} \cup {x3} /\ x3 = p
      /\ Len(p) = 4 => Prefixes(bn) = {x1} \cup {x2} \cup {x3} \cup {x4} /\ x4 = p
  <2>1. /\ 1..1 = {1} /\ 1..2 = {1, 2} /\ 1..3 = {1, 2, 3} /\ 1..4 = {1, 2, 3, 4}
    OBVIOUS
  <2>2. CASE Len(p) = 1
    BY <1>2, <1>4, <1>5, <2>1, <2>2
  <2>3. CASE Len(p) = 2
    BY <1>2, <1>4, <1>5, <2>1, <2>3
  <2>4. CASE Len(p) = 3
    BY <1>2, <1>4, <1>5, <2>1, <2>4
  <2>5. CASE Len(p) = 4
    BY <1>2, <1>4, <1>5, <2>1, <2>5
  <2> QED BY <2>2, <2>3, <2>4, <2>5
<1>7. t = CASE Len(p) = 1 -> s1 [] Len(p) = 2 -> s2 [] Len(p) = 3 -> s3 [] Len(p) = 4 -> s4
  BY <1>1, <1>3 DEF bmap
<1>8. x1 \in G /\ Reached(s1, {x1}, x1)
  <2>1. x1 \in G
    BY <1>4, <1>6
  <2> QED BY <1>3, <1>4, <2>1, EnterComes
<1>9. ASSUME Len(p) >= 2
      PROVE  x2 \in G /\ Reached(s2, {x1} \cup {x2}, x2)
  <2>1. x2 \in G
    BY <1>4, <1>6, <1>9
  <2>2. p[2] \in Slots /\ ~IsLeaf(x1) /\ x2 = Append(x1, p[2])
    BY <1>4, <1>9
  <2>3. PICK m1, Q : Q = {x1} /\ Came(s, s1, m, m1, ip, Q, x1) /\ Room(s1, m1, ip, G)
    BY <1>8
  <2>4. PICK m2 : /\ Came(s, s2, m, m2, ip, Q \cup {Append(x1, p[2])}, Append(x1, p[2]))
                  /\ Room(s2, m2, ip, G)
    <3>1. PICK k \in Slots : k = p[2]
      BY <2>2
    <3>2. Append(x1, k) \in G /\ s2 = Follow(s1, k)
      BY <1>3, <2>1, <2>2, <3>1
    <3>3. \E m2 : /\ Came(s, s2, m, m2, ip, Q \cup {Append(x1, k)}, Append(x1, k))
                  /\ Room(s2, m2, ip, G)
      <4>1. ~IsLeaf(x1) /\ Came(s, s1, m, m1, ip, Q, x1) /\ Room(s1, m1, ip, G)
        BY <2>2, <2>3
      <4> QED BY ONLY ip \in Regular, k \in Slots, <3>2, <4>1, FollowOn
    <3> QED BY <3>1, <3>3
  <2>5. Came(s, s2, m, m2, ip, {x1} \cup {x2}, x2)
    BY <2>2, <2>3, <2>4
  <2> QED BY <2>1, <2>4, <2>5
<1>10. ASSUME Len(p) >= 3
       PROVE  x3 \in G /\ Reached(s3, {x1} \cup {x2} \cup {x3}, x3)
  <2>1. x3 \in G
    BY <1>4, <1>6, <1>10
  <2>2. p[3] \in Slots /\ ~IsLeaf(x2) /\ x3 = Append(x2, p[3])
    BY <1>4, <1>10
  <2>3. PICK m1, Q : /\ Q = {x1} \cup {x2}
                     /\ Came(s, s2, m, m1, ip, Q, x2) /\ Room(s2, m1, ip, G)
    <3>1. Len(p) >= 2
      BY <1>4, <1>10
    <3> QED BY <1>9, <3>1
  <2>4. PICK m2 : /\ Came(s, s3, m, m2, ip, Q \cup {Append(x2, p[3])}, Append(x2, p[3]))
                  /\ Room(s3, m2, ip, G)
    <3>1. PICK k \in Slots : k = p[3]
      BY <2>2
    <3>2. Append(x2, k) \in G /\ s3 = Follow(s2, k)
      BY <1>3, <2>1, <2>2, <3>1
    <3>3. \E m2 : /\ Came(s, s3, m, m2, ip, Q \cup {Append(x2, k)}, Append(x2, k))
                  /\ Room(s3, m2, ip, G)
      <4>1. ~IsLeaf(x2) /\ Came(s, s2, m, m1, ip, Q, x2) /\ Room(s2, m1, ip, G)
        BY <2>2, <2>3
      <4> QED BY ONLY ip \in Regular, k \in Slots, <3>2, <4>1, FollowOn
    <3> QED BY <3>1, <3>3
  <2>5. Came(s, s3, m, m2, ip, {x1} \cup {x2} \cup {x3}, x3)
    BY <2>2, <2>3, <2>4
  <2> QED BY <2>1, <2>4, <2>5
<1>11. ASSUME Len(p) >= 4
       PROVE  x4 \in G /\ Reached(s4, {x1} \cup {x2} \cup {x3} \cup {x4}, x4)
  <2>1. x4 \in G
    BY <1>4, <1>6, <1>11
  <2>2. p[4] \in Slots /\ ~IsLeaf(x3) /\ x4 = Append(x3, p[4])
    BY <1>4, <1>11
  <2>3. PICK m1, Q : /\ Q = {x1} \cup {x2} \cup {x3}
                     /\ Came(s, s3, m, m1, ip, Q, x3) /\ Room(s3, m1, ip, G)
    <3>1. Len(p) >= 3
      BY <1>4, <1>11
    <3> QED BY <1>10, <3>1
  <2>4. PICK m2 : /\ Came(s, s4, m, m2, ip, Q \cup {Append(x3, p[4])}, Append(x3, p[4]))
                  /\ Room(s4, m2, ip, G)
    <3>1. PICK k \in Slots : k = p[4]
      BY <2>2
    <3>2. Append(x3, k) \in G /\ s4 = Follow(s3, k)
      BY <1>3, <2>1, <2>2, <3>1
    <3>3. \E m2 : /\ Came(s, s4, m, m2, ip, Q \cup {Append(x3, k)}, Append(x3, k))
                  /\ Room(s4, m2, ip, G)
      <4>1. ~IsLeaf(x3) /\ Came(s, s3, m, m1, ip, Q, x3) /\ Room(s3, m1, ip, G)
        BY <2>2, <2>3
      <4> QED BY ONLY ip \in Regular, k \in Slots, <3>2, <4>1, FollowOn
    <3> QED BY <3>1, <3>3
  <2>5. Came(s, s4, m, m2, ip, {x1} \cup {x2} \cup {x3} \cup {x4}, x4)
    BY <2>2, <2>3, <2>4
  <2> QED BY <2>1, <2>4, <2>5
<1>12. Reached(t, Prefixes(bn), p)
  <2>1. CASE Len(p) = 1
    BY <1>6, <1>7, <1>8, <2>1
  <2>2. CASE Len(p) = 2
    BY <1>6, <1>7, <1>9, <2>2
  <2>3. CASE Len(p) = 3
    BY <1>6, <1>7, <1>10, <2>3
  <2>4. CASE Len(p) = 4
    BY <1>6, <1>7, <1>11, <2>4
  <2> QED BY <1>4, <2>1, <2>2, <2>3, <2>4
<1> QED BY <1>1, <1>12

-----------------------------------------------------------------------------
(* The loop of writei()                                                    *)

\* The words of the files are there, and those of file ip before word end and block n.
KeptTo(d, m, ip, end, n) ==
  \A i \in Regular : \A b \in 0..MAXFILE - 1, w \in Slots :
    b * NINDIRECT + w < size[i] \/ (i = ip /\ b < n /\ b * NINDIRECT + w < end)
      => Path(b) \in Dom(m, i) /\ d[m[i][Path(b)]][w] = Word(i, b * NINDIRECT + w)

LEMMA WordNat ==
  ASSUME NEW i \in Inodes, NEW off \in Nat
  PROVE  Word(i, off) \in Nat
<1>1. i \in Nat /\ MAXFILE * NINDIRECT + 1 \in Nat /\ NBLOCKS \in Nat
  BY Sizes, TreeAssumption
<1>2. i * (MAXFILE * NINDIRECT + 1) \in Nat
  BY <1>1
<1> QED BY <1>1, <1>2 DEF Word

\* A turn of the loop writes the words of its block and no others.
LEMMA WriteKeeps ==
  ASSUME NEW s \in State, NEW m, NEW ip \in Regular, TreeOf(s, ip, m),
         NEW bn \in 0..MAXFILE - 1, NEW G, Room(s, m, ip, G), Prefixes(bn) \subseteq G,
         NEW off \in Nat, NEW end \in Nat, size[ip] \in Nat, off <= size[ip],
         KeptTo(s.data, m, ip, end, bn), NEW t, t = Write(s, ip, bn, off, end)
  PROVE  /\ t \in State
         /\ \E m2 : /\ TreeOf(t, ip, m2) /\ Room(t, m2, ip, G)
                    /\ Dom(m2, ip) = Dom(m, ip) \cup Prefixes(bn)
                    /\ \A i \in Regular : i # ip => Dom(m2, i) = Dom(m, i)
                    /\ KeptTo(t.data, m2, ip, end, bn + 1)
<1>1. PICK v : v = bmap(s, bn)
  OBVIOUS
<1>2. PICK m2 : Came(s, v, m, m2, ip, Prefixes(bn), Path(bn)) /\ Room(v, m2, ip, G)
  BY <1>1, bmapComes
<1>3. PICK p : p = Path(bn)
  OBVIOUS
<1>4. /\ v \in State /\ TreeOf(v, ip, m2) /\ p \in Dom(m2, ip) /\ v.at = m2[ip][p]
      /\ Dom(m2, ip) = Dom(m, ip) \cup Prefixes(bn)
      /\ \A i \in Regular : i # ip => Dom(m2, i) = Dom(m, i)
      /\ \A i \in Regular : \A r \in Dom(m, i) :
           m2[i][r] = m[i][r] /\ (IsLeaf(r) => v.data[m[i][r]] = s.data[m[i][r]])
  BY <1>2, <1>3 DEF Came
<1>5. PICK c \in Block : c = v.at
  BY <1>4 DEF TreeOf, Tree, Maps
<1>6. v.data \in [Block -> [Slots -> Nat]]
  BY <1>4 DEF State
<1>7. PICK g : g = [w \in Slots |->
                      IF off <= bn * NINDIRECT + w /\ bn * NINDIRECT + w < end
                        THEN Word(ip, bn * NINDIRECT + w) ELSE v.data[c][w]]
  OBVIOUS
<1>8. g \in [Slots -> Nat]
  <2>1. ASSUME NEW w \in Slots
        PROVE  g[w] \in Nat
    <3>1. bn * NINDIRECT + w \in Nat /\ ip \in Inodes
      BY Sizes DEF Slots, Regular
    <3>2. Word(ip, bn * NINDIRECT + w) \in Nat
      BY <3>1, WordNat
    <3> QED BY <1>6, <1>7, <3>2
  <2> QED BY <1>7, <2>1
<1>9. t = [v EXCEPT !.data[c] = g]
  BY <1>1, <1>5, <1>7 DEF Write, Slots
<1>10. PICK d : d = [v.data EXCEPT ![c] = g]
  OBVIOUS
<1>11. t.addr = v.addr /\ t.used = v.used /\ t.data = d /\ t \in State
  <2>1. d \in [Block -> [Slots -> Nat]]
    BY <1>6, <1>8, <1>10
  <2>2. t = [v EXCEPT !.data = d]
    BY <1>9, <1>10
  <2> QED BY <1>4, <2>1, <2>2 DEF State
<1>12. d[c] = g /\ \A b \in Block : b # c => d[b] = v.data[b]
  BY <1>6, <1>10
<1>13. \A i \in Regular : \A r \in Dom(m2, i) :
         m2[i][r] \in Block /\ (m2[i][r] = c => i = ip /\ r = p)
  <2> SUFFICES ASSUME NEW i \in Regular, NEW r \in Dom(m2, i)
               PROVE  m2[i][r] \in Block /\ (m2[i][r] = c => i = ip /\ r = p)
    OBVIOUS
  <2>1. m2[i][r] \in Block
    BY <1>4 DEF TreeOf, Tree, Maps
  <2>2. m2[i][r] = m2[ip][p] => i = ip /\ r = p
    BY <1>4 DEF TreeOf, Tree, OnePlace
  <2> QED BY <1>4, <1>5, <2>1, <2>2
<1>14. TreeOf(t, ip, m2)
  <2>1. IsLeaf(p)
    BY <1>3, PathPlace
  <2>2. \A i \in Regular : \A r \in Dom(m2, i) : ~IsLeaf(r) => d[m2[i][r]] = v.data[m2[i][r]]
    BY <1>12, <1>13, <2>1
  <2>3. Linked(d, m2)
    <3>1. Linked(v.data, m2)
      BY <1>4 DEF TreeOf, Tree
    <3> QED BY <2>2, <3>1 DEF Linked
  <2> QED BY <1>4, <1>11, <2>3 DEF TreeOf, Tree
<1>15. Room(t, m2, ip, G)
  BY <1>2, <1>11 DEF Room
<1>16. KeptTo(d, m2, ip, end, bn + 1)
  <2> SUFFICES ASSUME NEW i \in Regular, NEW b \in 0..MAXFILE - 1, NEW w \in Slots,
                      \/ b * NINDIRECT + w < size[i]
                      \/ i = ip /\ b < bn + 1 /\ b * NINDIRECT + w < end
               PROVE  /\ Path(b) \in Dom(m2, i)
                      /\ d[m2[i][Path(b)]][w] = Word(i, b * NINDIRECT + w)
    BY DEF KeptTo
  <2>1. PICK o \in Nat : o = b * NINDIRECT + w
    BY Sizes DEF Slots
  <2>2. ASSUME o < size[i] \/ (i = ip /\ b < bn /\ o < end)
        PROVE  /\ Path(b) \in Dom(m2, i) /\ m2[i][Path(b)] = m[i][Path(b)]
               /\ v.data[m2[i][Path(b)]][w] = Word(i, o)
    <3>1. Path(b) \in Dom(m, i) /\ s.data[m[i][Path(b)]][w] = Word(i, o)
      BY <2>1, <2>2 DEF KeptTo
    <3>2. IsLeaf(Path(b))
      BY PathPlace
    <3>3. Path(b) \in Dom(m2, i)
      BY <1>4, <3>1
    <3> QED BY <1>4, <3>1, <3>2, <3>3
  <2>3. CASE i = ip /\ b = bn
    <3>1. d[m2[i][Path(b)]] = g /\ Path(b) \in Dom(m2, i) /\ m2[i][Path(b)] = c
      BY <1>3, <1>4, <1>5, <1>12, <2>3
    <3>2. g[w] = IF off <= o /\ o < end THEN Word(i, o) ELSE v.data[c][w]
      BY <1>7, <2>1, <2>3
    <3>3. o < size[i] \/ (off <= o /\ o < end)
      BY <2>1, <2>3
    <3>4. o < size[i] => v.data[c][w] = Word(i, o)
      BY <2>2, <3>1
    <3> QED BY <2>1, <3>1, <3>2, <3>3, <3>4
  <2>4. CASE ~(i = ip /\ b = bn)
    <3>1. o < size[i] \/ (i = ip /\ b < bn /\ o < end)
      BY <2>1, <2>4
    <3>2. i = ip => Path(b) # p
      BY <1>3, <2>4, PathInjective
    <3>3. m2[i][Path(b)] # c /\ m2[i][Path(b)] \in Block
      BY <1>13, <2>2, <3>1, <3>2
    <3> QED BY <1>12, <2>1, <2>2, <3>1, <3>3
  <2> QED BY <2>3, <2>4
<1> QED BY <1>4, <1>11, <1>14, <1>15, <1>16

\* The places of the first blocks of a file
LEMMA PlacesIs ==
  ASSUME NEW words
  PROVE  \A q : q \in Places(words) <=>
           \E b \in 0..MAXFILE - 1 : b * NINDIRECT < words /\ q \in Prefixes(b)
BY DEF Places, Prefixes

LEMMA PrefixesFinite ==
  ASSUME NEW b \in 0..MAXFILE - 1
  PROVE  IsFiniteSet(Prefixes(b))
<1>1. PICK f : f = [n \in 1..Len(Path(b)) |-> SubSeq(Path(b), 1, n)]
  OBVIOUS
<1>2. Len(Path(b)) \in 1..4
  BY PathPlace DEF IsPlace
<1>3. IsFiniteSet(1..Len(Path(b)))
  BY <1>2, FS_Interval
<1>4. PICK D : D = 1..Len(Path(b))
  OBVIOUS
<1>5. f \in [D -> Prefixes(b)] /\ \A q \in Prefixes(b) : \E n \in D : f[n] = q
  BY <1>1, <1>4 DEF Prefixes
<1>6. f \in Surjection(D, Prefixes(b))
  BY <1>5 DEF Surjection
<1> QED BY <1>3, <1>4, <1>6, FS_Surjection

LEMMA PlacesFinite ==
  ASSUME NEW words
  PROVE  IsFiniteSet(Places(words))
<1>1. PICK B : B = {b \in 0..MAXFILE - 1 : b * NINDIRECT < words}
  OBVIOUS
<1>2. PICK P : P = {Prefixes(b) : b \in B}
  OBVIOUS
<1>3. IsFiniteSet(0..MAXFILE - 1)
  BY Sizes, FS_Interval
<1>4. B \in SUBSET (0..MAXFILE - 1)
  BY <1>1
<1>5. IsFiniteSet(B)
  BY <1>3, <1>4, FS_Subset
<1>6. PICK f : f = [b \in B |-> Prefixes(b)]
  OBVIOUS
<1>7. f \in Surjection(B, P)
  BY <1>2, <1>6 DEF Surjection
<1>8. IsFiniteSet(P)
  BY <1>5, <1>7, FS_Surjection
<1>9. \A p \in P : IsFiniteSet(p)
  BY <1>2, <1>4, PrefixesFinite
<1>10. Places(words) = UNION P
  BY <1>1, <1>2 DEF Places, Prefixes
<1> QED BY <1>8, <1>9, <1>10, FS_UNION

\* What holds of the file system when a call has written the blocks before n
Begun(ip, off, n) == UNION {Prefixes(b) : b \in off \div NINDIRECT..n - 1}

LoopInv(s, ip, off, end, n) ==
  /\ s \in State
  /\ \E m : /\ TreeOf(s, ip, m) /\ Room(s, m, ip, Places(size[ip]) \cup Places(end))
            /\ Dom(m, ip) = Places(size[ip]) \cup Begun(ip, off, n)
            /\ \A i \in Regular : i # ip => Dom(m, i) = Places(size[i])
            /\ KeptTo(s.data, m, ip, end, n)

\* Block n is one that the call writes.
Wanted(ip, off, end, n) ==
  /\ off \in Nat /\ end \in Nat \ {0} /\ off < end /\ size[ip] \in Nat /\ off <= size[ip]
  /\ end <= MAXFILE * NINDIRECT /\ n \in off \div NINDIRECT..(end - 1) \div NINDIRECT

LEMMA WantedBlock ==
  ASSUME NEW ip, NEW off, NEW end, NEW n, Wanted(ip, off, end, n)
  PROVE  /\ n \in 0..MAXFILE - 1 /\ n * NINDIRECT < end /\ off \div NINDIRECT \in Nat
         /\ (end - 1) \div NINDIRECT \in Nat /\ (end - 1) \div NINDIRECT < MAXFILE
<1>1. PICK e \in Nat : e = end - 1 /\ e < NINDIRECT * MAXFILE /\ e < end
  BY Sizes DEF Wanted
<1>2. e \div NINDIRECT \in Nat /\ e \div NINDIRECT < MAXFILE /\ off \div NINDIRECT \in Nat
  BY <1>1, Sizes, DivMod, DivBelow DEF Wanted
<1>3. PICK f, l : f = off \div NINDIRECT /\ l = e \div NINDIRECT
  OBVIOUS
<1>4. n \in f..l /\ f \in Nat /\ l \in Nat /\ l < MAXFILE
  BY <1>1, <1>2, <1>3 DEF Wanted
<1>5. n \in Nat /\ n <= e \div NINDIRECT
  BY <1>3, <1>4
<1>6. n * NINDIRECT <= e
  BY <1>1, <1>5, Sizes, BlockOf
<1>7. n * NINDIRECT \in Nat
  BY <1>5, Sizes
<1> QED BY <1>1, <1>2, <1>3, <1>4, <1>6, <1>7, Sizes DEF Wanted

LEMMA LoopTurn ==
  ASSUME NEW ip \in Regular, NEW off, NEW end, NEW n, Wanted(ip, off, end, n),
         NEW s, LoopInv(s, ip, off, end, n)
  PROVE  LoopInv(Write(s, ip, n, off, end), ip, off, end, n + 1)
<1>1. PICK t : t = Write(s, ip, n, off, end)
  OBVIOUS
<1>2. PICK G : G = Places(size[ip]) \cup Places(end)
  OBVIOUS
<1>3. n \in 0..MAXFILE - 1 /\ n * NINDIRECT < end /\ off \div NINDIRECT \in Nat
  BY WantedBlock
<1>4. off \in Nat /\ end \in Nat /\ size[ip] \in Nat /\ off <= size[ip]
      /\ n \in off \div NINDIRECT..(end - 1) \div NINDIRECT
  BY DEF Wanted
<1>5. PICK m : /\ TreeOf(s, ip, m) /\ Room(s, m, ip, G)
               /\ Dom(m, ip) = Places(size[ip]) \cup Begun(ip, off, n)
               /\ \A i \in Regular : i # ip => Dom(m, i) = Places(size[i])
               /\ KeptTo(s.data, m, ip, end, n)
  BY <1>2 DEF LoopInv
<1>6. Prefixes(n) \subseteq G
  BY <1>2, <1>3, PlacesIs
<1>7. PICK m2 : /\ t \in State /\ TreeOf(t, ip, m2) /\ Room(t, m2, ip, G)
                /\ Dom(m2, ip) = Dom(m, ip) \cup Prefixes(n)
                /\ \A i \in Regular : i # ip => Dom(m2, i) = Dom(m, i)
                /\ KeptTo(t.data, m2, ip, end, n + 1)
  <2>1. s \in State
    BY DEF LoopInv
  <2> QED BY <1>1, <1>3, <1>4, <1>5, <1>6, <2>1, WriteKeeps
<1>8. Begun(ip, off, n + 1) = Begun(ip, off, n) \cup Prefixes(n)
  <2>1. PICK f \in Nat : f = off \div NINDIRECT
    BY <1>3
  <2>2. n \in Nat /\ f <= n
    <3>1. n \in f..(end - 1) \div NINDIRECT
      BY <1>4, <2>1
    <3> QED BY <1>3, <3>1
  <2>3. f..n + 1 - 1 = (f..n - 1) \cup {n}
    BY <2>2
  <2> QED BY <2>1, <2>3 DEF Begun
<1>9. Dom(m2, ip) = Places(size[ip]) \cup Begun(ip, off, n + 1)
  BY <1>5, <1>7, <1>8
<1>10. \A i \in Regular : i # ip => Dom(m2, i) = Places(size[i])
  BY <1>5, <1>7
<1> QED BY <1>1, <1>2, <1>7, <1>9, <1>10 DEF LoopInv

\* The loop of writei() as a function of the block that has been written
Loop(ip, off, end) ==
  CHOOSE f : f = [n \in off \div NINDIRECT..(end - 1) \div NINDIRECT |->
                   Write(IF n = off \div NINDIRECT THEN Start(ip) ELSE f[n - 1], ip, n, off, end)]

LEMMA LoopIs ==
  ASSUME NEW ip, NEW off, NEW end, NEW first \in Nat, NEW last \in Nat, first <= last,
         first = off \div NINDIRECT, last = (end - 1) \div NINDIRECT
  PROVE  /\ writeWords(ip, off, end) = Loop(ip, off, end)[last]
         /\ Loop(ip, off, end) =
              [n \in first..last |->
                 Write(IF n = first THEN Start(ip) ELSE Loop(ip, off, end)[n - 1], ip, n, off, end)]
<1> DEFINE Turns(f, l) ==
             f = [n \in first..l |->
                    Write(IF n = first THEN Start(ip) ELSE f[n - 1], ip, n, off, end)]
<1>1. writeWords(ip, off, end) = Loop(ip, off, end)[last]
  BY DEF writeWords, Loop
<1>2. \E f : Turns(f, last)
  <2>1. PICK S : S = {l \in first..last : ~\E f : Turns(f, l)}
    OBVIOUS
  <2>2. CASE S = {}
    BY <2>1, <2>2
  <2>3. CASE S # {}
    <3>1. S \in SUBSET Nat
      BY <2>1
    <3>2. PICK l \in S : \A k \in S : l <= k
      BY <2>3, <3>1, LeastOf
    <3>3. l \in first..last /\ l \in Nat
      BY <2>1, <3>1
    <3>4. CASE l = first
      <4>1. PICK f : f = [n \in first..l |-> Write(Start(ip), ip, n, off, end)]
        OBVIOUS
      <4>2. \A n \in first..l : n = first
        BY <3>3, <3>4
      <4>3. f = [n \in first..l |->
                   Write(IF n = first THEN Start(ip) ELSE f[n - 1], ip, n, off, end)]
        BY <4>1, <4>2
      <4> QED BY <2>1, <4>3
    <3>5. CASE l # first
      <4>1. l - 1 \in first..last /\ l - 1 \in Nat /\ ~(l <= l - 1)
        BY <3>3, <3>5
      <4>2. l - 1 \notin S
        BY <3>2, <4>1
      <4>3. PICK f : Turns(f, l - 1)
        BY <2>1, <4>1, <4>2
      <4>4. PICK g : g = [n \in first..l |->
                            Write(IF n = first THEN Start(ip) ELSE f[n - 1], ip, n, off, end)]
        OBVIOUS
      <4>5. ASSUME NEW n \in first..l, n # first
            PROVE  g[n - 1] = f[n - 1]
        <5>1. n - 1 \in first..l /\ n - 1 \in first..l - 1
          BY <3>3, <4>5
        <5>2. g[n - 1] = Write(IF n - 1 = first THEN Start(ip) ELSE f[(n - 1) - 1],
                               ip, n - 1, off, end)
          BY <4>4, <5>1
        <5>3. f[n - 1] = Write(IF n - 1 = first THEN Start(ip) ELSE f[(n - 1) - 1],
                               ip, n - 1, off, end)
          BY <4>3, <5>1
        <5> QED BY <5>2, <5>3
      <4>6. Turns(g, l)
        BY <4>4, <4>5
      <4> QED BY <2>1, <4>6
    <3> QED BY <3>4, <3>5
  <2> QED BY <2>2, <2>3
<1>3. Turns(Loop(ip, off, end), last)
  BY <1>2 DEF Loop
<1> QED BY <1>1, <1>3

\* Every turn keeps what the loop began with.
LEMMA LoopEnds ==
  ASSUME NEW ip \in Regular, NEW off, NEW end, NEW first \in Nat, NEW last \in Nat,
         first <= last, first = off \div NINDIRECT, last = (end - 1) \div NINDIRECT,
         Wanted(ip, off, end, first), LoopInv(Start(ip), ip, off, end, first)
  PROVE  LoopInv(writeWords(ip, off, end), ip, off, end, last + 1)
<1>1. PICK f : f = Loop(ip, off, end)
  OBVIOUS
<1>2. /\ writeWords(ip, off, end) = f[last]
      /\ f = [n \in first..last |->
                Write(IF n = first THEN Start(ip) ELSE f[n - 1], ip, n, off, end)]
  BY <1>1, LoopIs
<1>3. PICK S : S = {n \in first..last : ~LoopInv(f[n], ip, off, end, n + 1)}
  OBVIOUS
<1>4. ASSUME S # {}
      PROVE  FALSE
  <2>1. S \in SUBSET Nat
    BY <1>3
  <2>2. PICK n \in S : \A k \in S : n <= k
    BY <1>4, <2>1, LeastOf
  <2>3. n \in first..last /\ n \in Nat /\ ~LoopInv(f[n], ip, off, end, n + 1)
    BY <1>3, <2>1
  <2>4. Wanted(ip, off, end, n)
    BY <2>3 DEF Wanted
  <2>5. CASE n = first
    <3>1. f[n] = Write(Start(ip), ip, n, off, end)
      BY <1>2, <2>3, <2>5
    <3> QED BY <2>3, <2>4, <2>5, <3>1, LoopTurn
  <2>6. CASE n # first
    <3>1. n - 1 \in first..last /\ ~(n <= n - 1) /\ (n - 1) + 1 = n
      BY <2>3, <2>6
    <3>2. LoopInv(f[n - 1], ip, off, end, (n - 1) + 1)
      BY <1>3, <2>2, <3>1
    <3>3. LoopInv(f[n - 1], ip, off, end, n)
      BY <3>1, <3>2
    <3>4. f[n] = Write(f[n - 1], ip, n, off, end)
      BY <1>2, <2>3, <2>6
    <3> QED BY <2>3, <2>4, <3>3, <3>4, LoopTurn
  <2> QED BY <2>5, <2>6
<1> QED BY <1>2, <1>3, <1>4

-----------------------------------------------------------------------------
(* The inductive invariant                                                 *)

\* The places of a file are those of its size
Fits(m) == \A i \in Regular : Dom(m, i) = Places(size[i])

Kept(d, m) ==
  \A i \in Regular : \A b \in 0..MAXFILE - 1, w \in Slots :
    b * NINDIRECT + w < size[i] =>
      Path(b) \in Dom(m, i) /\ d[m[i][Path(b)]][w] = Word(i, b * NINDIRECT + w)

TreeInv == \E m : Tree(addrs, data, used, m) /\ Fits(m) /\ Kept(data, m)

IInv == TypeOK /\ TreeInv

LEMMA StartIs ==
  ASSUME TypeOK, NEW ip \in Regular
  PROVE  /\ Start(ip) \in State /\ AddrsOf(ip, Start(ip).addr) = addrs
         /\ Start(ip).data = data /\ Start(ip).used = used
<1>1. ip \in Inodes /\ addrs \in [Inodes -> [Roots -> 0..NBLOCKS]]
      /\ data \in [Block -> [Slots -> Nat]] /\ used \in SUBSET Block
  BY DEF TypeOK, Roots, Slots, Regular
<1>2. 0 \in 0..NBLOCKS
  BY Sizes
<1>3. Start(ip) \in State
  BY <1>1, <1>2 DEF Start, State
<1>4. Start(ip).addr = addrs[ip] /\ Start(ip).data = data /\ Start(ip).used = used
  BY DEF Start
<1>5. AddrsOf(ip, addrs[ip]) = addrs
  BY <1>1 DEF AddrsOf
<1> QED BY <1>3, <1>4, <1>5

\* The guard of writei() leaves room for what it writes.
LEMMA GuardRoom ==
  ASSUME TypeOK, NEW ip \in Regular, NEW m, Dom(m, ip) = Places(size[ip]), NEW end,
         Cardinality(Places(end) \ Places(size[ip])) <= Cardinality(Block \ used)
  PROVE  Room(Start(ip), m, ip, Places(size[ip]) \cup Places(end))
<1>1. PICK P, E, D : P = Places(size[ip]) /\ E = Places(end) /\ D = E \ P
  OBVIOUS
<1>2. IsFiniteSet(P) /\ IsFiniteSet(E) /\ IsFiniteSet(D)
  BY <1>1, PlacesFinite, FS_Difference
<1>3. P \cup E = P \cup D /\ P \cap D = {}
  BY <1>1
<1>4. IsFiniteSet(P \cup D) /\ Cardinality(P \cup D) = Cardinality(P) + Cardinality(D)
  <2>1. Cardinality(P \cup D) = Cardinality(P) + Cardinality(D) - Cardinality(P \cap D)
    BY <1>2, FS_Union
  <2>2. Cardinality(P \cap D) = 0
    BY <1>3, FS_EmptySet
  <2>3. Cardinality(P) \in Nat /\ Cardinality(D) \in Nat
    BY <1>2, FS_CardinalityType
  <2> QED BY <1>2, <2>1, <2>2, <2>3, FS_Union
<1>5. IsFiniteSet(Block) /\ Cardinality(Block) = NBLOCKS /\ used \in SUBSET Block
  BY UsedFinite DEF TypeOK
<1>6. IsFiniteSet(used) /\ Cardinality(used) \in Nat
  BY <1>5, UsedFinite
<1>7. Cardinality(Block \ used) = NBLOCKS - Cardinality(used)
  <2>1. Cardinality(Block \ used) = Cardinality(Block) - Cardinality(Block \cap used)
    BY <1>5, FS_Difference
  <2>2. Block \cap used = used
    BY <1>5
  <2> QED BY <1>5, <2>1, <2>2
<1>8. Cardinality(P) \in Nat /\ Cardinality(D) \in Nat
  BY <1>2, FS_CardinalityType
<1>9. Cardinality(P \cup D) + Cardinality(used) <= NBLOCKS + Cardinality(P)
  BY <1>1, <1>4, <1>6, <1>7, <1>8, Sizes
<1>10. Start(ip).used = used
  BY DEF Start
<1> QED BY <1>1, <1>3, <1>4, <1>9, <1>10 DEF Room

LEMMA SizeNat ==
  ASSUME TypeOK, NEW i \in Inodes
  PROVE  size[i] \in Nat /\ size[i] <= MAXFILE * NINDIRECT /\ MAXFILE * NINDIRECT \in Nat
<1>1. MAXFILE * NINDIRECT \in Nat
  BY Sizes
<1>2. size[i] \in 0..MAXFILE * NINDIRECT
  BY DEF TypeOK
<1> QED BY <1>1, <1>2

\* writei() keeps the trees and all that was written.
LEMMA writeiKeeps ==
  ASSUME IInv, NEW ip \in Inodes, NEW n \in WriteSizes, NEW off \in 0..size[ip],
         writei(ip, off, n)
  PROVE  IInv'
<1>1. PICK end : end = off + n
  OBVIOUS
<1>2. PICK s : s = writeWords(ip, off, end)
  OBVIOUS
<1>3. /\ ip \notin Symlinks /\ off <= size[ip] /\ end <= MAXFILE * NINDIRECT
      /\ Cardinality(Places(end) \ Places(size[ip])) <= Cardinality(Block \ used)
      /\ addrs' = [addrs EXCEPT ![ip] = s.addr] /\ data' = s.data /\ used' = s.used
      /\ size' = [size EXCEPT ![ip] = IF end > @ THEN end ELSE @]
  BY <1>1, <1>2 DEF writei
<1>4. ip \in Regular /\ TypeOK
  BY <1>3 DEF Regular, IInv
<1>5. /\ off \in Nat /\ n \in Nat \ {0} /\ end \in Nat \ {0} /\ off < end
      /\ size[ip] \in Nat /\ size[ip] <= MAXFILE * NINDIRECT
  BY <1>1, <1>4, SizeNat, TreeAssumption
<1>6. PICK first, last : first = off \div NINDIRECT /\ last = (end - 1) \div NINDIRECT
  OBVIOUS
<1>7. first \in Nat /\ last \in Nat /\ first <= last
  <2>1. end - 1 \in Nat /\ off <= end - 1
    BY <1>5
  <2>2. first \in Nat /\ last \in Nat
    BY <1>5, <1>6, <2>1, Sizes, DivMod
  <2>3. first * NINDIRECT <= off /\ first * NINDIRECT \in Nat
    BY <1>5, <1>6, <2>2, Sizes, BlockOf
  <2>4. first * NINDIRECT <= end - 1
    BY <1>5, <2>1, <2>3
  <2> QED BY <1>6, <2>1, <2>2, <2>4, Sizes, BlockOf
<1>8. Wanted(ip, off, end, first)
  BY <1>3, <1>5, <1>6, <1>7 DEF Wanted
<1>9. PICK m : Tree(addrs, data, used, m) /\ Fits(m) /\ Kept(data, m)
  BY DEF IInv, TreeInv
<1>10. LoopInv(Start(ip), ip, off, end, first)
  <2>1. /\ Start(ip) \in State /\ AddrsOf(ip, Start(ip).addr) = addrs
        /\ Start(ip).data = data /\ Start(ip).used = used
    BY <1>4, StartIs
  <2>2. TreeOf(Start(ip), ip, m)
    BY <1>9, <2>1 DEF TreeOf
  <2>3. \A i \in Regular : Dom(m, i) = Places(size[i])
    BY <1>9 DEF Fits
  <2>4. Room(Start(ip), m, ip, Places(size[ip]) \cup Places(end))
    BY <1>3, <1>4, <2>3, GuardRoom
  <2>5. Begun(ip, off, first) = {}
    <3>1. first..first - 1 = {}
      BY <1>7
    <3> QED BY <1>6, <3>1 DEF Begun
  <2>6. KeptTo(data, m, ip, end, first)
    <3> SUFFICES ASSUME NEW i \in Regular, NEW b \in 0..MAXFILE - 1, NEW w \in Slots,
                        \/ b * NINDIRECT + w < size[i]
                        \/ i = ip /\ b < first /\ b * NINDIRECT + w < end
                 PROVE  /\ Path(b) \in Dom(m, i)
                        /\ data[m[i][Path(b)]][w] = Word(i, b * NINDIRECT + w)
      BY DEF KeptTo
    <3>1. b * NINDIRECT + w < size[i]
      <4>1. ASSUME i = ip, b < first
            PROVE  b * NINDIRECT + w < size[i]
        <5>1. b + 1 \in Nat /\ b + 1 <= off \div NINDIRECT
          BY <1>6, <1>7, <4>1
        <5>2. (b + 1) * NINDIRECT <= off
          BY <1>5, <5>1, Sizes, BlockOf
        <5>3. (b + 1) * NINDIRECT = b * NINDIRECT + NINDIRECT /\ b * NINDIRECT \in Nat
          BY Sizes
        <5>4. w \in Nat /\ w < NINDIRECT /\ NINDIRECT \in Nat
          BY Sizes DEF Slots
        <5> QED BY <1>3, <1>5, <4>1, <5>2, <5>3, <5>4
      <4> QED BY <4>1
    <3> QED BY <1>9, <3>1 DEF Kept
  <2>7. Dom(m, ip) = Places(size[ip]) \cup Begun(ip, off, first)
    BY <1>4, <2>3, <2>5
  <2>8. KeptTo(Start(ip).data, m, ip, end, first)
    BY <2>1, <2>6
  <2> QED BY <2>1, <2>2, <2>3, <2>4, <2>7, <2>8 DEF LoopInv
<1>11. LoopInv(s, ip, off, end, last + 1)
  BY <1>2, <1>4, <1>6, <1>7, <1>8, <1>10, LoopEnds
<1>12. PICK m2 : /\ s \in State /\ TreeOf(s, ip, m2)
                 /\ Dom(m2, ip) = Places(size[ip]) \cup Begun(ip, off, last + 1)
                 /\ \A i \in Regular : i # ip => Dom(m2, i) = Places(size[i])
                 /\ KeptTo(s.data, m2, ip, end, last + 1)
  BY <1>11 DEF LoopInv
<1>13. /\ addrs \in [Inodes -> [Roots -> 0..NBLOCKS]] /\ size \in [Inodes -> 0..MAXFILE * NINDIRECT]
  BY <1>4 DEF TypeOK, Roots
<1>14. addrs' = AddrsOf(ip, s.addr)
  BY <1>3, <1>13 DEF AddrsOf
<1>15. Tree(addrs', data', used', m2)
  BY <1>3, <1>12, <1>14 DEF TreeOf
<1>16. /\ \A i \in Inodes : i # ip => size'[i] = size[i]
       /\ size'[ip] = IF end > size[ip] THEN end ELSE size[ip]
  BY <1>3, <1>13
<1>17. TypeOK'
  <2>1. s.addr \in [Roots -> 0..NBLOCKS] /\ s.data \in [Block -> [Slots -> Nat]]
        /\ s.used \in SUBSET Block
    BY <1>12 DEF State
  <2>2. addrs' \in [Inodes -> [Roots -> 0..NBLOCKS]]
    BY <1>3, <1>13, <2>1
  <2>3. size' \in [Inodes -> 0..MAXFILE * NINDIRECT]
    <3>1. size'[ip] \in 0..MAXFILE * NINDIRECT
      BY <1>3, <1>5, <1>16, Sizes
    <3> QED BY <1>3, <1>13, <1>16, <3>1
  <2> QED BY <1>3, <2>1, <2>2, <2>3 DEF TypeOK, Roots, Slots
<1>18. \A b \in 0..MAXFILE - 1 : b * NINDIRECT < end <=> b <= last
  <2> SUFFICES ASSUME NEW b \in 0..MAXFILE - 1
               PROVE  b * NINDIRECT < end <=> b <= last
    OBVIOUS
  <2>1. b \in Nat /\ end - 1 \in Nat /\ b * NINDIRECT \in Nat
    BY <1>5, Sizes
  <2>2. b <= last <=> b * NINDIRECT <= end - 1
    BY <1>6, <2>1, Sizes, BlockOf
  <2> QED BY <1>5, <2>1, <2>2
<1>19. Dom(m2, ip) = Places(size'[ip])
  <2> SUFFICES ASSUME NEW q
               PROVE  q \in Dom(m2, ip) <=> q \in Places(size'[ip])
    OBVIOUS
  <2>1. q \in Begun(ip, off, last + 1) <=> \E b \in first..last : q \in Prefixes(b)
    <3>1. first..last + 1 - 1 = first..last
      BY <1>7
    <3>2. Begun(ip, off, last + 1) = UNION {Prefixes(b) : b \in first..last}
      BY <1>6, <3>1 DEF Begun
    <3> QED BY <3>2
  <2>2. \A b \in first..last : b \in 0..MAXFILE - 1 /\ b * NINDIRECT < end
    <3>1. last < MAXFILE
      BY <1>6, <1>8, WantedBlock
    <3>2. \A b \in first..last : b \in 0..MAXFILE - 1 /\ b <= last
      BY <1>7, <3>1, Sizes
    <3> QED BY <1>18, <3>2
  <2>3. ASSUME NEW b \in 0..MAXFILE - 1, b * NINDIRECT < end, ~(b \in first..last)
        PROVE  b * NINDIRECT < size[ip]
    <3>1. b + 1 \in Nat /\ b + 1 <= off \div NINDIRECT
      BY <1>6, <1>7, <1>18, <2>3
    <3>2. (b + 1) * NINDIRECT <= off
      BY <1>5, <3>1, Sizes, BlockOf
    <3>3. (b + 1) * NINDIRECT = b * NINDIRECT + NINDIRECT /\ b * NINDIRECT \in Nat
      BY Sizes
    <3> QED BY <1>3, <1>5, <3>2, <3>3, Sizes
  <2>4. \A b \in 0..MAXFILE - 1 : b * NINDIRECT < size'[ip] <=>
          b * NINDIRECT < size[ip] \/ b \in first..last
    <3> SUFFICES ASSUME NEW b \in 0..MAXFILE - 1
                 PROVE  b * NINDIRECT < size'[ip] <=> b * NINDIRECT < size[ip] \/ b \in first..last
      OBVIOUS
    <3>1. PICK x \in Nat : x = b * NINDIRECT
      BY Sizes
    <3>2. x < size'[ip] <=> x < size[ip] \/ x < end
      BY <1>5, <1>16
    <3> QED BY <2>2, <2>3, <3>1, <3>2
  <2>5. q \in Places(size[ip]) <=> \E b \in 0..MAXFILE - 1 : b * NINDIRECT < size[ip] /\ q \in Prefixes(b)
    BY PlacesIs
  <2>6. q \in Places(size'[ip]) <=> \E b \in 0..MAXFILE - 1 : b * NINDIRECT < size'[ip] /\ q \in Prefixes(b)
    BY PlacesIs
  <2> QED BY <1>12, <2>1, <2>2, <2>4, <2>5, <2>6
<1>20. \A i \in Regular : Dom(m2, i) = Places(size'[i])
  BY <1>12, <1>16, <1>19 DEF Regular
<1>21. ASSUME NEW i \in Regular, NEW b \in 0..MAXFILE - 1, NEW w \in Slots,
              b * NINDIRECT + w < size'[i]
       PROVE  Path(b) \in Dom(m2, i) /\ data'[m2[i][Path(b)]][w] = Word(i, b * NINDIRECT + w)
  <2>1. PICK o \in Nat : o = b * NINDIRECT + w /\ b * NINDIRECT <= o
    BY Sizes DEF Slots
  <2>2. o < size[i] \/ (i = ip /\ b < last + 1 /\ o < end)
    <3>1. CASE i # ip
      BY <1>16, <1>21, <2>1, <3>1 DEF Regular
    <3>2. CASE i = ip /\ ~(o < size[i])
      <4>1. o < end
        BY <1>16, <1>21, <2>1, <3>2
      <4>2. b * NINDIRECT < end
        BY <1>5, <2>1, <4>1, Sizes
      <4>3. b < last + 1
        BY <1>7, <1>18, <4>2
      <4> QED BY <3>2, <4>1, <4>3
    <3> QED BY <3>1, <3>2
  <2> QED BY <1>3, <1>12, <2>1, <2>2 DEF KeptTo
<1>22. TreeInv'
  BY <1>15, <1>20, <1>21 DEF TreeInv, Fits, Kept
<1> QED BY <1>17, <1>22 DEF IInv

-----------------------------------------------------------------------------
(* The blocks that itrunc() frees                                          *)

\* The blocks of file i at places of length n that begin with k
Level(m, i, k, n) == {b \in Block : \E q \in Dom(m, i) : q[1] = k /\ Len(q) = n /\ b = m[i][q]}

LEMMA LevelOne ==
  ASSUME NEW m, Tree(addrs, data, used, m), NEW i \in Regular, NEW k \in Roots
  PROVE  Addr(i, k) = Level(m, i, k, 1)
<1>1. PICK t : t = <<k>>
  OBVIOUS
<1>2. t[1] = k /\ Len(t) = 1
  BY <1>1
<1>3. addrs[i][k] = IF t \in Dom(m, i) THEN m[i][t] ELSE 0
  BY <1>1 DEF Tree, Rooted
<1>4. t \in Dom(m, i) => m[i][t] \in Block /\ m[i][t] # 0
  BY Sizes DEF Tree, Maps, Block
<1>5. ASSUME NEW q \in Dom(m, i), q[1] = k, Len(q) = 1
      PROVE  q = t
  <2>1. q \in Seq(Nat) /\ t \in Seq(Nat)
    <3>1. IsPlace(q) /\ IsPlace(t)
      BY <1>1, RootPlace DEF Tree, Closed
    <3> QED BY <3>1 DEF IsPlace
  <2>2. Len(q) = Len(t) /\ \A n \in 1..Len(q) : q[n] = t[n]
    BY <1>2, <1>5
  <2> QED BY <2>1, <2>2, SeqEqual
<1>6. ASSUME NEW b
      PROVE  b \in Addr(i, k) <=> b \in Level(m, i, k, 1)
  <2>1. b \in Addr(i, k) <=> b = addrs[i][k] /\ b # 0
    BY DEF Addr
  <2>2. b \in Level(m, i, k, 1) <=> b \in Block /\ t \in Dom(m, i) /\ b = m[i][t]
    BY <1>2, <1>5 DEF Level
  <2> QED BY <1>3, <1>4, <2>1, <2>2
<1> QED BY <1>6

\* The words of indirect blocks name the blocks of the next level.
LEMMA LevelNext ==
  ASSUME NEW m, Tree(addrs, data, used, m), NEW i \in Regular, NEW k \in Roots,
         NEW n \in 1..3, n < Depth(k)
  PROVE  Named(Level(m, i, k, n)) = Level(m, i, k, n + 1)
<1>1. ASSUME NEW b, b \in Named(Level(m, i, k, n))
      PROVE  b \in Level(m, i, k, n + 1)
  <2>1. PICK a \in Level(m, i, k, n), x \in Slots : b = data[a][x] /\ b # 0
    BY <1>1 DEF Named, Slots
  <2>2. PICK q \in Dom(m, i) : q[1] = k /\ Len(q) = n /\ a = m[i][q]
    BY <2>1 DEF Level
  <2>3. IsPlace(q) /\ ~IsLeaf(q)
    <3>1. IsPlace(q)
      BY DEF Tree, Closed
    <3>2. Len(q) # Depth(q[1])
      BY <2>2, DepthRange
    <3> QED BY <3>1, <3>2 DEF IsLeaf
  <2>4. PICK r : r = Append(q, x)
    OBVIOUS
  <2>5. b = IF r \in Dom(m, i) THEN m[i][r] ELSE 0
    BY <2>1, <2>2, <2>3, <2>4 DEF Tree, Linked
  <2>6. Len(r) = n + 1 /\ r[1] = k
    BY <2>2, <2>3, <2>4, PlaceBelow
  <2>7. r \in Dom(m, i) /\ b = m[i][r]
    BY <2>1, <2>5
  <2>8. b \in Block
    BY <2>7 DEF Tree, Maps
  <2> QED BY <2>6, <2>7, <2>8 DEF Level
<1>2. ASSUME NEW b, b \in Level(m, i, k, n + 1)
      PROVE  b \in Named(Level(m, i, k, n))
  <2>1. PICK r \in Dom(m, i) : r[1] = k /\ Len(r) = n + 1 /\ b = m[i][r] /\ b \in Block
    BY <1>2 DEF Level
  <2>2. IsPlace(r)
    BY DEF Tree, Closed
  <2>3. PICK q, x : /\ x \in Slots /\ IsPlace(q) /\ ~IsLeaf(q) /\ Len(q) = n /\ q[1] = k
                    /\ r = Append(q, x)
    <3>1. n \in 1..4 /\ Len(r) = n + 1
      BY <2>1
    <3>2. PICK q : q = SubSeq(r, 1, n)
      OBVIOUS
    <3>3. /\ IsPlace(q) /\ ~IsLeaf(q) /\ Len(q) = n /\ q[1] = r[1] /\ r[n + 1] \in Slots
          /\ r = Append(q, r[n + 1])
      BY ONLY <2>2, <3>1, <3>2, PlaceAbove
    <3>4. PICK x : x = r[n + 1]
      OBVIOUS
    <3> QED BY <2>1, <3>3, <3>4
  <2>4. q \in Dom(m, i)
    BY <2>1, <2>3 DEF Tree, Closed
  <2>5. data[m[i][q]][x] = b
    BY <2>1, <2>3, <2>4 DEF Tree, Linked
  <2>6. m[i][q] \in Level(m, i, k, n)
    BY <2>3, <2>4 DEF Level, Tree, Maps
  <2>7. b # 0
    BY <2>1, Sizes DEF Block
  <2>8. PICK a : a = m[i][q]
    OBVIOUS
  <2>9. a \in Level(m, i, k, n) /\ x \in Slots /\ data[a][x] = b /\ b # 0
    BY <2>3, <2>5, <2>6, <2>7, <2>8
  <2> QED BY <2>9 DEF Named, Slots
<1> QED BY <1>1, <1>2

\* They are the blocks at the places of the file, no more and no less.
LEMMA BlocksAre ==
  ASSUME NEW m, Tree(addrs, data, used, m), NEW i \in Regular
  PROVE  \A b : b \in BlocksOf(i) <=> \E q \in Dom(m, i) : b = m[i][q]
<1> DEFINE L(k, n) == Level(m, i, k, n)
<1>1. /\ NDIRECT \in Roots /\ NDIRECT + 1 \in Roots /\ NDIRECT + 2 \in Roots
      /\ Depth(NDIRECT) = 2 /\ Depth(NDIRECT + 1) = 3 /\ Depth(NDIRECT + 2) = 4
      /\ 0..NDIRECT - 1 \subseteq Roots /\ \A k \in 0..NDIRECT - 1 : Depth(k) = 1
  BY Sizes DEF Roots, Depth
<1>2. Direct(i) = UNION {L(k, 1) : k \in 0..NDIRECT - 1}
  BY <1>1, LevelOne DEF Direct
<1>3. Single(i) = L(NDIRECT, 1) \cup L(NDIRECT, 2)
  <2>1. Addr(i, NDIRECT) = L(NDIRECT, 1)
    BY <1>1, LevelOne
  <2>2. Named(L(NDIRECT, 1)) = L(NDIRECT, 1 + 1)
    BY <1>1, LevelNext
  <2> QED BY <2>1, <2>2 DEF Single
<1>4. Double(i) = L(NDIRECT + 1, 1) \cup L(NDIRECT + 1, 2) \cup L(NDIRECT + 1, 3)
  <2>1. Addr(i, NDIRECT + 1) = L(NDIRECT + 1, 1)
    BY <1>1, LevelOne
  <2>2. Named(L(NDIRECT + 1, 1)) = L(NDIRECT + 1, 1 + 1)
    BY <1>1, LevelNext
  <2>3. Named(L(NDIRECT + 1, 2)) = L(NDIRECT + 1, 2 + 1)
    BY <1>1, LevelNext
  <2> QED BY <2>1, <2>2, <2>3 DEF Double
<1>5. Triple(i) = L(NDIRECT + 2, 1) \cup L(NDIRECT + 2, 2) \cup L(NDIRECT + 2, 3)
                    \cup L(NDIRECT + 2, 4)
  <2>1. Addr(i, NDIRECT + 2) = L(NDIRECT + 2, 1)
    BY <1>1, LevelOne
  <2>2. Named(L(NDIRECT + 2, 1)) = L(NDIRECT + 2, 1 + 1)
    BY <1>1, LevelNext
  <2>3. Named(L(NDIRECT + 2, 2)) = L(NDIRECT + 2, 2 + 1)
    BY <1>1, LevelNext
  <2>4. Named(L(NDIRECT + 2, 3)) = L(NDIRECT + 2, 3 + 1)
    BY <1>1, LevelNext
  <2> QED BY <2>1, <2>2, <2>3, <2>4 DEF Triple
<1>6. ASSUME NEW b, b \in BlocksOf(i)
      PROVE  \E q \in Dom(m, i) : b = m[i][q]
  <2>1. \E k, n : b \in L(k, n)
    BY <1>2, <1>3, <1>4, <1>5, <1>6 DEF BlocksOf
  <2> QED BY <2>1 DEF Level
<1>7. ASSUME NEW q \in Dom(m, i)
      PROVE  m[i][q] \in BlocksOf(i)
  <2>1. IsPlace(q) /\ m[i][q] \in Block
    BY DEF Tree, Closed, Maps
  <2>2. PICK k \in Roots, n \in 1..4 : k = q[1] /\ n = Len(q) /\ n <= Depth(k)
    BY <2>1 DEF IsPlace
  <2>3. m[i][q] \in L(k, n)
    BY <2>1, <2>2 DEF Level
  <2>4. k \in 0..NDIRECT - 1 \/ k = NDIRECT \/ k = NDIRECT + 1 \/ k = NDIRECT + 2
    BY Sizes DEF Roots
  <2>5. CASE k \in 0..NDIRECT - 1
    <3>1. n = 1
      BY <1>1, <2>2, <2>5
    <3> QED BY <1>2, <2>3, <2>5, <3>1 DEF BlocksOf
  <2>6. CASE k = NDIRECT
    <3>1. n \in {1, 2}
      BY <1>1, <2>2, <2>6
    <3> QED BY <1>3, <2>3, <2>6, <3>1 DEF BlocksOf
  <2>7. CASE k = NDIRECT + 1
    <3>1. n \in {1, 2, 3}
      BY <1>1, <2>2, <2>7
    <3> QED BY <1>4, <2>3, <2>7, <3>1 DEF BlocksOf
  <2>8. CASE k = NDIRECT + 2
    <3>1. n \in {1, 2, 3, 4}
      BY <1>1, <2>2, <2>8
    <3> QED BY <1>5, <2>3, <2>8, <3>1 DEF BlocksOf
  <2> QED BY <2>4, <2>5, <2>6, <2>7, <2>8
<1> QED BY <1>6, <1>7

LEMMA PlacesNone ==
  Places(0) = {}
<1>1. \A b \in 0..MAXFILE - 1 : ~(b * NINDIRECT < 0)
  <2> SUFFICES ASSUME NEW b \in 0..MAXFILE - 1
               PROVE  ~(b * NINDIRECT < 0)
    OBVIOUS
  <2>1. b * NINDIRECT \in Nat
    BY Sizes
  <2> QED BY <2>1
<1>2. \A q : q \notin Places(0)
  BY <1>1, PlacesIs
<1> QED BY <1>2

\* A file without blocks
LEMMA CanCut ==
  ASSUME NEW m, Maps(m), NEW ip \in Regular
  PROVE  \E m2 : /\ Maps(m2) /\ Dom(m2, ip) = {}
                 /\ \A i \in Regular : i # ip => m2[i] = m[i] /\ Dom(m2, i) = Dom(m, i)
<1>1. PICK e : e = [q \in {} |-> 0]
  OBVIOUS
<1>2. PICK m2 : m2 = [i \in Regular |-> IF i = ip THEN e ELSE m[i]]
  OBVIOUS
<1>3. e \in [{} -> Block] /\ DOMAIN e = {}
  BY <1>1
<1>4. m2[ip] = e /\ Dom(m2, ip) = {}
  BY <1>2, <1>3 DEF Dom
<1>5. \A i \in Regular : i # ip => m2[i] = m[i] /\ Dom(m2, i) = Dom(m, i)
  BY <1>2 DEF Dom
<1>6. m2 = [i \in Regular |-> m2[i]]
  BY <1>2
<1>7. ASSUME NEW i \in Regular
      PROVE  m2[i] \in [Dom(m2, i) -> Block]
  <2>1. CASE i = ip
    BY <1>3, <1>4, <2>1
  <2>2. CASE i # ip
    BY <1>5, <2>2 DEF Maps
  <2> QED BY <2>1, <2>2
<1> QED BY <1>4, <1>5, <1>6, <1>7 DEF Maps

\* itrunc() frees the blocks of the file, and keeps the trees and words of others.
LEMMA itruncKeeps ==
  ASSUME IInv, Removable \cap Symlinks = {}, NEW ip \in Inodes, itrunc(ip)
  PROVE  IInv'
<1>1. /\ ip \in Removable /\ used' = used \ BlocksOf(ip)
      /\ addrs' = [addrs EXCEPT ![ip] = NoAddrs] /\ size' = [size EXCEPT ![ip] = 0]
      /\ data' = [b \in Block |-> IF b \in BlocksOf(ip) THEN Stale ELSE data[b]]
  BY DEF itrunc
<1>2. ip \in Regular /\ TypeOK
  BY <1>1 DEF Regular, IInv
<1>3. PICK m : Tree(addrs, data, used, m) /\ Fits(m) /\ Kept(data, m)
  BY DEF IInv, TreeInv
<1>4. Maps(m) /\ Closed(m) /\ OnePlace(m) /\ Marked(used, m) /\ Rooted(addrs, m) /\ Linked(data, m)
  BY <1>3 DEF Tree
<1>5. PICK m2 : /\ Maps(m2) /\ Dom(m2, ip) = {}
                /\ \A i \in Regular : i # ip => m2[i] = m[i] /\ Dom(m2, i) = Dom(m, i)
  BY <1>2, <1>4, CanCut
<1>6. \A b : b \in BlocksOf(ip) <=> \E q \in Dom(m, ip) : b = m[ip][q]
  BY <1>2, <1>3, BlocksAre
<1>7. /\ addrs \in [Inodes -> [Roots -> 0..NBLOCKS]] /\ size \in [Inodes -> 0..MAXFILE * NINDIRECT]
      /\ data \in [Block -> [Slots -> Nat]] /\ used \in SUBSET Block
  BY <1>2 DEF TypeOK, Roots, Slots
<1>8. ASSUME NEW i \in Regular, i # ip, NEW q \in Dom(m, i)
      PROVE  m[i][q] \in Block /\ m[i][q] \notin BlocksOf(ip) /\ data'[m[i][q]] = data[m[i][q]]
  <2>1. m[i][q] \in Block
    BY <1>4 DEF Maps
  <2>2. m[i][q] \notin BlocksOf(ip)
    BY <1>2, <1>4, <1>6, <1>8 DEF OnePlace
  <2> QED BY <1>1, <2>1, <2>2
<1>9. TypeOK'
  <2>1. NoAddrs \in [Roots -> 0..NBLOCKS]
    BY Sizes DEF NoAddrs, Roots
  <2>2. addrs' \in [Inodes -> [Roots -> 0..NBLOCKS]]
    BY <1>1, <1>7, <2>1
  <2>3. 0 \in 0..MAXFILE * NINDIRECT
    BY Sizes
  <2>4. size' \in [Inodes -> 0..MAXFILE * NINDIRECT]
    BY <1>1, <1>7, <2>3
  <2>5. Stale \in [Slots -> Nat]
    BY DEF Stale, Slots
  <2>6. data' \in [Block -> [Slots -> Nat]]
    BY <1>1, <1>7, <2>5
  <2>7. used' \in SUBSET Block
    BY <1>1, <1>7
  <2> QED BY <2>2, <2>4, <2>6, <2>7 DEF TypeOK, Roots, Slots
<1>10. Closed(m2)
  BY <1>4, <1>5 DEF Closed
<1>11. OnePlace(m2)
  BY <1>4, <1>5 DEF OnePlace
<1>12. Marked(used', m2)
  <2> SUFFICES ASSUME NEW b
               PROVE  b \in used' <=> \E i \in Regular : \E q \in Dom(m2, i) : b = m2[i][q]
    BY DEF Marked
  <2>1. b \in used <=> \E i \in Regular : \E q \in Dom(m, i) : b = m[i][q]
    BY <1>4 DEF Marked
  <2>2. ASSUME b \in used'
        PROVE  \E i \in Regular : \E q \in Dom(m2, i) : b = m2[i][q]
    <3>1. b \in used /\ b \notin BlocksOf(ip)
      BY <1>1, <2>2
    <3>2. PICK i \in Regular : \E q \in Dom(m, i) : b = m[i][q]
      BY <2>1, <3>1
    <3>3. i # ip
      BY <1>6, <3>1, <3>2
    <3> QED BY <1>5, <3>2, <3>3
  <2>3. ASSUME NEW i \in Regular, NEW q \in Dom(m2, i), b = m2[i][q]
        PROVE  b \in used'
    <3>1. i # ip
      BY <1>5
    <3>2. q \in Dom(m, i) /\ b = m[i][q]
      BY <1>5, <2>3, <3>1
    <3>3. b \in used /\ b \notin BlocksOf(ip)
      BY <1>8, <2>1, <3>1, <3>2
    <3> QED BY <1>1, <3>3
  <2> QED BY <2>2, <2>3
<1>13. Rooted(addrs', m2)
  <2> SUFFICES ASSUME NEW i \in Regular, NEW k \in Roots
               PROVE  addrs'[i][k] = IF <<k>> \in Dom(m2, i) THEN m2[i][<<k>>] ELSE 0
    BY DEF Rooted
  <2>1. CASE i = ip
    <3>1. addrs'[ip][k] = 0
      BY <1>1, <1>7 DEF NoAddrs, Roots
    <3> QED BY <1>5, <2>1, <3>1
  <2>2. CASE i # ip
    <3>1. addrs'[i] = addrs[i]
      BY <1>1, <1>7, <2>2 DEF Regular
    <3> QED BY <1>4, <1>5, <2>2, <3>1 DEF Rooted
  <2> QED BY <2>1, <2>2
<1>14. Linked(data', m2)
  <2> SUFFICES ASSUME NEW i \in Regular, NEW q \in Dom(m2, i), NEW k \in Slots, ~IsLeaf(q)
               PROVE  data'[m2[i][q]][k] =
                        IF Append(q, k) \in Dom(m2, i) THEN m2[i][Append(q, k)] ELSE 0
    BY DEF Linked
  <2>1. i # ip
    BY <1>5
  <2>2. m2[i] = m[i] /\ Dom(m2, i) = Dom(m, i) /\ q \in Dom(m, i)
    BY <1>5, <2>1
  <2>3. data'[m[i][q]] = data[m[i][q]]
    BY <1>8, <2>1, <2>2
  <2>4. data[m[i][q]][k] = IF Append(q, k) \in Dom(m, i) THEN m[i][Append(q, k)] ELSE 0
    BY <1>4, <2>2 DEF Linked
  <2> QED BY <2>2, <2>3, <2>4
<1>15. \A i \in Regular : i # ip => size'[i] = size[i]
  BY <1>1, <1>7 DEF Regular
<1>16. size'[ip] = 0
  BY <1>1, <1>2, <1>7 DEF Regular
<1>17. \A i \in Regular : Dom(m2, i) = Places(size'[i])
  <2> SUFFICES ASSUME NEW i \in Regular
               PROVE  Dom(m2, i) = Places(size'[i])
    OBVIOUS
  <2>1. CASE i = ip
    BY <1>5, <1>16, <2>1, PlacesNone
  <2>2. CASE i # ip
    BY <1>3, <1>5, <1>15, <2>2 DEF Fits
  <2> QED BY <2>1, <2>2
<1>18. ASSUME NEW i \in Regular, NEW b \in 0..MAXFILE - 1, NEW w \in Slots,
              b * NINDIRECT + w < size'[i]
       PROVE  Path(b) \in Dom(m2, i) /\ data'[m2[i][Path(b)]][w] = Word(i, b * NINDIRECT + w)
  <2>1. i # ip
    <3>1. b * NINDIRECT + w \in Nat
      BY Sizes DEF Slots
    <3> QED BY <1>16, <1>18, <3>1
  <2>2. b * NINDIRECT + w < size[i]
    BY <1>15, <1>18, <2>1
  <2>3. Path(b) \in Dom(m, i) /\ data[m[i][Path(b)]][w] = Word(i, b * NINDIRECT + w)
    BY <1>3, <2>2 DEF Kept
  <2>4. data'[m[i][Path(b)]] = data[m[i][Path(b)]]
    BY <1>8, <2>1, <2>3
  <2> QED BY <1>5, <2>1, <2>3, <2>4
<1>19. TreeInv'
  <2>1. Tree(addrs', data', used', m2)
    BY <1>5, <1>10, <1>11, <1>12, <1>13, <1>14 DEF Tree
  <2> QED BY <1>17, <1>18, <2>1 DEF TreeInv, Fits, Kept
<1> QED BY <1>9, <1>19 DEF IInv

\* sys_symlink() keeps the trees: a symbolic link has none.
LEMMA sys_symlinkKeeps ==
  ASSUME IInv, NEW ip \in Inodes, sys_symlink(ip)
  PROVE  IInv'
<1>1. /\ ip \in Symlinks /\ \E bytes \in PathWords : addrs' = [addrs EXCEPT ![ip][0] = bytes]
      /\ size' = [size EXCEPT ![ip] = 1] /\ data' = data /\ used' = used
  BY DEF sys_symlink
<1>2. TypeOK
  BY DEF IInv
<1>3. PICK bytes \in PathWords : addrs' = [addrs EXCEPT ![ip][0] = bytes]
  BY <1>1
<1>4. /\ addrs \in [Inodes -> [Roots -> 0..NBLOCKS]] /\ size \in [Inodes -> 0..MAXFILE * NINDIRECT]
      /\ data \in [Block -> [Slots -> Nat]] /\ used \in SUBSET Block
  BY <1>2 DEF TypeOK, Roots, Slots
<1>5. TypeOK'
  <2>1. bytes \in 0..NBLOCKS /\ 0 \in Roots
    BY Sizes, TreeAssumption DEF Roots
  <2>2. [addrs[ip] EXCEPT ![0] = bytes] \in [Roots -> 0..NBLOCKS]
    BY <1>4, <2>1
  <2>3. addrs' = [addrs EXCEPT ![ip] = [addrs[ip] EXCEPT ![0] = bytes]]
    BY <1>3
  <2>4. addrs' \in [Inodes -> [Roots -> 0..NBLOCKS]]
    BY <1>4, <2>2, <2>3
  <2>5. 1 \in 0..MAXFILE * NINDIRECT
    BY Sizes
  <2>6. size' \in [Inodes -> 0..MAXFILE * NINDIRECT]
    BY <1>1, <1>4, <2>5
  <2> QED BY <1>1, <1>4, <2>4, <2>6 DEF TypeOK, Roots, Slots
<1>6. \A i \in Regular : i # ip /\ addrs'[i] = addrs[i] /\ size'[i] = size[i]
  BY <1>1, <1>3, <1>4 DEF Regular
<1>7. PICK m : Tree(addrs, data, used, m) /\ Fits(m) /\ Kept(data, m)
  BY DEF IInv, TreeInv
<1>8. Tree(addrs', data', used', m)
  <2>1. Rooted(addrs', m)
    BY <1>6, <1>7 DEF Tree, Rooted
  <2> QED BY <1>1, <1>7, <2>1 DEF Tree
<1>9. \A i \in Regular : Dom(m, i) = Places(size'[i])
  BY <1>6, <1>7 DEF Fits
<1>10. ASSUME NEW i \in Regular, NEW b \in 0..MAXFILE - 1, NEW w \in Slots,
              b * NINDIRECT + w < size'[i]
       PROVE  Path(b) \in Dom(m, i) /\ data'[m[i][Path(b)]][w] = Word(i, b * NINDIRECT + w)
  <2>1. b * NINDIRECT + w < size[i]
    BY <1>6, <1>10
  <2> QED BY <1>1, <1>7, <2>1 DEF Kept
<1>11. TreeInv'
  BY <1>8, <1>9, <1>10 DEF TreeInv, Fits, Kept
<1> QED BY <1>5, <1>11 DEF IInv

LEMMA InitInv ==
  ASSUME Init
  PROVE  IInv
<1>1. /\ addrs = [ip \in Inodes |-> NoAddrs] /\ data = [b \in Block |-> Stale] /\ used = {}
      /\ size = [ip \in Inodes |-> 0]
  BY DEF Init
<1>2. TypeOK
  <2>1. NoAddrs \in [0..NDIRECT + 2 -> 0..NBLOCKS] /\ 0 \in 0..MAXFILE * NINDIRECT
    BY Sizes DEF NoAddrs
  <2>2. Stale \in [0..NINDIRECT - 1 -> Nat]
    BY DEF Stale
  <2> QED BY <1>1, <2>1, <2>2 DEF TypeOK
<1>3. PICK e : e = [q \in {} |-> 0]
  OBVIOUS
<1>4. PICK m : m = [i \in Regular |-> e]
  OBVIOUS
<1>5. \A i \in Regular : m[i] = e /\ Dom(m, i) = {} /\ addrs[i] = NoAddrs /\ size[i] = 0
  BY <1>1, <1>3, <1>4 DEF Dom, Regular
<1>6. Maps(m)
  <2>1. e \in [{} -> Block]
    BY <1>3
  <2>2. m = [i \in Regular |-> m[i]]
    BY <1>4
  <2>3. \A i \in Regular : m[i] \in [Dom(m, i) -> Block]
    BY <1>5, <2>1
  <2> QED BY <2>2, <2>3 DEF Maps
<1>7. Closed(m) /\ OnePlace(m) /\ Linked(data, m)
  BY <1>5 DEF Closed, OnePlace, Linked
<1>8. Marked(used, m)
  BY <1>1, <1>5 DEF Marked
<1>9. Rooted(addrs, m)
  BY <1>5 DEF Rooted, NoAddrs, Roots
<1>10. Fits(m)
  BY <1>5, PlacesNone DEF Fits
<1>11. Kept(data, m)
  <2> SUFFICES ASSUME NEW i \in Regular, NEW b \in 0..MAXFILE - 1, NEW w \in Slots,
                      b * NINDIRECT + w < size[i]
               PROVE  FALSE
    BY DEF Kept
  <2>1. b * NINDIRECT + w \in Nat
    BY Sizes DEF Slots
  <2> QED BY <1>5, <2>1
<1>12. TreeInv
  BY <1>6, <1>7, <1>8, <1>9, <1>10, <1>11 DEF TreeInv, Tree
<1> QED BY <1>2, <1>12 DEF IInv

\* Every call keeps the invariant.
LEMMA NextKeeps ==
  ASSUME IInv, Removable \cap Symlinks = {}, [Next]_vars
  PROVE  IInv'
<1>1. CASE Next
  <2>1. PICK ip \in Inodes : \/ \E n \in WriteSizes : \E off \in 0..size[ip] : writei(ip, off, n)
                             \/ itrunc(ip)
                             \/ sys_symlink(ip)
    BY <1>1 DEF Next
  <2>2. CASE \E n \in WriteSizes : \E off \in 0..size[ip] : writei(ip, off, n)
    BY <2>2, writeiKeeps
  <2>3. CASE itrunc(ip)
    BY <2>3, itruncKeeps
  <2>4. CASE sys_symlink(ip)
    BY <2>4, sys_symlinkKeeps
  <2> QED BY <2>1, <2>2, <2>3, <2>4
<1>2. CASE UNCHANGED vars
  <2>1. addrs' = addrs /\ data' = data /\ used' = used /\ size' = size
    BY <1>2 DEF vars
  <2>2. TypeOK'
    BY <2>1 DEF IInv, TypeOK
  <2>3. PICK m : Tree(addrs, data, used, m) /\ Fits(m) /\ Kept(data, m)
    BY DEF IInv, TreeInv
  <2>4. Tree(addrs', data', used', m)
    BY <2>1, <2>3
  <2>5. \A i \in Regular : Dom(m, i) = Places(size'[i])
    BY <2>1, <2>3 DEF Fits
  <2>6. \A i \in Regular : \A b \in 0..MAXFILE - 1, w \in Slots :
          b * NINDIRECT + w < size'[i] =>
            Path(b) \in Dom(m, i) /\ data'[m[i][Path(b)]][w] = Word(i, b * NINDIRECT + w)
    BY <2>1, <2>3 DEF Kept
  <2>7. TreeInv'
    BY <2>4, <2>5, <2>6 DEF TreeInv, Fits, Kept
  <2> QED BY <2>2, <2>7 DEF IInv
<1> QED BY <1>1, <1>2

-----------------------------------------------------------------------------
(* What the invariant says to programs                                     *)

LEMMA ExactBlocks ==
  ASSUME IInv
  PROVE  BitmapExact
<1>1. TypeOK
  BY DEF IInv
<1>2. PICK m : Tree(addrs, data, used, m) /\ Fits(m) /\ Kept(data, m)
  BY DEF IInv, TreeInv
<1>3. Maps(m) /\ OnePlace(m) /\ Marked(used, m)
  BY <1>2 DEF Tree
<1>4. \A i \in Regular : \A b : b \in BlocksOf(i) <=> \E q \in Dom(m, i) : b = m[i][q]
  BY <1>2, BlocksAre
<1>5. used = UNION {BlocksOf(ip) : ip \in Regular}
  <2>1. \A b : b \in used <=> \E i \in Regular : b \in BlocksOf(i)
    BY <1>3, <1>4 DEF Marked
  <2> QED BY <2>1
<1>6. ASSUME NEW i \in Regular, NEW j \in Regular, i # j
      PROVE  BlocksOf(i) \cap BlocksOf(j) = {}
  <2> SUFFICES ASSUME NEW b, b \in BlocksOf(i), b \in BlocksOf(j)
               PROVE  FALSE
    OBVIOUS
  <2>1. PICK q \in Dom(m, i) : b = m[i][q]
    BY <1>4
  <2>2. PICK r \in Dom(m, j) : b = m[j][r]
    BY <1>4
  <2> QED BY <1>3, <1>6, <2>1, <2>2 DEF OnePlace
<1>7. ASSUME NEW ip \in Regular
      PROVE  Cardinality(BlocksOf(ip)) = Cardinality(Places(size[ip]))
  <2>1. PICK D, B, f : D = Dom(m, ip) /\ B = BlocksOf(ip) /\ f = m[ip]
    OBVIOUS
  <2>2. D = Places(size[ip]) /\ IsFiniteSet(D)
    BY <1>2, <2>1, PlacesFinite DEF Fits
  <2>3. f \in [D -> Block]
    BY <1>3, <2>1 DEF Maps
  <2>4. \A b : b \in B <=> \E q \in D : b = f[q]
    BY <1>4, <2>1
  <2>5. \A q, r \in D : f[q] = f[r] => q = r
    BY <1>3, <2>1 DEF OnePlace
  <2>6. f \in [D -> B]
    BY <2>3, <2>4
  <2>7. f \in Bijection(D, B)
    <3>1. f \in Injection(D, B)
      BY <2>5, <2>6 DEF Injection, IsInjective
    <3>2. f \in Surjection(D, B)
      BY <2>4, <2>6 DEF Surjection
    <3> QED BY <3>1, <3>2 DEF Bijection
  <2>8. Cardinality(D) = Cardinality(B)
    BY <2>2, <2>7, FS_Bijection DEF ExistsBijection
  <2> QED BY <2>1, <2>2, <2>8
<1> QED BY <1>5, <1>6, <1>7 DEF BitmapExact

LEMMA WordsAreKept ==
  ASSUME IInv
  PROVE  WordsKept
<1> SUFFICES ASSUME NEW ip \in Regular, NEW off \in 0..size[ip] - 1
             PROVE  WordAt(ip, off) = Word(ip, off)
  BY DEF WordsKept
<1>1. TypeOK /\ ip \in Inodes
  BY DEF IInv, Regular
<1>2. PICK m : Tree(addrs, data, used, m) /\ Fits(m) /\ Kept(data, m)
  BY DEF IInv, TreeInv
<1>3. size[ip] \in Nat /\ size[ip] <= MAXFILE * NINDIRECT /\ off \in Nat /\ off < size[ip]
  BY <1>1, SizeNat
<1>4. PICK bn, w : bn = off \div NINDIRECT /\ w = off % NINDIRECT
  OBVIOUS
<1>5. bn \in Nat /\ w \in Slots /\ off = bn * NINDIRECT + w
  <2>1. bn \in Nat /\ w \in 0..NINDIRECT - 1 /\ off = NINDIRECT * bn + w
    BY <1>3, <1>4, Sizes, DivMod
  <2> QED BY <2>1, Sizes DEF Slots
<1>6. bn \in 0..MAXFILE - 1
  <2>1. ~(MAXFILE <= bn)
    <3>1. ~(MAXFILE * NINDIRECT <= off)
      BY <1>3, Sizes
    <3> QED BY <1>3, <1>4, <3>1, Sizes, BlockOf
  <2> QED BY <1>5, <2>1, Sizes
<1>7. Path(bn) \in Dom(m, ip) /\ data[m[ip][Path(bn)]][w] = Word(ip, off)
  BY <1>2, <1>3, <1>5, <1>6 DEF Kept
<1>8. PICK s : s = Start(ip)
  OBVIOUS
<1>9. s \in State /\ AddrsOf(ip, s.addr) = addrs /\ s.data = data /\ s.used = used
  BY <1>1, <1>8, StartIs
<1>10. TreeOf(s, ip, m)
  BY <1>2, <1>9 DEF TreeOf
<1>11. PICK G : G = Dom(m, ip)
  OBVIOUS
<1>12. G = Places(size[ip]) /\ IsFiniteSet(G)
  BY <1>2, <1>11, PlacesFinite DEF Fits
<1>13. Room(s, m, ip, G)
  <2>1. used \in SUBSET Block
    BY <1>1 DEF TypeOK
  <2>2. Cardinality(used) \in Nat /\ Cardinality(used) <= NBLOCKS
    BY <2>1, UsedFinite
  <2>3. Cardinality(G) \in Nat
    BY <1>12, FS_CardinalityType
  <2>4. Cardinality(G) + Cardinality(used) <= NBLOCKS + Cardinality(G)
    BY <2>2, <2>3, Sizes
  <2> QED BY <1>9, <1>11, <1>12, <2>4 DEF Room
<1>14. Prefixes(bn) \subseteq G
  <2>1. bn * NINDIRECT < size[ip]
    <3>1. bn * NINDIRECT \in Nat /\ w \in Nat
      BY <1>5, Sizes DEF Slots
    <3> QED BY <1>3, <1>5, <3>1
  <2> QED BY <1>6, <1>12, <2>1, PlacesIs
<1>15. PICK t : t = bmap(s, bn)
  OBVIOUS
<1>16. PICK m2 : Came(s, t, m, m2, ip, Prefixes(bn), Path(bn)) /\ Room(t, m2, ip, G)
  BY <1>6, <1>10, <1>9, <1>13, <1>14, <1>15, bmapComes
<1>17. t.at = m[ip][Path(bn)]
  BY <1>7, <1>16 DEF Came
<1>18. WordAt(ip, off) = data[t.at][w]
  BY <1>4, <1>8, <1>15 DEF WordAt
<1> QED BY <1>7, <1>17, <1>18

-----------------------------------------------------------------------------
(* The theorems.  No call drops the last reference to a symbolic link: only *)
(* a restart does, and then the path in its inode is taken for addresses.  *)

\* Addresses, words and sizes are always what fs.h declares, and balloc() marks data
\* blocks only, never block 0, which stands for no block.
THEOREM TypesCorrect ==
  ASSUME Removable \cap Symlinks = {}
  PROVE  Spec => []TypeOK
<1>1. IInv => TypeOK
  BY DEF IInv
<1> QED BY <1>1, InitInv, NextKeeps, PTL DEF Spec

\* bmap() and itrunc() agree: the blocks marked in the free map are those of the
\* files, no block is in two files or twice in one, and a file has as many as its
\* size asks for, whichever of its writes allocated them.
THEOREM FreeMapExact ==
  ASSUME Removable \cap Symlinks = {}
  PROVE  Spec => []BitmapExact
BY ExactBlocks, InitInv, NextKeeps, PTL DEF Spec

\* readi() finds at every offset what writei() put there, through all four kinds of
\* blocks, whatever has been written to other files and freed by itrunc() since.
THEOREM FilesKept ==
  ASSUME Removable \cap Symlinks = {}
  PROVE  Spec => []WordsKept
BY WordsAreKept, InitInv, NextKeeps, PTL DEF Spec
=============================================================================
