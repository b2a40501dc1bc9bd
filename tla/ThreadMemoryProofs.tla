------------------------- MODULE ThreadMemoryProofs -------------------------
(***************************************************************************)
(* The stacks, the holes and the limit of ThreadMemory, for every size of  *)
(* a page, of stacks and of programs: theorems TypesCorrect,               *)
(* StacksAreWhole, HolesAreKnown and LimitIsKept.                          *)
(***************************************************************************)
EXTENDS ThreadMemory, FiniteSetTheorems, FunctionTheorems, SequenceTheorems, TLAPS

-----------------------------------------------------------------------------
(* Pages and addresses                                                     *)

LEMMA Times ==
  ASSUME NEW a \in Int, NEW b \in Int, NEW c \in Nat, a <= b
  PROVE  a * c <= b * c
OBVIOUS

LEMMA PageUpBounds ==
  ASSUME NEW a \in Int
  PROVE  /\ PageUp(a) \in Int
         /\ PageUp(a) * PGSIZE >= a /\ PageUp(a) * PGSIZE < a + PGSIZE
BY MemoryAssumption DEF PageUp

LEMMA PageUpUnique ==
  ASSUME NEW a \in Int, NEW k \in Int, k * PGSIZE >= a, k * PGSIZE < a + PGSIZE
  PROVE  PageUp(a) = k
<1> DEFINE q == PageUp(a)
<1>1. q \in Int /\ q * PGSIZE >= a /\ q * PGSIZE < a + PGSIZE
  BY PageUpBounds
<1>2. PGSIZE \in Nat /\ PGSIZE > 0
  BY MemoryAssumption
<1> HIDE DEF q
<1>3. ASSUME q < k PROVE FALSE
  <2>1. (q + 1) * PGSIZE <= k * PGSIZE
    BY <1>1, <1>2, <1>3, Times
  <2> QED BY <1>1, <1>2, <2>1
<1>4. ASSUME k < q PROVE FALSE
  <2>1. (k + 1) * PGSIZE <= q * PGSIZE
    BY <1>1, <1>2, <1>4, Times
  <2> QED BY <1>1, <1>2, <2>1
<1> QED BY <1>1, <1>3, <1>4 DEF q

LEMMA PageUpGrows ==
  ASSUME NEW a \in Int, NEW b \in Int, a <= b
  PROVE  PageUp(a) <= PageUp(b)
<1> DEFINE p == PageUp(a)  q == PageUp(b)
<1>1. /\ p \in Int /\ p * PGSIZE < a + PGSIZE
      /\ q \in Int /\ q * PGSIZE >= b
  BY PageUpBounds
<1>2. PGSIZE \in Nat
  BY MemoryAssumption
<1> HIDE DEF p, q
<1>3. ASSUME q < p PROVE FALSE
  <2>1. (q + 1) * PGSIZE <= p * PGSIZE
    BY <1>1, <1>2, <1>3, Times
  <2> QED BY <1>1, <1>2, <2>1
<1> QED BY <1>1, <1>3 DEF p, q

LEMMA PageUpMultiple ==
  ASSUME NEW k \in Int
  PROVE  PageUp(k * PGSIZE) = k
<1>1. PGSIZE \in Nat /\ PGSIZE > 0
  BY MemoryAssumption
<1>2. k * PGSIZE \in Int /\ k * PGSIZE < k * PGSIZE + PGSIZE
  BY <1>1
<1> QED BY <1>2, PageUpUnique

LEMMA PageUpNat ==
  ASSUME NEW a \in Nat
  PROVE  /\ PageUp(a) \in Nat
         /\ PageUp(a) <= a
<1> DEFINE p == PageUp(a)
<1>1. p \in Int /\ p * PGSIZE >= a /\ p * PGSIZE < a + PGSIZE
  BY PageUpBounds
<1>2. PGSIZE \in Nat /\ PGSIZE > 0
  BY MemoryAssumption
<1> HIDE DEF p
<1>3. ASSUME p < 0 PROVE FALSE
  <2>1. p * PGSIZE <= (-1) * PGSIZE
    BY <1>1, <1>2, <1>3, Times
  <2> QED BY <1>1, <1>2, <2>1
<1>4. ASSUME p > a PROVE FALSE
  <2>1. (a + 1) * PGSIZE <= p * PGSIZE
    BY <1>1, <1>2, <1>4, Times
  <2>2. 1 * a <= PGSIZE * a
    BY <1>2, Times
  <2>3. PGSIZE * a = a * PGSIZE
    BY <1>2
  <2> QED BY <1>1, <1>2, <2>1, <2>2, <2>3
<1> QED BY <1>1, <1>3, <1>4 DEF p

\* The address of a page
Aligned(a) == a \in Nat /\ PageUp(a) * PGSIZE = a

\* n pages above an address of a page
LEMMA AlignedPlus ==
  ASSUME NEW a, Aligned(a), NEW n \in Int, a + n * PGSIZE >= 0
  PROVE  /\ Aligned(a + n * PGSIZE)
         /\ PageUp(a + n * PGSIZE) = PageUp(a) + n
<1> DEFINE p == PageUp(a)
<1>1. p \in Nat /\ a = p * PGSIZE /\ a \in Nat
  BY PageUpNat DEF Aligned
<1>2. PGSIZE \in Nat
  BY MemoryAssumption
<1> HIDE DEF p
<1>3. a + n * PGSIZE = (p + n) * PGSIZE
  BY <1>1, <1>2
<1>4. PageUp((p + n) * PGSIZE) = p + n
  BY <1>1, PageUpMultiple
<1>5. n * PGSIZE \in Int
  BY <1>2
<1>6. a + n * PGSIZE \in Nat
  BY <1>1, <1>5
<1> QED BY <1>3, <1>4, <1>6 DEF Aligned, p

LEMMA RoundedUp ==
  ASSUME NEW a \in Nat
  PROVE  /\ Aligned(PGROUNDUP(a)) /\ PageUp(PGROUNDUP(a)) = PageUp(a)
         /\ PGROUNDUP(a) >= a
<1>1. PageUp(a) \in Nat /\ PageUp(a) * PGSIZE >= a
  BY PageUpBounds, PageUpNat
<1>2. PageUp(PageUp(a) * PGSIZE) = PageUp(a)
  BY <1>1, PageUpMultiple
<1>3. PageUp(a) * PGSIZE \in Nat
  BY <1>1, MemoryAssumption
<1> QED BY <1>1, <1>2, <1>3 DEF Aligned, PGROUNDUP

-----------------------------------------------------------------------------
(* The invariant                                                           *)

\* Where the stacks of live threads begin
Bases == {top - StackSpan : top \in stacks}

\* Two stacks that begin at a and at b do not meet.
Apart(a, b) == PageUp(a) + stacksz < PageUp(b) \/ PageUp(b) + stacksz < PageUp(a)

\* Page g belongs to the stack that begins at base.
Covers(base, g) == PageUp(base) <= g /\ g <= PageUp(base) + stacksz

Sizes ==
  /\ sz \in Nat /\ stacksz \in Nat \ {0}
  /\ freed \in Seq(Nat) /\ stacks \in SUBSET Nat
  /\ panicked = FALSE

Inside ==
  /\ \A base \in Freed : Aligned(base) /\ base + StackSpan <= sz
  /\ \A base \in Bases : Aligned(base) /\ base + StackSpan <= sz

AllApart ==
  /\ \A i, j \in 1..Len(freed) : i # j => Apart(freed[i], freed[j])
  /\ \A a, b \in Bases : a # b => Apart(a, b)
  /\ \A a \in Freed, b \in Bases : Apart(a, b)

Present ==
  /\ \A g : g \in mapped <=>
       /\ g \in Nat /\ g < PageUp(sz)
       /\ \A base \in Freed : ~Covers(base, g)
  /\ user \subseteq mapped
  /\ \A base \in Bases : \A g \in Nat : Covers(base, g) => (g \in user <=> g # PageUp(base))

MemInv == Sizes /\ Inside /\ AllApart /\ Present

\* The pages of a stack, and of its end
LEMMA SpanPages ==
  ASSUME NEW base, Aligned(base), stacksz \in Nat
  PROVE  /\ StackSpan \in Nat /\ Aligned(base + StackSpan)
         /\ PageUp(base) \in Nat
         /\ PageUp(base + StackSpan) = PageUp(base) + stacksz + 1
<1>1. base \in Nat /\ PGSIZE \in Nat
  BY MemoryAssumption DEF Aligned
<1>2. StackSpan \in Nat /\ StackSpan = (stacksz + 1) * PGSIZE /\ stacksz + 1 \in Int
  BY <1>1 DEF StackSpan
<1>3. base + (stacksz + 1) * PGSIZE >= 0
  BY <1>1, <1>2
<1>4. /\ Aligned(base + (stacksz + 1) * PGSIZE)
      /\ PageUp(base + (stacksz + 1) * PGSIZE) = PageUp(base) + (stacksz + 1)
  BY <1>2, <1>3, AlignedPlus
<1>5. PageUp(base) \in Nat
  BY <1>1, PageUpNat
<1> QED BY <1>2, <1>4, <1>5

LEMMA SlotCovers ==
  ASSUME NEW base, Aligned(base), stacksz \in Nat
  PROVE  /\ \A g : g \in Slot(base) <=> g \in Nat /\ Covers(base, g)
         /\ Slot(base) = Pages(base, base + StackSpan)
<1>1. PageUp(base) \in Nat /\ PageUp(base + StackSpan) = PageUp(base) + stacksz + 1
  BY SpanPages
<1> QED BY <1>1 DEF Slot, Pages, Covers

\* A stack ends below the size of the process.
LEMMA BelowSize ==
  ASSUME NEW base, Aligned(base), stacksz \in Nat, NEW s \in Nat, base + StackSpan <= s
  PROVE  PageUp(base) + stacksz < PageUp(s) /\ PageUp(s) \in Nat
<1>1. /\ StackSpan \in Nat /\ base \in Nat /\ PageUp(base) \in Nat
      /\ PageUp(base + StackSpan) = PageUp(base) + stacksz + 1
  BY SpanPages DEF Aligned
<1>2. PageUp(base + StackSpan) <= PageUp(s)
  BY <1>1, PageUpGrows
<1> QED BY <1>1, <1>2, PageUpNat

-----------------------------------------------------------------------------
(* Every step keeps it                                                     *)

LEMMA InitInv == Init => MemInv
<1> SUFFICES ASSUME Init PROVE MemInv
  OBVIOUS
<1>1. PGSIZE \in Nat /\ PageUp(1 * PGSIZE) = 1 /\ 1 * PGSIZE = PGSIZE
  BY MemoryAssumption, PageUpMultiple
<1>2. Freed = {} /\ Bases = {}
  BY DEF Init, Freed, Bases
<1>3. Sizes
  BY <1>1 DEF Init, Sizes
<1>4. Inside /\ AllApart
  BY <1>2 DEF Init, Inside, AllApart
<1>5. Present
  BY <1>1, <1>2 DEF Init, Present
<1> QED BY <1>3, <1>4, <1>5 DEF MemInv

\* What all steps use of the invariant: the page numbers of stacks
LEMMA StackPages ==
  ASSUME MemInv
  PROVE  /\ sz \in Nat /\ PageUp(sz) \in Nat /\ StackSpan \in Nat /\ stacksz \in Nat
         /\ \A base \in Freed \cup Bases :
              /\ Aligned(base) /\ base \in Nat /\ PageUp(base) \in Nat
              /\ PageUp(base) + stacksz < PageUp(sz)
<1>1. sz \in Nat /\ stacksz \in Nat /\ PageUp(sz) \in Nat
  BY PageUpNat DEF MemInv, Sizes
<1>2. StackSpan \in Nat
  BY <1>1, MemoryAssumption DEF StackSpan
<1>3. ASSUME NEW base \in Freed \cup Bases
      PROVE  /\ Aligned(base) /\ base \in Nat /\ PageUp(base) \in Nat
             /\ PageUp(base) + stacksz < PageUp(sz)
  <2>1. Aligned(base) /\ base + StackSpan <= sz
    BY DEF MemInv, Inside
  <2>2. base \in Nat
    BY <2>1 DEF Aligned
  <2> QED BY <1>1, <2>1, <2>2, BelowSize, PageUpNat
<1> QED BY <1>1, <1>2, <1>3

\* The size and the pages grow, the stacks stay.
LEMMA GrowInv ==
  ASSUME MemInv, NEW n \in Increments, growproc(n)
  PROVE  MemInv'
<1>1. /\ n \in Nat /\ sz + n \in Nat /\ PageUp(sz) <= PageUp(sz + n) /\ PageUp(sz + n) \in Nat
  BY MemoryAssumption, StackPages, PageUpGrows, PageUpNat
<1>2. /\ stacksz' = stacksz /\ freed' = freed /\ stacks' = stacks
  BY DEF growproc, allocuvm_fails
<1>3. /\ StackSpan' = StackSpan /\ Freed' = Freed /\ Bases' = Bases
      /\ \A a, b : Apart(a, b)' = Apart(a, b)
      /\ \A a, g : Covers(a, g)' = Covers(a, g)
  BY <1>2 DEF StackSpan, Freed, Bases, Apart, Covers
<1>4. \A g \in mapped : g \in Nat /\ g < PageUp(sz)
  BY DEF MemInv, Present
<1>5. AllApart'
  BY <1>2, <1>3 DEF MemInv, AllApart
<1>6. CASE allocuvm_fails(sz, sz + n)
  <2>1. mapped' = mapped /\ user' = user /\ sz' = sz /\ panicked' = panicked
    <3>1. Pages(sz, sz + n) \cap mapped = {}
      BY <1>1, <1>4, StackPages DEF Pages
    <3>2. user \subseteq mapped
      BY DEF MemInv, Present
    <3> QED BY <1>6, <3>1, <3>2 DEF allocuvm_fails
  <2> QED BY <1>2, <1>3, <1>5, <2>1 DEF MemInv, Sizes, Inside, Present
<1>7. CASE allocuvm(sz, sz + n) /\ user' = user \cup Pages(sz, sz + n) /\ sz' = sz + n
  <2>1. \A g : g \in Pages(sz, sz + n) <=> g \in Nat /\ PageUp(sz) <= g /\ g < PageUp(sz + n)
    BY <1>1, StackPages DEF Pages
  <2>2. panicked' = FALSE
    <3>1. Pages(sz, sz + n) \cap mapped = {}
      BY <1>4, <2>1, StackPages
    <3> QED BY <1>7, <3>1 DEF allocuvm
  <2>3. Sizes'
    BY <1>1, <1>2, <1>7, <2>2 DEF MemInv, Sizes
  <2>4. Inside'
    BY <1>1, <1>3, <1>7, StackPages DEF MemInv, Inside
  <2>5. Present'
    <3>1. \A g : g \in mapped' <=> g \in mapped \/ g \in Pages(sz, sz + n)
      BY <1>7 DEF allocuvm
    <3>2. \A base \in Freed \cup Bases, g \in Nat : Covers(base, g) => g < PageUp(sz)
      BY StackPages DEF Covers
    <3>3. \A g : g \in mapped' <=> /\ g \in Nat /\ g < PageUp(sz + n)
                                   /\ \A base \in Freed : ~Covers(base, g)
      BY <1>1, <2>1, <3>1, <3>2, StackPages DEF MemInv, Present
    <3>4. user' \subseteq mapped'
      BY <1>7 DEF allocuvm, MemInv, Present
    <3>5. \A base \in Bases : \A g \in Nat : Covers(base, g) => (g \in user' <=> g # PageUp(base))
      BY <1>7, <2>1, <3>2, StackPages DEF MemInv, Present
    <3> QED BY <1>3, <1>7, <3>3, <3>4, <3>5 DEF Present
  <2> QED BY <1>5, <2>3, <2>4, <2>5 DEF MemInv
<1> QED BY <1>6, <1>7 DEF growproc

\* With neither stacks nor holes, the heap shrinks from its end.
LEMMA ShrinkInv ==
  ASSUME MemInv, NEW n \in Increments, growproc_shrink(n), "shrink" \notin Habits
  PROVE  MemInv'
<1>1. /\ stacks = {} /\ freed = <<>> /\ n < sz /\ n \in Nat
      /\ stacks' = stacks /\ freed' = freed /\ stacksz' = stacksz /\ panicked' = panicked
  BY MemoryAssumption DEF growproc_shrink
<1>2. sz' = sz - n /\ sz - n \in Nat /\ sz - n <= sz
  BY <1>1, StackPages DEF growproc_shrink
<1>3. /\ PageUp(sz - n) \in Nat /\ PageUp(sz - n) <= PageUp(sz)
  BY <1>2, PageUpNat, PageUpGrows, StackPages
<1>4. Freed = {} /\ Freed' = {} /\ Bases' = {}
  BY <1>1 DEF Freed, Bases
<1>5. Sizes'
  BY <1>1, <1>2 DEF MemInv, Sizes
<1>6. Inside' /\ AllApart'
  BY <1>1, <1>4 DEF Inside, AllApart
<1>7. Present'
  <2>1. /\ \A g : g \in mapped' <=> g \in mapped /\ g \notin Pages(sz - n, sz)
        /\ user' \subseteq mapped'
    BY DEF growproc_shrink, deallocuvm, MemInv, Present
  <2>2. \A g : g \in Pages(sz - n, sz) <=> g \in Nat /\ PageUp(sz - n) <= g /\ g < PageUp(sz)
    BY <1>3, StackPages DEF Pages
  <2>3. \A g : g \in mapped <=> g \in Nat /\ g < PageUp(sz)
    BY <1>4 DEF MemInv, Present
  <2>4. \A g : g \in mapped' <=> g \in Nat /\ g < PageUp(sz - n)
    BY <1>3, <2>1, <2>2, <2>3, StackPages
  <2> QED BY <1>2, <1>4, <2>1, <2>4 DEF Present
<1> QED BY <1>5, <1>6, <1>7 DEF MemInv

\* A stack that a program takes from the queue, or gets at the end of the heap
LEMMA CreateInv ==
  ASSUME MemInv, thread_create
  PROVE  MemInv'
<1> DEFINE base == StackBase
           top  == base + StackSpan
<1>1. /\ Aligned(base) /\ base \in Nat
      /\ freed # <<>> => base = Head(freed) /\ base \in Freed
      /\ freed = <<>> => base = PGROUNDUP(sz) /\ PageUp(base) = PageUp(sz) /\ base >= sz
  <2>1. CASE freed # <<>>
    <3>1. Head(freed) = freed[1] /\ 1 \in 1..Len(freed)
      BY <2>1 DEF MemInv, Sizes
    <3>2. Head(freed) \in Freed
      BY <3>1 DEF Freed
    <3>3. Aligned(Head(freed))
      BY <3>2, StackPages
    <3>4. base = Head(freed)
      BY <2>1, <3>3 DEF StackBase, PGROUNDUP, Aligned
    <3> QED BY <2>1, <3>2, <3>3, <3>4 DEF Aligned
  <2>2. CASE freed = <<>>
    BY <2>2, RoundedUp, StackPages DEF StackBase, Aligned
  <2> QED BY <2>1, <2>2
<1>2. /\ StackSpan \in Nat /\ PageUp(base) \in Nat /\ top \in Nat
      /\ PageUp(top) = PageUp(base) + stacksz + 1
      /\ \A g : g \in Pages(base, top) <=> g \in Nat /\ Covers(base, g)
      /\ Slot(base) = Pages(base, top)
  <2>1. stacksz \in Nat
    BY StackPages
  <2>2. /\ StackSpan \in Nat /\ PageUp(base) \in Nat
        /\ PageUp(base + StackSpan) = PageUp(base) + stacksz + 1
    BY <1>1, <2>1, SpanPages
  <2>3. /\ \A g : g \in Slot(base) <=> g \in Nat /\ Covers(base, g)
        /\ Slot(base) = Pages(base, base + StackSpan)
    BY <1>1, <2>1, SlotCovers
  <2> QED BY <1>1, <2>2, <2>3
<1> HIDE DEF base
<1>3. stacksz' = stacksz
  BY DEF thread_create, allocuvm_fails
<1>4. /\ StackSpan' = StackSpan
      /\ \A a, b : Apart(a, b)' = Apart(a, b)
      /\ \A a, g : Covers(a, g)' = Covers(a, g)
  BY <1>3 DEF StackSpan, Apart, Covers
\* No page of the new stack is there yet.
<1>5. Pages(base, top) \cap mapped = {}
  <2>1. CASE freed # <<>>
    BY <1>1, <1>2, <2>1 DEF MemInv, Present
  <2>2. CASE freed = <<>>
    BY <1>1, <1>2, <2>2, StackPages DEF MemInv, Present, Covers
  <2> QED BY <2>1, <2>2
<1>6. CASE allocuvm_fails(base, top)
  <2>1. user \subseteq mapped
    BY DEF MemInv, Present
  <2>2. mapped' = mapped /\ user' = user
    BY <1>5, <1>6, <2>1 DEF allocuvm_fails
  <2>3. UNCHANGED <<sz, freed, stacks, stacksz, panicked>>
    BY <1>6 DEF allocuvm_fails
  <2>4. Freed' = Freed /\ Bases' = Bases
    BY <1>4, <2>3 DEF Freed, Bases
  <2> QED BY <1>4, <2>2, <2>3, <2>4 DEF MemInv, Sizes, Inside, AllApart, Present
<1>7. CASE /\ allocuvm(base, top)
           /\ user' = user \cup (Slot(base) \ {PageUp(base)})
           /\ stacks' = stacks \cup {top}
           /\ IF freed # <<>> THEN freed' = Popped /\ sz' = sz
                              ELSE sz' = top /\ freed' = freed
  <2>1. panicked' = FALSE
    BY <1>5, <1>7 DEF allocuvm
  <2>2. Bases' = Bases \cup {base}
    <3>1. \A t \in stacks : t \in Nat
      BY DEF MemInv, Sizes
    <3>2. top - StackSpan = base
      BY <1>1, <1>2
    <3> QED BY <1>4, <1>7, <3>2 DEF Bases
  <2>3. /\ sz' \in Nat /\ sz <= sz' /\ top <= sz'
        /\ PageUp(sz') = IF freed = <<>> THEN PageUp(sz) + stacksz + 1 ELSE PageUp(sz)
    <3>1. CASE freed # <<>>
      BY <1>1, <1>7, <3>1, StackPages DEF MemInv, Inside
    <3>2. CASE freed = <<>>
      BY <1>1, <1>2, <1>7, <3>2, StackPages
    <3> QED BY <3>1, <3>2
  \* The queue loses the stack that was taken.
  <2>4. /\ freed' \in Seq(Nat)
        /\ \A b : b \in Freed' <=> b \in Freed /\ (freed = <<>> \/ b # base)
        /\ \A i, j \in 1..Len(freed') : i # j => Apart(freed'[i], freed'[j])
    <3>1. CASE freed = <<>>
      BY <1>7, <3>1 DEF MemInv, Sizes, Freed, AllApart
    <3>2. CASE freed # <<>>
      <4>1. /\ freed' = Tail(freed) /\ freed \in Seq(Nat) /\ Len(freed) \in Nat \ {0}
            /\ freed' \in Seq(Nat) /\ Len(freed') = Len(freed) - 1
            /\ \A i \in 1..Len(freed') : freed'[i] = freed[i + 1]
        <5>1. freed' = Tail(freed) /\ freed \in Seq(Nat)
          BY <1>7, <3>2 DEF Popped, MemInv, Sizes
        <5> QED BY <3>2, <5>1
      <4>2. base = freed[1]
        BY <1>1, <3>2
      <4>3. \A i \in 2..Len(freed) : freed[i] # base
        <5>1. SUFFICES ASSUME NEW i \in 2..Len(freed), freed[i] = base PROVE FALSE
          OBVIOUS
        <5>2. Apart(freed[1], freed[i])
          BY <4>1 DEF MemInv, AllApart
        <5> QED BY <1>2, <4>2, <5>1, <5>2, StackPages DEF Apart
      <4>4. ASSUME NEW b PROVE b \in Freed' <=> b \in Freed /\ b # base
        <5>1. ASSUME b \in Freed' PROVE b \in Freed /\ b # base
          <6>1. PICK i \in 1..Len(freed') : b = freed'[i]
            BY <5>1 DEF Freed
          <6>2. i + 1 \in 2..Len(freed) /\ b = freed[i + 1]
            BY <4>1, <6>1
          <6>3. i + 1 \in 1..Len(freed)
            BY <4>1, <6>2
          <6> QED BY <4>3, <6>2, <6>3 DEF Freed
        <5>2. ASSUME b \in Freed, b # base PROVE b \in Freed'
          <6>1. PICK i \in 1..Len(freed) : b = freed[i]
            BY <5>2 DEF Freed
          <6>2. i # 1
            BY <4>2, <5>2, <6>1
          <6>3. i - 1 \in 1..Len(freed') /\ b = freed'[i - 1]
            BY <4>1, <6>1, <6>2
          <6> QED BY <6>3 DEF Freed
        <5> QED BY <5>1, <5>2
      <4>5. ASSUME NEW i \in 1..Len(freed'), NEW j \in 1..Len(freed'), i # j
            PROVE  Apart(freed'[i], freed'[j])
        <5>1. /\ i + 1 \in 1..Len(freed) /\ j + 1 \in 1..Len(freed) /\ i + 1 # j + 1
              /\ freed'[i] = freed[i + 1] /\ freed'[j] = freed[j + 1]
          BY <4>1, <4>5
        <5> QED BY <5>1 DEF MemInv, AllApart
      <4> QED BY <3>2, <4>1, <4>4, <4>5
    <3> QED BY <3>1, <3>2
  <2>5. Sizes'
    BY <1>2, <1>3, <1>7, <2>1, <2>3, <2>4 DEF MemInv, Sizes
  <2>6. Inside'
    <3>1. ASSUME NEW b, b \in Freed \cup Bases
          PROVE  Aligned(b) /\ b + StackSpan <= sz /\ b \in Nat
      BY <3>1, StackPages DEF MemInv, Inside
    <3>2. \A b \in Freed' \cup Bases' : b \in Freed \cup Bases \/ b = base
      BY <2>2, <2>4
    <3>3. \A b \in Freed' \cup Bases' : Aligned(b) /\ b + StackSpan <= sz'
      <4>1. sz \in Nat /\ sz' \in Nat /\ sz <= sz' /\ StackSpan \in Nat
        BY <1>2, <2>3, StackPages
      <4>2. Aligned(base) /\ base + StackSpan <= sz'
        BY <1>1, <2>3
      <4>3. \A b \in Freed \cup Bases : Aligned(b) /\ b + StackSpan <= sz'
        BY <3>1, <4>1
      <4> QED BY <3>2, <4>2, <4>3
    <3>4. \A b : Aligned(b)' <=> Aligned(b)
      BY DEF Aligned
    <3> QED BY <1>4, <3>3, <3>4 DEF Inside
  \* The new stack is apart from all others.
  <2>7. \A b \in Bases \cup Freed : b \in Bases \/ freed = <<>> \/ b # base => Apart(base, b)
    <3>1. SUFFICES ASSUME NEW b \in Bases \cup Freed, b \in Bases \/ freed = <<>> \/ b # base
                   PROVE  Apart(base, b)
      OBVIOUS
    <3>2. CASE freed = <<>>
      BY <1>1, <1>2, <3>2, StackPages DEF Apart
    <3>3. CASE freed # <<>> /\ b \in Bases
      BY <1>1, <3>3 DEF MemInv, AllApart
    <3>4. CASE freed # <<>> /\ b \in Freed /\ b # base
      <4>1. PICK i \in 1..Len(freed) : b = freed[i]
        BY <3>4 DEF Freed
      <4>2. 1 \in 1..Len(freed) /\ base = freed[1]
        BY <1>1, <3>4 DEF MemInv, Sizes
      <4> QED BY <3>4, <4>1, <4>2 DEF MemInv, AllApart
    <3> QED BY <3>1, <3>2, <3>3, <3>4
  <2>8. AllApart'
    <3>1. \A a, b \in Bases' : a # b => Apart(a, b)
      BY <2>2, <2>7 DEF MemInv, AllApart, Apart
    <3>2. \A a \in Freed', b \in Bases' : Apart(a, b)
      BY <2>2, <2>4, <2>7 DEF MemInv, AllApart, Apart
    <3> QED BY <1>4, <2>4, <3>1, <3>2 DEF AllApart
  <2>9. Present'
    <3>1. \A g : g \in mapped' <=> g \in mapped \/ (g \in Nat /\ Covers(base, g))
      BY <1>2, <1>7 DEF allocuvm
    <3>2. ASSUME NEW g
          PROVE  g \in mapped' <=> /\ g \in Nat /\ g < PageUp(sz')
                                  /\ \A b \in Freed' : ~Covers(b, g)
      <4>1. g \in mapped <=> /\ g \in Nat /\ g < PageUp(sz)
                            /\ \A b \in Freed : ~Covers(b, g)
        BY DEF MemInv, Present
      <4>2. CASE freed = <<>>
        <5>1. Freed = {} /\ \A b : b \notin Freed'
          <6>1. Len(freed) = 0
            BY <4>2
          <6>2. Freed = {}
            BY <6>1 DEF Freed
          <6> QED BY <2>4, <6>2
        <5> QED BY <1>1, <1>2, <2>3, <3>1, <4>1, <4>2, <5>1, StackPages DEF Covers
      <4>3. CASE freed # <<>>
        <5>1. base \in Freed /\ PageUp(sz') = PageUp(sz)
          BY <1>1, <2>3, <4>3
        <5>2. g \in Nat /\ Covers(base, g) => g < PageUp(sz)
          <6>1. base \in Freed
            BY <5>1
          <6>2. PageUp(base) + stacksz < PageUp(sz) /\ PageUp(base) \in Nat /\ stacksz \in Nat
                /\ PageUp(sz) \in Nat
            BY <6>1, StackPages
          <6> QED BY <6>2 DEF Covers
        <5>3. \A b \in Freed : b # base => ~(g \in Nat /\ Covers(base, g) /\ Covers(b, g))
          <6>1. ASSUME NEW b \in Freed, b # base, g \in Nat, Covers(base, g), Covers(b, g)
                PROVE  FALSE
            <7>1. /\ PageUp(b) \in Nat /\ stacksz \in Nat
                  /\ base \in Freed => PageUp(base) \in Nat
              BY <6>1, StackPages
            <7>2. Apart(base, b)
              BY <2>7, <6>1
            <7> QED BY <5>1, <6>1, <7>1, <7>2 DEF Covers, Apart
          <6> QED BY <6>1
        <5>4. \A b : b \in Freed' <=> b \in Freed /\ b # base
          BY <2>4, <4>3
        <5> QED BY <3>1, <4>1, <5>1, <5>2, <5>3, <5>4
      <4> QED BY <4>2, <4>3
    <3>3. user' \subseteq mapped'
      BY <1>2, <1>7, <3>1 DEF MemInv, Present
    <3>4. ASSUME NEW b \in Bases', NEW g \in Nat, Covers(b, g)
          PROVE  g \in user' <=> g # PageUp(b)
      <4>1. g \in user' <=> g \in user \/ (Covers(base, g) /\ g # PageUp(base))
        BY <1>2, <1>7
      <4>2. CASE b = base
        <5>1. g \notin user
          BY <1>2, <1>5, <3>4, <4>2 DEF MemInv, Present
        <5> QED BY <3>4, <4>1, <4>2, <5>1
      <4>3. CASE b # base
        <5>1. b \in Bases /\ Apart(base, b)
          BY <2>2, <2>7, <4>3
        <5>2. ~Covers(base, g)
          BY <1>2, <3>4, <5>1, StackPages DEF Covers, Apart
        <5> QED BY <3>4, <4>1, <5>1, <5>2 DEF MemInv, Present
      <4> QED BY <4>2, <4>3
    <3> QED BY <1>4, <3>2, <3>3, <3>4 DEF Present
  <2> QED BY <2>5, <2>6, <2>8, <2>9 DEF MemInv
<1> QED BY <1>6, <1>7 DEF thread_create, base

\* The stack of a thread that was joined goes into the queue.
LEMMA JoinInv ==
  ASSUME MemInv, NEW top \in stacks, thread_join(top)
  PROVE  MemInv'
<1> DEFINE base == top - StackSpan
<1>1. /\ stacksz' = stacksz /\ sz' = sz /\ panicked' = panicked
      /\ freed' = Append(freed, base) /\ stacks' = stacks \ {top}
  BY DEF thread_join
<1>2. base \in Bases /\ Aligned(base) /\ base \in Nat /\ PageUp(base) \in Nat
  <2>1. base \in Bases
    BY DEF Bases
  <2> QED BY <2>1, StackPages
<1>3. /\ top = base + StackSpan /\ StackSpan \in Nat
      /\ \A t \in stacks : t \in Nat
  <2>1. \A t \in stacks : t \in Nat
    BY DEF MemInv, Sizes
  <2>2. StackSpan \in Nat
    BY StackPages
  <2> QED BY <2>1, <2>2
<1>4. \A g : g \in Pages(base, top) <=> g \in Nat /\ Covers(base, g)
  <2>1. stacksz \in Nat
    BY StackPages
  <2>2. /\ \A g : g \in Slot(base) <=> g \in Nat /\ Covers(base, g)
        /\ Slot(base) = Pages(base, base + StackSpan)
    BY <1>2, <2>1, SlotCovers
  <2> QED BY <1>3, <2>2
<1> HIDE DEF base
<1>5. /\ StackSpan' = StackSpan
      /\ \A a, b : Apart(a, b)' = Apart(a, b)
      /\ \A a, g : Covers(a, g)' = Covers(a, g)
  BY <1>1 DEF StackSpan, Apart, Covers
<1>6. ASSUME NEW b PROVE b \in Bases' <=> b \in Bases /\ b # base
  <2>1. b \in Bases' <=> \E t \in stacks : t # top /\ b = t - StackSpan
    BY <1>1, <1>5 DEF Bases
  <2>2. b \in Bases <=> \E t \in stacks : b = t - StackSpan
    BY DEF Bases
  <2>3. \A t \in stacks : t - StackSpan = base <=> t = top
    BY <1>2, <1>3
  <2> QED BY <2>1, <2>2, <2>3
<1>7. /\ freed \in Seq(Nat) /\ freed' \in Seq(Nat) /\ Len(freed) \in Nat
      /\ Len(freed') = Len(freed) + 1 /\ freed'[Len(freed) + 1] = base
      /\ \A i \in 1..Len(freed) : freed'[i] = freed[i]
  BY <1>1, <1>2 DEF MemInv, Sizes
<1>8. ASSUME NEW b PROVE b \in Freed' <=> b \in Freed \/ b = base
  <2>1. ASSUME b \in Freed' PROVE b \in Freed \/ b = base
    <3>1. PICK i \in 1..Len(freed') : b = freed'[i]
      BY <2>1 DEF Freed
    <3>2. CASE i = Len(freed) + 1
      BY <1>7, <3>1, <3>2
    <3>3. CASE i # Len(freed) + 1
      <4>1. i \in 1..Len(freed) /\ b = freed[i]
        BY <1>7, <3>1, <3>3
      <4> QED BY <4>1 DEF Freed
    <3> QED BY <3>2, <3>3
  <2>2. ASSUME b \in Freed PROVE b \in Freed'
    <3>1. PICK i \in 1..Len(freed) : b = freed[i]
      BY <2>2 DEF Freed
    <3>2. i \in 1..Len(freed') /\ b = freed'[i]
      BY <1>7, <3>1
    <3> QED BY <3>2 DEF Freed
  <2>3. base \in Freed'
    <3>1. Len(freed) + 1 \in 1..Len(freed')
      BY <1>7
    <3> QED BY <1>7, <3>1 DEF Freed
  <2> QED BY <2>1, <2>2, <2>3
<1>9. Sizes'
  BY <1>1, <1>3, <1>7 DEF MemInv, Sizes
<1>10. Inside'
  BY <1>1, <1>2, <1>5, <1>6, <1>8 DEF MemInv, Inside
<1>11. AllApart'
  <2>1. \A i \in 1..Len(freed) : Apart(freed[i], base)
    <3>1. SUFFICES ASSUME NEW i \in 1..Len(freed) PROVE Apart(freed[i], base)
      OBVIOUS
    <3>2. freed[i] \in Freed
      BY DEF Freed
    <3> QED BY <1>2, <3>2 DEF MemInv, AllApart
  <2>2. ASSUME NEW i \in 1..Len(freed'), NEW j \in 1..Len(freed'), i # j
        PROVE  Apart(freed'[i], freed'[j])
    <3>1. CASE i = Len(freed) + 1
      <4>1. j \in 1..Len(freed) /\ freed'[j] = freed[j] /\ freed'[i] = base
        BY <1>7, <2>2, <3>1
      <4> QED BY <2>1, <4>1 DEF Apart
    <3>2. CASE j = Len(freed) + 1
      <4>1. i \in 1..Len(freed) /\ freed'[i] = freed[i] /\ freed'[j] = base
        BY <1>7, <2>2, <3>2
      <4> QED BY <2>1, <4>1
    <3>3. CASE i # Len(freed) + 1 /\ j # Len(freed) + 1
      <4>1. i \in 1..Len(freed) /\ j \in 1..Len(freed) /\ freed'[i] = freed[i] /\ freed'[j] = freed[j]
        BY <1>7, <2>2, <3>3
      <4> QED BY <2>2, <4>1 DEF MemInv, AllApart
    <3> QED BY <3>1, <3>2, <3>3
  <2>3. \A a, b \in Bases' : a # b => Apart(a, b)
    BY <1>6 DEF MemInv, AllApart
  <2>4. \A a \in Freed', b \in Bases' : Apart(a, b)
    BY <1>2, <1>6, <1>8 DEF MemInv, AllApart
  <2> QED BY <1>5, <2>2, <2>3, <2>4 DEF AllApart
<1>12. Present'
  <2>1. /\ \A g : g \in mapped' <=> g \in mapped /\ ~(g \in Nat /\ Covers(base, g))
        /\ \A g : g \in user' <=> g \in user /\ ~(g \in Nat /\ Covers(base, g))
    <3>1. mapped' = mapped \ Pages(base, top) /\ user' = user \ Pages(base, top)
      BY DEF thread_join, deallocuvm, base
    <3> QED BY <1>4, <3>1
  <2>2. \A g : g \in mapped' <=> /\ g \in Nat /\ g < PageUp(sz)
                                 /\ \A b \in Freed' : ~Covers(b, g)
    BY <1>8, <2>1 DEF MemInv, Present
  <2>3. user' \subseteq mapped'
    BY <2>1 DEF MemInv, Present
  <2>4. ASSUME NEW b \in Bases', NEW g \in Nat, Covers(b, g)
        PROVE  g \in user' <=> g # PageUp(b)
    <3>1. b \in Bases /\ Apart(b, base)
      BY <1>2, <1>6 DEF MemInv, AllApart
    <3>2. ~Covers(base, g)
      BY <1>2, <2>4, <3>1, StackPages DEF Covers, Apart
    <3> QED BY <2>1, <2>4, <3>1, <3>2 DEF MemInv, Present
  <2> QED BY <1>1, <1>5, <2>2, <2>3, <2>4 DEF Present
<1> QED BY <1>9, <1>10, <1>11, <1>12 DEF MemInv

\* A new program has no threads yet.
LEMMA ExecInv ==
  ASSUME MemInv, NEW image \in Nat, NEW s \in Nat \ {0}, exec2(image, s)
  PROVE  MemInv'
<1> DEFINE end == image + s + 1
<1>1. end \in Nat /\ end * PGSIZE \in Nat /\ PageUp(end * PGSIZE) = end
  BY MemoryAssumption, PageUpMultiple
<1>2. /\ sz' = end * PGSIZE /\ mapped' = 0..(end - 1) /\ user' = mapped' \ {image}
      /\ stacksz' = s /\ freed' = <<>> /\ stacks' = {} /\ panicked' = panicked
  BY DEF exec2
<1> HIDE DEF end
<1>3. Freed' = {} /\ Bases' = {}
  BY <1>2 DEF Freed, Bases
<1>4. Sizes'
  BY <1>1, <1>2 DEF MemInv, Sizes
<1>5. Inside' /\ AllApart'
  BY <1>2, <1>3 DEF Inside, AllApart
<1>6. Present'
  BY <1>1, <1>2, <1>3 DEF Present
<1> QED BY <1>4, <1>5, <1>6 DEF MemInv

\* The child of a process without freed stacks has the pages of its parent.
LEMMA ForkInv ==
  ASSUME MemInv, fork, "fork" \notin Habits
  PROVE  MemInv'
<1>1. /\ freed = <<>> /\ freed' = freed /\ sz' = sz /\ stacksz' = stacksz
      /\ stacks' \subseteq stacks
  BY DEF fork
<1>2. /\ StackSpan' = StackSpan /\ Bases' \subseteq Bases /\ Freed = {} /\ Freed' = {}
      /\ \A a, b : Apart(a, b)' = Apart(a, b)
      /\ \A a, g : Covers(a, g)' = Covers(a, g)
  BY <1>1 DEF StackSpan, Bases, Freed, Apart, Covers
<1>3. CopyRange = mapped
  <2>1. PageUp(0) = 0 /\ PageUp(sz) \in Nat
    BY PageUpNat, StackPages
  <2>2. \A g : g \in CopyRange <=> g \in Nat /\ g < PageUp(sz)
    BY <2>1 DEF CopyRange, Pages
  <2>3. \A g : g \in mapped <=> g \in Nat /\ g < PageUp(sz)
    BY <1>2 DEF MemInv, Present
  <2> QED BY <2>2, <2>3
<1>4. panicked' = FALSE /\ mapped' = mapped /\ user' = user
  BY <1>3 DEF fork, MemInv, Present
<1>5. Sizes'
  BY <1>1, <1>4 DEF MemInv, Sizes
<1>6. Inside'
  BY <1>1, <1>2 DEF MemInv, Inside
<1>7. AllApart'
  BY <1>1, <1>2 DEF MemInv, AllApart
<1>8. Present'
  BY <1>1, <1>2, <1>4 DEF MemInv, Present
<1> QED BY <1>5, <1>6, <1>7, <1>8 DEF MemInv

LEMMA SameMemory ==
  ASSUME MemInv, UNCHANGED <<sz, stacksz, freed, stacks, mapped, user, panicked>>
  PROVE  MemInv'
BY DEF MemInv, Sizes, Inside, AllApart, Present, Apart, Covers, Freed, Bases, StackSpan

\* Unless programs give heap back below their threads, or fork after a join
LEMMA NextInv ==
  ASSUME {"shrink", "fork"} \cap Habits = {}, MemInv, [Next]_vars
  PROVE  MemInv'
<1>1. "shrink" \notin Habits /\ "fork" \notin Habits
  OBVIOUS
<1>2. ASSUME NEW n \in Increments, growproc(n) PROVE MemInv'
  BY <1>2, GrowInv
<1>3. ASSUME NEW n \in Increments, growproc_shrink(n) PROVE MemInv'
  BY <1>1, <1>3, ShrinkInv
<1>4. ASSUME thread_create PROVE MemInv'
  BY <1>4, CreateInv
<1>5. ASSUME NEW top \in stacks, thread_join(top) PROVE MemInv'
  BY <1>5, JoinInv
<1>6. ASSUME NEW limit \in 0..KERNBASE, setmemorylimit(limit) PROVE MemInv'
  BY <1>6, SameMemory DEF setmemorylimit
<1>7. ASSUME setmemorylimit_store PROVE MemInv'
  BY <1>7, SameMemory DEF setmemorylimit_store
<1>8. ASSUME NEW image \in Images, exec(image) PROVE MemInv'
  <2>1. image \in Nat /\ 1 \in Nat \ {0} /\ exec2(image, 1)
    BY <1>8, MemoryAssumption DEF exec
  <2> QED BY <2>1, ExecInv
<1>9. ASSUME NEW image \in Images, NEW s \in StackSizes, exec2(image, s) PROVE MemInv'
  <2>1. image \in Nat /\ s \in Nat \ {0}
    BY MemoryAssumption
  <2> QED BY <1>9, <2>1, ExecInv
<1>10. ASSUME fork PROVE MemInv'
  BY <1>1, <1>10, ForkInv
<1>11. ASSUME UNCHANGED vars PROVE MemInv'
  BY <1>11, SameMemory DEF vars
<1> QED BY <1>2, <1>3, <1>4, <1>5, <1>6, <1>7, <1>8, <1>9, <1>10, <1>11 DEF Next

-----------------------------------------------------------------------------
(* Bounds                                                                  *)

\* What TypeOK says beyond MemInv
Bounds ==
  /\ sz \in 0..KERNBASE /\ memlimit \in 0..KERNBASE
  /\ stacksz \in StackSizes \cup {1}
  /\ IsFiniteSet(stacks) /\ Len(freed) + Cardinality(stacks) < NTHRD
  /\ pending \in 0..KERNBASE \cup {None}

LEMMA BoundsTypes == MemInv /\ Bounds => TypeOK
<1> SUFFICES ASSUME MemInv, Bounds PROVE TypeOK
  OBVIOUS
<1>1. sz \in Nat /\ sz <= KERNBASE /\ KERNBASE \in Nat /\ StackSpan \in Nat
  BY StackPages, MemoryAssumption DEF Bounds
<1>2. freed \in Seq(0..KERNBASE)
  <2>1. \A i \in 1..Len(freed) : freed[i] \in 0..KERNBASE
    <3>1. SUFFICES ASSUME NEW i \in 1..Len(freed) PROVE freed[i] \in 0..KERNBASE
      OBVIOUS
    <3>2. freed[i] \in Freed
      BY DEF Freed
    <3>3. freed[i] \in Nat
      BY <3>2, StackPages
    <3>4. freed[i] + StackSpan <= sz
      BY <3>2 DEF MemInv, Inside
    <3> QED BY <1>1, <3>3, <3>4
  <2>2. freed \in Seq(Nat)
    BY DEF MemInv, Sizes
  <2>3. Len(freed) \in Nat /\ freed \in [1..Len(freed) -> 0..KERNBASE]
    BY <2>1, <2>2
  <2> QED BY <2>3, SeqDef
<1>3. stacks \subseteq 0..KERNBASE
  <2>1. SUFFICES ASSUME NEW top \in stacks PROVE top \in 0..KERNBASE
    OBVIOUS
  <2>2. top \in Nat /\ top - StackSpan \in Bases
    BY DEF MemInv, Sizes, Bases
  <2>3. (top - StackSpan) + StackSpan <= sz
    BY <2>2 DEF MemInv, Inside
  <2> QED BY <1>1, <2>2, <2>3
<1>4. mapped \subseteq 0..KERNBASE /\ user \subseteq mapped
  <2>1. PageUp(sz) \in Nat /\ PageUp(sz) <= sz
    BY <1>1, PageUpNat
  <2> QED BY <1>1, <2>1 DEF MemInv, Present
<1> QED BY <1>2, <1>3, <1>4 DEF Bounds, TypeOK, MemInv, Sizes

LEMMA InitBounds == Init => Bounds
<1> SUFFICES ASSUME Init PROVE Bounds
  OBVIOUS
<1>1. IsFiniteSet(stacks) /\ Cardinality(stacks) = 0 /\ Len(freed) = 0
  BY FS_EmptySet DEF Init
<1>2. /\ sz \in 0..KERNBASE /\ memlimit \in 0..KERNBASE
      /\ stacksz \in StackSizes \cup {1} /\ pending \in 0..KERNBASE \cup {None}
  BY MemoryAssumption DEF Init
<1> QED BY <1>1, <1>2, MemoryAssumption DEF Bounds

LEMMA NextBounds ==
  ASSUME MemInv, Bounds, [Next]_vars
  PROVE  Bounds'
<1>1. KERNBASE \in Nat /\ NTHRD \in Nat /\ Cardinality(stacks) \in Nat /\ Len(freed) \in Nat
  BY MemoryAssumption, FS_CardinalityType DEF Bounds, MemInv, Sizes
<1>2. ASSUME NEW n \in Increments, growproc(n) PROVE Bounds'
  <2>1. n \in Nat /\ sz \in Nat
    BY MemoryAssumption, StackPages
  <2> QED BY <1>1, <1>2, <2>1 DEF growproc, allocuvm, allocuvm_fails, Bounds
<1>3. ASSUME NEW n \in Increments, growproc_shrink(n) PROVE Bounds'
  <2>1. n \in Nat /\ sz \in Nat /\ n <= sz
    BY <1>3, MemoryAssumption, StackPages DEF growproc_shrink
  <2>2. sz' \in 0..KERNBASE
    BY <1>1, <1>3, <2>1 DEF growproc_shrink, Bounds
  <2> QED BY <1>3, <2>2 DEF growproc_shrink, Bounds
<1>4. ASSUME thread_create PROVE Bounds'
  <2> DEFINE base == StackBase
             top == base + StackSpan
  <2>1. CASE allocuvm_fails(base, top)
    BY <2>1 DEF allocuvm_fails, Bounds
  <2>2. CASE /\ allocuvm(base, top)
             /\ stacks' = stacks \cup {top}
             /\ IF freed # <<>> THEN freed' = Popped /\ sz' = sz
                                ELSE sz' = top /\ freed' = freed
             /\ UNCHANGED <<memlimit, stacksz, pending>>
    <3>1. /\ IsFiniteSet(stacks') /\ Cardinality(stacks') <= Cardinality(stacks) + 1
          /\ Cardinality(stacks') \in Nat
      <4>1. IsFiniteSet(stacks) /\ stacks' = stacks \cup {top}
        BY <2>2 DEF Bounds
      <4>2. /\ IsFiniteSet(stacks \cup {top})
            /\ \/ Cardinality(stacks \cup {top}) = Cardinality(stacks)
               \/ Cardinality(stacks \cup {top}) = Cardinality(stacks) + 1
        BY <4>1, FS_AddElement
      <4> QED BY <1>1, <4>1, <4>2
    <3>2. Len(freed') + Cardinality(stacks') < NTHRD
      <4>1. CASE freed # <<>>
        <5>1. Len(freed') = Len(freed) - 1
          BY <2>2, <4>1 DEF Popped, MemInv, Sizes
        <5> QED BY <1>1, <3>1, <5>1 DEF Bounds
      <4>2. CASE freed = <<>>
        <5>1. Len(freed') = 0
          BY <2>2, <4>2
        <5> QED BY <1>1, <1>4, <3>1, <5>1 DEF thread_create
      <4> QED BY <4>1, <4>2
    <3>3. sz' \in 0..KERNBASE
      <4>1. CASE freed # <<>>
        BY <2>2, <4>1 DEF Bounds
      <4>2. CASE freed = <<>>
        <5>1. base \in Nat /\ StackSpan \in Nat
          BY <4>2, RoundedUp, StackPages DEF StackBase, Aligned
        <5> QED BY <1>1, <2>2, <4>2, <5>1 DEF allocuvm
      <4> QED BY <4>1, <4>2
    <3> QED BY <2>2, <3>1, <3>2, <3>3 DEF Bounds
  <2> QED BY <1>4, <2>1, <2>2 DEF thread_create
<1>5. ASSUME NEW top \in stacks, thread_join(top) PROVE Bounds'
  <2>1. IsFiniteSet(stacks') /\ Cardinality(stacks') = Cardinality(stacks) - 1
    BY <1>5, FS_RemoveElement DEF thread_join, Bounds
  <2>2. Len(freed') = Len(freed) + 1
    BY <1>5 DEF thread_join, MemInv, Sizes
  <2>3. Len(freed') + Cardinality(stacks') < NTHRD
    BY <1>1, <2>1, <2>2 DEF Bounds
  <2> QED BY <1>5, <2>1, <2>3 DEF thread_join, Bounds
<1>6. ASSUME NEW limit \in 0..KERNBASE, setmemorylimit(limit) PROVE Bounds'
  BY <1>6 DEF setmemorylimit, Bounds
<1>7. ASSUME setmemorylimit_store PROVE Bounds'
  BY <1>7 DEF setmemorylimit_store, Bounds
<1>8. ASSUME NEW image \in Nat, NEW s \in (StackSizes \cup {1}) \cap Nat, exec2(image, s) PROVE Bounds'
  <2>1. (image + s + 1) * PGSIZE \in Nat
    BY MemoryAssumption
  <2>2. sz' \in 0..KERNBASE
    BY <1>1, <1>8, <2>1 DEF exec2
  <2>3. IsFiniteSet(stacks') /\ Len(freed') + Cardinality(stacks') < NTHRD
    BY <1>8, FS_EmptySet, MemoryAssumption DEF exec2
  <2>4. memlimit' \in 0..KERNBASE
    BY <1>1, <1>8 DEF exec2
  <2> QED BY <1>8, <2>2, <2>3, <2>4 DEF exec2, Bounds
<1>9. ASSUME NEW image \in Images, exec(image) PROVE Bounds'
  <2>1. image \in Nat /\ 1 \in (StackSizes \cup {1}) \cap Nat /\ exec2(image, 1)
    BY <1>9, MemoryAssumption DEF exec
  <2> QED BY <1>8, <2>1
<1>10. ASSUME NEW image \in Images, NEW s \in StackSizes, exec2(image, s) PROVE Bounds'
  <2>1. image \in Nat /\ s \in (StackSizes \cup {1}) \cap Nat
    BY MemoryAssumption
  <2> QED BY <1>8, <1>10, <2>1
<1>11. ASSUME fork PROVE Bounds'
  <2>1. /\ stacks' \in {stacks, {}} /\ freed' = freed
        /\ UNCHANGED <<sz, memlimit, stacksz, pending>>
    BY <1>11 DEF fork
  <2>2. CASE stacks' = stacks
    BY <2>1, <2>2 DEF Bounds
  <2>3. CASE stacks' = {}
    <3>1. IsFiniteSet(stacks') /\ Cardinality(stacks') = 0
      BY <2>3, FS_EmptySet
    <3>2. Len(freed') + Cardinality(stacks') < NTHRD
      BY <1>1, <2>1, <3>1 DEF Bounds
    <3> QED BY <2>1, <3>1, <3>2 DEF Bounds
  <2> QED BY <2>1, <2>2, <2>3
<1>12. ASSUME UNCHANGED vars PROVE Bounds'
  BY <1>12 DEF vars, Bounds
<1> QED BY <1>2, <1>3, <1>4, <1>5, <1>6, <1>7, <1>9, <1>10, <1>11, <1>12 DEF Next

-----------------------------------------------------------------------------
(* The limit                                                               *)

\* The size never exceeds the limit, nor the one setmemorylimit() will store.
LimitInv ==
  /\ sz \in Int /\ stacksz \in Nat /\ memlimit \in Int /\ pending \in Int
  /\ LimitHolds
  /\ pending # None => sz <= pending

LEMMA NextLimit ==
  ASSUME "exec" \notin Habits, LimitInv, [Next]_vars
  PROVE  LimitInv'
<1>1. ASSUME NEW n \in Increments, growproc(n) PROVE LimitInv'
  <2>1. n \in Nat
    BY MemoryAssumption
  <2>2. /\ pending' = pending /\ pending = None
        /\ memlimit' = memlimit /\ stacksz' = stacksz
        /\ sz' = sz \/ (sz' = sz + n /\ Within(sz + n))
    BY <1>1 DEF growproc, allocuvm_fails, Unlocked
  <2> QED BY <2>1, <2>2 DEF Within, LimitInv, LimitHolds
<1>2. ASSUME NEW n \in Increments, growproc_shrink(n) PROVE LimitInv'
  <2>1. n \in Nat /\ n <= sz
    BY <1>2, MemoryAssumption DEF growproc_shrink
  <2>2. sz' \in Int /\ sz' <= sz
    BY <1>2, <2>1 DEF growproc_shrink, LimitInv
  <2>3. /\ pending' = pending /\ pending = None
        /\ memlimit' = memlimit /\ stacksz' = stacksz
    BY <1>2 DEF growproc_shrink, Unlocked
  <2> QED BY <2>2, <2>3 DEF LimitInv, LimitHolds
<1>3. ASSUME thread_create PROVE LimitInv'
  <2> DEFINE base == StackBase
             top == base + StackSpan
  <2>1. CASE sz' = sz
    BY <1>3, <2>1 DEF thread_create, allocuvm_fails, Unlocked, LimitInv, LimitHolds
  <2>2. CASE sz' # sz
    <3>1. /\ freed = <<>> /\ sz' = top /\ Within(top) /\ pending = None
          /\ memlimit' = memlimit /\ pending' = pending /\ stacksz' = stacksz
      BY <1>3, <2>2 DEF thread_create, allocuvm_fails, Unlocked
    <3>2. StackBase = PageUp(sz) * PGSIZE /\ PageUp(sz) \in Int /\ PGSIZE \in Nat
      BY <3>1, PageUpBounds, MemoryAssumption DEF StackBase, PGROUNDUP, LimitInv
    <3>3. stacksz \in Nat /\ StackSpan \in Int
      <4>1. stacksz \in Nat
        BY DEF LimitInv
      <4>2. (stacksz + 1) * PGSIZE \in Int
        BY <4>1, MemoryAssumption
      <4> QED BY <4>1, <4>2 DEF StackSpan
    <3>4. top \in Int
      BY <3>2, <3>3
    <3> QED BY <3>1, <3>4 DEF Within, LimitInv, LimitHolds
  <2> QED BY <2>1, <2>2
<1>4. ASSUME NEW top \in stacks, thread_join(top) PROVE LimitInv'
  BY <1>4 DEF thread_join, LimitInv, LimitHolds
<1>5. ASSUME NEW limit \in 0..KERNBASE, setmemorylimit(limit) PROVE LimitInv'
  <2>1. limit \in Int
    BY MemoryAssumption
  <2> QED BY <1>5, <2>1 DEF setmemorylimit, LimitInv, LimitHolds
<1>6. ASSUME setmemorylimit_store PROVE LimitInv'
  BY <1>6 DEF setmemorylimit_store, None, LimitInv, LimitHolds
<1>7. ASSUME NEW image \in Nat, NEW s \in Nat, exec2(image, s) PROVE LimitInv'
  <2>1. (image + s + 1) * PGSIZE \in Int
    BY MemoryAssumption
  <2>2. pending = None /\ pending' = None /\ memlimit' = 0
    BY <1>7 DEF exec2, Unlocked
  <2> QED BY <1>7, <2>1, <2>2 DEF exec2, LimitInv, LimitHolds
<1>8. ASSUME NEW image \in Images, exec(image) PROVE LimitInv'
  <2>1. image \in Nat /\ 1 \in Nat /\ exec2(image, 1)
    BY <1>8, MemoryAssumption DEF exec
  <2> QED BY <1>7, <2>1
<1>9. ASSUME NEW image \in Images, NEW s \in StackSizes, exec2(image, s) PROVE LimitInv'
  <2>1. image \in Nat /\ s \in Nat
    BY MemoryAssumption
  <2> QED BY <1>7, <1>9, <2>1
<1>10. ASSUME fork PROVE LimitInv'
  BY <1>10 DEF fork, LimitInv, LimitHolds
<1>11. ASSUME UNCHANGED vars PROVE LimitInv'
  BY <1>11 DEF vars, LimitInv, LimitHolds
<1> QED BY <1>1, <1>2, <1>3, <1>4, <1>5, <1>6, <1>8, <1>9, <1>10, <1>11 DEF Next

-----------------------------------------------------------------------------
(* The properties                                                          *)

LEMMA Whole == MemInv => StacksWhole
<1> SUFFICES ASSUME MemInv PROVE StacksWhole
  OBVIOUS
<1>1. ASSUME NEW top \in stacks
      PROVE  LET base == top - StackSpan
             IN  /\ base >= 0 /\ top <= sz
                 /\ Slot(base) \subseteq mapped
                 /\ Slot(base) \ user = {PageUp(base)}
  <2> DEFINE base == top - StackSpan
  <2>1. /\ base \in Bases /\ top \in Nat
    BY DEF Bases, MemInv, Sizes
  <2>2. /\ Aligned(base) /\ base \in Nat /\ PageUp(base) \in Nat /\ stacksz \in Nat
        /\ PageUp(base) + stacksz < PageUp(sz) /\ StackSpan \in Nat
        /\ PageUp(sz) \in Nat
    BY <2>1, StackPages
  <2>3. base + StackSpan <= sz
    BY <2>1 DEF MemInv, Inside
  <2>4. top <= sz
    BY <2>1, <2>2, <2>3
  <2> HIDE DEF base
  <2>5. \A g : g \in Slot(base) <=> g \in Nat /\ Covers(base, g)
    BY <2>2, SlotCovers
  <2>6. ASSUME NEW g, g \in Nat, Covers(base, g)
        PROVE  g \in mapped /\ (g \in user <=> g # PageUp(base))
    <3>1. ASSUME NEW b \in Freed, Covers(b, g) PROVE FALSE
      <4>1. Apart(b, base) /\ PageUp(b) \in Nat
        BY <2>1, StackPages DEF MemInv, AllApart
      <4> QED BY <2>2, <2>6, <3>1, <4>1 DEF Covers, Apart
    <3>2. g < PageUp(sz)
      BY <2>2, <2>6 DEF Covers
    <3> QED BY <2>1, <2>6, <3>1, <3>2 DEF MemInv, Present
  <2>7. PageUp(base) \in Nat /\ Covers(base, PageUp(base))
    BY <2>2 DEF Covers
  <2> QED BY <2>2, <2>4, <2>5, <2>6, <2>7 DEF base
<1>2. ASSUME NEW s \in stacks, NEW t \in stacks, s < t PROVE s <= t - StackSpan
  <2> DEFINE a == s - StackSpan
             b == t - StackSpan
  <2>1. a \in Bases /\ b \in Bases /\ s \in Nat /\ t \in Nat
    BY DEF Bases, MemInv, Sizes
  <2>2. /\ StackSpan \in Nat /\ stacksz \in Nat
        /\ Aligned(a) /\ a \in Nat /\ PageUp(a) \in Nat
        /\ Aligned(b) /\ b \in Nat /\ PageUp(b) \in Nat
    BY <2>1, StackPages
  <2>3. a # b /\ a <= b /\ s = a + StackSpan
    BY <1>2, <2>1, <2>2
  <2> HIDE DEF a, b
  <2>4. PageUp(a) <= PageUp(b)
    BY <2>2, <2>3, PageUpGrows
  <2>5. PageUp(a) + stacksz + 1 <= PageUp(b)
    <3>1. Apart(a, b)
      BY <2>1, <2>3 DEF MemInv, AllApart
    <3> QED BY <2>2, <2>4, <3>1 DEF Apart
  <2>6. Aligned(s) /\ PageUp(s) = PageUp(a) + stacksz + 1
    BY <2>2, <2>3, SpanPages
  <2>7. PageUp(s) * PGSIZE <= PageUp(b) * PGSIZE
    <3>1. PageUp(s) \in Int /\ PageUp(s) <= PageUp(b) /\ PGSIZE \in Nat
      BY <2>2, <2>5, <2>6, MemoryAssumption
    <3> QED BY <2>2, <3>1, Times
  <2>8. s <= b
    BY <2>2, <2>6, <2>7 DEF Aligned
  <2> QED BY <2>8 DEF b
<1>3. ~panicked
  BY DEF MemInv, Sizes
<1> QED BY <1>1, <1>2, <1>3 DEF StacksWhole

LEMMA Queued == MemInv => HolesAreQueued
<1> SUFFICES ASSUME MemInv PROVE HolesAreQueued
  OBVIOUS
<1>1. mapped = Pages(0, sz) \ UNION {Slot(base) : base \in Freed}
  <2>1. PageUp(0) = 0 /\ PageUp(sz) \in Nat /\ stacksz \in Nat
    BY PageUpNat, StackPages
  <2>2. \A g : g \in Pages(0, sz) <=> g \in Nat /\ g < PageUp(sz)
    BY <2>1 DEF Pages
  <2>3. \A base \in Freed : \A g : g \in Slot(base) <=> g \in Nat /\ Covers(base, g)
    <3>1. SUFFICES ASSUME NEW base \in Freed
                   PROVE  \A g : g \in Slot(base) <=> g \in Nat /\ Covers(base, g)
      OBVIOUS
    <3>2. Aligned(base)
      BY StackPages
    <3> QED BY <2>1, <3>2, SlotCovers
  <2>4. \A g : g \in mapped <=> /\ g \in Nat /\ g < PageUp(sz)
                                /\ \A base \in Freed : ~Covers(base, g)
    BY DEF MemInv, Present
  <2> QED BY <2>2, <2>3, <2>4
<1>2. Cardinality(Freed) = Len(freed)
  <2>1. Len(freed) \in Nat /\ freed \in [1..Len(freed) -> Freed]
    BY DEF MemInv, Sizes, Freed
  <2>2. ASSUME NEW i \in 1..Len(freed), NEW j \in 1..Len(freed), freed[i] = freed[j]
        PROVE  i = j
    <3>1. freed[i] \in Freed
      BY DEF Freed
    <3>2. PageUp(freed[i]) \in Nat /\ stacksz \in Nat
      BY <3>1, StackPages
    <3>3. i # j => Apart(freed[i], freed[j])
      BY DEF MemInv, AllApart
    <3> QED BY <2>2, <3>2, <3>3 DEF Apart
  <2>3. \A base \in Freed : \E i \in 1..Len(freed) : freed[i] = base
    BY DEF Freed
  <2>4. freed \in Bijection(1..Len(freed), Freed)
    BY <2>1, <2>2, <2>3, Fun_IsBij
  <2> QED BY <2>1, <2>4, FS_CountingElements DEF ExistsBijection
<1>3. ASSUME NEW base \in Freed, base + StackSpan \in stacks PROVE FALSE
  <2>1. /\ base \in Nat /\ PageUp(base) \in Nat /\ StackSpan \in Nat /\ stacksz \in Nat
    BY StackPages
  <2>2. (base + StackSpan) - StackSpan \in Bases
    BY <1>3 DEF Bases
  <2>3. base \in Bases
    BY <2>1, <2>2
  <2>4. Apart(base, base)
    BY <2>3 DEF MemInv, AllApart
  <2> QED BY <2>1, <2>4 DEF Apart
<1> QED BY <1>1, <1>2, <1>3 DEF HolesAreQueued

-----------------------------------------------------------------------------
(* The theorems                                                            *)

\* In a program that neither gives heap back while it has stacks above it nor
\* forks after it joined a thread, both invariants are kept (growproc(),
\* thread_create(), thread_join(), exec2(), fork(), setmemorylimit()).
LEMMA Kept ==
  ASSUME {"shrink", "fork"} \cap Habits = {}
  PROVE  Spec => [](MemInv /\ Bounds)
<1>1. Init => MemInv /\ Bounds
  BY InitInv, InitBounds
<1>2. MemInv /\ Bounds /\ [Next]_vars => (MemInv /\ Bounds)'
  BY NextInv, NextBounds
<1> QED BY <1>1, <1>2, PTL DEF Spec

\* Sizes, limits and stacks stay below KERNBASE, and no process has more stacks,
\* those that wait in freed_sz included, than entries in its thread table
\* (pthread_exec, thread_join, setmemorylimit).
THEOREM TypesCorrect ==
  ASSUME {"shrink", "fork"} \cap Habits = {}
  PROVE  Spec => []TypeOK
<1> QED BY Kept, BoundsTypes, PTL

\* Every live thread has its stack, with its guard page, to itself: pthread_exec()
\* never maps over a page, and a stack freed by thread_join() and used again never
\* meets another.
THEOREM StacksAreWhole ==
  ASSUME {"shrink", "fork"} \cap Habits = {}
  PROVE  Spec => []StacksWhole
<1> QED BY Kept, Whole, PTL

\* The holes below the size of a process are those in freed_sz (thread_join,
\* pthread_exec, fork): no page is lost, and no hole is given to two threads.
THEOREM HolesAreKnown ==
  ASSUME {"shrink", "fork"} \cap Habits = {}
  PROVE  Spec => []HolesAreQueued
<1> QED BY Kept, Queued, PTL

\* A process stays within its limit (growproc, pthread_exec, setmemorylimit), when
\* exec() does not run between the test and the store of setmemorylimit().
THEOREM LimitIsKept ==
  ASSUME "exec" \notin Habits
  PROVE  Spec => []LimitHolds
<1>1. Init => LimitInv
  <2> SUFFICES ASSUME Init PROVE LimitInv
    OBVIOUS
  <2>1. PGSIZE \in Int
    BY MemoryAssumption
  <2> QED BY <2>1 DEF Init, LimitInv, LimitHolds, None
<1>2. LimitInv /\ [Next]_vars => LimitInv'
  BY NextLimit
<1>3. LimitInv => LimitHolds
  BY DEF LimitInv
<1> QED BY <1>1, <1>2, <1>3, PTL DEF Spec
=============================================================================
