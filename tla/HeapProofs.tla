----------------------------- MODULE HeapProofs -----------------------------
(***************************************************************************)
(* Proofs about the kernel heap, for every base address, header size, set  *)
(* of sizes and number of blocks held.                                     *)
(***************************************************************************)
EXTENDS Heap, SequenceTheorems, FiniteSetTheorems, WellFoundedInduction, TLAPS

\* The facts about the chain that the proofs below use.
LEMMA ChainFacts ==
  ASSUME HeapInv
  PROVE  /\ blks \in Seq(Block)
         /\ Len(blks) \in Nat
         /\ Len(blks) >= 2
         /\ \A k \in 1 .. Len(blks) : /\ blks[k] \in Block
                                      /\ blks[k].sz \in Sizes \cup {0}
                                      /\ End(blks[k]) \in Nat
<1>1. /\ blks \in Seq(Block)
      /\ Len(blks) \in Nat
      /\ Len(blks) >= 2
      /\ \A k \in 1 .. Len(blks) : blks[k] \in Block
  BY DEF HeapInv, TypeOK
<1>2. \A k \in 1 .. Len(blks) : blks[k].sz \in Sizes \cup {0}
  BY DEF HeapInv, TypeOK
<1>3. ASSUME NEW b \in Block PROVE End(b) \in Nat
  BY HeapAssumption DEF HeapAssumption, Block, End
<1> QED  BY <1>1, <1>2, <1>3

LEMMA EndFacts ==
  ASSUME NEW b \in Block, NEW c \in Block, b.addr = c.addr, b.sz <= c.sz
  PROVE  End(b) <= End(c) /\ End(b) \in Nat /\ End(c) \in Nat /\ c.addr \in Nat
BY HeapAssumption DEF HeapAssumption, End, Block

\* Replacing a block, other than the sentinel and the tail, by one in the same
\* place and no larger keeps the chain in shape: a reused block, a freed one.
LEMMA Replace ==
  ASSUME HeapInv, NEW i \in 2 .. Len(blks) - 1, NEW b \in Block,
         b.addr = blks[i].addr, b.sz \in Sizes \cup {0}, b.sz <= blks[i].sz,
         blks' \in Seq(Block), Len(blks') = Len(blks),
         \A k \in 1 .. Len(blks) : blks'[k] = IF k = i THEN b ELSE blks[k]
  PROVE  HeapInv'
<1>1. Len(blks) \in Nat /\ Len(blks) >= 2
  BY ChainFacts
<1>2. \A k \in 1 .. Len(blks) : blks[k].sz \in Sizes \cup {0}
  BY ChainFacts
<1>3. TypeOK'
  BY <1>1, <1>2 DEF TypeOK
<1>4. 1 \in 1 .. Len(blks) /\ Len(blks) \in 1 .. Len(blks) /\ i # 1 /\ i # Len(blks)
  BY <1>1
<1>5. blks'[1] = blks[1] /\ blks'[Len(blks)] = blks[Len(blks)]
  BY <1>4
<1>6. Ends'
  BY <1>5 DEF Ends, HeapInv
<1>7. ASSUME NEW k \in 1 .. Len(blks)
      PROVE  /\ blks'[k].addr = blks[k].addr
             /\ End(blks'[k]) <= End(blks[k])
             /\ End(blks'[k]) \in Nat /\ End(blks[k]) \in Nat /\ blks[k].addr \in Nat
  <2>1. blks[k] \in Block /\ blks'[k] \in Block
    BY ChainFacts
  <2>2. blks'[k].addr = blks[k].addr /\ blks'[k].sz <= blks[k].sz
    <3>1. blks[k].sz <= blks[k].sz
      BY <2>1 DEF Block
    <3> QED  BY <3>1
  <2> QED  BY <2>1, <2>2, EndFacts
<1>8. Ordered'
  <2> SUFFICES ASSUME NEW k \in 1 .. Len(blks), NEW l \in 1 .. Len(blks), k < l
               PROVE  End(blks'[k]) <= blks'[l].addr
    BY DEF Ordered, End
  <2>1. End(blks[k]) <= blks[l].addr
    BY DEF Ordered, HeapInv
  <2>2. /\ End(blks'[k]) \in Nat /\ End(blks[k]) \in Nat /\ blks[l].addr \in Nat
        /\ End(blks'[k]) <= End(blks[k]) /\ blks'[l].addr = blks[l].addr
    BY <1>7
  <2> HIDE DEF HeapInv
  <2> QED  BY <2>1, <2>2
<1> QED  BY <1>3, <1>6, <1>8 DEF HeapInv

\* Taking the tail and laying a new tail after its data keeps the chain in
\* shape.
LEMMA Grow ==
  ASSUME HeapInv, NEW b \in Block, b.addr = blks[Len(blks)].addr, b.sz \in Sizes,
         blks' \in Seq(Block), Len(blks') = Len(blks) + 1,
         \A k \in 1 .. Len(blks) : blks'[k] = IF k = Len(blks) THEN b ELSE blks[k],
         blks'[Len(blks) + 1] = NewTail(b)
  PROVE  HeapInv'
<1>1. /\ NewTail(b) \in Block
      /\ NewTail(b).addr = End(b)
      /\ NewTail(b).sz = 0
      /\ NewTail(b).av = TRUE
      /\ b.addr \in Nat /\ End(b) \in Nat /\ b.addr <= End(b)
  BY HeapAssumption DEF HeapAssumption, NewTail, End, Block
<1>2. Len(blks) \in Nat /\ Len(blks) >= 2
  BY ChainFacts
<1>3. \A k \in 1 .. Len(blks) : blks[k].sz \in Sizes \cup {0}
  BY ChainFacts
<1>4. \A k \in 1 .. Len(blks) : blks'[k].sz \in Sizes \cup {0}
  BY <1>3
<1>5. TypeOK'
  <2>1. \A k \in 1 .. (Len(blks) + 1) : k \in 1 .. Len(blks) \/ k = Len(blks) + 1
    BY <1>2
  <2> QED  BY <1>1, <1>2, <1>4, <2>1 DEF TypeOK
<1>6. blks'[1] = blks[1]
  BY <1>2
<1>7. Ends'
  BY <1>1, <1>6 DEF Ends, HeapInv
<1>8. Ordered'
  <2> SUFFICES ASSUME NEW k \in 1 .. Len(blks) + 1, NEW l \in 1 .. Len(blks) + 1, k < l
               PROVE  End(blks'[k]) <= blks'[l].addr
    BY DEF Ordered, End
  <2>1. k \in 1 .. Len(blks) /\ End(blks[k]) \in Nat
    BY <1>2, ChainFacts
  <2>2. CASE l \in 1 .. Len(blks)
    <3>1. k # Len(blks)
      BY <1>2, <2>1, <2>2
    <3>2. End(blks[k]) <= blks[l].addr
      BY <2>1, <2>2 DEF Ordered, HeapInv
    <3>3. blks'[k] = blks[k] /\ blks'[l].addr = blks[l].addr
      BY <2>1, <2>2, <3>1
    <3> QED  BY <3>2, <3>3
  <2>3. CASE l = Len(blks) + 1
    <3>1. CASE k = Len(blks)
      BY <1>1, <2>1, <2>3, <3>1
    <3>2. CASE k # Len(blks)
      <4>1. k < Len(blks) /\ Len(blks) \in 1 .. Len(blks)
        BY <1>2, <2>1, <3>2
      <4>2. End(blks[k]) <= b.addr
        BY <2>1, <4>1 DEF Ordered, HeapInv
      <4>3. End(blks[k]) <= End(b)
        BY <1>1, <2>1, <4>2
      <4> QED  BY <1>1, <2>1, <2>3, <3>2, <4>3
    <3> QED  BY <3>1, <3>2
  <2> QED  BY <1>2, <2>2, <2>3
<1> QED  BY <1>5, <1>7, <1>8 DEF HeapInv

\* The block kmalloc takes is available, so never the sentinel, and large
\* enough unless it is the tail.
LEMMA TakenBlock ==
  ASSUME HeapInv, NEW sz \in Sizes, NEW i \in 1 .. Len(blks), heap_find(i, sz)
  PROVE  /\ i # 1
         /\ blks[i].av = TRUE
         /\ Take(blks[i], sz) \in Block
         /\ i # Len(blks) => sz <= blks[i].sz
<1> USE HeapAssumption DEF HeapAssumption
<1>1. sz \in Nat /\ blks[i] \in Block
  BY ChainFacts
<1>2. Take(blks[i], sz) \in Block
  BY <1>1 DEF Take, Block
<1>3. i # 1 /\ blks[i].av = TRUE /\ (i # Len(blks) => sz <= blks[i].sz)
  BY <1>1 DEF heap_find, Usable, HeapInv, Ends, Block
<1> QED  BY <1>2, <1>3

\* What kmalloc makes of the chain: one available block taken, all others as
\* they were, and a tail added when it was the tail that was taken.
MallocEffect(i, sz) ==
  /\ heap_find(i, sz)
  /\ blks[i].av = TRUE
  /\ blks' \in Seq(Block)
  /\ \A k \in 1 .. Len(blks) : blks'[k] = IF k = i THEN Take(blks[i], sz) ELSE blks[k]
  /\ i # Len(blks) => Len(blks') = Len(blks) /\ sz <= blks[i].sz
  /\ i = Len(blks) => /\ Len(blks') = Len(blks) + 1
                      /\ blks'[Len(blks) + 1] = NewTail(Take(blks[i], sz))

LEMMA MallocStep ==
  ASSUME HeapInv, NEW sz \in Sizes, kmalloc(sz)
  PROVE  \E i \in 2 .. Len(blks) : MallocEffect(i, sz)
<1> DEFINE B(i) == Take(blks[i], sz)
           C(i) == [blks EXCEPT ![i] = B(i)]
<1>1. PICK i \in 1 .. Len(blks) :
         /\ heap_find(i, sz)
         /\ i # Len(blks) => blks' = C(i)
         /\ i = Len(blks) => blks' = Append(C(i), NewTail(B(i)))
  BY DEF kmalloc
<1>2. Len(blks) \in Nat /\ blks \in Seq(Block)
  BY ChainFacts
<1>3. /\ i # 1 /\ blks[i].av = TRUE /\ B(i) \in Block
      /\ (i # Len(blks) => sz <= blks[i].sz)
  BY TakenBlock, <1>1
<1>4. /\ C(i) \in Seq(Block)
      /\ Len(C(i)) = Len(blks)
      /\ \A k \in 1 .. Len(blks) : C(i)[k] = IF k = i THEN B(i) ELSE blks[k]
  BY ExceptSeq, <1>2, <1>3
<1>5. i \in 2 .. Len(blks)
  BY <1>2, <1>3
<1> HIDE DEF B, C
<1>6. CASE i # Len(blks)
  <2>1. blks' = C(i)
    BY <1>1, <1>6
  <2>2. /\ blks' \in Seq(Block) /\ Len(blks') = Len(blks)
        /\ \A k \in 1 .. Len(blks) : blks'[k] = IF k = i THEN B(i) ELSE blks[k]
    BY <1>4, <2>1
  <2> QED  BY <1>1, <1>3, <1>5, <1>6, <2>2 DEF MallocEffect, B
<1>7. CASE i = Len(blks)
  <2>1. NewTail(B(i)) \in Block
    BY <1>3, HeapAssumption DEF HeapAssumption, NewTail, End, Block
  <2>2. blks' = Append(C(i), NewTail(B(i)))
    BY <1>1, <1>7
  <2>3. /\ blks' \in Seq(Block)
        /\ Len(blks') = Len(blks) + 1
        /\ \A k \in 1 .. Len(blks) : blks'[k] = C(i)[k]
        /\ blks'[Len(blks) + 1] = NewTail(B(i))
    BY AppendProperties, <1>4, <2>1, <2>2
  <2>4. \A k \in 1 .. Len(blks) : blks'[k] = IF k = i THEN B(i) ELSE blks[k]
    BY <1>4, <2>3
  <2> QED  BY <1>1, <1>3, <1>5, <1>7, <2>3, <2>4 DEF MallocEffect, B
<1> QED  BY <1>6, <1>7

LEMMA MallocInv ==
  ASSUME HeapInv, NEW sz \in Sizes, NEW i \in 2 .. Len(blks), MallocEffect(i, sz)
  PROVE  HeapInv'
<1> DEFINE b == Take(blks[i], sz)
<1>1. Len(blks) \in Nat /\ blks[i] \in Block
  BY ChainFacts
<1>2. b \in Block /\ b.addr = blks[i].addr /\ b.sz = sz
  BY <1>1, HeapAssumption DEF HeapAssumption, Take, Block
<1> HIDE DEF b
<1>3. CASE i # Len(blks)
  <2>1. i \in 2 .. Len(blks) - 1
    BY <1>1, <1>3
  <2> QED  BY Replace, <1>2, <1>3, <2>1 DEF MallocEffect, b
<1>4. CASE i = Len(blks)
  BY Grow, <1>2, <1>4 DEF MallocEffect, b
<1> QED  BY <1>3, <1>4

\* Freeing the data of a block that is held marks that block and no other.
LEMMA FreeStep ==
  ASSUME HeapInv, NEW i \in Live, kfree(Data(blks[i]))
  PROVE  blks' = [blks EXCEPT ![i].av = TRUE]
<1> USE HeapAssumption DEF HeapAssumption
<1>1. PICK j \in 1 .. Len(blks) : /\ blks[j].addr = Data(blks[i]) - HdrSize
                                  /\ blks' = [blks EXCEPT ![j].av = TRUE]
  BY DEF kfree
<1>2. /\ i \in 1 .. Len(blks) /\ blks[i] \in Block /\ blks[j] \in Block
  BY DEF Live, HeapInv, TypeOK
<1>3. blks[j].addr = blks[i].addr
  BY <1>1, <1>2 DEF Data, Block
<1>4. /\ i < j => End(blks[i]) <= blks[j].addr
      /\ j < i => End(blks[j]) <= blks[i].addr
  BY <1>2 DEF HeapInv, Ordered
<1>5. i = j
  BY <1>2, <1>3, <1>4 DEF End, Block
<1> QED  BY <1>1, <1>5

LEMMA FreeInv ==
  ASSUME HeapInv, NEW i \in Live, NEW b, b = [blks[i] EXCEPT !.av = TRUE],
         blks' = [blks EXCEPT ![i] = b]
  PROVE  HeapInv'
<1>1. Len(blks) \in Nat /\ blks \in Seq(Block)
  BY ChainFacts
<1>2. i \in 2 .. Len(blks) /\ ~ blks[i].av
  BY DEF Live
<1>3. i # Len(blks)
  BY <1>2 DEF HeapInv, Ends
<1>4. i \in 2 .. Len(blks) - 1 /\ i \in 1 .. Len(blks)
  BY <1>1, <1>2, <1>3
<1>5. blks[i] \in Block /\ blks[i].sz \in Sizes \cup {0}
  BY <1>4, ChainFacts
<1>6. b = [addr |-> blks[i].addr, sz |-> blks[i].sz, av |-> TRUE]
  BY <1>5 DEF Block
<1>7. /\ b \in Block
      /\ b.addr = blks[i].addr
      /\ b.sz = blks[i].sz
      /\ b.sz <= blks[i].sz
  <2>1. blks[i].addr \in Nat /\ blks[i].sz \in Nat
    BY <1>5 DEF Block
  <2>2. b.addr = blks[i].addr /\ b.sz = blks[i].sz
    BY <1>6
  <2>3. b \in Block
    BY <1>6, <2>1 DEF Block
  <2> QED  BY <2>1, <2>2, <2>3
<1>8. /\ blks' \in Seq(Block)
      /\ Len(blks') = Len(blks)
      /\ \A k \in 1 .. Len(blks) : blks'[k] = IF k = i THEN b ELSE blks[k]
  BY ExceptSeq, <1>1, <1>4, <1>7
<1> QED  BY Replace, <1>4, <1>5, <1>7, <1>8

\* The chain keeps its shape: typed, ended by a taken sentinel and a free
\* tail, and laid out in order of address without overlap.
THEOREM HeapInvariant == Spec => []HeapInv
<1> USE HeapAssumption DEF HeapAssumption
<1>1. Init => HeapInv
  <2> SUFFICES ASSUME Init PROVE HeapInv
    OBVIOUS
  <2>1. /\ blks \in Seq(Block) /\ Len(blks) = 2
        /\ blks[1] = [addr |-> Base, sz |-> 0, av |-> FALSE]
        /\ blks[2] = [addr |-> Base + HdrSize, sz |-> 0, av |-> TRUE]
    BY DEF Init, heap_init, Block
  <2> QED  BY <2>1 DEF HeapInv, TypeOK, Ends, Ordered, End
<1>2. HeapInv /\ [Next]_blks => HeapInv'
  <2> SUFFICES ASSUME HeapInv, [Next]_blks PROVE HeapInv'
    OBVIOUS
  <2>1. CASE Malloc
    <3>1. PICK sz \in Sizes : kmalloc(sz)
      BY <2>1 DEF Malloc
    <3> QED  BY <3>1, MallocStep, MallocInv
  <2>2. CASE Free
    <3>1. PICK i \in Live : kfree(Data(blks[i]))
      BY <2>2 DEF Free
    <3>2. blks' = [blks EXCEPT ![i].av = TRUE]
      BY <3>1, FreeStep
    <3> QED  BY <3>2, FreeInv
  <2>3. CASE UNCHANGED blks
    BY <2>3 DEF HeapInv, TypeOK, Ends, Ordered, End
  <2> QED  BY <2>1, <2>2, <2>3 DEF Next
<1> QED  BY <1>1, <1>2, PTL DEF Spec

\* No byte of a block in use belongs to a header or to another block's data,
\* however many times blocks were freed, reused and shrunk.
THEOREM HeapMemorySafe == Spec => []MemorySafe
<1>1. HeapInv => MemorySafe
  BY DEF HeapInv, TypeOK, Ordered, MemorySafe, Live
<1> QED  BY <1>1, HeapInvariant, PTL

\* Any set of natural numbers that is not empty has a least element.
LEMMA Least ==
  ASSUME NEW S \in SUBSET Nat, S # {}
  PROVE  \E m \in S : \A k \in S : m <= k
<1> DEFINE R == OpToRel(<, Nat)
<1>1. IsWellFoundedOn(R, Nat)
  BY NatLessThanWellFounded
<1>2. PICK m \in S : \A k \in S : <<k, m>> \notin R
  <2> HIDE DEF R
  <2> QED  BY WFMin, <1>1
<1>3. ASSUME NEW k \in S PROVE m <= k
  <2>1. k \in Nat /\ m \in Nat
    OBVIOUS
  <2>2. ~ (k < m)
    BY <1>2, <2>1 DEF OpToRel
  <2> QED  BY <2>1, <2>2
<1> QED  BY <1>3

\* kmalloc never fails: the search always ends at a block it can use, at the
\* tail if nowhere else.
THEOREM HeapNeverNull == Spec => []NeverNull
<1>1. HeapInv => NeverNull
  <2> SUFFICES ASSUME HeapInv, NEW sz \in Sizes
               PROVE  \E i \in 1 .. Len(blks) : heap_find(i, sz)
    BY DEF NeverNull
  <2>1. Len(blks) \in 1 .. Len(blks) /\ Len(blks) \in Nat
    BY ChainFacts
  <2>2. Usable(Len(blks), sz)
    BY DEF Usable, HeapInv, Ends
  <2> DEFINE S == {i \in 1 .. Len(blks) : Usable(i, sz)}
  <2>3. PICK i \in S : \A k \in S : i <= k
    <3>1. S \in SUBSET Nat /\ S # {}
      BY <2>1, <2>2
    <3> HIDE DEF S
    <3> QED  BY Least, <3>1
  <2>4. \A j \in 1 .. (i - 1) : j \in 1 .. Len(blks) /\ ~ (i <= j)
    BY <2>1
  <2> QED  BY <2>3, <2>4 DEF heap_find
<1> QED  BY <1>1, HeapInvariant, PTL

-----------------------------------------------------------------------------
\* The chain does not grow for ever.

LEMMA UpToFacts ==
  ASSUME NEW s \in Nat
  PROVE  /\ IsFiniteSet(UpTo(s)) /\ Cardinality(UpTo(s)) \in Nat
         /\ Cardinality(UpTo(s)) <= Cardinality(Sizes) /\ Cardinality(Sizes) \in Nat
<1>1. IsFiniteSet(Sizes)
  BY HeapAssumption DEF HeapAssumption
<1>2. UpTo(s) \in SUBSET Sizes
  BY DEF UpTo
<1> QED  BY <1>1, <1>2, FS_Subset, FS_CardinalityType

\* There are fewer sizes up to a smaller one than up to one that is asked for.
LEMMA UpToSmaller ==
  ASSUME NEW s \in Sizes, NEW t \in Nat, t < s
  PROVE  Cardinality(UpTo(t)) < Cardinality(UpTo(s))
<1>1. s \in Nat /\ s \in UpTo(s)
  BY HeapAssumption DEF HeapAssumption, UpTo
<1>2. IsFiniteSet(UpTo(s)) /\ Cardinality(UpTo(s)) \in Nat /\ Cardinality(UpTo(t)) \in Nat
  BY <1>1, UpToFacts
<1>3. UpTo(t) \in SUBSET (UpTo(s) \ {s})
  <2>1. ASSUME NEW u \in UpTo(t)
        PROVE  u \in UpTo(s) /\ u # s
    <3>1. u \in Sizes /\ u \in Nat /\ u <= t
      BY HeapAssumption DEF HeapAssumption, UpTo
    <3> QED  BY <1>1, <3>1 DEF UpTo
  <2> QED  BY <2>1
<1>4. /\ IsFiniteSet(UpTo(s) \ {s})
      /\ Cardinality(UpTo(s) \ {s}) = Cardinality(UpTo(s)) - 1
  BY <1>1, <1>2, FS_RemoveElement
<1>5. Cardinality(UpTo(t)) <= Cardinality(UpTo(s)) - 1
  BY <1>3, <1>4, FS_Subset
<1> QED  BY <1>2, <1>5

LEMMA FewerTimes ==
  ASSUME NEW m \in Nat, NEW a \in Nat, NEW b \in Nat, m * a < m * b
  PROVE  a < b
<1> SUFFICES ASSUME b <= a PROVE FALSE
  OBVIOUS
<1> QED  BY m * b <= m * a, m * a \in Nat, m * b \in Nat

\* The block that first fit finds is within the band of its new size: otherwise
\* the MaxLive blocks before that band's end would all fit, and so be in use.
LEMMA FoundInBand ==
  ASSUME HeapInv, Banded, NEW sz \in Sizes, NEW i \in 2 .. Len(blks),
         heap_find(i, sz), Cardinality(Live) < MaxLive
  PROVE  i - 2 < MaxLive * Cardinality(UpTo(sz))
<1> DEFINE r == Cardinality(UpTo(sz))
           lo == MaxLive * (r - 1)
           hi == MaxLive * r
<1>1. Len(blks) \in Nat /\ sz \in Nat /\ MaxLive \in Nat
  BY ChainFacts, HeapAssumption DEF HeapAssumption
<1>2. r \in Nat /\ r # 0
  <2>1. IsFiniteSet(UpTo(sz)) /\ r \in Nat /\ sz \in UpTo(sz)
    BY <1>1, UpToFacts DEF UpTo
  <2> QED  BY <2>1, FS_EmptySet
<1> HIDE DEF r
<1>3. lo \in Nat /\ hi \in Nat /\ hi = lo + MaxLive /\ r - 1 \in Nat
  BY <1>1, <1>2
<1> SUFFICES ASSUME ~ (i - 2 < hi) PROVE FALSE
  BY DEF r
<1> HIDE DEF lo, hi
<1> DEFINE P == (lo + 2) .. (hi + 1)
<1>4. ASSUME NEW j \in P
      PROVE  j \in Live
  <2>1. j \in 2 .. Len(blks) - 1 /\ j \in 1 .. (i - 1) /\ lo <= j - 2 /\ j \in 1 .. Len(blks)
    BY <1>1, <1>3
  <2>2. blks[j].sz \in Nat
    BY <2>1, ChainFacts DEF Block
  <2> DEFINE c == Cardinality(UpTo(blks[j].sz))
  <2>3. c \in Nat
    BY <2>2, UpToFacts
  <2>4. j - 2 < MaxLive * c
    BY <2>1 DEF Banded
  <2> HIDE DEF c
  <2>5. r - 1 < c
    <3>1. MaxLive * c \in Nat
      BY <1>1, <2>3
    <3>2. MaxLive * (r - 1) < MaxLive * c
      BY <1>3, <2>1, <2>4, <3>1 DEF lo
    <3> QED  BY <1>1, <1>3, <2>3, <3>2, FewerTimes
  <2>6. ~ (blks[j].sz < sz)
    BY <1>2, <2>2, <2>3, <2>5, UpToSmaller DEF c, r
  <2>7. ~ Usable(j, sz)
    BY <2>1 DEF heap_find
  <2>8. ~ blks[j].av
    BY <1>1, <2>2, <2>6, <2>7 DEF Usable
  <2> QED  BY <1>1, <2>1, <2>8 DEF Live
<1>5. IsFiniteSet(Live)
  <2>1. IsFiniteSet(2 .. Len(blks))
    BY <1>1, FS_Interval
  <2>2. Live \in SUBSET (2 .. Len(blks))
    BY DEF Live
  <2> QED  BY <2>1, <2>2, FS_Subset
<1>6. Cardinality(P) = MaxLive
  <2>1. lo + 2 \in Int /\ hi + 1 \in Int
    BY <1>3
  <2>2. Cardinality(P) = IF lo + 2 > hi + 1 THEN 0 ELSE (hi + 1) - (lo + 2) + 1
    BY <2>1, FS_Interval
  <2> HIDE DEF P
  <2> QED  BY <1>1, <1>3, <2>2
<1>7. Cardinality(P) <= Cardinality(Live)
  <2>1. P \in SUBSET Live
    BY <1>4
  <2> HIDE DEF P
  <2> QED  BY <1>5, <2>1, FS_Subset
<1>8. Cardinality(Live) \in Nat
  BY <1>5, FS_CardinalityType
<1> QED  BY <1>1, <1>6, <1>7, <1>8

LEMMA MallocBanded ==
  ASSUME HeapInv, Banded, NEW sz \in Sizes, NEW i \in 2 .. Len(blks),
         MallocEffect(i, sz), Cardinality(Live) < MaxLive
  PROVE  Banded'
<1>1. Len(blks) \in Nat /\ Len(blks) >= 2
  BY ChainFacts
<1>2. i - 2 < MaxLive * Cardinality(UpTo(sz))
  BY FoundInBand DEF MallocEffect
<1>3. blks'[i].sz = sz
  BY <1>1 DEF MallocEffect, Take
<1>4. \A k \in 1 .. Len(blks) : k # i => blks'[k] = blks[k]
  BY DEF MallocEffect
<1>5. Len(blks') = IF i = Len(blks) THEN Len(blks) + 1 ELSE Len(blks)
  BY DEF MallocEffect
<1> SUFFICES ASSUME NEW k \in 2 .. Len(blks') - 1
             PROVE  k - 2 < MaxLive * Cardinality(UpTo(blks'[k].sz))
  BY DEF Banded, UpTo
<1>6. CASE k = i
  BY <1>2, <1>3, <1>6
<1>7. CASE k # i
  <2>1. k \in 2 .. Len(blks) - 1 /\ k \in 1 .. Len(blks)
    BY <1>1, <1>5, <1>7
  <2> QED  BY <1>4, <1>7, <2>1 DEF Banded
<1> QED  BY <1>6, <1>7

LEMMA FreeBanded ==
  ASSUME HeapInv, Banded, NEW i \in Live, blks' = [blks EXCEPT ![i].av = TRUE]
  PROVE  Banded'
<1>1. Len(blks) \in Nat /\ blks \in Seq(Block) /\ i \in 1 .. Len(blks)
  BY ChainFacts DEF Live
<1>2. blks[i] \in Block
  BY <1>1, ChainFacts
<1>3. Len(blks') = Len(blks) /\ \A k \in 1 .. Len(blks) : blks'[k].sz = blks[k].sz
  BY <1>1, <1>2 DEF Block
<1> QED  BY <1>1, <1>3 DEF Banded, UpTo

\* A kernel that holds at most MaxLive blocks at a time never has a chain of more
\* than MaxLive blocks for each size, however it frees and shrinks them.
THEOREM HeapBoundedGrowth == Spec => []BoundedGrowth
<1>1. Init => Banded
  BY DEF Init, heap_init, Banded
<1>2. HeapInv /\ Banded /\ [Next]_blks => Banded'
  <2> SUFFICES ASSUME HeapInv, Banded, [Next]_blks PROVE Banded'
    OBVIOUS
  <2>1. CASE Malloc
    <3>1. PICK sz \in Sizes : Cardinality(Live) < MaxLive /\ kmalloc(sz)
      BY <2>1 DEF Malloc
    <3> QED  BY <3>1, MallocStep, MallocBanded
  <2>2. CASE Free
    <3>1. PICK i \in Live : kfree(Data(blks[i]))
      BY <2>2 DEF Free
    <3> QED  BY <3>1, FreeStep, FreeBanded
  <2>3. CASE UNCHANGED blks
    BY <2>3 DEF Banded, UpTo
  <2> QED  BY <2>1, <2>2, <2>3 DEF Next
<1>3. HeapInv /\ Banded => BoundedGrowth
  <2> SUFFICES ASSUME HeapInv, Banded PROVE BoundedGrowth
    OBVIOUS
  <2>1. Len(blks) \in Nat /\ Len(blks) >= 2 /\ MaxLive \in Nat
    BY ChainFacts, HeapAssumption DEF HeapAssumption
  <2>2. Cardinality(Sizes) \in Nat
    BY UpToFacts
  <2>3. CASE Len(blks) = 2
    BY <2>1, <2>2, <2>3 DEF BoundedGrowth
  <2>4. CASE Len(blks) >= 3
    <3> DEFINE i == Len(blks) - 1
               c == Cardinality(UpTo(blks[i].sz))
    <3> HIDE DEF c
    <3>1. i \in 2 .. Len(blks) - 1 /\ i \in 1 .. Len(blks)
      BY <2>1, <2>4
    <3>2. blks[i].sz \in Nat
      BY <3>1, ChainFacts DEF Block
    <3>3. c \in Nat /\ c <= Cardinality(Sizes)
      BY <3>2, UpToFacts DEF c
    <3>4. i - 2 < MaxLive * c
      BY <3>1 DEF Banded, c
    <3>5. MaxLive * c <= MaxLive * Cardinality(Sizes) /\ MaxLive * c \in Nat
          /\ MaxLive * Cardinality(Sizes) \in Nat
      BY <2>1, <2>2, <3>3
    <3> QED  BY <2>1, <3>4, <3>5 DEF BoundedGrowth
  <2>5. \A n \in Nat : n >= 2 => n = 2 \/ n >= 3
    OBVIOUS
  <2> QED  BY <2>1, <2>3, <2>4, <2>5
<1> QED  BY <1>1, <1>2, <1>3, HeapInvariant, PTL DEF Spec

-----------------------------------------------------------------------------
\* The heap implements the abstract allocator.

\* A block that ends where another begins, or before, lies wholly below it.
LEMMA Apart ==
  ASSUME NEW b \in Block, NEW c \in Block, End(b) <= c.addr
  PROVE  Data(b) < Data(c) /\ Data(b) + b.sz <= Data(c)
BY HeapAssumption DEF HeapAssumption, Data, End, Block

RegionOf(b) == [p |-> Data(b), sz |-> b.sz]

\* The regions of two blocks in the chain are disjoint, and so differ.
LEMMA RegionsApart ==
  ASSUME HeapInv, NEW i \in 1 .. Len(blks), NEW j \in 1 .. Len(blks), i # j
  PROVE  /\ Alloc!Disjoint(RegionOf(blks[i]), RegionOf(blks[j]))
         /\ RegionOf(blks[i]) # RegionOf(blks[j])
<1>1. blks[i] \in Block /\ blks[j] \in Block /\ Len(blks) \in Nat
  BY ChainFacts
<1>2. i < j \/ j < i
  BY <1>1
<1>3. End(blks[i]) <= blks[j].addr \/ End(blks[j]) <= blks[i].addr
  BY <1>2 DEF HeapInv, Ordered
<1>4. /\ Data(blks[i]) \in Nat /\ Data(blks[j]) \in Nat
  BY <1>1, HeapAssumption DEF HeapAssumption, Data, Block
<1>5. \/ Data(blks[i]) < Data(blks[j]) /\ Data(blks[i]) + blks[i].sz <= Data(blks[j])
      \/ Data(blks[j]) < Data(blks[i]) /\ Data(blks[j]) + blks[j].sz <= Data(blks[i])
  BY Apart, <1>1, <1>3
<1>6. Data(blks[i]) # Data(blks[j])
  BY <1>4, <1>5
<1> QED  BY <1>5, <1>6 DEF Alloc!Disjoint, RegionOf

LEMMA MallocRegions ==
  ASSUME HeapInv, NEW sz \in Sizes, NEW i \in 2 .. Len(blks), MallocEffect(i, sz)
  PROVE  Alloc!Malloc
<1> DEFINE r == [p |-> Data(blks[i]), sz |-> sz]
<1>1. Len(blks) \in Nat /\ blks[i] \in Block /\ i \in 1 .. Len(blks)
  BY ChainFacts
<1>2. blks'[i] = Take(blks[i], sz)
  BY <1>1 DEF MallocEffect
<1>3. RegionOf(blks'[i]) = r /\ blks'[i].av = FALSE
  BY <1>2 DEF RegionOf, Take, Data
<1>4. \A k \in 1 .. Len(blks) : k # i => blks'[k] = blks[k]
  BY DEF MallocEffect
<1>5. i \notin Live /\ \A k \in Live : k \in 1 .. Len(blks) /\ k # i
  BY <1>1 DEF Live, MallocEffect
<1>6. Live' = Live \cup {i}
  <2>1. CASE i # Len(blks)
    BY <1>1, <1>3, <1>4, <2>1 DEF Live, MallocEffect
  <2>2. CASE i = Len(blks)
    <3>1. Len(blks') = Len(blks) + 1 /\ blks'[Len(blks) + 1].av = TRUE
      BY <2>2 DEF MallocEffect, NewTail
    <3>2. 2 .. Len(blks) + 1 = (2 .. Len(blks)) \cup {Len(blks) + 1}
      BY <1>1
    <3> QED  BY <1>1, <1>3, <1>4, <3>1, <3>2 DEF Live
  <2> QED  BY <2>1, <2>2
<1>7. Regions' = Regions \cup {r}
  <2>1. Regions = {RegionOf(blks[k]) : k \in Live}
    BY DEF Regions, RegionOf
  <2>2. Regions' = {RegionOf(blks'[k]) : k \in Live'}
    BY DEF Regions, RegionOf, Data
  <2>3. \A k \in Live : RegionOf(blks'[k]) = RegionOf(blks[k])
    BY <1>4, <1>5
  <2> QED  BY <1>3, <1>6, <2>1, <2>2, <2>3
<1>8. \A k \in Live : /\ Alloc!Disjoint(r, RegionOf(blks[k]))
                      /\ r # RegionOf(blks[k])
  <2> SUFFICES ASSUME NEW k \in Live
               PROVE  Alloc!Disjoint(r, RegionOf(blks[k])) /\ r # RegionOf(blks[k])
    OBVIOUS
  <2>1. blks[k] \in Block /\ k \in 1 .. Len(blks) /\ k # i /\ sz \in Nat
    BY <1>5, ChainFacts, HeapAssumption DEF HeapAssumption
  <2>2. /\ Data(blks[i]) \in Nat /\ Data(blks[k]) \in Nat
    BY <1>1, <2>1, HeapAssumption DEF HeapAssumption, Data, Block
  <2>3. CASE k < i
    <3>1. End(blks[k]) <= blks[i].addr
      BY <1>1, <2>1, <2>3 DEF HeapInv, Ordered
    <3>2. Data(blks[k]) < Data(blks[i]) /\ Data(blks[k]) + blks[k].sz <= Data(blks[i])
      BY Apart, <1>1, <2>1, <3>1
    <3>3. Data(blks[k]) # Data(blks[i])
      BY <2>2, <3>2
    <3> QED  BY <3>2, <3>3 DEF Alloc!Disjoint, RegionOf
  <2>4. CASE i < k
    <3>1. End(blks[i]) <= blks[k].addr
      BY <1>1, <2>1, <2>4 DEF HeapInv, Ordered
    <3>2. sz <= blks[i].sz
      <4>1. i # Len(blks)
        BY <1>1, <2>1, <2>4
      <4> QED  BY <4>1 DEF MallocEffect
    <3>3. Data(blks[i]) < Data(blks[k]) /\ Data(blks[i]) + blks[i].sz <= Data(blks[k])
      BY Apart, <1>1, <2>1, <3>1
    <3>4. blks[i].sz \in Nat
      BY <1>1 DEF Block
    <3>5. Data(blks[i]) # Data(blks[k]) /\ Data(blks[i]) + sz <= Data(blks[k])
      BY <2>1, <2>2, <3>2, <3>3, <3>4
    <3> QED  BY <3>3, <3>5 DEF Alloc!Disjoint, RegionOf
  <2> QED  BY <1>1, <2>1, <2>3, <2>4
<1>9. Regions = {RegionOf(blks[k]) : k \in Live}
  BY DEF Regions, RegionOf
<1>10. r \in Alloc!Region
  BY <1>1, HeapAssumption DEF HeapAssumption, Alloc!Region, Data, Block
<1> HIDE DEF r
<1>11. r \in Regions' \ Regions /\ \A s \in Regions : Alloc!Disjoint(r, s)
  BY <1>7, <1>8, <1>9
<1> QED  BY <1>7, <1>10, <1>11 DEF Alloc!Malloc

LEMMA FreeRegions ==
  ASSUME HeapInv, NEW i \in Live, NEW b, b = [blks[i] EXCEPT !.av = TRUE],
         blks' = [blks EXCEPT ![i] = b]
  PROVE  Alloc!Free
<1>1. Len(blks) \in Nat /\ blks \in Seq(Block) /\ i \in 1 .. Len(blks) /\ i # 1
  BY ChainFacts DEF Live
<1>2. blks[i] \in Block
  BY <1>1, ChainFacts
<1>3. b = [addr |-> blks[i].addr, sz |-> blks[i].sz, av |-> TRUE]
  BY <1>2 DEF Block
<1>4. b.av = TRUE /\ b \in Block
  BY <1>2, <1>3 DEF Block
<1>5. /\ Len(blks') = Len(blks)
      /\ \A k \in 1 .. Len(blks) : blks'[k] = IF k = i THEN b ELSE blks[k]
  BY ExceptSeq, <1>1, <1>4
<1>6. Live' = Live \ {i}
  BY <1>1, <1>4, <1>5 DEF Live
<1>7. \A k \in Live \ {i} : k \in 1 .. Len(blks) /\ RegionOf(blks'[k]) = RegionOf(blks[k])
  BY <1>1, <1>5 DEF Live
<1>8. \A k \in Live \ {i} : RegionOf(blks[k]) # RegionOf(blks[i])
  BY RegionsApart, <1>1, <1>7
<1>9. Regions = {RegionOf(blks[k]) : k \in Live}
  BY DEF Regions, RegionOf
<1>10. Regions' = {RegionOf(blks'[k]) : k \in Live'}
  BY DEF Regions, RegionOf, Data
<1>11. Regions' = Regions \ {RegionOf(blks[i])}
  BY <1>6, <1>7, <1>8, <1>9, <1>10
<1>12. RegionOf(blks[i]) \in Regions
  BY <1>9
<1> QED  BY <1>11, <1>12 DEF Alloc!Free

\* Every behaviour of the heap is one of the abstract allocator: what kmalloc
\* hands out is disjoint from everything handed out before, and stays as it is
\* until kfree takes it back.
THEOREM HeapImplementsAllocator == Spec => AllocSpec
<1>1. Init => Alloc!Init
  <2> SUFFICES ASSUME Init PROVE Regions = {}
    BY DEF Alloc!Init
  <2>1. Len(blks) = 2 /\ blks[2].av = TRUE
    BY DEF Init, heap_init
  <2>2. Live = {}
    BY <2>1 DEF Live
  <2> QED  BY <2>2 DEF Regions
<1>2. HeapInv /\ [Next]_blks => [Alloc!Next]_Regions
  <2> SUFFICES ASSUME HeapInv, [Next]_blks PROVE [Alloc!Next]_Regions
    OBVIOUS
  <2>1. CASE Malloc
    <3>1. PICK sz \in Sizes : kmalloc(sz)
      BY <2>1 DEF Malloc
    <3> QED  BY <3>1, MallocStep, MallocRegions DEF Alloc!Next
  <2>2. CASE Free
    <3>1. PICK i \in Live : kfree(Data(blks[i]))
      BY <2>2 DEF Free
    <3>2. blks' = [blks EXCEPT ![i].av = TRUE]
      BY <3>1, FreeStep
    <3> QED  BY <3>2, FreeRegions DEF Alloc!Next
  <2>3. CASE UNCHANGED blks
    BY <2>3 DEF Regions, Live, Data
  <2> QED  BY <2>1, <2>2, <2>3 DEF Next
<1> QED  BY <1>1, <1>2, HeapInvariant, PTL DEF Spec, AllocSpec, Alloc!Spec
=============================================================================
