-------------------------------- MODULE Heap --------------------------------
(***************************************************************************)
(* The kernel heap: src/kernel/heap.c.                                     *)
(*                                                                         *)
(* The heap is a chain of block headers, each followed by its data.  blks  *)
(* is that chain from `head' to the block whose n is NULL; the p links are *)
(* written by the code and read by nobody, so they are left out.  The code *)
(* neither splits nor joins blocks: a block that is reused keeps its place *)
(* in the chain, and its sz becomes the size asked for, for good.          *)
(***************************************************************************)
EXTENDS Integers, Sequences, FiniteSets

CONSTANTS
  Base,       \* the address of `head' (0x100000)
  HdrSize,    \* sizeof(struct heap_block_hdr)
  Sizes,      \* the sizes the kernel asks for
  MaxLive     \* bound: how many blocks the kernel holds at a time

ASSUME HeapAssumption ==
  /\ Base \in Nat
  /\ HdrSize \in Nat \ {0}
  /\ Sizes \subseteq Nat /\ IsFiniteSet(Sizes)
  /\ MaxLive \in Nat

VARIABLE blks   \* the chain: a sequence of [addr, sz, av]

Block == [addr : Nat, sz : Nat, av : BOOLEAN]

Data(b) == b.addr + HdrSize             \* (void *)(b + 1)
End(b)  == b.addr + HdrSize + b.sz      \* the first byte after b's data

\* The blocks that some caller holds.  The first block is the sentinel that
\* heap_init makes: it is never available and nobody has a pointer to it.
Live == { i \in 2 .. Len(blks) : ~ blks[i].av }

-----------------------------------------------------------------------------
heap_init ==
  blks = << [addr |-> Base,           sz |-> 0, av |-> FALSE],
            [addr |-> Base + HdrSize, sz |-> 0, av |-> TRUE] >>

\* Mutations: a block in use taken again; a fit that must be strict; the rule
\* for the last block forgotten.
UsableInUse(i, sz)  == blks[i].sz >= sz \/ i = Len(blks)
UsableStrict(i, sz) == (blks[i].sz > sz \/ i = Len(blks)) /\ blks[i].av
UsableNoTail(i, sz) == blks[i].sz >= sz /\ blks[i].av

Usable(i, sz) == (blks[i].sz >= sz \/ i = Len(blks)) /\ blks[i].av

\* Block i is what heap_find(head, sz) returns: the first usable one.
heap_find(i, sz) == /\ Usable(i, sz)
                    /\ \A j \in 1 .. (i - 1) : ~ Usable(j, sz)

\* Mutations: the new tail laid over the data of the block before it; the new tail
\* never freed.
TailAtData(b)   == [addr |-> Data(b), sz |-> 0, av |-> TRUE]
TailInUse(b)    == [addr |-> End(b), sz |-> 0, av |-> FALSE]

Take(b, sz) == [addr |-> b.addr, sz |-> sz, av |-> FALSE]
NewTail(b)  == [addr |-> End(b), sz |-> 0, av |-> TRUE]

\* heap_find returning NULL would leave the heap as it is: NeverNull below.
kmalloc(sz) ==
  \E i \in 1 .. Len(blks) :
    /\ heap_find(i, sz)
    /\ LET b == Take(blks[i], sz)
           c == [blks EXCEPT ![i] = b]
       IN  blks' = IF i = Len(blks) THEN Append(c, NewTail(b)) ELSE c

kfree(p) ==
  \E i \in 1 .. Len(blks) : /\ blks[i].addr = p - HdrSize
                            /\ blks' = [blks EXCEPT ![i].av = TRUE]

\* The kernel asks for memory while it holds fewer than MaxLive blocks, and
\* frees only what it holds.
Malloc == \E sz \in Sizes : Cardinality(Live) < MaxLive /\ kmalloc(sz)
Free   == \E i \in Live : kfree(Data(blks[i]))

Init == heap_init
Next == Malloc \/ Free
Spec == Init /\ [][Next]_blks

-----------------------------------------------------------------------------
\* The chain is a sequence of headers of which there are at least two, and a
\* size is zero or one that was asked for.
TypeOK ==
  /\ blks \in Seq(Block)
  /\ Len(blks) >= 2
  /\ \A i \in 1 .. Len(blks) : blks[i].sz \in Sizes \cup {0}

\* Writing all of the memory kmalloc returned never touches a header of the
\* chain or another block's data, however blocks were reused and shrunk.
MemorySafe ==
  \A i \in Live : \A j \in 1 .. Len(blks) \ {i} :
     \/ End(blks[i]) <= blks[j].addr
     \/ End(blks[j]) <= blks[i].addr

\* kmalloc never reaches its `return NULL' (heap.c:40): whatever the size, the
\* search ends at a block it can use.
NeverNull == \A sz \in Sizes : \E i \in 1 .. Len(blks) : heap_find(i, sz)

\* Shrinking blocks for good fragments the heap, but only so far: with first
\* fit a chain has at most MaxLive blocks for each size in use, so a kernel
\* that frees what it takes does not grow its heap for ever.
BoundedGrowth == Len(blks) - 2 <= MaxLive * Cardinality(Sizes)

-----------------------------------------------------------------------------
\* The inductive invariant: the sentinel stays taken, the tail stays free and
\* empty, and the chain is laid out in order of address without overlap.
Ends == /\ blks[1].av = FALSE
        /\ blks[Len(blks)].av = TRUE
        /\ blks[Len(blks)].sz = 0

Ordered == \A i, j \in 1 .. Len(blks) : i < j => End(blks[i]) <= blks[j].addr

HeapInv == TypeOK /\ Ends /\ Ordered

\* Why the chain is bounded.  A block is small only near the beginning: with as many
\* blocks before it, of some size or larger, as can be in use, it is never given to
\* a request for that size, and so never shrunk to it.
UpTo(s) == { t \in Sizes : t <= s }
Banded  == \A i \in 2 .. Len(blks) - 1 : i - 2 < MaxLive * Cardinality(UpTo(blks[i].sz))

-----------------------------------------------------------------------------
\* The heap implements the abstract allocator: each kmalloc hands out a fresh
\* region, each kfree takes back one, and no region handed out ever changes.
Regions == { [p |-> Data(blks[i]), sz |-> blks[i].sz] : i \in Live }

Alloc == INSTANCE Allocator WITH live <- Regions
AllocSpec == Alloc!Spec
=============================================================================
