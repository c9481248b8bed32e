---------------------------- MODULE KernHeapProofs ----------------------------
(***************************************************************************)
(* Proofs about KernHeap, for a heap of any size and place and requests of *)
(* any size, up to the step at which the code goes wrong: cut_block_end    *)
(* wraps around, or a realloc grows a block beyond LARGEST_BLOCK.          *)
(***************************************************************************)
EXTENDS KernHeap, FiniteSetTheorems, TLAPS

Disjoint(S) == \A b, c \in S : b # c => Apart(b, c)
Across(S, T) == \A b \in S, c \in T : Apart(b, c)

(* Part of a block. *)
Within(b, c) == c.ptr <= b.ptr /\ End(b) <= End(c)

Rec == [ptr : Nat, size : Nat]
Asked == {n + Header : n \in Requests}

(* The blocks in the lists F and those L that callers have. *)
BlocksOK(F, L) ==
    /\ \A b \in F \cup L : IsBlock(b)
    /\ Disjoint(F) /\ Disjoint(L) /\ Across(F, L)

(* A block in hand, which may be empty, is apart from those. *)
InHandOK(F, L, b) ==
    /\ b \in Rec
    /\ b.size # 0 => IsBlock(b) /\ Across(F, {b}) /\ Across(L, {b})

HandOK(F, L, b, c) ==
    /\ InHandOK(F, L, b) /\ InHandOK(F, L, c)
    /\ b.size # 0 /\ c.size # 0 => Apart(b, c)

(* What each loop knows of the size that was asked for and of the block    *)
(* realloc was called with.                                                *)
LoopInv ==
    /\ pc \in Locations
    /\ pc = "idle" => work = NoBlock
    /\ pc # "idle" => work.size # 0
    /\ pc \notin {"split", "cut"} => rest = NoBlock
    /\ pc = "split" => want \in Asked /\ want <= work.size /\ (rest.size = 0 => rest = NoBlock)
    /\ pc \in {"grow forward", "grow back", "grown"} =>
        want \in Asked /\ IsBlock(origin) /\ Within(origin, work)

(* The inductive invariant: NoOverlap, extended to the blocks of the call  *)
(* in progress.                                                            *)
HeapInv ==
    /\ BlocksOK(free, live)
    /\ HandOK(free, live, work, rest)
    /\ heapFree \in 0 .. UintRange - 1
    /\ lost \subseteq HeapStart .. HeapStart + HeapSize - 1
    /\ want \in Nat
    /\ LoopInv

-----------------------------------------------------------------------------
LEMMA ModType ==
  ASSUME NEW n \in Int
  PROVE  n % UintRange \in 0 .. UintRange - 1
BY HeapAssumption DEF SmallestBlock

LEMMA DifferenceType ==
  ASSUME NEW m \in 0 .. UintRange - 1, NEW n \in 1 .. UintRange - 1
  PROVE  (m - n) % UintRange \in 0 .. UintRange - 1
BY HeapAssumption, ModType

LEMMA BlockBounds ==
  ASSUME NEW b, IsBlock(b)
  PROVE  /\ b.ptr \in 1 .. UintRange - 1 /\ b.size \in 1 .. UintRange - 1
         /\ End(b) \in 1 .. UintRange - 1
         /\ b = Block(b.ptr, b.size)
         /\ b.size >= SmallestBlock
         /\ ~Apart(b, b)
BY HeapAssumption DEF IsBlock, End, Block, SmallestBlock, Apart

LEMMA NoBlockFacts == NoBlock.ptr = 0 /\ NoBlock.size = 0 /\ NoBlock \in [ptr : Nat, size : Nat]
BY DEF NoBlock, Block

LEMMA WithinTransitive ==
  ASSUME NEW b, NEW c, NEW d, IsBlock(b), IsBlock(c), IsBlock(d), Within(b, c), Within(c, d)
  PROVE  Within(b, d)
<1>1. /\ b.ptr \in Nat /\ c.ptr \in Nat /\ d.ptr \in Nat
      /\ End(b) \in Nat /\ End(c) \in Nat /\ End(d) \in Nat
  BY DEF IsBlock, End
<1> QED BY <1>1 DEF Within

(* A piece of the block in hand goes into the lists. *)
LEMMA InsertKeeps ==
  ASSUME NEW F, NEW L, NEW b, NEW c, BlocksOK(F, L), HandOK(F, L, b, c), b.size # 0,
         NEW p, IsBlock(p), Within(p, b),
         NEW d \in Rec, d.size # 0 => IsBlock(d) /\ Within(d, b) /\ Apart(p, d)
  PROVE  BlocksOK(F \cup {p}, L) /\ HandOK(F \cup {p}, L, d, c)
<1>1. \A e \in F \cup L : IsBlock(e) /\ Apart(e, b)
  BY DEF BlocksOK, HandOK, InHandOK, Across
<1>2. IsBlock(b) /\ c \in Rec /\ (c.size # 0 => Apart(b, c) /\ IsBlock(c))
  BY DEF HandOK, InHandOK
<1>3. \A e \in F \cup L : Apart(e, p) /\ Apart(p, e)
  BY <1>1, <1>2 DEF IsBlock, Apart, Within, End
<1>4. d.size # 0 => \A e \in F \cup L : Apart(e, d)
  BY <1>1, <1>2 DEF IsBlock, Apart, Within, End
<1>5. c.size # 0 => Apart(p, c) /\ (d.size # 0 => Apart(d, c))
  BY <1>2 DEF IsBlock, Apart, Within, End
<1>6. BlocksOK(F \cup {p}, L)
  BY <1>1, <1>3 DEF BlocksOK, Disjoint, Across
<1>7. InHandOK(F \cup {p}, L, d)
  BY <1>4 DEF InHandOK, Across
<1>8. InHandOK(F \cup {p}, L, c)
  BY <1>5 DEF HandOK, InHandOK, Across
<1> QED BY <1>5, <1>6, <1>7, <1>8 DEF HandOK

LEMMA HandSymmetric ==
  ASSUME NEW F, NEW L, NEW b, NEW c, HandOK(F, L, b, c)
  PROVE  HandOK(F, L, c, b)
BY DEF HandOK, Apart

(* A block leaves the lists and is in hand beside another. *)
LEMMA AcquireKeeps ==
  ASSUME NEW F, NEW L, NEW b, BlocksOK(F, L), InHandOK(F, L, b), NEW p \in F
  PROVE  BlocksOK(F \ {p}, L) /\ HandOK(F \ {p}, L, p, b)
<1>1. BlocksOK(F \ {p}, L)
  BY DEF BlocksOK, Disjoint, Across
<1>2. IsBlock(p) /\ p \in Rec
  BY DEF BlocksOK, IsBlock, Rec
<1>3. (\A e \in F \ {p} : Apart(e, p)) /\ (\A e \in L : Apart(e, p))
  BY DEF BlocksOK, Disjoint, Across, Apart
<1>4. InHandOK(F \ {p}, L, p)
  BY <1>2, <1>3 DEF InHandOK, Across
<1>5. InHandOK(F \ {p}, L, b) /\ (b.size # 0 => Apart(p, b))
  BY DEF InHandOK, Across
<1> QED BY <1>1, <1>4, <1>5 DEF HandOK

(* A neighbour leaves the lists and becomes part of the block in hand. *)
LEMMA SwallowKeeps ==
  ASSUME NEW F, NEW L, NEW b, NEW c, BlocksOK(F, L), HandOK(F, L, b, c), b.size # 0,
         NEW p \in F, End(p) = b.ptr \/ p.ptr = End(b),
         NEW d, d = Block(IF p.ptr < b.ptr THEN p.ptr ELSE b.ptr, b.size + p.size)
  PROVE  BlocksOK(F \ {p}, L) /\ HandOK(F \ {p}, L, d, c) /\ d.size # 0 /\ Within(b, d)
<1>1. BlocksOK(F \ {p}, L) /\ HandOK(F \ {p}, L, p, c)
  BY AcquireKeeps DEF HandOK
<1>2. IsBlock(p) /\ IsBlock(b) /\ (c.size # 0 => IsBlock(c))
  BY DEF HandOK, InHandOK, BlocksOK
<1>3. IsBlock(d) /\ d \in Rec /\ Within(b, d) /\ d.size # 0
  BY <1>2 DEF IsBlock, End, Block, Within, SmallestBlock, Rec
<1>4. \A e : IsBlock(e) /\ Apart(e, p) /\ Apart(e, b) => Apart(e, d)
  BY <1>2 DEF IsBlock, End, Block, Apart
<1>5. \A e \in (F \ {p}) \cup L : IsBlock(e) /\ Apart(e, p) /\ Apart(e, b)
  BY <1>1, <1>2 DEF BlocksOK, HandOK, InHandOK, Across, IsBlock
<1>6. InHandOK(F \ {p}, L, d)
  BY <1>3, <1>4, <1>5 DEF InHandOK, Across
<1>7. c.size # 0 => Apart(d, c)
  <2> SUFFICES ASSUME c.size # 0 PROVE Apart(d, c)
    OBVIOUS
  <2>1. Apart(c, p) /\ Apart(c, b)
    BY <1>1, <1>2 DEF HandOK, Apart, IsBlock
  <2> QED BY <1>2, <1>4, <2>1 DEF Apart
<1> QED BY <1>1, <1>3, <1>6, <1>7 DEF HandOK

(* A call returns one of the blocks in hand to its caller. *)
LEMMA ReturnKeeps ==
  ASSUME NEW F, NEW L, NEW b, NEW c, BlocksOK(F, L), HandOK(F, L, b, c), b.size # 0,
         NEW p, IsBlock(p), Within(p, b)
  PROVE  BlocksOK(F, L \cup {p}) /\ HandOK(F, L \cup {p}, c, NoBlock)
<1>1. \A e \in F \cup L : IsBlock(e) /\ Apart(e, b)
  BY DEF BlocksOK, HandOK, InHandOK, Across
<1>2. IsBlock(b) /\ c \in Rec /\ (c.size # 0 => Apart(b, c) /\ IsBlock(c))
  BY DEF HandOK, InHandOK
<1>3. \A e \in F \cup L : Apart(e, p) /\ Apart(p, e)
  BY <1>1, <1>2 DEF IsBlock, Apart, Within, End
<1>4. c.size # 0 => Apart(p, c)
  BY <1>2 DEF IsBlock, Apart, Within, End
<1>5. BlocksOK(F, L \cup {p})
  BY <1>1, <1>3 DEF BlocksOK, Disjoint, Across
<1>6. InHandOK(F, L \cup {p}, c)
  BY <1>4 DEF HandOK, InHandOK, Across
<1>7. InHandOK(F, L \cup {p}, NoBlock) /\ NoBlock.size = 0
  BY NoBlockFacts DEF InHandOK, Rec
<1> QED BY <1>5, <1>6, <1>7 DEF HandOK

(* A caller gives a block back. *)
LEMMA TakeKeeps ==
  ASSUME NEW F, NEW L, BlocksOK(F, L), NEW p \in L
  PROVE  BlocksOK(F, L \ {p}) /\ HandOK(F, L \ {p}, p, NoBlock) /\ IsBlock(p)
<1>1. BlocksOK(F, L \ {p})
  BY DEF BlocksOK, Disjoint, Across
<1>2. IsBlock(p) /\ p \in Rec
  BY DEF BlocksOK, IsBlock, Rec
<1>3. (\A e \in F : Apart(e, p)) /\ (\A e \in L \ {p} : Apart(e, p))
  BY DEF BlocksOK, Disjoint, Across
<1>4. InHandOK(F, L \ {p}, p)
  BY <1>2, <1>3 DEF InHandOK, Across
<1>5. InHandOK(F, L \ {p}, NoBlock) /\ NoBlock.size = 0
  BY NoBlockFacts DEF InHandOK, Rec
<1> QED BY <1>1, <1>2, <1>4, <1>5 DEF HandOK

LEMMA ModSmall ==
  ASSUME NEW n \in 0 .. UintRange - 1
  PROVE  n % UintRange = n
BY HeapAssumption

LEMMA AskedFacts ==
  ASSUME NEW size \in Asked
  PROVE  /\ size \in Nat \ {0}
         /\ RoundUp(size) \in Nat /\ RoundUp(size) >= size
BY HeapAssumption, RequestAssumption DEF Asked, Header

(* Trouble is not forgotten. *)
LEMMA TroubleStays ==
  ASSUME [Next]_vars
  PROVE  trouble \subseteq trouble' /\ trouble' \subseteq trouble \cup {"wrapped", "outgrown"}
<1>1. CASE UNCHANGED vars
  BY <1>1 DEF vars
<1>2. CASE \E n \in Requests : Malloc(n) \/ \E b \in live : Realloc(b, n)
  BY <1>2 DEF Malloc, Realloc, StartCut
<1>3. CASE \E b \in live : Free(b)
  BY <1>3 DEF Free
<1>4. CASE SplitBlock \/ SplitDone \/ InsertBlocks \/ CutBlockEnd
  BY <1>4 DEF SplitBlock, SplitDone, InsertBlocks, CutBlockEnd
<1>5. CASE MergeForward \/ MergeBack
  BY <1>5 DEF MergeForward, MergeBack, Merge, Goto
<1>6. CASE GrowForward \/ GrowBack
  BY <1>6 DEF GrowForward, GrowBack, Grow, Goto
<1>7. CASE GrownEnough \/ GrownShort \/ ReallocFails
  BY <1>7 DEF GrownEnough, GrownShort, ReallocFails, StartCut
<1> QED BY <1>1, <1>2, <1>3, <1>4, <1>5, <1>6, <1>7 DEF Next

(* A cut that does not wrap around keeps a part of the block. *)
LEMMA KeptPart ==
  ASSUME NEW b, IsBlock(b), NEW size \in Asked, StartCut(b, size), ~Wrapped'
  PROVE  /\ Kept(size) \in Nat \ {0} /\ Kept(size) % SmallestBlock = 0
         /\ Kept(size) <= b.size
<1>1. size \in Nat
  BY AskedFacts
<1>2. Kept(size) \in Nat \ {0} /\ Kept(size) % SmallestBlock = 0
  BY <1>1 DEF Kept, SmallestBlock
<1>3. b.size \in Nat
  BY DEF IsBlock
<1>4. ~ (Kept(size) > b.size)
  BY DEF StartCut, Wrapped
<1> QED BY <1>2, <1>3, <1>4

(* cut_block_end keeps a part of the block and the rest is what follows. *)
LEMMA CutKeeps ==
  ASSUME NEW F, NEW L, NEW b, BlocksOK(F, L), HandOK(F, L, b, NoBlock), b.size # 0,
         NEW size \in Asked,
         Kept(size) \in Nat \ {0}, Kept(size) % SmallestBlock = 0, Kept(size) <= b.size,
         NEW keep, keep = Block(b.ptr, Kept(size)),
         NEW end, end = Block(b.ptr + Kept(size), (b.size - Kept(size)) % UintRange)
  PROVE  HandOK(F, L, keep, end) /\ keep.size # 0
<1>1. IsBlock(b)
  BY DEF HandOK, InHandOK
<1>2. /\ Kept(size) \in Nat \ {0} /\ Kept(size) % SmallestBlock = 0
      /\ Kept(size) <= b.size
  OBVIOUS
<1>3. (b.size - Kept(size)) % UintRange = b.size - Kept(size)
  <2>1. b.size \in 1 .. UintRange - 1 /\ UintRange \in Nat
    BY <1>1, BlockBounds, HeapAssumption
  <2>2. b.size - Kept(size) \in 0 .. UintRange - 1
    BY <1>2, <2>1
  <2> QED BY <2>2, ModSmall
<1>4. /\ IsBlock(keep) /\ keep \in Rec /\ keep.size # 0
      /\ Within(keep, b)
  BY <1>1, <1>2, HeapAssumption DEF IsBlock, Block, End, Within, Rec
<1>5. /\ end \in Rec
      /\ end.size # 0 => IsBlock(end) /\ Within(end, b) /\ Apart(keep, end)
  <2>1. /\ end.ptr = b.ptr + Kept(size) /\ end.size = b.size - Kept(size) /\ end \in Rec
        /\ keep.ptr = b.ptr /\ keep.size = Kept(size)
    BY <1>1, <1>2, <1>3 DEF IsBlock, Block, Rec
  <2>2. end.ptr % SmallestBlock = 0 /\ end.size % SmallestBlock = 0
    BY <1>1, <1>2, <2>1 DEF IsBlock, SmallestBlock
  <2> QED BY <1>1, <1>2, <2>1, <2>2, HeapAssumption DEF IsBlock, End, Within, Apart, Rec
<1>6. \A e \in F \cup L : IsBlock(e) /\ Apart(e, b)
  BY DEF BlocksOK, HandOK, InHandOK, Across
<1>7. \A e \in F \cup L : Apart(e, keep) /\ (end.size # 0 => Apart(e, end))
  BY <1>1, <1>4, <1>5, <1>6 DEF IsBlock, Apart, Within, End
<1> QED BY <1>4, <1>5, <1>7 DEF HandOK, InHandOK, Across

(* A power of two that is broken off a block. *)
LEMMA RoundFacts ==
  ASSUME NEW n \in 1 .. UintRange - 1, n >= SmallestBlock
  PROVE  RoundDown(n) \in 1 .. n /\ RoundDown(n) % SmallestBlock = 0
BY RoundAssumption

LEMMA AddrFacts ==
  ASSUME NEW b, IsBlock(b)
  PROVE  AddrSize(b.ptr) \in Nat \ {0} /\ AddrSize(b.ptr) % SmallestBlock = 0
<1>1. b.ptr \in 1 .. UintRange - 1 /\ b.ptr % SmallestBlock = 0
  BY BlockBounds DEF IsBlock
<1> QED BY <1>1, AddrAssumption

-----------------------------------------------------------------------------
(* The largest blocks one after the other, from the start of the heap. *)
LEMMA Multiples ==
  ASSUME NEW i \in Nat, NEW j \in Nat, i < j
  PROVE  LargestBlock * i + LargestBlock <= LargestBlock * j
<1>1. LargestBlock * (j - i - 1) >= 0
  BY HeapAssumption
<1>2. LargestBlock * (j - i - 1) = LargestBlock * j - LargestBlock * i - LargestBlock
  BY HeapAssumption
<1>3. LargestBlock * i \in Int /\ LargestBlock * j \in Int
  BY HeapAssumption
<1> QED BY <1>1, <1>2, <1>3, HeapAssumption

LEMMA MultipleOfSmallest ==
  ASSUME NEW i \in Nat
  PROVE  LargestBlock * i \in Nat /\ (LargestBlock * i) % SmallestBlock = 0
<1> DEFINE m == LargestBlock \div 4
<1>1. m \in Nat /\ LargestBlock = 4 * m
  BY HeapAssumption DEF SmallestBlock
<1>2. m * i \in Nat
  BY <1>1
<1>3. LargestBlock * i = 4 * (m * i)
  BY <1>1
<1>4. \A k \in Nat : 4 * k \in Nat /\ (4 * k) % 4 = 0
  OBVIOUS
<1> QED BY <1>2, <1>3, <1>4 DEF SmallestBlock

LEMMA WholeHeapOK == BlocksOK(WholeHeap, {})
<1> DEFINE Index == 0 .. (HeapSize \div LargestBlock) - 1
           At(i) == Block(HeapStart + LargestBlock * i, LargestBlock)
<1>1. \A b \in WholeHeap : \E i \in Index : b = At(i)
  BY DEF WholeHeap
<1>2. ASSUME NEW i \in Index PROVE IsBlock(At(i))
  <2>1. /\ LargestBlock * (HeapSize \div LargestBlock) = HeapSize
        /\ (HeapSize \div LargestBlock) \in Nat
    BY HeapAssumption
  <2>2. LargestBlock * i + LargestBlock <= HeapSize
    BY <2>1, Multiples
  <2>3. LargestBlock * i \in Nat /\ (LargestBlock * i) % SmallestBlock = 0
    BY MultipleOfSmallest, <2>1
  <2>4. (HeapStart + LargestBlock * i) % SmallestBlock = 0
    BY <2>3, HeapAssumption DEF SmallestBlock
  <2> QED BY <2>2, <2>3, <2>4, HeapAssumption DEF IsBlock, Block, End
<1>3. ASSUME NEW i \in Index, NEW j \in Index, At(i) # At(j) PROVE Apart(At(i), At(j))
  <2>1. i \in Nat /\ j \in Nat /\ (HeapSize \div LargestBlock) \in Nat
    BY HeapAssumption
  <2>2. LargestBlock * i \in Nat /\ LargestBlock * j \in Nat
    BY <2>1, MultipleOfSmallest
  <2>3. i < j \/ j < i
    BY <1>3, <2>1 DEF Block
  <2>4. LargestBlock * i + LargestBlock <= LargestBlock * j \/ LargestBlock * j + LargestBlock <= LargestBlock * i
    BY <2>1, <2>3, Multiples
  <2> QED BY <2>2, <2>4, HeapAssumption DEF Apart, End, Block
<1>4. \A b \in WholeHeap : IsBlock(b)
  BY <1>1, <1>2
<1>5. Disjoint(WholeHeap)
  <2> SUFFICES ASSUME NEW b \in WholeHeap, NEW c \in WholeHeap, b # c PROVE Apart(b, c)
    BY DEF Disjoint
  <2>1. PICK i \in Index : b = At(i)
    BY <1>1
  <2>2. PICK j \in Index : c = At(j)
    BY <1>1
  <2> QED BY <1>3, <2>1, <2>2
<1> QED BY <1>4, <1>5 DEF BlocksOK, Disjoint, Across

LEMMA InitInv == Init => HeapInv
<1> SUFFICES ASSUME Init PROVE HeapInv
  OBVIOUS
<1>1. BlocksOK(free, live)
  BY WholeHeapOK DEF Init
<1>2. HandOK(free, live, work, rest)
  BY NoBlockFacts DEF Init, HandOK, InHandOK, Rec
<1>3. LoopInv
  BY DEF Init, LoopInv, Locations
<1> QED BY <1>1, <1>2, <1>3, HeapAssumption DEF HeapInv, Init

-----------------------------------------------------------------------------
LEMMA AcquireBlockKeeps ==
  ASSUME HeapInv, NEW size \in Asked, NEW c, InHandOK(free, live, c),
         AcquireBlock(size)
  PROVE  /\ BlocksOK(free', live) /\ HandOK(free', live, work', c)
         /\ work'.size # 0 /\ size <= work'.size
         /\ heapFree' \in 0 .. UintRange - 1 /\ want' = size /\ pc' = "split"
<1>1. PICK b \in BigEnough(size) :
        DeleteAddr(b) /\ work' = b /\ want' = size /\ pc' = "split"
  BY DEF AcquireBlock
<1>2. b \in free /\ RoundDown(b.size) >= RoundUp(size)
  BY DEF BigEnough
<1>3. IsBlock(b)
  BY <1>2 DEF HeapInv, BlocksOK
<1>4. BlocksOK(free \ {b}, live) /\ HandOK(free \ {b}, live, b, c)
  BY <1>2, AcquireKeeps DEF HeapInv
<1>5. b.size \in 1 .. UintRange - 1 /\ b.size >= SmallestBlock
  BY <1>3, BlockBounds
<1>6. size <= b.size
  <2>1. RoundDown(b.size) \in 1 .. b.size
    BY <1>5, RoundFacts
  <2>2. size \in Nat /\ RoundUp(size) \in Nat /\ RoundUp(size) >= size
    BY AskedFacts
  <2> QED BY <1>2, <1>5, <2>1, <2>2
<1>7. heapFree' \in 0 .. UintRange - 1
  <2>1. heapFree - b.size \in Int
    BY <1>5, HeapAssumption DEF HeapInv
  <2> QED BY <1>1, <2>1, ModType DEF DeleteAddr
<1> QED BY <1>1, <1>4, <1>5, <1>6, <1>7 DEF DeleteAddr

LEMMA MallocKeeps ==
  ASSUME HeapInv, NEW n \in Requests, Malloc(n)
  PROVE  HeapInv'
<1>1. n + Header \in Asked /\ n + Header \in Nat
  BY HeapAssumption DEF Asked, Header
<1>2. rest = NoBlock /\ InHandOK(free, live, rest)
  BY DEF Malloc, HeapInv, LoopInv, HandOK
<1>3. /\ BlocksOK(free', live) /\ HandOK(free', live, work', rest)
      /\ work'.size # 0 /\ n + Header <= work'.size
      /\ heapFree' \in 0 .. UintRange - 1 /\ want' = n + Header /\ pc' = "split"
  BY <1>1, <1>2, AcquireBlockKeeps DEF Malloc
<1>4. LoopInv'
  BY <1>1, <1>2, <1>3 DEF Malloc, LoopInv, Locations
<1> QED BY <1>1, <1>3, <1>4 DEF Malloc, HeapInv

LEMMA SplitBlockKeeps ==
  ASSUME HeapInv, SplitBlock
  PROVE  HeapInv'
<1> DEFINE pow == RoundDown(work.size - want)
           p == Block(End(work) - pow, pow)
           d == Block(work.ptr, work.size - pow)
<1>1. IsBlock(work) /\ want \in Nat \ {0} /\ want <= work.size /\ want \in Asked
      /\ (rest.size = 0 => rest = NoBlock)
  BY AskedFacts DEF SplitBlock, HeapInv, LoopInv, HandOK, InHandOK
<1>2. work.size - want \in 1 .. UintRange - 1 /\ work.size - want >= SmallestBlock
  <2>1. work.size \in 1 .. UintRange - 1 /\ UintRange \in Nat
    BY <1>1, BlockBounds, HeapAssumption
  <2> QED BY <1>1, <2>1 DEF SplitBlock, SmallestBlock
<1>3. pow \in 1 .. work.size - want /\ pow % SmallestBlock = 0
  BY <1>2, RoundFacts
<1> HIDE DEF pow
<1>4. (End(work) - pow) % SmallestBlock = 0 /\ (work.size - pow) % SmallestBlock = 0
  BY <1>1, <1>3 DEF IsBlock, End, SmallestBlock
<1>5. IsBlock(p) /\ Within(p, work)
  BY <1>1, <1>3, <1>4, HeapAssumption DEF IsBlock, End, Block, Within
<1>6. d \in Rec /\ IsBlock(d) /\ Within(d, work) /\ Apart(p, d) /\ d.size # 0 /\ want <= d.size
  BY <1>1, <1>3, <1>4, HeapAssumption DEF IsBlock, End, Block, Within, Rec, Apart
<1>7. BlocksOK(free \cup {p}, live) /\ HandOK(free \cup {p}, live, d, rest)
  BY <1>1, <1>5, <1>6, InsertKeeps DEF HeapInv, SplitBlock, LoopInv
<1>8. free' = free \cup {p} /\ work' = d /\ heapFree' = (heapFree + p.size) % UintRange
  BY DEF SplitBlock, InsertAddr, pow
<1>9. heapFree' \in 0 .. UintRange - 1
  BY <1>3, <1>8, ModType, HeapAssumption DEF HeapInv, Block
<1>10. LoopInv'
  BY <1>1, <1>6, <1>8 DEF SplitBlock, LoopInv, Locations
<1> QED BY <1>7, <1>8, <1>9, <1>10 DEF SplitBlock, HeapInv

LEMMA SplitDoneKeeps ==
  ASSUME HeapInv, SplitDone
  PROVE  HeapInv'
<1>1. work.size # 0 /\ IsBlock(work) /\ Within(work, work) /\ rest \in Rec
      /\ (rest.size = 0 => rest = NoBlock)
  BY DEF SplitDone, HeapInv, LoopInv, HandOK, InHandOK, IsBlock, Within, End
<1>2. /\ BlocksOK(free, live \cup {work})
      /\ HandOK(free, live \cup {work}, rest, NoBlock)
  BY <1>1, ReturnKeeps DEF HeapInv
<1>3. /\ free' = free /\ heapFree' = heapFree /\ lost' = lost
      /\ live' = live \cup {work} /\ rest' = NoBlock /\ want' = 0
  BY DEF SplitDone, Return, StartFree
<1>4. CASE rest = NoBlock
  <2>1. pc' = "idle" /\ work' = NoBlock
    BY <1>4 DEF SplitDone, Return
  <2>2. LoopInv'
    BY <1>3, <2>1 DEF LoopInv, Locations
  <2> QED BY <1>2, <1>3, <1>4, <2>1, <2>2 DEF HeapInv
<1>5. CASE rest # NoBlock
  <2>1. pc' \in {"merge forward", "insert"} /\ work' = rest
    BY <1>5 DEF SplitDone, StartFree
  <2>2. LoopInv'
    BY <1>1, <1>3, <1>5, <2>1 DEF LoopInv, Locations
  <2> QED BY <1>2, <1>3, <2>1, <2>2 DEF HeapInv
<1> QED BY <1>4, <1>5

(* The loops of merge_block and grow_block. *)
LEMMA SwallowBlockKeeps ==
  ASSUME HeapInv, NEW b \in Following \cup Preceding, Swallow(b),
         pc \notin {"idle", "split", "cut"}, pc' \in Locations \ {"idle", "split", "cut"},
         pc' \in {"grow forward", "grow back", "grown"}
             => pc \in {"grow forward", "grow back", "grown"}
  PROVE  HeapInv'
<1>1. b \in free /\ (End(b) = work.ptr \/ b.ptr = End(work))
  BY DEF Following, Preceding
<1>2. work.size # 0 /\ rest = NoBlock
  BY DEF HeapInv, LoopInv
<1>3. /\ free' = free \ {b} /\ heapFree' = (heapFree - b.size) % UintRange
      /\ work' = Block(IF b.ptr < work.ptr THEN b.ptr ELSE work.ptr, work.size + b.size)
      /\ live' = live /\ lost' = lost /\ rest' = rest /\ want' = want /\ origin' = origin
  BY DEF Swallow, DeleteAddr
<1>4. /\ BlocksOK(free', live) /\ HandOK(free', live, work', rest)
      /\ work'.size # 0 /\ Within(work, work')
  BY <1>1, <1>2, <1>3, SwallowKeeps DEF HeapInv
<1>5. heapFree' \in 0 .. UintRange - 1
  <2>1. IsBlock(b)
    BY <1>1 DEF HeapInv, BlocksOK
  <2>2. b.size \in 1 .. UintRange - 1
    BY <2>1, BlockBounds
  <2> QED BY <1>3, <2>2, DifferenceType DEF HeapInv
<1>6. IsBlock(origin) /\ Within(origin, work) => Within(origin, work')
  <2>1. IsBlock(work) /\ IsBlock(work')
    BY <1>2, <1>4 DEF HeapInv, HandOK, InHandOK
  <2> QED BY <1>4, <2>1, WithinTransitive
<1>7. LoopInv'
  BY <1>2, <1>3, <1>4, <1>6 DEF HeapInv, LoopInv, IsBlock
<1> QED BY <1>3, <1>4, <1>5, <1>7 DEF HeapInv

LEMMA GotoKeeps ==
  ASSUME HeapInv, NEW label, Goto(label), pc \notin {"idle", "split", "cut"},
         label \in Locations \ {"idle", "split", "cut"},
         label \in {"grow forward", "grow back", "grown"}
             => pc \in {"grow forward", "grow back", "grown"}
  PROVE  HeapInv'
<1>1. LoopInv'
  BY DEF Goto, HeapInv, LoopInv, IsBlock, Within, End
<1> QED BY <1>1 DEF Goto, HeapInv

LEMMA MergeKeeps ==
  ASSUME HeapInv, MergeForward \/ MergeBack \/ GrowForward \/ GrowBack
  PROVE  HeapInv'
<1>1. CASE MergeForward
  <2>1. CASE pc' = pc /\ \E b \in Following : Swallow(b)
    BY <1>1, <2>1, SwallowBlockKeeps DEF MergeForward, Locations
  <2>2. CASE Goto("merge back")
    BY <1>1, <2>2, GotoKeeps DEF MergeForward, Locations
  <2> QED BY <1>1, <2>1, <2>2 DEF MergeForward, Merge
<1>2. CASE MergeBack
  <2>1. CASE pc' \in {"merge forward", "insert"} /\ \E b \in Preceding : Swallow(b)
    BY <1>2, <2>1, SwallowBlockKeeps DEF MergeBack, Locations
  <2>2. CASE Goto("insert")
    BY <1>2, <2>2, GotoKeeps DEF MergeBack, Locations
  <2> QED BY <1>2, <2>1, <2>2 DEF MergeBack, Merge
<1>3. CASE GrowForward
  <2>1. CASE pc' = pc /\ \E b \in Following : Swallow(b)
    BY <1>3, <2>1, SwallowBlockKeeps DEF GrowForward, Locations
  <2>2. CASE Goto("grow back")
    BY <1>3, <2>2, GotoKeeps DEF GrowForward, Locations
  <2> QED BY <1>3, <2>1, <2>2 DEF GrowForward, Grow
<1>4. CASE GrowBack
  <2>1. CASE pc' \in {"grow forward", "grown"} /\ \E b \in Preceding : Swallow(b)
    BY <1>4, <2>1, SwallowBlockKeeps DEF GrowBack, Locations
  <2>2. CASE Goto("grown")
    BY <1>4, <2>2, GotoKeeps DEF GrowBack, Locations
  <2> QED BY <1>4, <2>1, <2>2 DEF GrowBack, Grow
<1> QED BY <1>1, <1>2, <1>3, <1>4

LEMMA FreeKeeps ==
  ASSUME HeapInv, NEW b \in live, Free(b)
  PROVE  HeapInv'
<1>1. /\ BlocksOK(free, live \ {b}) /\ HandOK(free, live \ {b}, b, NoBlock) /\ b.size # 0
  BY TakeKeeps DEF HeapInv, IsBlock
<1>2. /\ free' = free /\ heapFree' = heapFree /\ lost' = lost /\ rest' = NoBlock
      /\ live' = live \ {b} /\ work' = b /\ pc' \in {"merge forward", "insert"} /\ want' = want
  BY DEF Free, StartFree, HeapInv, LoopInv
<1>3. LoopInv'
  BY <1>1, <1>2 DEF LoopInv, Locations
<1> QED BY <1>1, <1>2, <1>3 DEF HeapInv

(* kern_free: a power of two of the block, from its start. *)
LEMMA InsertBlocksKeeps ==
  ASSUME HeapInv, InsertBlocks
  PROVE  HeapInv'
<1> DEFINE pow == IF RoundDown(work.size) > LargestBlock
                  THEN LargestBlock ELSE RoundDown(work.size)
           p == Block(work.ptr, pow)
           d == Block(work.ptr + pow, work.size - pow)
<1>1. IsBlock(work) /\ work.size # 0 /\ rest = NoBlock
  BY DEF InsertBlocks, HeapInv, LoopInv, HandOK, InHandOK
<1>2. work.size \in 1 .. UintRange - 1 /\ work.size >= SmallestBlock
  BY <1>1, BlockBounds
<1>3. pow \in 1 .. work.size /\ pow % SmallestBlock = 0
  <2>1. RoundDown(work.size) \in 1 .. work.size /\ RoundDown(work.size) % SmallestBlock = 0
    BY <1>2, RoundFacts
  <2>2. LargestBlock \in Nat \ {0} /\ LargestBlock % SmallestBlock = 0 /\ work.size \in Nat
    BY <1>2, HeapAssumption
  <2> QED BY <2>1, <2>2
<1>4. /\ free' = free \cup {p} /\ heapFree' = (heapFree + p.size) % UintRange /\ lost' = lost
      /\ live' = live /\ rest' = rest /\ want' \in {want, 0}
      /\ \/ work.size = pow /\ pc' = "idle" /\ work' = NoBlock
         \/ work.size # pow /\ pc' = pc /\ work' = d
  BY <1>1 DEF InsertBlocks, InsertAddr, Return
<1> HIDE DEF pow
<1>5. (work.ptr + pow) % SmallestBlock = 0 /\ (work.size - pow) % SmallestBlock = 0
  BY <1>1, <1>3 DEF IsBlock, End, SmallestBlock
<1>6. IsBlock(p) /\ Within(p, work)
  BY <1>1, <1>3, HeapAssumption DEF IsBlock, End, Block, Within
<1>7. /\ d \in Rec /\ d.size = work.size - pow
      /\ d.size # 0 => IsBlock(d) /\ Within(d, work) /\ Apart(p, d)
  BY <1>1, <1>3, <1>5, HeapAssumption DEF IsBlock, End, Block, Within, Rec, Apart
<1>8. BlocksOK(free \cup {p}, live) /\ HandOK(free \cup {p}, live, d, rest)
  BY <1>1, <1>6, <1>7, InsertKeeps DEF HeapInv
<1>9. HandOK(free', live', work', rest')
  <2>1. CASE work.size = pow
    BY <1>1, <1>4, <2>1, NoBlockFacts DEF HandOK, InHandOK, Rec
  <2>2. CASE work.size # pow
    BY <1>4, <1>8, <2>2
  <2> QED BY <2>1, <2>2
<1>10. heapFree' \in 0 .. UintRange - 1
  BY <1>3, <1>4, ModType, HeapAssumption DEF HeapInv, Block
<1>11. LoopInv'
  <2>1. CASE work.size = pow
    BY <1>1, <1>4, <2>1 DEF LoopInv, Locations
  <2>2. CASE work.size # pow
    <3>1. work.size - pow # 0
      BY <1>2, <1>3, <2>2
    <3> QED BY <1>1, <1>4, <1>7, <2>2, <3>1 DEF InsertBlocks, LoopInv, Locations
  <2> QED BY <2>1, <2>2
<1> QED BY <1>4, <1>8, <1>9, <1>10, <1>11 DEF HeapInv

LEMMA ReallocKeeps ==
  ASSUME HeapInv, NEW b \in live, NEW n \in Requests, Realloc(b, n), ~Wrapped'
  PROVE  HeapInv'
<1>1. /\ BlocksOK(free, live \ {b}) /\ HandOK(free, live \ {b}, b, NoBlock)
      /\ IsBlock(b) /\ b.size # 0 /\ b.size \in Nat
  <2>1. /\ BlocksOK(free, live \ {b}) /\ HandOK(free, live \ {b}, b, NoBlock) /\ IsBlock(b)
    BY TakeKeeps DEF HeapInv
  <2> QED BY <2>1 DEF IsBlock
<1>2. n + Header \in Asked /\ n + Header \in Nat
  BY HeapAssumption DEF Asked, Header
<1>3. /\ free' = free /\ heapFree' = heapFree /\ lost' = lost /\ live' = live \ {b}
      /\ rest = NoBlock
  BY DEF Realloc, HeapInv, LoopInv
<1>4. CASE b.size >= n + Header /\ StartCut(b, n + Header) /\ UNCHANGED <<want, origin>>
  <2>0. /\ Kept(n + Header) \in Nat \ {0} /\ Kept(n + Header) % SmallestBlock = 0
        /\ Kept(n + Header) <= b.size
    BY <1>1, <1>2, <1>4, KeptPart
  <2>1. HandOK(free, live \ {b}, work', rest') /\ work'.size # 0
    BY <1>1, <1>2, <1>4, <2>0, CutKeeps DEF StartCut
  <2>2. LoopInv'
    BY <1>4, <2>1 DEF StartCut, LoopInv, Locations
  <2> QED BY <1>1, <1>3, <1>4, <2>1, <2>2 DEF HeapInv
<1>5. CASE /\ work' = b /\ origin' = b /\ want' = n + Header
           /\ pc' = "grow forward" /\ UNCHANGED rest
  <2>1. Within(b, b)
    BY <1>1 DEF Within, IsBlock, End
  <2>2. LoopInv'
    BY <1>1, <1>2, <1>3, <1>5, <2>1 DEF LoopInv, Locations, IsBlock, Within, End
  <2> QED BY <1>1, <1>2, <1>3, <1>5, <2>2 DEF HeapInv
<1> QED BY <1>4, <1>5 DEF Realloc

LEMMA GrownEnoughKeeps ==
  ASSUME HeapInv, GrownEnough, ~Wrapped'
  PROVE  HeapInv'
<1>0. /\ HandOK(free, live, work, NoBlock) /\ work.size # 0 /\ want \in Asked
      /\ StartCut(work, want)
  BY DEF GrownEnough, HeapInv, LoopInv
<1>1. /\ Kept(want) \in Nat \ {0} /\ Kept(want) % SmallestBlock = 0
      /\ Kept(want) <= work.size
  <2>1. IsBlock(work)
    BY <1>0 DEF HandOK, InHandOK
  <2> QED BY <1>0, <2>1, KeptPart
<1>2. HandOK(free, live, work', rest') /\ work'.size # 0
  BY <1>0, <1>1, CutKeeps DEF StartCut, HeapInv
<1>3. LoopInv'
  BY <1>2 DEF GrownEnough, StartCut, LoopInv, Locations
<1> QED BY <1>2, <1>3 DEF GrownEnough, HeapInv

LEMMA GrownShortKeeps ==
  ASSUME HeapInv, GrownShort
  PROVE  HeapInv'
<1>1. InHandOK(free, live, work) /\ work.size # 0 /\ want \in Asked
  BY DEF GrownShort, HeapInv, LoopInv, HandOK
<1>2. /\ BlocksOK(free', live) /\ HandOK(free', live, work', work)
      /\ work'.size # 0 /\ want <= work'.size
      /\ heapFree' \in 0 .. UintRange - 1 /\ want' = want /\ pc' = "split"
  BY <1>1, AcquireBlockKeeps DEF GrownShort
<1>3. LoopInv'
  BY <1>1, <1>2 DEF GrownShort, LoopInv, Locations
<1> QED BY <1>2, <1>3 DEF GrownShort, HeapInv

LEMMA ReallocFailsKeeps ==
  ASSUME HeapInv, ReallocFails
  PROVE  HeapInv'
<1>1. /\ work.size # 0 /\ IsBlock(work) /\ IsBlock(origin) /\ Within(origin, work)
      /\ rest = NoBlock
  BY DEF ReallocFails, HeapInv, LoopInv, HandOK, InHandOK
<1>2. BlocksOK(free, live \cup {origin}) /\ HandOK(free, live \cup {origin}, rest, NoBlock)
  BY <1>1, ReturnKeeps DEF HeapInv
<1>3. /\ free' = free /\ heapFree' = heapFree /\ live' = live \cup {origin}
      /\ lost' = lost \cup (Words(work) \ Words(origin))
      /\ pc' = "idle" /\ work' = NoBlock /\ rest' = NoBlock /\ want' = 0
  BY DEF ReallocFails, Return
<1>4. Words(work) \subseteq HeapStart .. HeapStart + HeapSize - 1
  BY <1>1, HeapAssumption DEF IsBlock, Words, End
<1>5. LoopInv'
  BY <1>3 DEF LoopInv, Locations
<1> QED BY <1>1, <1>2, <1>3, <1>4, <1>5 DEF HeapInv

(* cut_block_end: a piece from the start of the rest. *)
LEMMA CutBlockEndKeeps ==
  ASSUME HeapInv, CutBlockEnd
  PROVE  HeapInv'
<1>1. /\ work.size # 0 /\ IsBlock(work) /\ Within(work, work) /\ rest \in Rec
      /\ (rest.size # 0 => IsBlock(rest))
  BY DEF CutBlockEnd, HeapInv, LoopInv, HandOK, InHandOK, IsBlock, Within, End
<1>2. CASE rest.size = 0
  <2>1. BlocksOK(free, live \cup {work})
    BY <1>1, ReturnKeeps DEF HeapInv
  <2>2. /\ free' = free /\ heapFree' = heapFree /\ lost' = lost /\ live' = live \cup {work}
        /\ pc' = "idle" /\ work' = NoBlock /\ rest' = NoBlock /\ want' = 0
    BY <1>2 DEF CutBlockEnd, Return
  <2>3. LoopInv'
    BY <2>2 DEF LoopInv, Locations
  <2>4. HandOK(free', live', work', rest')
    BY <2>2, NoBlockFacts DEF HandOK, InHandOK, Rec
  <2> QED BY <2>1, <2>2, <2>3, <2>4 DEF HeapInv
<1>3. CASE rest.size # 0
  <2> DEFINE in == IF rest.size > AddrSize(rest.ptr)
                   THEN AddrSize(rest.ptr) ELSE RoundDown(rest.size)
             p == Block(rest.ptr, in)
             d == Block(rest.ptr + in, rest.size - in)
  <2>1. IsBlock(rest)
    BY <1>1, <1>3
  <2>2. rest.size \in 1 .. UintRange - 1 /\ rest.size >= SmallestBlock
    BY <2>1, BlockBounds
  <2>3. in \in 1 .. rest.size /\ in % SmallestBlock = 0
    <3>1. RoundDown(rest.size) \in 1 .. rest.size /\ RoundDown(rest.size) % SmallestBlock = 0
      BY <2>2, RoundFacts
    <3>2. AddrSize(rest.ptr) \in Nat \ {0} /\ AddrSize(rest.ptr) % SmallestBlock = 0
      BY <2>1, AddrFacts
    <3> QED BY <2>2, <3>1, <3>2
  <2>4. /\ free' = free \cup {p} /\ heapFree' = (heapFree + p.size) % UintRange
        /\ lost' = lost /\ live' = live /\ rest' = d /\ pc' = pc /\ work' = work /\ want' = want
    BY <1>3 DEF CutBlockEnd, InsertAddr
  <2> HIDE DEF in
  <2>5. (rest.ptr + in) % SmallestBlock = 0 /\ (rest.size - in) % SmallestBlock = 0
    BY <2>1, <2>3 DEF IsBlock, End, SmallestBlock
  <2>6. IsBlock(p) /\ Within(p, rest)
    BY <2>1, <2>3, HeapAssumption DEF IsBlock, End, Block, Within
  <2>7. d \in Rec /\ (d.size # 0 => IsBlock(d) /\ Within(d, rest) /\ Apart(p, d))
    BY <2>1, <2>3, <2>5, HeapAssumption DEF IsBlock, End, Block, Within, Rec, Apart
  <2>8. HandOK(free, live, rest, work)
    BY HandSymmetric DEF HeapInv
  <2>9. BlocksOK(free \cup {p}, live) /\ HandOK(free \cup {p}, live, d, work)
    BY <1>3, <2>6, <2>7, <2>8, InsertKeeps DEF HeapInv
  <2>10. HandOK(free \cup {p}, live, work, d)
    BY <2>9, HandSymmetric
  <2>11. heapFree' \in 0 .. UintRange - 1
    BY <2>3, <2>4, ModType, HeapAssumption DEF HeapInv, Block
  <2>12. LoopInv'
    BY <1>1, <2>4 DEF CutBlockEnd, LoopInv, Locations
  <2> QED BY <2>4, <2>9, <2>10, <2>11, <2>12 DEF HeapInv
<1> QED BY <1>2, <1>3

-----------------------------------------------------------------------------
LEMMA NextKeeps ==
  ASSUME HeapInv, [Next]_vars, ~Wrapped'
  PROVE  HeapInv'
<1>1. CASE \E n \in Requests : Malloc(n) \/ \E b \in live : Realloc(b, n)
  BY <1>1, MallocKeeps, ReallocKeeps
<1>2. CASE \E b \in live : Free(b)
  BY <1>2, FreeKeeps
<1>3. CASE SplitBlock \/ SplitDone
  BY <1>3, SplitBlockKeeps, SplitDoneKeeps
<1>4. CASE MergeForward \/ MergeBack \/ GrowForward \/ GrowBack
  BY <1>4, MergeKeeps
<1>5. CASE InsertBlocks \/ CutBlockEnd
  BY <1>5, InsertBlocksKeeps, CutBlockEndKeeps
<1>6. CASE GrownEnough \/ GrownShort \/ ReallocFails
  BY <1>6, GrownEnoughKeeps, GrownShortKeeps, ReallocFailsKeeps
<1>7. CASE UNCHANGED vars
  BY <1>7 DEF vars, HeapInv, LoopInv, IsBlock, Within, End
<1> QED BY <1>1, <1>2, <1>3, <1>4, <1>5, <1>6, <1>7 DEF Next

(* The invariant that carries the theorems below. *)
THEOREM HeapInvariant == Spec => [](~Wrapped => HeapInv)
<1>1. Init => (~Wrapped => HeapInv)
  BY InitInv
<1>2. (~Wrapped => HeapInv) /\ [Next]_vars => (~Wrapped => HeapInv)'
  <2> SUFFICES ASSUME ~Wrapped => HeapInv, [Next]_vars, ~Wrapped' PROVE HeapInv'
    OBVIOUS
  <2>1. ~Wrapped
    BY TroubleStays DEF Wrapped
  <2> QED BY <2>1, NextKeeps
<1> QED BY <1>1, <1>2, PTL DEF Spec

(* Until cut_block_end has wrapped around, every block, in the lists, with *)
(* a caller or in the hands of a call, is a multiple of SMALLEST_BLOCK     *)
(* inside the heap, whatever sizes are asked for.                          *)
THEOREM TypeCorrect == Spec => []TypeOK
<1> DEFINE Named == trouble \subseteq {"wrapped", "outgrown"}
<1>1. HeapInv => /\ \A b \in free \cup live \cup InHand : IsBlock(b)
                 /\ heapFree \in 0 .. UintRange - 1
                 /\ lost \subseteq HeapStart .. HeapStart + HeapSize - 1
                 /\ pc \in Locations /\ want \in Nat
                 /\ pc = "idle" <=> work = NoBlock
                 /\ rest # NoBlock => pc \in {"split", "cut"}
  BY NoBlockFacts DEF HeapInv, LoopInv, InHand, BlocksOK, HandOK, InHandOK
<1>2. Named /\ (~Wrapped => HeapInv) => TypeOK
  BY <1>1 DEF TypeOK
<1>3. Init => Named
  BY DEF Init
<1>4. Named /\ [Next]_vars => Named'
  BY TroubleStays
<1> QED BY <1>2, <1>3, <1>4, HeapInvariant, PTL DEF Spec

(* Until cut_block_end has wrapped around, malloc, realloc and free never  *)
(* give the same word out twice and never keep one in the lists that a     *)
(* caller has, in a heap of any size and whatever sizes are asked for.     *)
THEOREM OverlapFree == Spec => []NoOverlap
<1>1. (~Wrapped => HeapInv) => NoOverlap
  <2> SUFFICES ASSUME HeapInv
               PROVE  (\A b, c \in free \cup live : b # c => Apart(b, c)) /\ free \cap live = {}
    BY DEF NoOverlap
  <2>1. \A b \in free, c \in live : b # c
    BY BlockBounds DEF HeapInv, BlocksOK, Across
  <2>2. \A b, c \in free \cup live : b # c => Apart(b, c)
    BY DEF HeapInv, BlocksOK, Across, Disjoint, Apart
  <2> QED BY <2>1, <2>2
<1> QED BY <1>1, HeapInvariant, PTL

-----------------------------------------------------------------------------
(* The words of the heap.  What is in a block, in the lists, with a caller *)
(* or in hand, changes when a failed realloc drops words and never         *)
(* otherwise, and heap_free counts the words of the lists.                 *)
WordsOf(S) == UNION {Words(b) : b \in S}
Heap == HeapStart .. HeapStart + HeapSize - 1
Covered == WordsOf(free) \cup WordsOf(live) \cup Words(work) \cup Words(rest)

WordInv ==
    /\ heapFree = Cardinality(WordsOf(free))
    /\ Covered \cup lost = Heap /\ Covered \cap lost = {}

LEMMA WordsFacts ==
  ASSUME NEW b, IsBlock(b)
  PROVE  /\ Words(b) \subseteq Heap /\ IsFiniteSet(Words(b)) /\ Cardinality(Words(b)) = b.size
<1>1. /\ b.ptr \in Nat /\ b.size \in Nat \ {0} /\ HeapStart <= b.ptr /\ b.ptr + b.size <= HeapStart + HeapSize
      /\ HeapStart \in Nat /\ HeapSize \in Nat
  BY HeapAssumption DEF IsBlock, End
<1>2. Words(b) = b.ptr .. (b.ptr + b.size) - 1
  BY DEF Words, End
<1>3. Words(b) \subseteq Heap
  BY <1>1, <1>2 DEF Heap
<1>4. b.ptr \in Int /\ (b.ptr + b.size) - 1 \in Int /\ b.ptr <= (b.ptr + b.size) - 1
  BY <1>1
<1>5. IsFiniteSet(Words(b)) /\ Cardinality(Words(b)) = ((b.ptr + b.size) - 1) - b.ptr + 1
  BY <1>2, <1>4, FS_Interval
<1> QED BY <1>1, <1>3, <1>5

LEMMA NoWords == Words(NoBlock) = {}
BY DEF Words, NoBlock, Block, End

LEMMA ApartWords ==
  ASSUME NEW b, NEW c, IsBlock(b), IsBlock(c), Apart(b, c)
  PROVE  Words(b) \cap Words(c) = {}
BY DEF IsBlock, Apart, Words, End

LEMMA SetWords ==
  ASSUME NEW S, NEW b
  PROVE  /\ WordsOf(S \cup {b}) = WordsOf(S) \cup Words(b)
         /\ b \in S => WordsOf(S) = WordsOf(S \ {b}) \cup Words(b)
<1>1. \A T : \A x : x \in WordsOf(T) <=> \E c \in T : x \in Words(c)
  BY DEF WordsOf
<1> HIDE DEF WordsOf
<1>2. WordsOf(S \cup {b}) = WordsOf(S) \cup Words(b)
  BY <1>1
<1>3. b \in S => WordsOf(S) = WordsOf(S \ {b}) \cup Words(b)
  BY <1>1
<1> QED BY <1>2, <1>3

(* The words of a set of blocks and of one that is apart from them.        *)
LEMMA WordsApart ==
  ASSUME NEW S, \A c \in S : IsBlock(c), NEW b, IsBlock(b), \A c \in S : Apart(c, b)
  PROVE  /\ WordsOf(S) \cap Words(b) = {}
         /\ IsFiniteSet(WordsOf(S)) /\ Cardinality(WordsOf(S)) \in Nat
         /\ Cardinality(WordsOf(S) \cup Words(b)) = Cardinality(WordsOf(S)) + b.size
         /\ Cardinality(WordsOf(S)) + b.size \in 0 .. HeapSize
<1>1. \A x : x \in WordsOf(S) <=> \E c \in S : x \in Words(c)
  BY DEF WordsOf
<1>2. WordsOf(S) \cap Words(b) = {}
  BY <1>1, ApartWords
<1>3. WordsOf(S) \subseteq Heap
  BY <1>1, WordsFacts
<1>4. IsFiniteSet(Heap) /\ Cardinality(Heap) = HeapSize
  <2>1. HeapStart \in Int /\ HeapStart + HeapSize - 1 \in Int /\ HeapSize \in Nat \ {0}
    BY HeapAssumption
  <2> QED BY <2>1, FS_Interval DEF Heap
<1>5. IsFiniteSet(WordsOf(S)) /\ Cardinality(WordsOf(S)) \in Nat
  BY <1>3, <1>4, FS_Subset, FS_CardinalityType
<1>6. IsFiniteSet(Words(b)) /\ Cardinality(Words(b)) = b.size /\ Words(b) \subseteq Heap /\ b.size \in Nat
  BY WordsFacts DEF IsBlock
<1>7. Cardinality(WordsOf(S) \cup Words(b)) = Cardinality(WordsOf(S)) + b.size
  <2>1. Cardinality(WordsOf(S) \cup Words(b)) =
          Cardinality(WordsOf(S)) + Cardinality(Words(b)) - Cardinality(WordsOf(S) \cap Words(b))
    BY <1>5, <1>6, FS_Union
  <2>2. Cardinality(WordsOf(S) \cap Words(b)) = 0
    BY <1>2, FS_EmptySet
  <2> QED BY <1>5, <1>6, <2>1, <2>2
<1>8. Cardinality(WordsOf(S) \cup Words(b)) <= HeapSize
  <2>1. WordsOf(S) \cup Words(b) \in SUBSET Heap
    BY <1>3, <1>6
  <2> QED BY <1>4, <2>1, FS_Subset
<1> QED BY <1>2, <1>5, <1>6, <1>7, <1>8, HeapAssumption

(* insert_addr and delete_addr keep the count.                             *)
LEMMA InsertCounts ==
  ASSUME \A c \in free : IsBlock(c), heapFree = Cardinality(WordsOf(free)),
         NEW b, IsBlock(b), \A c \in free : Apart(c, b), InsertAddr(b)
  PROVE  heapFree' = Cardinality(WordsOf(free')) /\ WordsOf(free') = WordsOf(free) \cup Words(b)
<1>1. free' = free \cup {b} /\ heapFree' = (heapFree + b.size) % UintRange
  BY DEF InsertAddr
<1>2. WordsOf(free') = WordsOf(free) \cup Words(b)
  BY <1>1, SetWords
<1>3. /\ Cardinality(WordsOf(free) \cup Words(b)) = heapFree + b.size
      /\ heapFree + b.size \in 0 .. HeapSize
  BY WordsApart
<1>4. heapFree + b.size \in 0 .. UintRange - 1
  BY <1>3, HeapAssumption
<1> QED BY <1>1, <1>2, <1>3, <1>4, ModSmall

LEMMA DeleteCounts ==
  ASSUME \A c \in free : IsBlock(c), Disjoint(free), heapFree = Cardinality(WordsOf(free)),
         NEW b \in free, DeleteAddr(b)
  PROVE  heapFree' = Cardinality(WordsOf(free')) /\ WordsOf(free) = WordsOf(free') \cup Words(b)
<1>1. free' = free \ {b} /\ heapFree' = (heapFree - b.size) % UintRange
  BY DEF DeleteAddr
<1>2. WordsOf(free) = WordsOf(free') \cup Words(b)
  BY <1>1, SetWords
<1>3. /\ \A c \in free' : IsBlock(c) /\ Apart(c, b)
      /\ IsBlock(b) /\ b.size \in Nat
  BY <1>1 DEF Disjoint, IsBlock
<1>4. /\ heapFree = Cardinality(WordsOf(free')) + b.size /\ Cardinality(WordsOf(free')) \in Nat
      /\ heapFree \in 0 .. HeapSize
  BY <1>2, <1>3, WordsApart
<1>5. heapFree - b.size \in 0 .. UintRange - 1 /\ heapFree - b.size = Cardinality(WordsOf(free'))
  BY <1>3, <1>4, HeapAssumption
<1> QED BY <1>1, <1>2, <1>5, ModSmall

(* The words of a block that is split or joined.                           *)
LEMMA JoinWords ==
  ASSUME NEW b, NEW c, NEW d, b \in Rec, c \in Rec, d \in Rec,
         c.ptr = b.ptr, d.ptr = End(c), End(d) = End(b)
  PROVE  Words(b) = Words(c) \cup Words(d)
BY DEF Rec, Words, End

LEMMA WordsInit == Init => WordInv
<1> SUFFICES ASSUME Init PROVE WordInv
  OBVIOUS
<1> DEFINE N == HeapSize \div LargestBlock
           At(i) == Block(HeapStart + LargestBlock * i, LargestBlock)
<1>1. \A x : x \in WordsOf(WholeHeap) <=> \E b \in WholeHeap : x \in Words(b)
  BY DEF WordsOf
<1>2. \A b \in WholeHeap : Words(b) \subseteq Heap
  BY WholeHeapOK, WordsFacts DEF BlocksOK
<1>3. ASSUME NEW x \in Heap PROVE \E b \in WholeHeap : x \in Words(b)
  <2> DEFINE y == x - HeapStart
             i == y \div LargestBlock
  <2>1. y \in 0 .. HeapSize - 1 /\ LargestBlock \in Nat \ {0} /\ x = HeapStart + y
        /\ HeapStart \in Nat /\ HeapSize \in Nat
    BY HeapAssumption DEF Heap
  <2> HIDE DEF y
  <2>2. i \in Nat /\ LargestBlock * i <= y /\ y < LargestBlock * i + LargestBlock /\ LargestBlock * i \in Nat
    BY <2>1
  <2>3. N \in Nat /\ LargestBlock * N = HeapSize
    BY HeapAssumption
  <2> HIDE DEF i, N
  <2>4. i < N
    <3> SUFFICES ASSUME N <= i PROVE FALSE
      BY <2>2, <2>3
    <3>1. LargestBlock * (i - N) >= 0 /\ LargestBlock * (i - N) = LargestBlock * i - LargestBlock * N
      BY <2>1, <2>2, <2>3
    <3> QED BY <2>1, <2>2, <2>3, <3>1
  <2>5. At(i) \in WholeHeap
    BY <2>2, <2>3, <2>4 DEF WholeHeap, N
  <2>6. x \in Words(At(i))
    BY <2>1, <2>2 DEF Words, Block, End
  <2> QED BY <2>5, <2>6
<1>4. WordsOf(WholeHeap) = Heap
  BY <1>1, <1>2, <1>3
<1>5. Cardinality(Heap) = HeapSize
  <2>1. HeapStart \in Int /\ HeapStart + HeapSize - 1 \in Int /\ HeapSize \in Nat \ {0}
    BY HeapAssumption
  <2> QED BY <2>1, FS_Interval DEF Heap
<1>6. WordsOf({}) = {}
  BY DEF WordsOf
<1> QED BY <1>4, <1>5, <1>6, NoWords DEF Init, WordInv, Covered

LEMMA HeapFacts ==
  ASSUME HeapInv
  PROVE  /\ \A c \in free : IsBlock(c)
         /\ \A c \in live : IsBlock(c)
         /\ Disjoint(free) /\ work \in Rec /\ rest \in Rec
         /\ work.size # 0 => IsBlock(work) /\ \A c \in free \cup live : Apart(c, work)
         /\ rest.size # 0 => IsBlock(rest) /\ \A c \in free \cup live : Apart(c, rest)
BY DEF HeapInv, BlocksOK, HandOK, InHandOK, Across

(* A step that leaves what is covered as it is.                            *)
LEMMA CoveredStays ==
  ASSUME WordInv, Covered' = Covered, lost' = lost, heapFree' = Cardinality(WordsOf(free'))
  PROVE  WordInv'
BY DEF WordInv, Heap

LEMMA AcquireWords ==
  ASSUME HeapInv, WordInv, NEW size, AcquireBlock(size)
  PROVE  /\ heapFree' = Cardinality(WordsOf(free'))
         /\ WordsOf(free) = WordsOf(free') \cup Words(work')
<1>1. PICK b \in BigEnough(size) : DeleteAddr(b) /\ work' = b
  BY DEF AcquireBlock
<1>2. b \in free
  BY DEF BigEnough
<1> QED BY <1>1, <1>2, HeapFacts, DeleteCounts DEF WordInv

LEMMA SwallowWords ==
  ASSUME HeapInv, WordInv, work.size # 0, NEW b \in Following \cup Preceding, Swallow(b)
  PROVE  WordInv'
<1>1. b \in free /\ (End(b) = work.ptr \/ b.ptr = End(work)) /\ IsBlock(b) /\ IsBlock(work)
  BY HeapFacts DEF Following, Preceding
<1>2. /\ DeleteAddr(b) /\ live' = live /\ rest' = rest /\ lost' = lost
      /\ work' = Block(IF b.ptr < work.ptr THEN b.ptr ELSE work.ptr, work.size + b.size)
  BY DEF Swallow
<1>3. heapFree' = Cardinality(WordsOf(free')) /\ WordsOf(free) = WordsOf(free') \cup Words(b)
  BY <1>1, <1>2, HeapFacts, DeleteCounts DEF WordInv
<1>4. Words(work') = Words(work) \cup Words(b)
  BY <1>1, <1>2 DEF IsBlock, Block, Words, End
<1>5. Covered' = Covered
  BY <1>2, <1>3, <1>4 DEF Covered
<1> QED BY <1>2, <1>3, <1>5, CoveredStays

LEMMA GotoWords ==
  ASSUME WordInv, NEW label, Goto(label)
  PROVE  WordInv'
BY DEF Goto, WordInv, Covered, Heap

LEMMA LoopWords ==
  ASSUME HeapInv, WordInv, MergeForward \/ MergeBack \/ GrowForward \/ GrowBack
  PROVE  WordInv'
<1>1. work.size # 0
  BY DEF MergeForward, MergeBack, GrowForward, GrowBack, HeapInv, LoopInv
<1>2. (\E b \in Following \cup Preceding : Swallow(b)) \/ \E label : Goto(label)
  BY DEF MergeForward, MergeBack, GrowForward, GrowBack, Merge, Grow
<1> QED BY <1>1, <1>2, SwallowWords, GotoWords

LEMMA SplitWords ==
  ASSUME HeapInv, WordInv, SplitBlock
  PROVE  WordInv'
<1> DEFINE pow == RoundDown(work.size - want)
           p == Block(End(work) - pow, pow)
           d == Block(work.ptr, work.size - pow)
<1>1. /\ InsertAddr(p) /\ work' = d /\ live' = live /\ rest' = rest /\ lost' = lost
  BY DEF SplitBlock
<1>2. IsBlock(work) /\ want \in Nat \ {0} /\ want <= work.size
  BY AskedFacts DEF SplitBlock, HeapInv, LoopInv, HandOK, InHandOK
<1>3. work.size - want \in 1 .. UintRange - 1 /\ work.size - want >= SmallestBlock
  <2>1. work.size \in 1 .. UintRange - 1 /\ UintRange \in Nat
    BY <1>2, BlockBounds, HeapAssumption
  <2> QED BY <1>2, <2>1 DEF SplitBlock, SmallestBlock
<1>4. pow \in 1 .. work.size - want /\ pow % SmallestBlock = 0
  BY <1>3, RoundFacts
<1> HIDE DEF pow
<1>5. (End(work) - pow) % SmallestBlock = 0
  BY <1>2, <1>4 DEF IsBlock, End, SmallestBlock
<1>6. IsBlock(p) /\ Within(p, work)
  BY <1>2, <1>4, <1>5, HeapAssumption DEF IsBlock, End, Block, Within
<1>7. \A c \in free : IsBlock(c) /\ Apart(c, p)
  <2>1. \A c \in free : IsBlock(c) /\ Apart(c, work)
    BY HeapFacts DEF SplitBlock, HeapInv, LoopInv
  <2> QED BY <1>2, <1>6, <2>1 DEF IsBlock, Apart, Within, End
<1>8. heapFree' = Cardinality(WordsOf(free')) /\ WordsOf(free') = WordsOf(free) \cup Words(p)
  BY <1>1, <1>6, <1>7, InsertCounts DEF WordInv
<1>9. Words(work) = Words(d) \cup Words(p)
  BY <1>2, <1>4 DEF IsBlock, Words, End, Block
<1>10. Covered' = Covered
  BY <1>1, <1>8, <1>9 DEF Covered
<1> QED BY <1>1, <1>8, <1>10, CoveredStays

(* A piece p of the block b, of which d is left, goes into the lists.      *)
LEMMA PieceWords ==
  ASSUME HeapInv, WordInv, NEW b, IsBlock(b), \A c \in free : Apart(c, b),
         NEW pow \in 1 .. b.size, pow % SmallestBlock = 0, InsertAddr(Block(b.ptr, pow))
  PROVE  /\ heapFree' = Cardinality(WordsOf(free'))
         /\ WordsOf(free) \cup Words(b) = WordsOf(free') \cup Words(Block(b.ptr + pow, b.size - pow))
<1> DEFINE p == Block(b.ptr, pow)
           d == Block(b.ptr + pow, b.size - pow)
<1>1. IsBlock(p) /\ Within(p, b)
  BY HeapAssumption DEF IsBlock, End, Block, Within
<1>2. \A c \in free : IsBlock(c) /\ Apart(c, p)
  BY <1>1, HeapFacts DEF IsBlock, Apart, Within, End
<1>3. heapFree' = Cardinality(WordsOf(free')) /\ WordsOf(free') = WordsOf(free) \cup Words(p)
  BY <1>1, <1>2, InsertCounts DEF WordInv
<1>4. Words(b) = Words(p) \cup Words(d)
  BY DEF IsBlock, Words, End, Block
<1> QED BY <1>3, <1>4

LEMMA InsertBlocksWords ==
  ASSUME HeapInv, WordInv, InsertBlocks
  PROVE  WordInv'
<1> DEFINE pow == IF RoundDown(work.size) > LargestBlock
                  THEN LargestBlock ELSE RoundDown(work.size)
           d == Block(work.ptr + pow, work.size - pow)
<1>1. IsBlock(work) /\ rest = NoBlock /\ \A c \in free : Apart(c, work)
  BY HeapFacts DEF InsertBlocks, HeapInv, LoopInv
<1>2. work.size \in 1 .. UintRange - 1 /\ work.size >= SmallestBlock
  BY <1>1, BlockBounds
<1>3. pow \in 1 .. work.size /\ pow % SmallestBlock = 0
  <2>1. RoundDown(work.size) \in 1 .. work.size /\ RoundDown(work.size) % SmallestBlock = 0
    BY <1>2, RoundFacts
  <2>2. LargestBlock \in Nat \ {0} /\ LargestBlock % SmallestBlock = 0 /\ work.size \in Nat
    BY <1>2, HeapAssumption
  <2> QED BY <2>1, <2>2
<1>4. /\ InsertAddr(Block(work.ptr, pow)) /\ lost' = lost /\ live' = live /\ rest' = rest
      /\ \/ work.size = pow /\ work' = NoBlock
         \/ work.size # pow /\ work' = d
  BY <1>1 DEF InsertBlocks, Return
<1> HIDE DEF pow
<1>5. heapFree' = Cardinality(WordsOf(free')) /\ WordsOf(free) \cup Words(work) = WordsOf(free') \cup Words(d)
  BY <1>1, <1>3, <1>4, PieceWords
<1>6. Words(work') = Words(d)
  <2>1. work.size = pow => Words(d) = {}
    BY <1>1, <1>3 DEF IsBlock, Words, End, Block
  <2> QED BY <1>4, <2>1, NoWords
<1>7. Covered' = Covered
  BY <1>4, <1>5, <1>6 DEF Covered
<1> QED BY <1>4, <1>5, <1>7, CoveredStays

LEMMA CutWords ==
  ASSUME NEW b, IsBlock(b), NEW size \in Asked, StartCut(b, size), ~Wrapped'
  PROVE  Words(b) = Words(work') \cup Words(rest')
<1>2. Kept(size) \in Nat \ {0} /\ Kept(size) <= b.size
  BY KeptPart
<1>3. (b.size - Kept(size)) % UintRange = b.size - Kept(size)
  <2>1. b.size \in 1 .. UintRange - 1 /\ UintRange \in Nat
    BY BlockBounds, HeapAssumption
  <2>2. b.size - Kept(size) \in 0 .. UintRange - 1
    BY <1>2, <2>1
  <2> QED BY <2>2, ModSmall
<1>4. work' = Block(b.ptr, Kept(size)) /\ rest' = Block(b.ptr + Kept(size), b.size - Kept(size))
  BY <1>3 DEF StartCut
<1> QED BY <1>2, <1>4 DEF IsBlock, Words, End, Block

LEMMA CutBlockEndWords ==
  ASSUME HeapInv, WordInv, CutBlockEnd
  PROVE  WordInv'
<1>1. CASE rest.size = 0
  <2>1. /\ free' = free /\ heapFree' = heapFree /\ lost' = lost /\ live' = live \cup {work}
        /\ work' = NoBlock /\ rest' = NoBlock
    BY <1>1 DEF CutBlockEnd, Return
  <2>2. Words(rest) = {}
    BY <1>1, HeapFacts DEF Words, End, Rec
  <2>3. WordsOf(live') = WordsOf(live) \cup Words(work)
    BY <2>1, SetWords
  <2>4. Covered' = Covered
    BY <2>1, <2>2, <2>3, NoWords DEF Covered
  <2> QED BY <2>1, <2>4, CoveredStays DEF WordInv
<1>2. CASE rest.size # 0
  <2> DEFINE in == IF rest.size > AddrSize(rest.ptr)
                   THEN AddrSize(rest.ptr) ELSE RoundDown(rest.size)
             d == Block(rest.ptr + in, rest.size - in)
  <2>1. IsBlock(rest) /\ \A c \in free : Apart(c, rest)
    BY <1>2, HeapFacts
  <2>2. rest.size \in 1 .. UintRange - 1 /\ rest.size >= SmallestBlock
    BY <2>1, BlockBounds
  <2>3. in \in 1 .. rest.size /\ in % SmallestBlock = 0
    <3>1. RoundDown(rest.size) \in 1 .. rest.size /\ RoundDown(rest.size) % SmallestBlock = 0
      BY <2>2, RoundFacts
    <3>2. AddrSize(rest.ptr) \in Nat \ {0} /\ AddrSize(rest.ptr) % SmallestBlock = 0
      BY <2>1, AddrFacts
    <3> QED BY <2>2, <3>1, <3>2
  <2>4. InsertAddr(Block(rest.ptr, in)) /\ lost' = lost /\ live' = live /\ rest' = d /\ work' = work
    BY <1>2 DEF CutBlockEnd
  <2> HIDE DEF in
  <2>5. heapFree' = Cardinality(WordsOf(free')) /\ WordsOf(free) \cup Words(rest) = WordsOf(free') \cup Words(d)
    BY <2>1, <2>3, <2>4, PieceWords
  <2>6. Covered' = Covered
    BY <2>4, <2>5 DEF Covered
  <2> QED BY <2>4, <2>5, <2>6, CoveredStays
<1> QED BY <1>1, <1>2

(* The calls begin and end: a block is handed over.                        *)
LEMMA CallWords ==
  ASSUME HeapInv, WordInv, ~Wrapped',
         \/ \E n \in Requests : Malloc(n) \/ \E b \in live : Realloc(b, n)
         \/ \E b \in live : Free(b)
  PROVE  WordInv'
<1>0. work = NoBlock /\ rest = NoBlock
  BY DEF Malloc, Realloc, Free, HeapInv, LoopInv
<1>1. ASSUME NEW n \in Requests, Malloc(n) PROVE WordInv'
  <2>1. /\ heapFree' = Cardinality(WordsOf(free')) /\ WordsOf(free) = WordsOf(free') \cup Words(work')
        /\ live' = live /\ lost' = lost /\ rest' = rest
    BY <1>1, AcquireWords DEF Malloc
  <2>2. Covered' = Covered
    BY <1>0, <2>1, NoWords DEF Covered
  <2> QED BY <2>1, <2>2, CoveredStays
<1>2. ASSUME NEW b \in live, live' = live \ {b}, free' = free, heapFree' = heapFree, lost' = lost,
             Words(b) = Words(work') \cup Words(rest')
      PROVE  WordInv'
  <2>1. WordsOf(live) = WordsOf(live') \cup Words(b)
    BY <1>2, SetWords
  <2>2. Covered' = Covered
    BY <1>0, <1>2, <2>1, NoWords DEF Covered
  <2> QED BY <1>2, <2>2, CoveredStays DEF WordInv
<1>3. ASSUME NEW b \in live, Free(b) PROVE WordInv'
  BY <1>0, <1>2, <1>3, NoWords DEF Free, StartFree
<1>4. ASSUME NEW b \in live, NEW n \in Requests, Realloc(b, n) PROVE WordInv'
  <2>1. live' = live \ {b} /\ free' = free /\ heapFree' = heapFree /\ lost' = lost
    BY <1>4 DEF Realloc
  <2>2. CASE b.size >= n + Header /\ StartCut(b, n + Header)
    <3>1. IsBlock(b) /\ n + Header \in Asked /\ n + Header <= b.size
      BY <2>2, HeapFacts, HeapAssumption DEF Asked, IsBlock, Header
    <3> QED BY <1>2, <2>1, <2>2, <3>1, CutWords
  <2>3. CASE work' = b /\ rest' = rest
    BY <1>0, <1>2, <2>1, <2>3, NoWords
  <2> QED BY <1>4, <2>2, <2>3 DEF Realloc
<1> QED BY <1>1, <1>3, <1>4

LEMMA SplitDoneWords ==
  ASSUME HeapInv, WordInv, SplitDone
  PROVE  WordInv'
<1>1. /\ free' = free /\ heapFree' = heapFree /\ lost' = lost /\ live' = live \cup {work}
      /\ rest' = NoBlock /\ Words(work') = Words(rest)
  BY DEF SplitDone, Return, StartFree
<1>2. WordsOf(live') = WordsOf(live) \cup Words(work)
  BY <1>1, SetWords
<1>3. Covered' = Covered
  BY <1>1, <1>2, NoWords DEF Covered
<1> QED BY <1>1, <1>3, CoveredStays DEF WordInv

LEMMA GrownWords ==
  ASSUME HeapInv, WordInv, ~Wrapped', GrownEnough \/ GrownShort
  PROVE  WordInv'
<1>0. rest = NoBlock /\ IsBlock(work) /\ want \in Asked /\ live' = live /\ lost' = lost
  BY HeapFacts DEF GrownEnough, GrownShort, HeapInv, LoopInv
<1>1. CASE GrownEnough
  <2>1. free' = free /\ heapFree' = heapFree /\ Words(work) = Words(work') \cup Words(rest')
    BY <1>0, <1>1, CutWords DEF GrownEnough, HeapInv
  <2>2. Covered' = Covered
    BY <1>0, <2>1, NoWords DEF Covered
  <2> QED BY <1>0, <2>1, <2>2, CoveredStays DEF WordInv
<1>2. CASE GrownShort
  <2>1. /\ heapFree' = Cardinality(WordsOf(free')) /\ WordsOf(free) = WordsOf(free') \cup Words(work')
        /\ rest' = work
    BY <1>2, AcquireWords DEF GrownShort
  <2>2. Covered' = Covered
    BY <1>0, <2>1, NoWords DEF Covered
  <2> QED BY <1>0, <2>1, <2>2, CoveredStays
<1> QED BY <1>1, <1>2

(* The words that a realloc without success drops are covered no longer.   *)
LEMMA ReallocFailsWords ==
  ASSUME HeapInv, WordInv, ReallocFails
  PROVE  WordInv'
<1>1. /\ IsBlock(work) /\ IsBlock(origin) /\ Within(origin, work) /\ rest = NoBlock
      /\ \A c \in free \cup live : IsBlock(c) /\ Apart(c, work)
  BY HeapFacts DEF ReallocFails, HeapInv, LoopInv
<1>2. /\ free' = free /\ heapFree' = heapFree /\ live' = live \cup {origin}
      /\ lost' = lost \cup (Words(work) \ Words(origin)) /\ work' = NoBlock /\ rest' = NoBlock
  BY DEF ReallocFails, Return
<1>3. Words(origin) \subseteq Words(work)
  BY <1>1 DEF IsBlock, Words, End, Within
<1>4. WordsOf(free) \cap Words(work) = {} /\ WordsOf(live) \cap Words(work) = {}
  BY <1>1, WordsApart
<1>5. WordsOf(live') = WordsOf(live) \cup Words(origin)
  BY <1>2, SetWords
<1>6. Covered' = WordsOf(free) \cup WordsOf(live) \cup Words(origin)
  BY <1>2, <1>5, NoWords DEF Covered
<1>7. Covered = WordsOf(free) \cup WordsOf(live) \cup Words(work)
  BY <1>1, NoWords DEF Covered
<1>8. Covered' \cup lost' = Covered \cup lost /\ Covered' \cap lost' = {}
  BY <1>2, <1>3, <1>4, <1>6, <1>7 DEF WordInv
<1> QED BY <1>2, <1>8 DEF WordInv, Heap

LEMMA WordsNext ==
  ASSUME HeapInv, WordInv, ~Wrapped', [Next]_vars
  PROVE  WordInv'
<1>1. CASE UNCHANGED vars
  BY <1>1 DEF vars, WordInv, Covered, Heap
<1>2. CASE Next
  BY <1>2, CallWords, SplitWords, SplitDoneWords, LoopWords, InsertBlocksWords, CutBlockEndWords,
     GrownWords, ReallocFailsWords DEF Next
<1> QED BY <1>1, <1>2

(* Until cut_block_end has wrapped around, heap_free is at every moment    *)
(* the number of words in the lists, and between calls every word of the   *)
(* heap is in exactly one of: the lists, the blocks of callers, the words  *)
(* that a realloc without success has dropped.                             *)
THEOREM WordsAccounted == Spec => []EveryWordAccounted
<1> DEFINE Safe == ~Wrapped => HeapInv
           Counted == ~Wrapped => WordInv
<1>1. Safe /\ Counted /\ [Next]_vars => Counted'
  <2> SUFFICES ASSUME ~Wrapped => HeapInv, ~Wrapped => WordInv, [Next]_vars, ~Wrapped' PROVE WordInv'
    OBVIOUS
  <2>1. ~Wrapped
    BY TroubleStays DEF Wrapped
  <2> QED BY <2>1, WordsNext
<1>2. Safe /\ Counted => EveryWordAccounted
  <2> SUFFICES ASSUME HeapInv, WordInv
               PROVE  /\ heapFree = Cardinality(UNION {Words(b) : b \in free})
                      /\ pc = "idle" =>
                           UNION {Words(b) : b \in free \cup live} =
                             (HeapStart .. HeapStart + HeapSize - 1) \ lost
    BY DEF EveryWordAccounted
  <2>1. pc = "idle" => work = NoBlock /\ rest = NoBlock
    BY DEF HeapInv, LoopInv
  <2>2. WordsOf(free \cup live) = WordsOf(free) \cup WordsOf(live)
    BY DEF WordsOf
  <2>3. pc = "idle" => WordsOf(free \cup live) = Heap \ lost
    BY <2>1, <2>2, NoWords DEF WordInv, Covered
  <2> QED BY <2>3 DEF WordInv, WordsOf, Heap
<1>3. Init => Counted
  BY WordsInit
<1> QED BY <1>1, <1>2, <1>3, HeapInvariant, PTL DEF Spec

-----------------------------------------------------------------------------
(* What powers of two are to block addresses: AddrSize is the largest one  *)
(* that divides an address.                                                *)
Divides(p, n) == \E k \in Nat : n = p * k

LEMMA DividesMod ==
  ASSUME NEW p \in Nat \ {0}, NEW n \in Nat
  PROVE  n % p = 0 <=> Divides(p, n)
<1>1. ASSUME n % p = 0 PROVE Divides(p, n)
  <2>1. n \div p \in Nat
    OBVIOUS
  <2>2. n = p * (n \div p) + (n % p)
    OBVIOUS
  <2>3. n = p * (n \div p)
    BY <1>1, <2>1, <2>2
  <2> QED BY <2>1, <2>3 DEF Divides
<1>2. ASSUME NEW k \in Nat, n = p * k PROVE n % p = 0
  BY <1>2
<1> QED BY <1>1, <1>2 DEF Divides

LEMMA DividesSum ==
  ASSUME NEW p \in Nat \ {0}, NEW m \in Nat, NEW n \in Nat, Divides(p, m)
  PROVE  /\ Divides(p, n) => Divides(p, m + n)
         /\ Divides(p, n) /\ n <= m => Divides(p, m - n)
         /\ m # 0 => p <= m
<1>1. PICK j \in Nat : m = p * j
  BY DEF Divides
<1>2. ASSUME NEW k \in Nat, n = p * k PROVE Divides(p, m + n)
  <2>1. m + n = p * (j + k) /\ j + k \in Nat
    BY <1>1, <1>2
  <2> QED BY ONLY <2>1, Zenon DEF Divides
<1>3. ASSUME NEW k \in Nat, n = p * k, n <= m PROVE Divides(p, m - n)
  <2>1. m - n = p * (j - k)
    BY <1>1, <1>3
  <2>2. CASE k <= j
    <3>1. j - k \in Nat
      BY <2>2
    <3> QED BY ONLY <2>1, <3>1, Zenon DEF Divides
  <2>3. CASE k > j
    <3>1. p * (k - j) > 0
      BY <2>3
    <3>2. p * (k - j) = n - m
      BY <1>1, <1>3
    <3> QED BY <3>1, <3>2, <1>3
  <2> QED BY <2>2, <2>3
<1>4. ASSUME m # 0 PROVE p <= m
  <2>1. j # 0
    BY <1>1, <1>4
  <2>2. p * (j - 1) >= 0 /\ p * (j - 1) = p * j - p
    BY <2>1
  <2> QED BY <1>1, <2>2
<1> QED BY <1>2, <1>3, <1>4 DEF Divides

LEMMA DividesTransitive ==
  ASSUME NEW p \in Nat, NEW q \in Nat, NEW n \in Nat, Divides(p, q), Divides(q, n)
  PROVE  Divides(p, n)
<1>1. PICK j \in Nat : q = p * j
  BY DEF Divides
<1>2. PICK k \in Nat : n = q * k
  BY DEF Divides
<1>3. n = p * (j * k) /\ j * k \in Nat
  BY <1>1, <1>2
<1> QED BY <1>3 DEF Divides

(* The last odd multiple before an even one. *)
LEMMA DividesTwice ==
  ASSUME NEW p \in Nat \ {0}, NEW n \in Nat, Divides(p, n), ~ Divides(2 * p, n)
  PROVE  p <= n /\ Divides(2 * p, n - p)
<1>1. PICK j \in Nat : n = p * j
  BY DEF Divides
<1> DEFINE h == j \div 2
<1>2. h \in Nat /\ (j = 2 * h \/ j = 2 * h + 1)
  OBVIOUS
<1> HIDE DEF h
<1>3. CASE j = 2 * h
  <2>1. n = (2 * p) * h
    BY <1>1, <1>2, <1>3
  <2> QED BY <1>2, <2>1 DEF Divides
<1>4. CASE j = 2 * h + 1
  <2>1. n - p = (2 * p) * h /\ p * h \in Nat
    BY <1>1, <1>2, <1>4
  <2>2. (2 * p) * h \in Nat /\ p <= n
    BY <1>2, <2>1
  <2> QED BY <1>2, <2>1, <2>2 DEF Divides
<1> QED BY <1>2, <1>3, <1>4

LEMMA RoundPower ==
  ASSUME NEW n \in 1 .. UintRange - 1
  PROVE  RoundDown(n) \in Powers /\ RoundDown(n) <= n /\ n < 2 * RoundDown(n)
<1>1. \E p \in Powers : p <= n /\ n < 2 * p
  BY PowerAssumption
<1> QED BY <1>1, Zenon DEF RoundDown

LEMMA PowerType == \A p \in Powers : p \in Nat \ {0}
BY PowerAssumption

LEMMA PowerDivides ==
  ASSUME NEW p \in Powers, NEW q \in Powers, p <= q
  PROVE  Divides(p, q)
BY PowerAssumption, PowerType, DividesMod

(* AddrSize(a) is the largest power of two that divides a. *)
LEMMA AddrPower ==
  ASSUME NEW a \in 1 .. UintRange - 1
  PROVE  /\ AddrSize(a) \in Powers
         /\ Divides(AddrSize(a), a) /\ ~ Divides(2 * AddrSize(a), a)
         /\ \A p \in Powers : Divides(p, a) <=> p <= AddrSize(a)
<1> DEFINE A == AddrSize(a)
<1>1. \E p \in Powers : a % p = 0 /\ a % (2 * p) # 0
  BY PowerAssumption
<1>2. A \in Powers /\ a % A = 0 /\ a % (2 * A) # 0
  BY <1>1, Zenon DEF AddrSize
<1> HIDE DEF A
<1>3. A \in Nat \ {0} /\ 2 * A \in Nat \ {0} /\ a \in Nat \ {0} /\ UintRange \in Nat
  BY <1>2, PowerType, HeapAssumption
<1>4. Divides(A, a) /\ ~ Divides(2 * A, a)
  BY <1>2, <1>3, DividesMod
<1>5. ASSUME NEW p \in Powers, p <= A PROVE Divides(p, a)
  BY <1>2, <1>3, <1>4, <1>5, PowerType, PowerDivides, DividesTransitive
<1>6. ASSUME NEW p \in Powers, Divides(p, a), A < p PROVE FALSE
  <2>1. p \in Nat \ {0} /\ p <= a
    BY <1>3, <1>6, PowerType, DividesSum
  <2>2. Divides(A, p)
    BY <1>2, <1>3, <1>6, <2>1, PowerDivides
  <2>3. Divides(A, p - A) /\ p - A \in Nat
    <3>1. Divides(A, A)
      BY <1>2, <1>3, PowerDivides
    <3> QED BY <1>3, <1>6, <2>1, <2>2, <3>1, DividesSum
  <2>4. 2 * A <= p
    BY <1>3, <1>6, <2>1, <2>3, DividesSum
  <2>5. 2 * A < UintRange
    BY <1>3, <2>1, <2>4
  <2>6. Divides(2 * A, p)
    BY <1>2, <2>4, <2>5, PowerAssumption, PowerDivides
  <2> QED BY <1>3, <1>4, <1>6, <2>1, <2>6, DividesTransitive
<1>7. \A p \in Powers : Divides(p, a) <=> p <= A
  BY <1>3, <1>5, <1>6, PowerType
<1> QED BY <1>2, <1>4, <1>7 DEF A

(* A piece of s words lies at an address that M divides and is followed by *)
(* q words, a power of two that divides their address: together they are   *)
(* no more than M.                                                         *)
LEMMA FollowFits ==
  ASSUME NEW a \in Nat, NEW M \in Powers, Divides(M, a), NEW s \in Nat, s # 0, s < M,
         NEW q \in Powers, Divides(q, a + s)
  PROVE  s + q <= M
<1>1. M \in Nat \ {0} /\ q \in Nat \ {0} /\ a + s \in Nat
  BY PowerType
<1>2. q < M
  <2> SUFFICES ASSUME M <= q PROVE FALSE
    BY <1>1
  <2>1. Divides(M, a + s)
    BY <1>1, PowerDivides, DividesTransitive
  <2>2. Divides(M, (a + s) - a) /\ (a + s) - a = s
    BY <1>1, <2>1, DividesSum
  <2> QED BY <1>1, <2>2, DividesSum
<1>3. Divides(q, M)
  BY <1>1, <1>2, PowerDivides
<1>4. Divides(q, a)
  BY <1>1, <1>3, DividesTransitive
<1>5. Divides(q, (a + s) - a) /\ (a + s) - a = s
  BY <1>1, <1>4, DividesSum
<1>6. Divides(q, M - s) /\ M - s \in Nat /\ M - s # 0
  BY <1>1, <1>3, <1>5, DividesSum
<1>7. q <= M - s
  BY <1>1, <1>6, DividesSum
<1> QED BY <1>1, <1>7

(* A block as large as its address allows and the one before it of the     *)
(* same size.                                                              *)
LEMMA BackFits ==
  ASSUME NEW a \in 1 .. UintRange - 1, NEW c \in 1 .. UintRange - 1, c + AddrSize(a) = a,
         2 * AddrSize(a) < UintRange
  PROVE  2 * AddrSize(a) <= AddrSize(c)
<1> DEFINE A == AddrSize(a)
<1>1. A \in Powers /\ Divides(A, a) /\ ~ Divides(2 * A, a)
  BY AddrPower
<1>2. 2 * A \in Powers
  BY <1>1, PowerAssumption
<1>3. A \in Nat \ {0} /\ a \in Nat /\ c \in Nat /\ c + A = a
  BY <1>1, PowerType, HeapAssumption
<1> HIDE DEF A
<1>4. Divides(2 * A, a - A) /\ a - A = c
  BY <1>1, <1>3, DividesTwice
<1>5. 2 * A <= AddrSize(c)
  BY <1>2, <1>4, AddrPower
<1> QED BY <1>5 DEF A

-----------------------------------------------------------------------------
(* No larger than the power of two that divides the address. *)
Fits(b) == b.size <= AddrSize(b.ptr)
Small(b) == Fits(b) /\ b.size <= LargestBlock
Listed(b) == b.size \in Powers /\ b.size <= LargestBlock /\ b.ptr % b.size = 0

(* The inductive invariant of FreeBlocksFit.  Blocks of callers are of any *)
(* size, but fit; what split_block still has to break off fits the end of  *)
(* the block; what merge_block has grown beyond LARGEST_BLOCK begins at a  *)
(* multiple of it; and grow_block never gets that far.                     *)
FitInv ==
    /\ \A b \in free : Listed(b)
    /\ \A b \in live : Small(b)
    /\ pc \in {"split", "grow forward", "grow back", "grown", "cut"} => Small(work)
    /\ pc = "split" =>
        work.size - want < AddrSize(End(work)) /\ (rest.size # 0 => Small(rest))
    /\ pc \in {"merge forward", "merge back"} => Fits(work)
    /\ pc = "insert" => (Fits(work) \/ LargestBlock <= AddrSize(work.ptr))
    /\ pc \in {"grow forward", "grow back", "grown"} => Small(origin)
    /\ pc = "cut" => rest.size <= LargestBlock

LEMMA AddrBounds ==
  ASSUME NEW b, IsBlock(b)
  PROVE  /\ b.ptr \in 1 .. UintRange - 1 /\ b.size \in 1 .. UintRange - 1
         /\ End(b) \in 1 .. UintRange - 1 /\ b.ptr \in Nat /\ b.size \in Nat /\ b.size # 0
         /\ AddrSize(b.ptr) \in Nat /\ AddrSize(b.ptr) \in Powers
         /\ Divides(AddrSize(b.ptr), b.ptr)
         /\ AddrSize(End(b)) \in Nat /\ AddrSize(End(b)) \in Powers
<1>1. b.ptr \in 1 .. UintRange - 1 /\ b.size \in 1 .. UintRange - 1
  BY BlockBounds
<1>2. End(b) \in 1 .. UintRange - 1 /\ b.ptr \in Nat /\ b.size \in Nat /\ b.size # 0
  BY HeapAssumption DEF IsBlock, End
<1> QED BY <1>1, <1>2, AddrPower, PowerType

(* A power of two no larger than the address allows can be listed there. *)
LEMMA PieceListed ==
  ASSUME NEW a \in 1 .. UintRange - 1, NEW p \in Powers, p <= LargestBlock, p <= AddrSize(a)
  PROVE  Listed(Block(a, p))
<1>1. Divides(p, a) /\ p \in Nat \ {0} /\ a \in Nat
  BY AddrPower, PowerType
<1>2. a % p = 0
  BY <1>1, DividesMod
<1> QED BY <1>2 DEF Listed, Block

(* A listed block fits, and ends where a power of its size divides. *)
LEMMA ListedFits ==
  ASSUME NEW b, IsBlock(b), Listed(b)
  PROVE  Small(b) /\ Divides(b.size, b.ptr) /\ b.size <= AddrSize(End(b))
<1>1. b.size \in Nat \ {0} /\ b.size \in Powers /\ b.ptr \in Nat /\ b.ptr % b.size = 0
  BY PowerType DEF Listed, IsBlock
<1>2. Divides(b.size, b.ptr) /\ Divides(b.size, b.size)
  BY <1>1, DividesMod, PowerDivides
<1>3. Divides(b.size, End(b))
  BY <1>1, <1>2, DividesSum DEF End
<1>4. b.size <= AddrSize(b.ptr) /\ b.size <= AddrSize(End(b))
  BY <1>1, <1>2, <1>3, AddrBounds, AddrPower
<1> QED BY <1>2, <1>4 DEF Small, Fits, Listed

LEMMA LargestListed ==
  ASSUME NEW i \in Nat
  PROVE  Listed(Block(HeapStart + LargestBlock * i, LargestBlock))
<1>1. LargestBlock \in Nat \ {0} /\ HeapStart \in Nat /\ LargestBlock * i \in Nat
  BY HeapAssumption
<1>2. Divides(LargestBlock, HeapStart)
  BY <1>1, DividesMod, SizedAssumption
<1>3. Divides(LargestBlock, LargestBlock * i)
  BY <1>1 DEF Divides
<1>4. Divides(LargestBlock, HeapStart + LargestBlock * i)
  BY <1>1, <1>2, <1>3, DividesSum
<1>5. (HeapStart + LargestBlock * i) % LargestBlock = 0
  BY <1>1, <1>4, DividesMod
<1> QED BY <1>1, <1>5, SizedAssumption DEF Listed, Block

LEMMA FitInit == Init => FitInv
<1> SUFFICES ASSUME Init PROVE FitInv
  OBVIOUS
<1>1. \A b \in WholeHeap : Listed(b)
  BY LargestListed DEF WholeHeap
<1> QED BY <1>1 DEF FitInv, Init

LEMMA WorkBlock ==
  ASSUME HeapInv, pc # "idle"
  PROVE  IsBlock(work)
BY DEF HeapInv, LoopInv, HandOK, InHandOK

LEMMA AcquireFits ==
  ASSUME HeapInv, FitInv, NEW size \in Asked, AcquireBlock(size)
  PROVE  /\ \A b \in free' : Listed(b)
         /\ Small(work') /\ work'.size - size < AddrSize(End(work'))
         /\ pc' = "split" /\ want' = size
<1>1. PICK b \in free : free' = free \ {b} /\ work' = b /\ want' = size /\ pc' = "split"
  BY DEF AcquireBlock, BigEnough, DeleteAddr
<1>2. IsBlock(b) /\ Listed(b)
  BY DEF HeapInv, BlocksOK, FitInv
<1>3. Small(b) /\ b.size <= AddrSize(End(b))
  BY <1>2, ListedFits
<1>4. size \in Nat \ {0}
  BY AskedFacts
<1>5. b.size - size < AddrSize(End(b))
  BY <1>2, <1>3, <1>4, AddrBounds
<1> QED BY <1>1, <1>3, <1>5 DEF FitInv

LEMMA AcquiringFits ==
  ASSUME HeapInv, FitInv, (\E n \in Requests : Malloc(n)) \/ GrownShort
  PROVE  FitInv'
<1>1. CASE \E n \in Requests : Malloc(n)
  <2>1. PICK n \in Requests : Malloc(n)
    BY <1>1
  <2>2. n + Header \in Asked
    BY DEF Asked
  <2>3. rest' = NoBlock /\ live' = live
    BY <2>1 DEF Malloc, HeapInv, LoopInv
  <2>4. /\ \A b \in free' : Listed(b)
        /\ Small(work') /\ work'.size - (n + Header) < AddrSize(End(work'))
        /\ pc' = "split" /\ want' = n + Header
    BY <2>1, <2>2, AcquireFits DEF Malloc
  <2> QED BY <2>3, <2>4, NoBlockFacts DEF FitInv
<1>2. CASE GrownShort
  <2>1. want \in Asked /\ Small(work)
    BY <1>2 DEF GrownShort, HeapInv, LoopInv, FitInv
  <2>2. rest' = work /\ live' = live
    BY <1>2 DEF GrownShort
  <2>3. /\ \A b \in free' : Listed(b)
        /\ Small(work') /\ work'.size - want < AddrSize(End(work'))
        /\ pc' = "split" /\ want' = want
    BY <1>2, <2>1, AcquireFits DEF GrownShort
  <2> QED BY <2>1, <2>2, <2>3 DEF FitInv
<1> QED BY <1>1, <1>2

(* A smaller block at the same place fits too. *)
LEMMA SmallerFits ==
  ASSUME NEW b, IsBlock(b), Small(b), NEW n \in Nat, n <= b.size
  PROVE  Small(Block(b.ptr, n))
<1>1. AddrSize(b.ptr) \in Nat /\ b.size \in Nat /\ LargestBlock \in Nat
  BY AddrBounds, HeapAssumption
<1> QED BY <1>1 DEF Small, Fits, Block

LEMMA SplitFits ==
  ASSUME HeapInv, FitInv, SplitBlock
  PROVE  FitInv'
<1> DEFINE n == work.size - want
           pow == RoundDown(n)
           e == End(work)
<1>1. IsBlock(work) /\ want \in Nat \ {0} /\ want <= work.size /\ Small(work)
      /\ n < AddrSize(e)
  BY WorkBlock, AskedFacts DEF SplitBlock, HeapInv, LoopInv, FitInv
<1>2. /\ work.ptr \in 1 .. UintRange - 1 /\ work.size \in Nat /\ e \in 1 .. UintRange - 1
      /\ AddrSize(e) \in Nat /\ AddrSize(e) \in Powers
      /\ e = work.ptr + work.size /\ UintRange \in Nat
  BY <1>1, AddrBounds, HeapAssumption DEF End
<1>3. n \in 1 .. UintRange - 1
  BY <1>1, <1>2, AddrBounds DEF SplitBlock, SmallestBlock
<1>4. pow \in Powers /\ pow <= n /\ n < 2 * pow /\ pow \in Nat \ {0}
  BY <1>3, RoundPower, PowerType
<1>5. /\ free' = free \cup {Block(e - pow, pow)} /\ work' = Block(work.ptr, work.size - pow)
      /\ live' = live /\ pc' = "split" /\ rest' = rest /\ want' = want
  BY DEF SplitBlock, InsertAddr
<1> HIDE DEF pow, e
<1>6. e - pow \in 1 .. UintRange - 1 /\ e - pow \in Nat /\ pow <= work.size /\ pow <= e
  BY <1>1, <1>2, <1>3, <1>4
<1>7. Divides(pow, e - pow)
  <2>1. Divides(pow, e)
    BY <1>1, <1>2, <1>3, <1>4, AddrPower
  <2>2. Divides(pow, pow)
    BY <1>4, PowerDivides
  <2> QED BY <1>2, <1>4, <1>6, <2>1, <2>2, DividesSum
<1>8. pow <= AddrSize(e - pow)
  BY <1>4, <1>6, <1>7, AddrPower
<1>9. Listed(Block(e - pow, pow))
  <2>1. pow <= LargestBlock
    BY <1>1, <1>2, <1>4, <1>6, HeapAssumption DEF Small
  <2> QED BY <1>4, <1>6, <1>8, <2>1, PieceListed
<1>10. Small(work')
  <2>1. work.size - pow \in Nat /\ work.size - pow <= work.size
    BY <1>2, <1>4, <1>6
  <2> QED BY <1>1, <1>5, <2>1, SmallerFits
<1>11. work'.size - want < AddrSize(End(work'))
  <2>1. work'.size = work.size - pow /\ End(work') = e - pow
    BY <1>2, <1>4, <1>5 DEF Block, End
  <2>2. AddrSize(e - pow) \in Nat
    BY <1>6, AddrPower, PowerType
  <2> QED BY <1>1, <1>2, <1>3, <1>4, <1>8, <2>1, <2>2
<1> QED BY <1>5, <1>9, <1>10, <1>11 DEF FitInv, SplitBlock

LEMMA SplitDoneFits ==
  ASSUME HeapInv, FitInv, SplitDone
  PROVE  FitInv'
<1>1. Small(work) /\ (rest.size # 0 => Small(rest)) /\ (rest.size = 0 => rest = NoBlock)
  BY DEF SplitDone, FitInv, HeapInv, LoopInv
<1>2. free' = free /\ live' = live \cup {work}
  BY DEF SplitDone, Return
<1>3. CASE rest = NoBlock
  <2>1. pc' = "idle"
    BY <1>3 DEF SplitDone, Return
  <2> QED BY <1>1, <1>2, <2>1 DEF FitInv
<1>4. CASE rest # NoBlock
  <2>1. pc' \in {"merge forward", "insert"} /\ work' = rest
    BY <1>4 DEF SplitDone, StartFree
  <2> QED BY <1>1, <1>2, <1>4, <2>1 DEF FitInv, Small
<1> QED BY <1>3, <1>4

LEMMA FreeFits ==
  ASSUME FitInv, NEW b \in live, Free(b)
  PROVE  FitInv'
<1>1. free' = free /\ live' \subseteq live /\ work' = b /\ pc' \in {"merge forward", "insert"}
  BY DEF Free, StartFree
<1> QED BY <1>1 DEF FitInv, Small

(* merge_block and grow_block: the block that follows is taken up to the   *)
(* size M, a power of two that divides the address.                        *)
LEMMA ForwardFits ==
  ASSUME HeapInv, FitInv, pc # "idle", NEW b \in Following, Swallow(b),
         NEW M \in Powers, Divides(M, work.ptr), work.size < M
  PROVE  /\ free' = free \ {b} /\ live' = live /\ origin' = origin
         /\ work'.ptr = work.ptr /\ work'.size <= M /\ work'.size \in Nat
<1>1. IsBlock(work) /\ b \in free /\ b.ptr = End(work)
  BY WorkBlock DEF Following
<1>2. IsBlock(b) /\ Listed(b)
  BY <1>1 DEF HeapInv, BlocksOK, FitInv
<1>3. b.size \in Powers /\ Divides(b.size, work.ptr + work.size)
  BY <1>1, <1>2, ListedFits DEF Listed, End
<1>4. work.ptr \in Nat /\ work.size \in Nat /\ work.size # 0 /\ b.size \in Nat
  BY <1>1, <1>2, AddrBounds
<1>5. work.size + b.size <= M
  BY <1>3, <1>4, FollowFits
<1>6. work' = Block(work.ptr, work.size + b.size)
  BY <1>1, <1>4 DEF Swallow, End
<1> QED BY <1>4, <1>5, <1>6 DEF Swallow, DeleteAddr, Block

(* The block of the same size before it is taken, when the address allows  *)
(* no more.                                                                *)
LEMMA BackwardFits ==
  ASSUME HeapInv, FitInv, pc # "idle", NEW b \in Preceding, Swallow(b),
         work.size = AddrSize(work.ptr)
  PROVE  /\ free' = free \ {b} /\ live' = live /\ origin' = origin
         /\ Fits(work') /\ work'.size = 2 * work.size
<1>1. IsBlock(work) /\ b \in free /\ End(b) = work.ptr /\ b.size = work.size
  BY WorkBlock DEF Preceding
<1>2. IsBlock(b)
  BY <1>1 DEF HeapInv, BlocksOK
<1>3. /\ work.ptr \in 1 .. UintRange - 1 /\ b.ptr \in 1 .. UintRange - 1
      /\ work.size \in Nat \ {0} /\ b.ptr \in Nat /\ work.ptr \in Nat
      /\ End(work) \in 1 .. UintRange - 1 /\ UintRange \in Nat
      /\ b.ptr + work.size = work.ptr
  BY <1>1, <1>2, AddrBounds, HeapAssumption DEF End
<1>4. 2 * work.size < UintRange
  BY <1>3 DEF End
<1>5. 2 * work.size <= AddrSize(b.ptr)
  BY <1>3, <1>4, BackFits
<1>6. work' = Block(b.ptr, 2 * work.size)
  BY <1>1, <1>3 DEF Swallow
<1> QED BY <1>5, <1>6 DEF Swallow, DeleteAddr, Fits, Block

LEMMA MergeFits ==
  ASSUME HeapInv, FitInv, MergeForward \/ MergeBack
  PROVE  FitInv'
<1>1. Fits(work) /\ IsBlock(work)
  BY WorkBlock DEF MergeForward, MergeBack, FitInv
<1>2. ASSUME NEW label, Goto(label), label \in {"merge back", "insert"} PROVE FitInv'
  BY <1>1, <1>2 DEF Goto, FitInv
<1>3. CASE MergeForward
  <2>1. CASE work.size < AddrSize(work.ptr) /\ Following # {}
    <3>1. pc = "merge forward" /\ pc' = pc
      BY <1>3, <2>1 DEF MergeForward
    <3>2. PICK b \in Following : Swallow(b)
      BY <1>3, <2>1 DEF MergeForward, Merge
    <3>3. /\ free' = free \ {b} /\ live' = live
          /\ work'.ptr = work.ptr /\ work'.size <= AddrSize(work.ptr)
      BY <1>1, <2>1, <3>1, <3>2, AddrBounds, ForwardFits
    <3> QED BY <3>1, <3>3 DEF FitInv, Fits
  <2>2. CASE Goto("merge back")
    BY <1>2, <2>2
  <2> QED BY <1>3, <2>1, <2>2 DEF MergeForward
<1>4. CASE MergeBack
  <2>1. CASE CanMergeBack /\ Preceding # {}
    <3>1. pc # "idle" /\ pc' \in {"merge forward", "insert"}
      BY <1>4, <2>1 DEF MergeBack
    <3>2. PICK b \in Preceding : Swallow(b)
      BY <1>4, <2>1 DEF MergeBack, Merge
    <3>3. free' = free \ {b} /\ live' = live /\ Fits(work')
      BY <2>1, <3>1, <3>2, BackwardFits DEF CanMergeBack
    <3> QED BY <3>1, <3>3 DEF FitInv
  <2>2. CASE Goto("insert")
    BY <1>2, <2>2
  <2> QED BY <1>4, <2>1, <2>2 DEF MergeBack
<1> QED BY <1>3, <1>4

(* Twice a power of two is no more than a larger one. *)
LEMMA DoublePower ==
  ASSUME NEW p \in Powers, NEW q \in Powers, p < q
  PROVE  2 * p <= q
<1>1. p \in Nat \ {0} /\ q \in Nat \ {0}
  BY PowerType
<1>2. Divides(p, q) /\ Divides(p, p)
  BY <1>1, PowerDivides
<1>3. Divides(p, q - p) /\ q - p \in Nat \ {0}
  BY <1>1, <1>2, DividesSum
<1>4. p <= q - p
  BY <1>1, <1>3, DividesSum
<1> QED BY <1>1, <1>4

LEMMA GrowFits ==
  ASSUME HeapInv, FitInv, trouble' = {}, GrowForward \/ GrowBack
  PROVE  FitInv'
<1>1. Small(work) /\ Small(origin) /\ IsBlock(work) /\ pc \in {"grow forward", "grow back"}
  BY WorkBlock DEF GrowForward, GrowBack, FitInv
<1>2. ASSUME NEW b \in free, Grow(b) PROVE work'.size <= LargestBlock
  <2>1. work.size \in Nat /\ b.size \in Nat /\ LargestBlock \in Nat
    BY <1>1, <1>2, AddrBounds, HeapAssumption DEF HeapInv, BlocksOK
  <2>2. ~ (work.size + b.size > LargestBlock) /\ work'.size = work.size + b.size
    BY <1>2 DEF Grow, Swallow, Block
  <2> QED BY <2>1, <2>2
<1>3. ASSUME NEW label, Goto(label), label \in {"grow back", "grown"} PROVE FitInv'
  BY <1>1, <1>3 DEF Goto, FitInv, Small, Fits
<1>4. /\ AddrSize(work.ptr) \in Nat /\ AddrSize(work.ptr) \in Powers /\ work.size \in Nat
      /\ Divides(AddrSize(work.ptr), work.ptr)
  BY <1>1, AddrBounds
<1>5. CASE GrowForward
  <2>1. CASE work.size < want /\ work.size < AddrSize(work.ptr) /\ Following # {}
    <3>1. pc' = pc
      BY <1>5, <2>1 DEF GrowForward
    <3>2. PICK b \in Following : Grow(b)
      BY <1>5, <2>1 DEF GrowForward
    <3>3. b \in free /\ Swallow(b)
      BY <3>2 DEF Following, Grow
    <3>4. /\ free' = free \ {b} /\ live' = live /\ origin' = origin
          /\ work'.ptr = work.ptr /\ work'.size <= AddrSize(work.ptr)
      BY <1>1, <1>4, <2>1, <3>2, <3>3, ForwardFits
    <3>5. Small(work')
      BY <1>2, <3>2, <3>3, <3>4 DEF Small, Fits
    <3> QED BY <1>1, <3>1, <3>4, <3>5 DEF FitInv, Small, Fits
  <2>2. CASE Goto("grow back")
    BY <1>3, <2>2
  <2> QED BY <1>5, <2>1, <2>2 DEF GrowForward
<1>6. CASE GrowBack
  <2>1. CASE work.size < want /\ work.size = AddrSize(work.ptr) /\ Preceding # {}
    <3>1. pc' \in {"grow forward", "grown"}
      BY <1>6, <2>1 DEF GrowBack
    <3>2. PICK b \in Preceding : Grow(b)
      BY <1>6, <2>1 DEF GrowBack
    <3>3. b \in free /\ Swallow(b)
      BY <3>2 DEF Preceding, Grow
    <3>4. /\ free' = free \ {b} /\ live' = live /\ origin' = origin /\ Fits(work')
      BY <1>1, <2>1, <3>2, <3>3, BackwardFits
    <3>5. work'.size <= LargestBlock
      BY <1>2, <3>2, <3>3
    <3> QED BY <1>1, <3>1, <3>4, <3>5 DEF FitInv, Small, Fits
  <2>2. CASE Goto("grown")
    BY <1>3, <2>2
  <2> QED BY <1>6, <2>1, <2>2 DEF GrowBack
<1> QED BY <1>5, <1>6

(* kern_free: pieces up to LARGEST_BLOCK from the start of the block. *)
LEMMA InsertPiece ==
  ASSUME HeapInv, FitInv, InsertBlocks
  PROVE  \E pow \in Powers :
            /\ pow <= LargestBlock /\ pow <= AddrSize(work.ptr) /\ pow <= work.size
            /\ pow = LargestBlock \/ work.size - pow < pow
            /\ free' = free \cup {Block(work.ptr, pow)} /\ live' = live
            /\ \/ work.size = pow /\ pc' = "idle"
               \/ /\ work.size # pow /\ pc' = "insert"
                  /\ work' = Block(work.ptr + pow, work.size - pow)
<1> DEFINE r == RoundDown(work.size)
           A == AddrSize(work.ptr)
           pow == IF r > LargestBlock THEN LargestBlock ELSE r
<1>1. IsBlock(work) /\ (work.size <= A \/ LargestBlock <= A)
  BY WorkBlock DEF InsertBlocks, FitInv, Fits
<1>2. /\ work.size \in 1 .. UintRange - 1 /\ work.size \in Nat /\ A \in Nat
      /\ LargestBlock \in Nat \ {0} /\ LargestBlock \in Powers
  BY <1>1, AddrBounds, HeapAssumption, SizedAssumption
<1>3. r \in Powers /\ r \in Nat \ {0} /\ r <= work.size /\ work.size < 2 * r
  BY <1>2, RoundPower, PowerType
<1>4. /\ free' = free \cup {Block(work.ptr, pow)} /\ live' = live
      /\ \/ work.size = pow /\ pc' = "idle"
         \/ /\ work.size # pow /\ pc' = "insert"
            /\ work' = Block(work.ptr + pow, work.size - pow)
  BY DEF InsertBlocks, InsertAddr, Return
<1> HIDE DEF r, A
<1>5. pow \in Powers /\ pow <= LargestBlock /\ pow <= A /\ pow <= work.size
  BY <1>1, <1>2, <1>3
<1>6. pow = LargestBlock \/ work.size - pow < pow
  BY <1>2, <1>3
<1> HIDE DEF pow
<1> QED BY <1>4, <1>5, <1>6 DEF A

LEMMA InsertFits ==
  ASSUME HeapInv, FitInv, InsertBlocks
  PROVE  FitInv'
<1>1. PICK pow \in Powers :
        /\ pow <= LargestBlock /\ pow <= AddrSize(work.ptr) /\ pow <= work.size
        /\ pow = LargestBlock \/ work.size - pow < pow
        /\ free' = free \cup {Block(work.ptr, pow)} /\ live' = live
        /\ \/ work.size = pow /\ pc' = "idle"
           \/ /\ work.size # pow /\ pc' = "insert"
              /\ work' = Block(work.ptr + pow, work.size - pow)
  BY InsertPiece
<1> DEFINE a == work.ptr + pow
<1>2. /\ IsBlock(work) /\ work.ptr \in 1 .. UintRange - 1 /\ work.ptr \in Nat
      /\ work.size \in Nat /\ UintRange \in Nat /\ work.ptr + work.size < UintRange
      /\ LargestBlock \in Nat /\ pow \in Nat \ {0}
  BY WorkBlock, AddrBounds, PowerType, HeapAssumption DEF InsertBlocks, End
<1>3. Listed(Block(work.ptr, pow))
  BY <1>1, <1>2, PieceListed
<1>4. ASSUME work.size # pow PROVE pow <= AddrSize(a) /\ AddrSize(a) \in Nat
  <2>1. a \in 1 .. UintRange - 1
    BY <1>1, <1>2, <1>4
  <2>2. Divides(pow, work.ptr) /\ Divides(pow, pow)
    BY <1>1, <1>2, AddrPower, PowerDivides
  <2>3. Divides(pow, a)
    BY <1>2, <2>2, DividesSum
  <2> HIDE DEF a
  <2> QED BY <2>1, <2>3, AddrPower, PowerType
<1>5. CASE work.size = pow
  BY <1>1, <1>3, <1>5 DEF FitInv
<1>6. CASE work.size # pow
  <2>1. work' = Block(a, work.size - pow) /\ pc' = "insert"
    BY <1>1, <1>6
  <2>2. work'.ptr = a /\ work'.size = work.size - pow
    BY <2>1 DEF Block
  <2>3. work'.size <= AddrSize(work'.ptr) \/ LargestBlock <= AddrSize(work'.ptr)
    BY <1>1, <1>2, <1>4, <1>6, <2>2
  <2> QED BY <1>1, <1>3, <2>1, <2>3 DEF FitInv, Fits
<1> QED BY <1>5, <1>6

(* cut_block_end keeps no more than the block and cuts off no more. *)
LEMMA CutFits ==
  ASSUME NEW b, IsBlock(b), Small(b), NEW size \in Asked, StartCut(b, size), ~Wrapped'
  PROVE  Small(work') /\ rest'.size <= LargestBlock /\ pc' = "cut"
<1>2. Kept(size) \in Nat /\ Kept(size) <= b.size
  BY KeptPart
<1>3. b.size \in 1 .. UintRange - 1 /\ b.size <= LargestBlock
      /\ UintRange \in Nat /\ LargestBlock \in Nat
  BY AddrBounds, HeapAssumption DEF Small
<1>4. (b.size - Kept(size)) % UintRange = b.size - Kept(size)
  <2>1. b.size - Kept(size) \in 0 .. UintRange - 1
    BY <1>2, <1>3
  <2> QED BY <2>1, ModSmall
<1>5. Small(work')
  BY <1>2, SmallerFits DEF StartCut
<1>6. rest'.size = b.size - Kept(size)
  BY <1>4 DEF StartCut, Block
<1> QED BY <1>2, <1>3, <1>5, <1>6 DEF StartCut

LEMMA ReallocFits ==
  ASSUME HeapInv, FitInv, ~Wrapped',
         (\E n \in Requests, b \in live : Realloc(b, n)) \/ GrownEnough \/ ReallocFails
  PROVE  FitInv'
<1>1. ASSUME NEW n \in Requests, NEW b \in live, Realloc(b, n) PROVE FitInv'
  <2>1. IsBlock(b) /\ Small(b) /\ n + Header \in Asked
    BY DEF HeapInv, BlocksOK, FitInv, Asked
  <2>2. free' = free /\ live' \subseteq live
    BY <1>1 DEF Realloc
  <2>3. CASE b.size >= n + Header /\ StartCut(b, n + Header)
    <3>1. n + Header <= b.size
      BY <2>1, <2>3, AskedFacts, AddrBounds
    <3>2. Small(work') /\ rest'.size <= LargestBlock /\ pc' = "cut"
      BY <2>1, <2>3, <3>1, CutFits
    <3> QED BY <2>2, <3>2 DEF FitInv
  <2>4. CASE work' = b /\ origin' = b /\ pc' = "grow forward"
    BY <2>1, <2>2, <2>4 DEF FitInv
  <2> QED BY <1>1, <2>3, <2>4 DEF Realloc
<1>2. CASE GrownEnough
  <2>1. IsBlock(work) /\ Small(work) /\ want \in Asked /\ StartCut(work, want)
        /\ free' = free /\ live' = live
    BY <1>2, WorkBlock DEF GrownEnough, FitInv, HeapInv, LoopInv
  <2>2. want <= work.size
    BY <1>2, <2>1, AskedFacts, AddrBounds DEF GrownEnough
  <2>3. Small(work') /\ rest'.size <= LargestBlock /\ pc' = "cut"
    BY <2>1, <2>2, CutFits
  <2> QED BY <2>1, <2>3 DEF FitInv
<1>3. CASE ReallocFails
  BY <1>3 DEF ReallocFails, Return, FitInv
<1> QED BY <1>1, <1>2, <1>3

(* A piece of the end: no larger than its address and what is left allow. *)
LEMMA CutBlockEndFits ==
  ASSUME HeapInv, FitInv, CutBlockEnd
  PROVE  FitInv'
<1>1. pc = "cut" /\ Small(work) /\ rest.size <= LargestBlock
  BY DEF CutBlockEnd, FitInv
<1>2. CASE rest.size = 0
  <2>1. free' = free /\ live' = live \cup {work} /\ pc' = "idle"
    BY <1>2 DEF CutBlockEnd, Return
  <2> QED BY <1>1, <2>1 DEF FitInv
<1>3. CASE rest.size # 0
  <2> DEFINE fits == AddrSize(rest.ptr)
             in == IF rest.size > fits THEN fits ELSE RoundDown(rest.size)
  <2>1. IsBlock(rest)
    BY <1>3 DEF HeapInv, HandOK, InHandOK
  <2>2. /\ rest.ptr \in 1 .. UintRange - 1 /\ rest.size \in 1 .. UintRange - 1
        /\ rest.size \in Nat /\ fits \in Nat \ {0} /\ fits \in Powers /\ LargestBlock \in Nat
    BY <2>1, AddrBounds, PowerType, HeapAssumption
  <2>3. RoundDown(rest.size) \in Powers /\ RoundDown(rest.size) <= rest.size
        /\ RoundDown(rest.size) \in Nat \ {0}
    BY <2>2, RoundPower, PowerType
  <2>4. /\ free' = free \cup {Block(rest.ptr, in)} /\ rest' = Block(rest.ptr + in, rest.size - in)
        /\ live' = live /\ pc' = pc /\ work' = work
    BY <1>3 DEF CutBlockEnd, InsertAddr
  <2>5. in \in Powers /\ in \in Nat /\ in <= fits /\ in <= LargestBlock /\ in <= rest.size
    BY <1>1, <2>2, <2>3
  <2> HIDE DEF in
  <2>6. Listed(Block(rest.ptr, in))
    BY <2>2, <2>5, PieceListed
  <2>7. rest'.size <= LargestBlock
    BY <1>1, <2>2, <2>4, <2>5 DEF Block
  <2> QED BY <1>1, <2>4, <2>6, <2>7 DEF FitInv, Small, Fits
<1> QED BY <1>2, <1>3

LEMMA NoTrouble ==
  ASSUME [Next]_vars, trouble' = {}
  PROVE  trouble = {} /\ ~Wrapped /\ ~Wrapped'
BY TroubleStays DEF Wrapped

LEMMA FitNext ==
  ASSUME HeapInv, FitInv, trouble' = {}, [Next]_vars
  PROVE  FitInv'
<1>0. ~Wrapped'
  BY DEF Wrapped
<1>1. CASE UNCHANGED vars
  BY <1>1 DEF vars, FitInv, Small, Fits, End
<1>2. CASE Next
  BY <1>0, <1>2, AcquiringFits, SplitFits, SplitDoneFits, FreeFits, MergeFits, GrowFits, InsertFits,
     ReallocFits, CutBlockEndFits DEF Next
<1> QED BY <1>1, <1>2

(* Until a realloc has grown a block beyond LARGEST_BLOCK or cut_block_end *)
(* has wrapped around, a block in the lists is a power of two of at most   *)
(* LARGEST_BLOCK words that divides its address, whatever split_block,     *)
(* kern_free and cut_block_end put there and whatever sizes are asked for. *)
THEOREM ListsFit == Spec => []FreeBlocksFit
<1> DEFINE Safe == ~Wrapped => HeapInv
           Fitting == trouble = {} => FitInv
<1>1. Safe /\ Fitting /\ [Next]_vars => Fitting'
  BY NoTrouble, FitNext
<1>2. Fitting => FreeBlocksFit
  BY DEF FitInv, Listed, FreeBlocksFit
<1>3. Init => Fitting
  BY FitInit
<1> QED BY <1>1, <1>2, <1>3, HeapInvariant, PTL DEF Spec

-----------------------------------------------------------------------------
(* Whether the heap merges again.  A cell is a place for a listed block: a *)
(* power of two up to LARGEST_BLOCK and an address it divides.             *)
Cell(a, p) == a \in Nat /\ p \in Powers /\ p <= LargestBlock /\ Divides(p, a)
Inside(a, p, c, q) == c <= a /\ a + p <= c + q

Held(F, v) == \E b \in F : b.ptr <= v /\ v < b.ptr + b.size
Filled(F, a, p) == \A v \in Nat : a <= v /\ v < a + p => Held(F, v)

(* A word before the cell, in a cell around it, is not in F: when it comes *)
(* back, merge_block goes forward over all that is in the cell.            *)
Blocked(F, a, p) ==
    \E c \in Nat, q \in Powers :
        Cell(c, q) /\ Inside(a, p, c, q) /\ \E v \in Nat : c <= v /\ v < a /\ ~ Held(F, v)

(* A cell with all its words in F is in one block or waits for such a word.*)
Whole(F) ==
    \A a \in Nat, p \in Powers :
        Cell(a, p) /\ Filled(F, a, p) =>
            (\E b \in F : Inside(a, p, b.ptr, b.size)) \/ Blocked(F, a, p)

(* The inductive invariant of HeapMergesBack.  What cut_block_end inserts  *)
(* is not merged, so buddies may be free side by side; but only behind     *)
(* words that are not free.                                                *)
MergeInv ==
    /\ pc # "insert" => Whole(free)
    /\ pc = "insert" => Whole(free \cup {work})
    /\ pc = "merge back" /\ work.size < AddrSize(work.ptr) => Following = {}
    /\ pc = "cut" => /\ work.ptr < rest.ptr
                     /\ End(rest) <= work.ptr + AddrSize(work.ptr)
                     /\ End(rest) <= work.ptr + LargestBlock

(* Of two such places that have a word in common the smaller is inside the *)
(* larger.                                                                 *)
LEMMA Nested ==
  ASSUME NEW a \in Nat, NEW p \in Powers, Divides(p, a),
         NEW c \in Nat, NEW q \in Powers, Divides(q, c), p <= q,
         NEW v \in Nat, a <= v, v < a + p, c <= v, v < c + q
  PROVE  Inside(a, p, c, q)
<1>1. p \in Nat \ {0} /\ q \in Nat \ {0}
  BY PowerType
<1>2. Divides(p, q)
  BY PowerDivides
<1>3. Divides(p, c)
  BY <1>1, <1>2, DividesTransitive
<1>4. Divides(p, c + q) /\ c + q \in Nat
  BY <1>1, <1>2, <1>3, DividesSum
<1>5. c <= a
  <2> SUFFICES ASSUME a < c PROVE FALSE
    OBVIOUS
  <2>1. Divides(p, c - a) /\ c - a \in Nat \ {0}
    BY <1>1, <1>3, DividesSum
  <2>2. p <= c - a
    BY <1>1, <2>1, DividesSum
  <2> QED BY <1>1, <2>2
<1>6. Divides(p, (c + q) - a) /\ (c + q) - a \in Nat \ {0}
  <2>1. a < c + q
    BY <1>1
  <2>2. Divides(p, (c + q) - a)
    BY <1>1, <1>4, <2>1, DividesSum
  <2> QED BY <1>1, <2>1, <2>2
<1>7. p <= (c + q) - a
  BY <1>1, <1>6, DividesSum
<1> QED BY <1>1, <1>5, <1>7 DEF Inside

(* A smaller place inside a larger one, of which it is not the beginning,  *)
(* begins after it; a cell that avoids the first word of a cell it meets   *)
(* is behind that word.                                                    *)
LEMMA Behind ==
  ASSUME NEW a \in Nat, NEW p \in Powers, Divides(p, a),
         NEW c \in Nat, NEW q \in Powers, Divides(q, c),
         NEW v \in Nat, a <= v, v < a + p, c <= v, v < c + q,
         ~ (a <= c /\ c < a + p)
  PROVE  Inside(a, p, c, q) /\ c < a
<1>1. p \in Nat \ {0} /\ q \in Nat \ {0}
  BY PowerType
<1>2. CASE p <= q
  BY <1>1, <1>2, Nested DEF Inside
<1>3. CASE q < p
  <2>1. Inside(c, q, a, p)
    BY <1>1, <1>3, Nested
  <2> QED BY <1>1, <2>1 DEF Inside
<1> QED BY <1>1, <1>2, <1>3

LEMMA RemoveWhole ==
  ASSUME NEW F, \A b \in F : IsBlock(b), Disjoint(F), Whole(F), NEW b \in F
  PROVE  Whole(F \ {b})
<1> SUFFICES ASSUME NEW a \in Nat, NEW p \in Powers, Cell(a, p), Filled(F \ {b}, a, p)
             PROVE  \/ \E d \in F \ {b} : Inside(a, p, d.ptr, d.size)
                    \/ Blocked(F \ {b}, a, p)
  BY DEF Whole
<1>1. \A v \in Nat : Held(F \ {b}, v) => Held(F, v)
  BY DEF Held
<1>2. Filled(F, a, p)
  BY <1>1 DEF Filled
<1>3. CASE \E d \in F : Inside(a, p, d.ptr, d.size)
  <2>1. PICK d \in F : Inside(a, p, d.ptr, d.size)
    BY <1>3
  <2>2. p \in Nat \ {0}
    BY PowerType
  <2>3. PICK e \in F \ {b} : e.ptr <= a /\ a < e.ptr + e.size
    BY <2>2 DEF Filled, Held
  <2>4. IsBlock(d) /\ IsBlock(e) /\ (d # e => Apart(d, e))
    BY <2>1, <2>3 DEF Disjoint
  <2>5. d = e
    BY <2>1, <2>2, <2>3, <2>4 DEF Inside, Apart, End, IsBlock
  <2> QED BY <2>1, <2>3, <2>5
<1>4. CASE Blocked(F, a, p)
  BY <1>1, <1>4 DEF Blocked
<1> QED BY <1>2, <1>3, <1>4 DEF Whole

(* split_block and cut_block_end: a piece behind a word that is kept, in a *)
(* cell that begins with that word.                                        *)
LEMMA InsertWhole ==
  ASSUME NEW F, Whole(F), NEW e, IsBlock(e), NEW c, NEW q, Cell(c, q),
         Inside(e.ptr, e.size, c, q), ~ Held(F \cup {e}, c)
  PROVE  Whole(F \cup {e})
<1> DEFINE G == F \cup {e}
<1> SUFFICES ASSUME NEW a \in Nat, NEW p \in Powers, Cell(a, p), Filled(G, a, p)
             PROVE  (\E d \in G : Inside(a, p, d.ptr, d.size)) \/ Blocked(G, a, p)
  BY DEF Whole
<1>1. /\ c \in Nat /\ q \in Powers /\ Divides(q, c) /\ Divides(p, a)
      /\ p \in Nat \ {0} /\ q \in Nat \ {0} /\ e.ptr \in Nat /\ e.size \in Nat
  BY PowerType DEF Cell, IsBlock
<1>2. ~ (a <= c /\ c < a + p)
  BY <1>1 DEF Filled
<1>3. ASSUME NEW v \in Nat, a <= v, v < a + p, e.ptr <= v, v < e.ptr + e.size
      PROVE  Blocked(G, a, p)
  <2>1. c <= v /\ v < c + q
    BY <1>1, <1>3 DEF Inside
  <2>2. Inside(a, p, c, q) /\ c < a
    BY <1>1, <1>2, <1>3, <2>1, Behind
  <2> QED BY <1>1, <2>2 DEF Blocked
<1>4. CASE \E v \in Nat : a <= v /\ v < a + p /\ ~ Held(F, v)
  BY <1>3, <1>4 DEF Filled, Held
<1>5. CASE Filled(F, a, p)
  <2>1. CASE \E d \in F : Inside(a, p, d.ptr, d.size)
    BY <2>1
  <2>2. CASE Blocked(F, a, p)
    <3>1. PICK x \in Nat, y \in Powers, v \in Nat :
            Cell(x, y) /\ Inside(a, p, x, y) /\ x <= v /\ v < a /\ ~ Held(F, v)
      BY <2>2 DEF Blocked
    <3>2. CASE ~ Held(G, v)
      BY <3>1, <3>2 DEF Blocked
    <3>3. CASE Held(G, v)
      <4>1. e.ptr <= v /\ v < e.ptr + e.size
        BY <3>1, <3>3 DEF Held
      <4>2. c <= v /\ v < c + q /\ y \in Nat /\ Divides(y, x) /\ v < x + y
        BY <1>1, <3>1, <4>1, PowerType DEF Inside, Cell
      <4>3. CASE y <= q
        <5>1. Inside(x, y, c, q)
          BY <1>1, <3>1, <4>2, <4>3, Nested
        <5>2. Inside(a, p, c, q) /\ c < a
          BY <1>1, <1>2, <3>1, <4>2, <5>1 DEF Inside
        <5> QED BY <1>1, <5>2 DEF Blocked
      <4>4. CASE q <= y
        <5>1. Inside(c, q, x, y)
          BY <1>1, <3>1, <4>2, <4>4, Nested
        <5>2. x <= c /\ c < a
          BY <1>1, <3>1, <4>2, <5>1 DEF Inside
        <5> QED BY <1>1, <3>1, <5>2 DEF Blocked
      <4> QED BY <1>1, <4>2, <4>3, <4>4
    <3> QED BY <3>2, <3>3
  <2> QED BY <1>5, <2>1, <2>2 DEF Whole
<1> QED BY <1>4, <1>5 DEF Filled

(* merge_block has ended with a block W.  First case: the word after it is *)
(* not free.                                                               *)
LEMMA HeldWith ==
  ASSUME NEW F, NEW W, \A b \in F : IsBlock(b), IsBlock(W), Across(F, {W})
  PROVE  \A v \in Nat :
            /\ Held(F \cup {W}, v) <=> (Held(F, v) \/ (W.ptr <= v /\ v < W.ptr + W.size))
            /\ ~ (Held(F, v) /\ W.ptr <= v /\ v < W.ptr + W.size)
<1>1. \A v \in Nat : Held(F \cup {W}, v) <=> (Held(F, v) \/ (W.ptr <= v /\ v < W.ptr + W.size))
  BY DEF Held
<1>2. ASSUME NEW v \in Nat, Held(F, v), W.ptr <= v, v < W.ptr + W.size PROVE FALSE
  <2>1. PICK b \in F : b.ptr <= v /\ v < b.ptr + b.size
    BY <1>2 DEF Held
  <2>2. IsBlock(b) /\ Apart(b, W)
    BY <2>1 DEF Across
  <2> QED BY <1>2, <2>1, <2>2 DEF Apart, End, IsBlock
<1> QED BY <1>1, <1>2

LEMMA CloseShort ==
  ASSUME NEW F, NEW W, \A b \in F : IsBlock(b), IsBlock(W), Across(F, {W}), Whole(F),
         W.size < AddrSize(W.ptr), \A b \in F : b.ptr # End(W)
  PROVE  Whole(F \cup {W})
<1> DEFINE G == F \cup {W}
           t == W.ptr + W.size
           A == AddrSize(W.ptr)
<1> SUFFICES ASSUME NEW a \in Nat, NEW p \in Powers, Cell(a, p), Filled(G, a, p)
             PROVE  (\E d \in G : Inside(a, p, d.ptr, d.size)) \/ Blocked(G, a, p)
  BY DEF Whole
<1>1. /\ W.ptr \in Nat /\ W.size \in Nat \ {0} /\ t \in Nat /\ A \in Nat /\ A \in Powers
      /\ Divides(A, W.ptr) /\ p \in Nat \ {0} /\ Divides(p, a)
  BY AddrBounds, PowerType DEF Cell
<1>2. ~ Held(G, t)
  <2>1. ASSUME NEW b \in F, b.ptr <= t, t < b.ptr + b.size PROVE FALSE
    <3>1. IsBlock(b) /\ Apart(b, W) /\ b.ptr # t
      BY DEF Across, End
    <3> QED BY <1>1, <2>1, <3>1 DEF Apart, End, IsBlock
  <2> QED BY <1>1, <2>1 DEF Held
<1>3. \A v \in Nat : /\ Held(G, v) <=> (Held(F, v) \/ (W.ptr <= v /\ v < t))
                     /\ ~ (Held(F, v) /\ W.ptr <= v /\ v < t)
  BY HeldWith
<1> HIDE DEF G, t, A
<1>4. CASE Filled(F, a, p)
  <2>1. CASE \E d \in F : Inside(a, p, d.ptr, d.size)
    BY <2>1 DEF G
  <2>2. CASE Blocked(F, a, p)
    <3>1. PICK x \in Nat, y \in Powers, v \in Nat :
            Cell(x, y) /\ Inside(a, p, x, y) /\ x <= v /\ v < a /\ ~ Held(F, v)
      BY <2>2 DEF Blocked
    <3>2. CASE ~ Held(G, v)
      BY <3>1, <3>2 DEF Blocked
    <3>3. CASE W.ptr <= v /\ v < t
      <4>1. Held(F, a) /\ a # t
        BY <1>1, <1>2, <1>3, <1>4 DEF Filled
      <4>2. t < a
        BY <1>1, <1>3, <3>1, <3>3, <4>1
      <4>3. x <= t
        BY <1>1, <3>1, <3>3
      <4> QED BY <1>1, <1>2, <3>1, <4>2, <4>3 DEF Blocked
    <3> QED BY <1>3, <3>1, <3>2, <3>3
  <2> QED BY <1>4, <2>1, <2>2 DEF Whole
<1>5. CASE ~ Filled(F, a, p)
  <2>1. PICK w \in Nat : a <= w /\ w < a + p /\ W.ptr <= w /\ w < t
    BY <1>3, <1>5 DEF Filled
  <2>2. a + p <= t
    BY <1>1, <1>2, <2>1 DEF Filled
  <2>3. W.ptr <= a
    <3> SUFFICES ASSUME a < W.ptr PROVE FALSE
      BY <1>1
    <3>1. W.ptr < a + p /\ W.ptr < W.ptr + A /\ a <= W.ptr /\ W.ptr <= W.ptr
      BY <1>1, <2>1 DEF A
    <3>2. CASE p <= A
      <4>1. Inside(a, p, W.ptr, A)
        BY <1>1, <3>1, <3>2, Nested
      <4> QED BY <1>1, <4>1 DEF Inside
    <3>3. CASE A <= p
      <4>1. Inside(W.ptr, A, a, p)
        BY <1>1, <3>1, <3>3, Nested
      <4> QED BY <1>1, <2>2, <4>1 DEF Inside, A, t
    <3> QED BY <1>1, <3>2, <3>3
  <2>4. Inside(a, p, W.ptr, W.size)
    BY <2>2, <2>3 DEF Inside, t
  <2> QED BY <2>4 DEF G
<1> QED BY <1>4, <1>5

(* Second case: the block is as large as a list takes. *)
LEMMA CloseLarge ==
  ASSUME NEW F, NEW W, \A b \in F : IsBlock(b), IsBlock(W), Across(F, {W}), Whole(F),
         W.size \in Powers, Divides(W.size, W.ptr), LargestBlock <= W.size
  PROVE  Whole(F \cup {W})
<1> DEFINE G == F \cup {W}
<1> SUFFICES ASSUME NEW a \in Nat, NEW p \in Powers, Cell(a, p), Filled(G, a, p)
             PROVE  (\E d \in G : Inside(a, p, d.ptr, d.size)) \/ Blocked(G, a, p)
  BY DEF Whole
<1>1. /\ W.ptr \in Nat /\ W.size \in Nat \ {0} /\ p \in Nat \ {0} /\ LargestBlock \in Nat
  BY AddrBounds, PowerType, HeapAssumption
<1>2. \A v \in Nat : Held(G, v) <=> (Held(F, v) \/ (W.ptr <= v /\ v < W.ptr + W.size))
  BY HeldWith
<1> HIDE DEF G
<1>3. ASSUME NEW x \in Nat, NEW y \in Powers, Cell(x, y), NEW v \in Nat, x <= v, v < x + y,
             W.ptr <= v, v < W.ptr + W.size
      PROVE  Inside(x, y, W.ptr, W.size)
  <2>1. Divides(y, x) /\ y <= W.size
    BY <1>1, <1>3, PowerType DEF Cell
  <2> QED BY <1>1, <1>3, <2>1, Nested
<1>4. CASE ~ Filled(F, a, p)
  <2>1. PICK w \in Nat : a <= w /\ w < a + p /\ W.ptr <= w /\ w < W.ptr + W.size
    BY <1>2, <1>4 DEF Filled
  <2> QED BY <1>3, <2>1 DEF G
<1>5. CASE Filled(F, a, p)
  <2>1. CASE \E d \in F : Inside(a, p, d.ptr, d.size)
    BY <2>1 DEF G
  <2>2. CASE Blocked(F, a, p)
    <3>1. PICK x \in Nat, y \in Powers, v \in Nat :
            Cell(x, y) /\ Inside(a, p, x, y) /\ x <= v /\ v < a /\ ~ Held(F, v)
      BY <2>2 DEF Blocked
    <3>2. CASE ~ Held(G, v)
      BY <3>1, <3>2 DEF Blocked
    <3>3. CASE W.ptr <= v /\ v < W.ptr + W.size
      <4>1. v < x + y /\ y \in Nat
        BY <1>1, <3>1, PowerType DEF Inside
      <4>2. Inside(x, y, W.ptr, W.size)
        BY <1>3, <3>1, <3>3, <4>1
      <4>3. Inside(a, p, W.ptr, W.size)
        BY <1>1, <3>1, <4>1, <4>2 DEF Inside
      <4> QED BY <4>3 DEF G
    <3> QED BY <1>2, <3>1, <3>2, <3>3
  <2> QED BY <1>5, <2>1, <2>2 DEF Whole
<1> QED BY <1>4, <1>5

LEMMA LargestInRange == LargestBlock < UintRange
<1>1. LargestBlock <= HeapSize
  <2>1. /\ LargestBlock \in Nat \ {0} /\ HeapSize \in Nat \ {0}
        /\ HeapSize % LargestBlock = 0
    BY HeapAssumption
  <2>2. Divides(LargestBlock, HeapSize)
    BY <2>1, DividesMod
  <2> QED BY <2>1, <2>2, DividesSum
<1> QED BY <1>1, HeapAssumption

(* Third case: the block is as large as its address allows and its buddy,  *)
(* the block before it, is not free as a whole.                            *)
LEMMA CloseFull ==
  ASSUME NEW F, NEW W, \A b \in F : IsBlock(b) /\ Listed(b), IsBlock(W), Across(F, {W}),
         Whole(F), LargestBlock \in Powers,
         W.size = AddrSize(W.ptr), W.size < LargestBlock,
         \A b \in F : ~ (End(b) = W.ptr /\ b.size = W.size)
  PROVE  Whole(F \cup {W})
<1> DEFINE G == F \cup {W}
           s == W.size
           w == W.ptr
           c == w - s
<1> SUFFICES ASSUME NEW a \in Nat, NEW p \in Powers, Cell(a, p), Filled(G, a, p)
             PROVE  (\E d \in G : Inside(a, p, d.ptr, d.size)) \/ Blocked(G, a, p)
  BY DEF Whole
<1>1. /\ w \in Nat /\ w \in 1 .. UintRange - 1 /\ s \in Nat \ {0} /\ s \in Powers
      /\ Divides(s, w) /\ ~ Divides(2 * s, w)
      /\ p \in Nat \ {0} /\ Divides(p, a) /\ LargestBlock \in Nat /\ UintRange \in Nat
  BY AddrBounds, AddrPower, PowerType, HeapAssumption DEF Cell
<1>2. \A v \in Nat : /\ Held(G, v) <=> (Held(F, v) \/ (w <= v /\ v < w + s))
                     /\ ~ (Held(F, v) /\ w <= v /\ v < w + s)
  BY HeldWith
<1>3. 2 * s <= LargestBlock /\ 2 * s \in Powers /\ 2 * s \in Nat
  <2>1. 2 * s <= LargestBlock
    BY <1>1, DoublePower
  <2>2. 2 * s < UintRange
    BY <1>1, <2>1, HeapAssumption, LargestInRange
  <2> QED BY <1>1, <2>1, <2>2, PowerAssumption
<1>4. c \in Nat /\ Divides(2 * s, c) /\ Divides(s, c)
  <2>1. s <= w /\ Divides(2 * s, c)
    BY <1>1, DividesTwice
  <2>2. c \in Nat
    BY <1>1, <2>1
  <2>3. Divides(s, s)
    BY <1>1, PowerDivides
  <2> QED BY <1>1, <2>1, <2>2, <2>3, DividesSum
<1> HIDE DEF G
<1>5. ASSUME NEW x \in Nat, NEW y \in Powers, Divides(y, x), NEW v \in Nat,
             x <= v, v < x + y, w <= v, v < w + s, ~ Inside(x, y, w, s)
      PROVE  Inside(c, 2 * s, x, y)
  <2>1. y \in Nat \ {0} /\ c <= v /\ v < c + 2 * s
    BY <1>1, <1>4, <1>5, PowerType
  <2>2. s < y
    <3> SUFFICES ASSUME y <= s PROVE FALSE
      BY <1>1, <2>1
    <3> QED BY <1>1, <1>5, Nested
  <2>3. 2 * s <= y
    BY <1>1, <2>2, DoublePower
  <2> QED BY <1>3, <1>4, <1>5, <2>1, <2>3, Nested
<1>6. ASSUME \A v \in Nat : c <= v /\ v < w => Held(F, v)
      PROVE  \E x \in Nat, y \in Powers, v \in Nat :
                Cell(x, y) /\ x <= v /\ v < c /\ c < x + y /\ ~ Held(F, v) /\ ~ Held(G, v)
  <2>1. Cell(c, s) /\ Filled(F, c, s)
    BY <1>1, <1>4, <1>6 DEF Cell, Filled
  <2>2. ASSUME NEW b \in F, Inside(c, s, b.ptr, b.size) PROVE FALSE
    <3>1. IsBlock(b) /\ Apart(b, W) /\ Listed(b)
      BY DEF Across
    <3>2. b.ptr \in Nat /\ b.size \in Nat \ {0} /\ b.size \in Powers /\ Divides(b.size, b.ptr)
      BY <3>1, AddrBounds, ListedFits DEF Listed
    <3>3. b.size = s => End(b) = w
      BY <1>1, <1>4, <2>2, <3>2 DEF Inside, End
    <3>4. s < b.size
      BY <1>1, <1>4, <2>2, <3>2, <3>3 DEF Inside
    <3>5. 2 * s <= b.size
      BY <1>1, <3>2, <3>4, DoublePower
    <3>6. b.ptr <= c /\ c < b.ptr + b.size /\ c < c + 2 * s /\ c <= c
      BY <1>1, <1>4, <2>2, <3>2 DEF Inside
    <3>7. Inside(c, 2 * s, b.ptr, b.size)
      BY <1>3, <1>4, <3>2, <3>5, <3>6, Nested
    <3> QED BY <1>1, <1>4, <3>1, <3>2, <3>7 DEF Inside, Apart, End
  <2>3. Blocked(F, c, s)
    BY <1>1, <1>4, <2>1, <2>2 DEF Whole
  <2>4. PICK x \in Nat, y \in Powers, v \in Nat :
          Cell(x, y) /\ Inside(c, s, x, y) /\ x <= v /\ v < c /\ ~ Held(F, v)
    BY <2>3 DEF Blocked
  <2>5. c < x + y /\ ~ Held(G, v)
    BY <1>1, <1>2, <1>4, <2>4, PowerType DEF Inside
  <2> QED BY <2>4, <2>5
<1> HIDE DEF c, w, s
<1>7. CASE ~ Filled(F, a, p)
  <2>1. PICK u \in Nat : a <= u /\ u < a + p /\ w <= u /\ u < w + s
    BY <1>2, <1>7 DEF Filled
  <2>2. CASE Inside(a, p, w, s)
    BY <2>2 DEF G, w, s
  <2>3. CASE ~ Inside(a, p, w, s)
    <3>1. Inside(c, 2 * s, a, p)
      BY <1>1, <1>5, <2>1, <2>3
    <3>2. a <= c /\ c + 2 * s <= a + p /\ w = c + s
      BY <1>1, <3>1 DEF Inside, c
    <3>3. \A v \in Nat : c <= v /\ v < w => Held(F, v)
      BY <1>1, <1>2, <1>4, <3>2 DEF Filled
    <3>4. PICK x \in Nat, y \in Powers, v \in Nat :
            Cell(x, y) /\ x <= v /\ v < c /\ c < x + y /\ ~ Held(G, v)
      BY <1>6, <3>3
    <3>5. v < a
      BY <1>1, <1>4, <3>2, <3>4 DEF Filled
    <3>6. Inside(a, p, x, y)
      <4>1. y \in Nat \ {0} /\ Divides(y, x) /\ x <= c /\ a <= c /\ c < a + p
        BY <1>1, <1>4, <3>2, <3>4, PowerType DEF Cell
      <4>2. CASE p <= y
        BY <1>1, <1>4, <3>4, <4>1, <4>2, Nested
      <4>3. CASE y <= p
        <5>1. Inside(x, y, a, p)
          BY <1>1, <1>4, <3>4, <4>1, <4>3, Nested
        <5> QED BY <3>4, <3>5, <5>1 DEF Inside
      <4> QED BY <1>1, <4>1, <4>2, <4>3
    <3> QED BY <3>4, <3>5, <3>6 DEF Blocked
  <2> QED BY <2>2, <2>3
<1>8. CASE Filled(F, a, p)
  <2>1. CASE \E d \in F : Inside(a, p, d.ptr, d.size)
    BY <2>1 DEF G
  <2>2. CASE Blocked(F, a, p)
    <3>1. PICK x \in Nat, y \in Powers, v \in Nat :
            Cell(x, y) /\ Inside(a, p, x, y) /\ x <= v /\ v < a /\ ~ Held(F, v)
      BY <2>2 DEF Blocked
    <3>2. y \in Nat \ {0} /\ Divides(y, x) /\ x <= a /\ a + p <= x + y /\ v < x + y
      BY <1>1, <3>1, PowerType DEF Cell, Inside
    <3>3. CASE ~ Held(G, v)
      BY <3>1, <3>3 DEF Blocked
    <3>4. CASE w <= v /\ v < w + s /\ Inside(x, y, w, s)
      <4>1. Inside(a, p, w, s)
        BY <1>1, <3>2, <3>4 DEF Inside
      <4> QED BY <4>1 DEF G, w, s
    <3>5. CASE w <= v /\ v < w + s /\ ~ Inside(x, y, w, s)
      <4>1. Inside(c, 2 * s, x, y)
        BY <1>1, <1>5, <3>1, <3>2, <3>5
      <4>2. x <= c /\ c + 2 * s <= x + y /\ w = c + s
        BY <1>1, <4>1 DEF Inside, c
      <4>3. CASE \E u \in Nat : c <= u /\ u < w /\ ~ Held(G, u)
        <5>1. PICK u \in Nat : c <= u /\ u < w /\ ~ Held(G, u)
          BY <4>3
        <5>2. x <= u /\ u < a
          BY <1>1, <1>4, <3>1, <3>5, <4>2, <5>1
        <5> QED BY <3>1, <5>1, <5>2 DEF Blocked
      <4>4. CASE \A u \in Nat : c <= u /\ u < w => Held(G, u)
        <5>1. \A u \in Nat : c <= u /\ u < w => Held(F, u)
          BY <1>1, <1>2, <4>4
        <5>2. PICK xx \in Nat, yy \in Powers, u \in Nat :
                Cell(xx, yy) /\ xx <= u /\ u < c /\ c < xx + yy /\ ~ Held(G, u)
          BY <1>6, <5>1
        <5>3. u < a
          BY <1>1, <1>4, <3>1, <3>5, <4>2, <5>2
        <5>4. CASE x <= u
          BY <3>1, <5>2, <5>3, <5>4 DEF Blocked
        <5>5. CASE u < x
          <6>1. /\ yy \in Nat \ {0} /\ Divides(yy, xx) /\ xx <= c /\ x <= c /\ c < x + y
            BY <1>1, <1>4, <4>2, <5>2, PowerType DEF Cell
          <6>2. CASE y <= yy
            <7>1. Inside(x, y, xx, yy)
              BY <1>4, <3>1, <3>2, <5>2, <6>1, <6>2, Nested
            <7>2. Inside(a, p, xx, yy)
              BY <1>1, <3>2, <6>1, <7>1 DEF Inside
            <7> QED BY <5>2, <5>3, <7>2 DEF Blocked
          <6>3. CASE yy <= y
            <7>1. Inside(xx, yy, x, y)
              BY <1>4, <3>1, <3>2, <5>2, <6>1, <6>3, Nested
            <7> QED BY <5>2, <5>5, <7>1 DEF Inside
          <6> QED BY <3>2, <6>1, <6>2, <6>3
        <5> QED BY <5>2, <5>4, <5>5
      <4> QED BY <4>3, <4>4
    <3> QED BY <1>2, <3>1, <3>3, <3>4, <3>5
  <2> QED BY <1>8, <2>1, <2>2 DEF Whole
<1> QED BY <1>7, <1>8

(* The same words in other blocks: what was in the block W is in one of    *)
(* its parts.                                                              *)
LEMMA RegroupWhole ==
  ASSUME NEW F, NEW W, Whole(F \cup {W}), NEW G, F \subseteq G,
         \A v \in Nat : Held(G, v) <=> Held(F \cup {W}, v),
         \A a \in Nat, p \in Powers :
            Cell(a, p) /\ Inside(a, p, W.ptr, W.size) => \E d \in G : Inside(a, p, d.ptr, d.size)
  PROVE  Whole(G)
<1> SUFFICES ASSUME NEW a \in Nat, NEW p \in Powers, Cell(a, p), Filled(G, a, p)
             PROVE  (\E d \in G : Inside(a, p, d.ptr, d.size)) \/ Blocked(G, a, p)
  BY DEF Whole
<1>1. Filled(F \cup {W}, a, p)
  BY DEF Filled
<1>2. CASE \E d \in F \cup {W} : Inside(a, p, d.ptr, d.size)
  BY <1>2
<1>3. CASE Blocked(F \cup {W}, a, p)
  BY <1>3 DEF Blocked
<1> QED BY <1>1, <1>2, <1>3 DEF Whole

(* The largest blocks one after the other are whole: every cell is in one. *)
LEMMA WholeInit == Whole(WholeHeap)
<1>0. \A b \in WholeHeap : IsBlock(b) /\ Listed(b) /\ b.size = LargestBlock
  <2>1. \A b \in WholeHeap : IsBlock(b) /\ b.size = LargestBlock
    BY WholeHeapOK DEF BlocksOK, WholeHeap, Block
  <2>2. ASSUME NEW i \in Nat
        PROVE  Listed(Block(HeapStart + LargestBlock * i, LargestBlock))
    BY LargestListed
  <2> QED BY <2>1, <2>2 DEF WholeHeap
<1> SUFFICES ASSUME NEW a \in Nat, NEW p \in Powers, Cell(a, p), Filled(WholeHeap, a, p)
             PROVE  \E d \in WholeHeap : Inside(a, p, d.ptr, d.size)
  BY DEF Whole
<1>1. p \in Nat \ {0} /\ Divides(p, a) /\ p <= LargestBlock
  BY PowerType DEF Cell
<1>2. PICK d \in WholeHeap : d.ptr <= a /\ a < d.ptr + d.size
  BY <1>1 DEF Filled, Held
<1>3. /\ d.ptr \in Nat /\ d.size \in Powers /\ Divides(d.size, d.ptr) /\ d.size = LargestBlock
  BY <1>0, <1>2, ListedFits, AddrBounds DEF Listed
<1>4. a < a + p /\ a <= a
  BY <1>1
<1>5. Inside(a, p, d.ptr, d.size)
  BY <1>1, <1>2, <1>3, <1>4, Nested
<1> QED BY <1>2, <1>5

(* A heap that is whole and all free is that of the beginning. *)
LEMMA AllFree ==
  ASSUME BlocksOK(free, live), FitInv, Whole(free),
         \A v \in Nat : HeapStart <= v /\ v < HeapStart + HeapSize => Held(free, v)
  PROVE  free = WholeHeap
<1>1. /\ LargestBlock \in Nat \ {0} /\ LargestBlock \in Powers /\ HeapStart \in Nat
      /\ HeapSize \in Nat
  BY HeapAssumption, SizedAssumption
<1>2. ASSUME NEW d \in WholeHeap PROVE d \in free
  <2>1. d \in Rec /\ IsBlock(d) /\ Listed(d) /\ d.size = LargestBlock
    <3>1. IsBlock(d) /\ d.size = LargestBlock
      BY WholeHeapOK DEF BlocksOK, WholeHeap, Block
    <3>2. Listed(d)
      BY LargestListed DEF WholeHeap
    <3> QED BY <3>1, <3>2 DEF IsBlock, Rec
  <2>2. Divides(d.size, d.ptr) /\ d.ptr \in Nat
    BY <2>1, ListedFits, AddrBounds
  <2>3. Cell(d.ptr, d.size) /\ d.size \in Powers
    BY <1>1, <2>1, <2>2 DEF Cell
  <2>4. Filled(free, d.ptr, d.size)
    BY <1>1, <2>1, <2>2 DEF Filled, IsBlock, End
  <2>5. ~ Blocked(free, d.ptr, d.size)
    <3> SUFFICES ASSUME Blocked(free, d.ptr, d.size) PROVE FALSE
      OBVIOUS
    <3>1. PICK c \in Nat, q \in Powers, v \in Nat :
            Cell(c, q) /\ Inside(d.ptr, d.size, c, q) /\ c <= v /\ v < d.ptr
      BY DEF Blocked
    <3>2. q <= LargestBlock /\ q \in Nat
      BY <3>1, PowerType DEF Cell
    <3> QED BY <1>1, <2>1, <2>2, <3>1, <3>2 DEF Inside
  <2>6. PICK b \in free : Inside(d.ptr, d.size, b.ptr, b.size)
    BY <2>2, <2>3, <2>4, <2>5 DEF Whole
  <2>7. IsBlock(b) /\ b.size <= LargestBlock
    BY DEF BlocksOK, FitInv, Listed
  <2>8. b.ptr = d.ptr /\ b.size = d.size
    BY <1>1, <2>1, <2>2, <2>6, <2>7 DEF Inside, IsBlock
  <2>9. b = d
    BY <2>1, <2>7, <2>8 DEF IsBlock, Rec
  <2> QED BY <2>6, <2>9
<1>3. ASSUME NEW b \in free PROVE b \in WholeHeap
  <2>1. IsBlock(b) /\ b.ptr \in Nat /\ b.size \in Nat \ {0}
        /\ HeapStart <= b.ptr /\ b.ptr < HeapStart + HeapSize
    BY <1>1 DEF BlocksOK, IsBlock, End
  <2> DEFINE n == b.ptr - HeapStart
             i == n \div LargestBlock
             m == HeapSize \div LargestBlock
  <2>2. n \in Nat /\ n < HeapSize
    BY <1>1, <2>1
  <2> HIDE DEF n
  <2>3. i \in Nat /\ m \in Nat
    BY <1>1, <2>2
  <2>4. n = LargestBlock * i + (n % LargestBlock) /\ n % LargestBlock \in 0 .. LargestBlock - 1
    BY <1>1, <2>2
  <2>5. HeapSize = LargestBlock * m
    <3>1. HeapSize = LargestBlock * m + (HeapSize % LargestBlock)
      BY <1>1
    <3>2. HeapSize % LargestBlock = 0 /\ LargestBlock * m \in Nat
      BY <1>1, <2>3, HeapAssumption
    <3> QED BY <3>1, <3>2
  <2> HIDE DEF i, m
  <2>6. LargestBlock * i \in Nat /\ LargestBlock * m \in Nat
    BY <1>1, <2>3
  <2>7. LargestBlock * i <= n /\ n < LargestBlock * i + LargestBlock
    BY <1>1, <2>2, <2>4, <2>6
  <2>8. i < m
    <3> SUFFICES ASSUME m <= i PROVE FALSE
      BY <2>3
    <3>1. m = i \/ m < i
      BY <2>3
    <3>2. LargestBlock * m <= LargestBlock * i
      BY <1>1, <2>3, <2>6, <3>1, Multiples
    <3> QED BY <2>2, <2>5, <2>6, <2>7, <3>2
  <2> DEFINE d == Block(HeapStart + LargestBlock * i, LargestBlock)
  <2>9. d \in WholeHeap
    BY <2>3, <2>8 DEF WholeHeap, m
  <2>10. d \in free
    BY <1>2, <2>9
  <2>11. d.ptr = HeapStart + LargestBlock * i /\ d.size = LargestBlock
    BY DEF Block
  <2>12. d.ptr <= b.ptr /\ b.ptr < d.ptr + d.size
    BY <1>1, <2>1, <2>6, <2>7, <2>11 DEF n
  <2>13. b # d => Apart(b, d)
    BY <2>10 DEF BlocksOK, Disjoint
  <2>14. d.ptr \in Nat /\ d.size \in Nat
    BY <1>1, <2>6, <2>11
  <2>15. ~ Apart(b, d)
    BY <2>1, <2>12, <2>14 DEF Apart, End
  <2> QED BY <2>9, <2>13, <2>15
<1> QED BY <1>2, <1>3

LEMMA RoomCell ==
  ASSUME NEW b, IsBlock(b)
  PROVE  \E q \in Powers : /\ Cell(b.ptr, q)
                           /\ \A n \in Nat : n <= AddrSize(b.ptr) /\ n <= LargestBlock => n <= q
<1>1. /\ b.ptr \in 1 .. UintRange - 1 /\ b.ptr \in Nat
      /\ AddrSize(b.ptr) \in Nat /\ AddrSize(b.ptr) \in Powers /\ Divides(AddrSize(b.ptr), b.ptr)
      /\ LargestBlock \in Nat /\ LargestBlock \in Powers
  BY AddrBounds, HeapAssumption, SizedAssumption
<1>2. CASE AddrSize(b.ptr) <= LargestBlock
  BY <1>1, <1>2 DEF Cell
<1>3. CASE LargestBlock <= AddrSize(b.ptr)
  <2>1. Divides(LargestBlock, b.ptr)
    BY <1>1, <1>3, AddrPower
  <2> QED BY <1>1, <2>1 DEF Cell
<1> QED BY <1>1, <1>2, <1>3

(* The words of a block in hand are not in the lists. *)
LEMMA HandNotHeld ==
  ASSUME NEW F, NEW L, NEW b, BlocksOK(F, L), InHandOK(F, L, b), b.size # 0
  PROVE  IsBlock(b) /\ ~ Held(F, b.ptr) /\ Across(F, {b})
<1>1. /\ IsBlock(b) /\ Across(F, {b}) /\ \A d \in F : IsBlock(d)
  BY DEF InHandOK, BlocksOK
<1>2. b.ptr \in Nat /\ b.ptr <= b.ptr /\ b.ptr < b.ptr + b.size
  BY <1>1, AddrBounds
<1>3. ~ Held(F, b.ptr)
  BY <1>1, <1>2, HeldWith
<1> QED BY <1>1, <1>3

(* A block of LARGEST_BLOCK is put back without a look at its neighbours. *)
LEMMA LargeWhole ==
  ASSUME NEW F, NEW L, NEW b, BlocksOK(F, L), InHandOK(F, L, b), Whole(F),
         b.size = LargestBlock, Fits(b)
  PROVE  Whole(F \cup {b})
<1>1. LargestBlock \in Nat \ {0} /\ LargestBlock \in Powers
  BY HeapAssumption, SizedAssumption
<1>2. IsBlock(b) /\ Across(F, {b})
  BY <1>1, HandNotHeld
<1>3. Divides(b.size, b.ptr)
  BY <1>1, <1>2, AddrBounds, AddrPower DEF Fits
<1> QED BY <1>1, <1>2, <1>3, CloseLarge DEF BlocksOK

LEMMA TakeMerges ==
  ASSUME HeapInv, MergeInv, pc # "insert", NEW b \in free, free' = free \ {b}
  PROVE  Whole(free')
BY RemoveWhole DEF HeapInv, BlocksOK, MergeInv

LEMMA AcquiringMerges ==
  ASSUME HeapInv, MergeInv, (\E n \in Requests : Malloc(n)) \/ GrownShort
  PROVE  MergeInv'
<1>1. pc # "insert" /\ pc' = "split"
  BY DEF Malloc, GrownShort, AcquireBlock
<1>2. PICK b \in free : free' = free \ {b}
  BY DEF Malloc, GrownShort, AcquireBlock, BigEnough, DeleteAddr
<1>3. Whole(free')
  BY <1>1, <1>2, TakeMerges
<1> QED BY <1>1, <1>3 DEF MergeInv

LEMMA GrowMerges ==
  ASSUME HeapInv, MergeInv, GrowForward \/ GrowBack
  PROVE  MergeInv'
<1>1. pc # "insert" /\ pc' \in {"grow forward", "grow back", "grown"}
  BY DEF GrowForward, GrowBack, Goto
<1>2. free' = free \/ \E b \in free : free' = free \ {b}
  BY DEF GrowForward, GrowBack, Grow, Goto, Swallow, DeleteAddr, Following, Preceding
<1>3. Whole(free')
  BY <1>1, <1>2, TakeMerges DEF MergeInv
<1> QED BY <1>1, <1>3 DEF MergeInv

LEMMA SplitMerges ==
  ASSUME HeapInv, HeapInv', FitInv, MergeInv, SplitBlock
  PROVE  MergeInv'
<1> DEFINE n == work.size - want
           pow == RoundDown(n)
           e == Block(End(work) - pow, pow)
<1>1. IsBlock(work) /\ want \in Nat \ {0} /\ want <= work.size /\ Small(work) /\ Whole(free)
  BY WorkBlock, AskedFacts DEF SplitBlock, HeapInv, LoopInv, FitInv, MergeInv
<1>2. n \in 1 .. UintRange - 1 /\ work.ptr \in Nat /\ work.size \in Nat
  BY <1>1, AddrBounds, HeapAssumption DEF SplitBlock, SmallestBlock
<1>3. pow <= n /\ pow \in Nat \ {0}
  BY <1>2, RoundPower, PowerType
<1>4. /\ free' = free \cup {e} /\ work' = Block(work.ptr, work.size - pow)
      /\ pc' = "split"
  BY DEF SplitBlock, InsertAddr
<1> HIDE DEF pow
<1>5. e.ptr = work.ptr + work.size - pow /\ e.size = pow /\ work'.ptr = work.ptr
  BY <1>2, <1>3, <1>4 DEF Block, End
<1>6. IsBlock(e) /\ ~ Held(free', work.ptr)
  <2>1. BlocksOK(free', live') /\ InHandOK(free', live', work') /\ work'.size # 0
    BY <1>4 DEF HeapInv, LoopInv, HandOK
  <2>2. ~ Held(free', work'.ptr)
    BY <2>1, HandNotHeld
  <2> QED BY <1>4, <1>5, <2>1, <2>2 DEF BlocksOK
<1>7. PICK q \in Powers : Cell(work.ptr, q) /\ work.size <= q
  BY <1>1, <1>2, RoomCell DEF Small, Fits
<1>8. Inside(e.ptr, e.size, work.ptr, q)
  BY <1>1, <1>2, <1>3, <1>5, <1>7, PowerType DEF Inside
<1> HIDE DEF e
<1>9. Whole(free')
  BY <1>1, <1>4, <1>6, <1>7, <1>8, InsertWhole
<1> QED BY <1>4, <1>9 DEF MergeInv

(* kern_free begins. *)
LEMMA StartFreeMerges ==
  ASSUME HeapInv', Whole(free), free' = free, NEW b, Small(b), StartFree(b)
  PROVE  MergeInv'
<1>1. work' = b /\ pc' \in {"merge forward", "insert"}
  BY DEF StartFree
<1>2. CASE pc' = "merge forward"
  BY <1>2 DEF MergeInv
<1>3. CASE pc' = "insert"
  <2>1. BlocksOK(free', live') /\ InHandOK(free', live', b) /\ b.size # 0
    BY <1>1, <1>3 DEF HeapInv, HandOK, LoopInv
  <2>2. b.size \in Nat /\ LargestBlock \in Nat /\ ~ (b.size < LargestBlock)
        /\ b.size <= LargestBlock
    BY <1>3, <2>1, HeapAssumption DEF StartFree, Small, InHandOK, Rec
  <2>3. Whole(free' \cup {b})
    BY <2>1, <2>2, LargeWhole DEF Small
  <2> QED BY <1>1, <1>3, <2>3 DEF MergeInv
<1> QED BY <1>1, <1>2, <1>3

LEMMA FreeingMerges ==
  ASSUME HeapInv, HeapInv', FitInv, MergeInv, SplitDone \/ \E b \in live : Free(b)
  PROVE  MergeInv'
<1>1. Whole(free) /\ free' = free
  BY DEF SplitDone, Free, MergeInv
<1>2. CASE SplitDone
  <2>1. CASE rest = NoBlock
    <3>1. pc' = "idle"
      BY <1>2, <2>1 DEF SplitDone, Return
    <3> QED BY <1>1, <3>1 DEF MergeInv
  <2>2. CASE rest # NoBlock
    <3>1. Small(rest)
      BY <1>2, <2>2 DEF SplitDone, FitInv, HeapInv, LoopInv
    <3>2. StartFree(rest)
      BY <1>2, <2>2 DEF SplitDone
    <3> QED BY <1>1, <3>1, <3>2, StartFreeMerges
  <2> QED BY <2>1, <2>2
<1>3. ASSUME NEW b \in live, Free(b) PROVE MergeInv'
  BY <1>1, <1>3, StartFreeMerges DEF Free, FitInv
<1> QED BY <1>2, <1>3

(* merge_block: it goes forward, back, and ends. *)
LEMMA MergingMerges ==
  ASSUME HeapInv, HeapInv', FitInv, MergeInv, MergeForward \/ MergeBack
  PROVE  MergeInv'
<1>1. /\ IsBlock(work) /\ Fits(work) /\ Whole(free) /\ work.size # 0
      /\ BlocksOK(free, live) /\ InHandOK(free, live, work) /\ pc # "insert"
  BY WorkBlock DEF MergeForward, MergeBack, FitInv, MergeInv, HeapInv, LoopInv, HandOK
<1>2. /\ work.size \in Nat /\ AddrSize(work.ptr) \in Nat /\ AddrSize(work.ptr) \in Powers
      /\ Divides(AddrSize(work.ptr), work.ptr) /\ LargestBlock \in Nat /\ LargestBlock \in Powers
      /\ work.size <= AddrSize(work.ptr)
  BY <1>1, AddrBounds, HeapAssumption, SizedAssumption DEF Fits
<1>3. CASE MergeForward
  <2>1. CASE work.size < AddrSize(work.ptr) /\ Following # {}
    <3>1. pc' = "merge forward" /\ \E b \in free : free' = free \ {b}
      BY <1>3, <2>1 DEF MergeForward, Merge, Swallow, DeleteAddr, Following
    <3>2. Whole(free')
      BY <1>1, <3>1, TakeMerges
    <3> QED BY <3>1, <3>2 DEF MergeInv
  <2>2. CASE ~ (work.size < AddrSize(work.ptr) /\ Following # {})
    <3>1. pc' = "merge back" /\ free' = free /\ work' = work
      BY <1>3, <2>2 DEF MergeForward, Goto
    <3>2. work'.size < AddrSize(work'.ptr) => Following' = {}
      BY <2>2, <3>1 DEF Following, End
    <3> QED BY <1>1, <3>1, <3>2 DEF MergeInv
  <2> QED BY <2>1, <2>2
<1>4. CASE MergeBack
  <2>1. CASE CanMergeBack /\ Preceding # {}
    <3>1. PICK b \in Preceding : Swallow(b)
      BY <1>4, <2>1 DEF MergeBack, Merge
    <3>2. pc' = IF 2 * work.size < LargestBlock THEN "merge forward" ELSE "insert"
      BY <1>4, <2>1 DEF MergeBack
    <3>3. free' = free \ {b} /\ Fits(work') /\ work'.size = 2 * work.size /\ b \in free
      BY <1>4, <2>1, <3>1, BackwardFits DEF CanMergeBack, MergeBack, Preceding
    <3>4. Whole(free')
      BY <1>1, <3>3, TakeMerges
    <3>5. CASE 2 * work.size < LargestBlock
      BY <3>2, <3>4, <3>5 DEF MergeInv
    <3>6. CASE ~ (2 * work.size < LargestBlock)
      <4>1. 2 * work.size <= LargestBlock
        BY <1>2, <2>1, DoublePower DEF CanMergeBack
      <4>2. work'.size = LargestBlock /\ pc' = "insert"
        BY <1>2, <3>2, <3>3, <3>6, <4>1
      <4>3. BlocksOK(free', live') /\ InHandOK(free', live', work')
        BY DEF HeapInv, HandOK
      <4>4. Whole(free' \cup {work'})
        BY <3>3, <3>4, <4>2, <4>3, LargeWhole
      <4> QED BY <4>2, <4>4 DEF MergeInv
    <3> QED BY <3>5, <3>6
  <2>2. CASE ~ (CanMergeBack /\ Preceding # {})
    <3>1. pc' = "insert" /\ free' = free /\ work' = work /\ pc = "merge back"
      BY <1>4, <2>2 DEF MergeBack, Goto
    <3>2. /\ \A b \in free : IsBlock(b) /\ Listed(b)
          /\ Across(free, {work})
      BY <1>1, HandNotHeld DEF BlocksOK, FitInv
    <3>3. CASE work.size < AddrSize(work.ptr)
      <4>1. Following = {}
        BY <3>1, <3>3 DEF MergeInv
      <4>2. \A b \in free : b.ptr # End(work)
        BY <4>1 DEF Following
      <4>3. Whole(free \cup {work})
        BY <1>1, <3>2, <3>3, <4>2, CloseShort
      <4> QED BY <3>1, <4>3 DEF MergeInv
    <3>4. CASE work.size = AddrSize(work.ptr) /\ work.size < LargestBlock
      <4>1. \A b \in free : ~ (End(b) = work.ptr /\ b.size = work.size)
        BY <2>2, <3>4 DEF CanMergeBack, Preceding
      <4>2. Whole(free \cup {work})
        BY <1>1, <1>2, <3>2, <3>4, <4>1, CloseFull
      <4> QED BY <3>1, <4>2 DEF MergeInv
    <3>5. CASE work.size = AddrSize(work.ptr) /\ LargestBlock <= work.size
      <4>1. Whole(free \cup {work})
        BY <1>1, <1>2, <3>2, <3>5, CloseLarge
      <4> QED BY <3>1, <4>1 DEF MergeInv
    <3> QED BY <1>2, <3>3, <3>4, <3>5
  <2> QED BY <2>1, <2>2
<1> QED BY <1>3, <1>4

LEMMA InsertMerges ==
  ASSUME HeapInv, FitInv, MergeInv, InsertBlocks
  PROVE  MergeInv'
<1>1. PICK pow \in Powers :
        /\ pow <= LargestBlock /\ pow <= AddrSize(work.ptr) /\ pow <= work.size
        /\ pow = LargestBlock \/ work.size - pow < pow
        /\ free' = free \cup {Block(work.ptr, pow)}
        /\ \/ work.size = pow /\ pc' = "idle"
           \/ /\ work.size # pow /\ pc' = "insert"
              /\ work' = Block(work.ptr + pow, work.size - pow)
  BY InsertPiece
<1>2. /\ IsBlock(work) /\ Whole(free \cup {work}) /\ pow \in Nat \ {0} /\ work \in Rec
      /\ work.ptr \in Nat /\ work.size \in Nat /\ LargestBlock \in Nat
  BY WorkBlock, AddrBounds, PowerType, HeapAssumption
     DEF InsertBlocks, MergeInv, HeapInv, HandOK, InHandOK
<1>3. CASE work.size = pow
  <2>1. Block(work.ptr, pow) = work
    BY <1>2, <1>3 DEF Block, Rec
  <2>2. pc' = "idle" /\ Whole(free')
    BY <1>1, <1>2, <1>3, <2>1
  <2> QED BY <2>2 DEF MergeInv
<1>4. CASE work.size # pow
  <2> DEFINE e == Block(work.ptr, pow)
             d == Block(work.ptr + pow, work.size - pow)
             G == free \cup {e} \cup {d}
  <2>1. e.ptr = work.ptr /\ e.size = pow /\ d.ptr = work.ptr + pow /\ d.size = work.size - pow
    BY DEF Block
  <2>2. pc' = "insert" /\ free' \cup {work'} = G
    BY <1>1, <1>4
  <2> HIDE DEF e, d
  <2>3. ASSUME NEW v \in Nat PROVE Held(G, v) <=> Held(free \cup {work}, v)
    <3>1. (work.ptr <= v /\ v < work.ptr + work.size) <=>
            \/ e.ptr <= v /\ v < e.ptr + e.size
            \/ d.ptr <= v /\ v < d.ptr + d.size
      BY <1>1, <1>2, <2>1
    <3> QED BY <3>1 DEF Held
  <2>4. Divides(pow, work.ptr)
    BY <1>1, <1>2, AddrBounds, AddrPower
  <2>5. ASSUME NEW a \in Nat, NEW p \in Powers, Cell(a, p), Inside(a, p, work.ptr, work.size)
        PROVE  \E x \in G : Inside(a, p, x.ptr, x.size)
    <3>1. /\ p \in Nat \ {0} /\ Divides(p, a) /\ p <= LargestBlock
          /\ work.ptr <= a /\ a + p <= work.ptr + work.size
      BY <2>5, PowerType DEF Cell, Inside
    <3>2. CASE a + p <= work.ptr + pow
      <4>1. Inside(a, p, e.ptr, e.size)
        BY <2>1, <3>1, <3>2 DEF Inside
      <4> QED BY <4>1
    <3>3. CASE work.ptr + pow <= a
      <4>1. Inside(a, p, d.ptr, d.size)
        BY <1>1, <1>2, <2>1, <3>1, <3>3 DEF Inside
      <4> QED BY <4>1
    <3>4. CASE a < work.ptr + pow /\ work.ptr + pow < a + p
      <4>1. pow < p
        <5> SUFFICES ASSUME p <= pow PROVE FALSE
          BY <1>2, <3>1
        <5>1. a <= a /\ a < a + p
          BY <3>1
        <5>2. Inside(a, p, work.ptr, pow)
          BY <1>2, <2>4, <3>1, <3>4, <5>1, Nested
        <5> QED BY <1>2, <3>1, <3>4, <5>2 DEF Inside
      <4>2. 2 * pow <= p
        BY <1>1, <4>1, DoublePower
      <4>3. p <= work.size
        BY <1>2, <3>1
      <4> QED BY <1>1, <1>2, <3>1, <4>1, <4>2, <4>3
    <3> QED BY <1>2, <3>1, <3>2, <3>3, <3>4
  <2>6. free \subseteq G
    OBVIOUS
  <2> HIDE DEF G
  <2>7. Whole(G)
    BY <1>2, <2>3, <2>5, <2>6, RegroupWhole
  <2> QED BY <2>2, <2>7 DEF MergeInv
<1> QED BY <1>3, <1>4

LEMMA CutRoom ==
  ASSUME NEW b, IsBlock(b), Small(b), NEW size \in Asked, StartCut(b, size), ~Wrapped'
  PROVE  /\ work'.ptr < rest'.ptr
         /\ End(rest') <= work'.ptr + AddrSize(work'.ptr)
         /\ End(rest') <= work'.ptr + LargestBlock
<1>2. Kept(size) \in Nat \ {0} /\ Kept(size) <= b.size
  BY KeptPart
<1>3. /\ b.size \in 1 .. UintRange - 1 /\ b.size <= LargestBlock /\ b.size <= AddrSize(b.ptr)
      /\ UintRange \in Nat /\ LargestBlock \in Nat /\ AddrSize(b.ptr) \in Nat /\ b.ptr \in Nat
  BY AddrBounds, HeapAssumption DEF Small, Fits
<1>4. (b.size - Kept(size)) % UintRange = b.size - Kept(size)
  <2>1. b.size - Kept(size) \in 0 .. UintRange - 1
    BY <1>2, <1>3
  <2> QED BY <2>1, ModSmall
<1>5. /\ work'.ptr = b.ptr /\ rest'.ptr = b.ptr + Kept(size)
      /\ rest'.size = b.size - Kept(size)
  BY <1>4 DEF StartCut, Block
<1>6. End(rest') = b.ptr + b.size
  BY <1>2, <1>3, <1>5 DEF End
<1>7. b.ptr < b.ptr + Kept(size)
  BY <1>2, <1>3
<1> QED BY <1>3, <1>5, <1>6, <1>7

LEMMA ReallocMerges ==
  ASSUME HeapInv, FitInv, MergeInv, ~Wrapped',
         (\E n \in Requests, b \in live : Realloc(b, n)) \/ GrownEnough \/ ReallocFails
  PROVE  MergeInv'
<1>0. Whole(free) /\ free' = free
  BY DEF Realloc, GrownEnough, ReallocFails, MergeInv
<1>1. ASSUME NEW n \in Requests, NEW b \in live, Realloc(b, n) PROVE MergeInv'
  <2>1. IsBlock(b) /\ Small(b) /\ n + Header \in Asked
    BY DEF HeapInv, BlocksOK, FitInv, Asked
  <2>2. CASE b.size >= n + Header /\ StartCut(b, n + Header)
    <3>1. n + Header <= b.size
      BY <2>1, <2>2, AskedFacts, AddrBounds
    <3>2. pc' = "cut"
      BY <2>2 DEF StartCut
    <3>3. /\ work'.ptr < rest'.ptr
          /\ End(rest') <= work'.ptr + AddrSize(work'.ptr)
          /\ End(rest') <= work'.ptr + LargestBlock
      BY <2>1, <2>2, <3>1, CutRoom
    <3> QED BY <1>0, <3>2, <3>3 DEF MergeInv
  <2>3. CASE pc' = "grow forward"
    BY <1>0, <2>3 DEF MergeInv
  <2> QED BY <1>1, <2>2, <2>3 DEF Realloc
<1>2. CASE GrownEnough
  <2>1. IsBlock(work) /\ Small(work) /\ want \in Asked /\ StartCut(work, want)
    BY <1>2, WorkBlock DEF GrownEnough, FitInv, HeapInv, LoopInv
  <2>2. want <= work.size /\ pc' = "cut"
    BY <1>2, <2>1, AskedFacts, AddrBounds DEF GrownEnough, StartCut
  <2>3. /\ work'.ptr < rest'.ptr
        /\ End(rest') <= work'.ptr + AddrSize(work'.ptr)
        /\ End(rest') <= work'.ptr + LargestBlock
    BY <2>1, <2>2, CutRoom
  <2> QED BY <1>0, <2>2, <2>3 DEF MergeInv
<1>3. CASE ReallocFails
  <2>1. pc' = "idle"
    BY <1>3 DEF ReallocFails, Return
  <2> QED BY <1>0, <2>1 DEF MergeInv
<1> QED BY <1>1, <1>2, <1>3

LEMMA CutMerges ==
  ASSUME HeapInv, HeapInv', FitInv, MergeInv, CutBlockEnd
  PROVE  MergeInv'
<1>1. /\ pc = "cut" /\ IsBlock(work) /\ Whole(free) /\ work.ptr < rest.ptr
      /\ End(rest) <= work.ptr + AddrSize(work.ptr)
      /\ End(rest) <= work.ptr + LargestBlock
  BY WorkBlock DEF CutBlockEnd, MergeInv
<1>2. CASE rest.size = 0
  <2>1. free' = free /\ pc' = "idle"
    BY <1>2 DEF CutBlockEnd, Return
  <2> QED BY <1>1, <2>1 DEF MergeInv
<1>3. CASE rest.size # 0
  <2> DEFINE fits == AddrSize(rest.ptr)
             in == IF rest.size > fits THEN fits ELSE RoundDown(rest.size)
             e == Block(rest.ptr, in)
  <2>1. IsBlock(rest)
    BY <1>3 DEF HeapInv, HandOK, InHandOK
  <2>2. /\ rest.size \in 1 .. UintRange - 1 /\ rest.ptr \in Nat
        /\ rest.size \in Nat /\ fits \in Nat \ {0} /\ LargestBlock \in Nat
        /\ work.ptr \in Nat /\ AddrSize(work.ptr) \in Nat /\ End(rest) = rest.ptr + rest.size
    BY <1>1, <2>1, AddrBounds, PowerType, HeapAssumption DEF End
  <2>3. RoundDown(rest.size) <= rest.size /\ RoundDown(rest.size) \in Nat \ {0}
    BY <2>2, RoundPower, PowerType
  <2>4. /\ free' = free \cup {e} /\ rest' = Block(rest.ptr + in, rest.size - in)
        /\ pc' = pc /\ work' = work
    BY <1>3 DEF CutBlockEnd, InsertAddr
  <2>5. in \in Nat \ {0} /\ in <= rest.size
    BY <2>2, <2>3
  <2> HIDE DEF in
  <2>6. e.ptr = rest.ptr /\ e.size = in /\ End(rest') = rest.ptr + rest.size
        /\ rest'.ptr = rest.ptr + in
    BY <2>2, <2>4, <2>5 DEF Block, End
  <2>7. IsBlock(e) /\ ~ Held(free', work.ptr)
    <3>1. BlocksOK(free', live') /\ InHandOK(free', live', work) /\ work.size # 0
      BY <1>1, <2>4 DEF HeapInv, HandOK, IsBlock
    <3> QED BY <2>4, <3>1, HandNotHeld DEF BlocksOK
  <2>8. PICK q \in Powers : Cell(work.ptr, q) /\ End(rest) - work.ptr <= q
    <3>1. PICK q \in Powers :
            /\ Cell(work.ptr, q)
            /\ \A n \in Nat : n <= AddrSize(work.ptr) /\ n <= LargestBlock => n <= q
      BY <1>1, RoomCell
    <3>2. /\ End(rest) - work.ptr \in Nat /\ End(rest) - work.ptr <= AddrSize(work.ptr)
          /\ End(rest) - work.ptr <= LargestBlock
      BY <1>1, <2>2
    <3> QED BY <3>1, <3>2
  <2>9. Inside(e.ptr, e.size, work.ptr, q)
    BY <1>1, <2>2, <2>5, <2>6, <2>8, PowerType DEF Inside
  <2> HIDE DEF e
  <2>10. Whole(free')
    BY <1>1, <2>4, <2>7, <2>8, <2>9, InsertWhole
  <2>11. work.ptr < rest'.ptr
    BY <1>1, <2>2, <2>5, <2>6
  <2> QED BY <1>1, <2>2, <2>4, <2>6, <2>10, <2>11 DEF MergeInv
<1> QED BY <1>2, <1>3

LEMMA MergeNext ==
  ASSUME HeapInv, HeapInv', FitInv, MergeInv, ~Wrapped', [Next]_vars
  PROVE  MergeInv'
<1>1. CASE UNCHANGED vars
  BY <1>1 DEF vars, MergeInv, Following, End
<1>2. CASE Next
  BY <1>2, AcquiringMerges, SplitMerges, FreeingMerges, MergingMerges, GrowMerges, InsertMerges,
     ReallocMerges, CutMerges DEF Next
<1> QED BY <1>1, <1>2

(* When everything was given back, and no realloc has dropped anything or  *)
(* grown a block beyond LARGEST_BLOCK, the heap is that of the beginning,  *)
(* in whatever order blocks of whatever sizes were split, cut, grown and   *)
(* freed: merge_block leaves nothing behind, although cut_block_end does   *)
(* not merge what it inserts.                                              *)
THEOREM HeapMerges == Spec => []HeapMergesBack
<1> DEFINE Safe == ~Wrapped => HeapInv
           Fitting == trouble = {} => FitInv
           Merging == trouble = {} => MergeInv
<1>1. Safe /\ Safe' /\ Fitting /\ Merging /\ [Next]_vars => Merging'
  BY NoTrouble, MergeNext
<1>2. Safe /\ Fitting /\ [Next]_vars => Fitting'
  BY NoTrouble, FitNext
<1>3. Init => Fitting /\ Merging
  BY FitInit, WholeInit DEF Init, MergeInv
<1>4. Safe /\ EveryWordAccounted /\ Fitting /\ Merging => HeapMergesBack
  <2> SUFFICES ASSUME Safe, EveryWordAccounted, Fitting, Merging,
                      trouble = {}, pc = "idle", live = {}, lost = {}
               PROVE  free = WholeHeap
    BY DEF HeapMergesBack
  <2>0. ~Wrapped /\ HeapInv /\ FitInv /\ MergeInv
    BY DEF Wrapped
  <2>1. UNION {Words(b) : b \in free} = HeapStart .. HeapStart + HeapSize - 1
    BY <2>0 DEF EveryWordAccounted
  <2>2. ASSUME NEW v \in Nat, HeapStart <= v, v < HeapStart + HeapSize PROVE Held(free, v)
    <3>1. v \in HeapStart .. HeapStart + HeapSize - 1
      BY <2>2, HeapAssumption
    <3>2. PICK b \in free : v \in Words(b)
      BY <2>1, <3>1
    <3>3. IsBlock(b)
      BY <2>0 DEF HeapInv, BlocksOK
    <3> QED BY <3>2, <3>3 DEF Words, End, Held, IsBlock
  <2> QED BY <2>0, <2>2, AllFree DEF HeapInv, MergeInv
<1> QED BY <1>1, <1>2, <1>3, <1>4, HeapInvariant, WordsAccounted, PTL DEF Spec
===============================================================================
