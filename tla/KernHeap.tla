------------------------------- MODULE KernHeap -------------------------------
(***************************************************************************)
(* The kernel's memory allocator (src/mem/malloc/malloc.c): malloc,        *)
(* realloc and free on top of kern_malloc, kern_realloc and kern_free.     *)
(* Memory is counted in words of four bytes.  A step is one round of one   *)
(* of the loops, which is also what the file's mutex protects.             *)
(*                                                                         *)
(* One call runs at a time.  The mutex is given up between lookup_addr and *)
(* delete_addr, so two calls at once can both take the same block; the     *)
(* model is of what the code does without that.                            *)
(*                                                                         *)
(* The block lists and the hash table hold the same blocks and are one set *)
(* here: which block of a list comes first is a choice.  A refused call    *)
(* changes nothing and is no step; empty_caches (sys/util.c) is empty, so  *)
(* that asking again after it gets the same answer.                        *)
(***************************************************************************)
EXTENDS Integers, FiniteSets

CONSTANTS
    HeapStart,          \* kern_heap_start, in words
    HeapSize,           \* heap_size
    LargestBlock,       \* LARGEST_BLOCK, 2^18 words in the code
    EmergencyStore,     \* EMERGENCY_STORE, 2^18 words
    Width,              \* addresses and sizes are below 2^Width words, 2^30
    Requests            \* sizes that are asked for

UintRange == 2 ^ Width
SmallestBlock == 4      \* SMALLEST_BLOCK, 16 bytes
Header == 1             \* malloc keeps the size in front of the block

(* size_tab *)
Powers == {2 ^ k : k \in 0 .. Width - 1}

(* The instructions bsr and bsf pick the highest and the lowest bit.       *)
RoundDown(n) == CHOOSE p \in Powers : p <= n /\ n < 2 * p
RoundUp(n) == CHOOSE p \in Powers : n <= p /\ p < 2 * n
AddrSize(a) == CHOOSE p \in Powers : a % p = 0 /\ a % (2 * p) # 0

ASSUME HeapAssumption ==
    /\ HeapStart \in Nat \ {0} /\ HeapStart % SmallestBlock = 0
    /\ HeapSize \in Nat \ {0} /\ HeapStart + HeapSize < UintRange
    /\ UintRange \in Nat /\ UintRange % SmallestBlock = 0
    /\ LargestBlock \in Nat \ {0} /\ LargestBlock % SmallestBlock = 0
    /\ HeapSize % LargestBlock = 0
    /\ EmergencyStore \in Nat /\ Requests \subseteq Nat
(* LARGEST_BLOCK is a power of two; who calls kern_heap_init, which is not *)
(* in the repository, begins the heap at a multiple of it.                 *)
ASSUME SizedAssumption == LargestBlock \in Powers /\ HeapStart % LargestBlock = 0
(* The facts about powers of two that the blocks depend on. *)
ASSUME RoundAssumption ==
    \A n \in 1 .. UintRange - 1 :
        /\ RoundDown(n) \in 1 .. n
        /\ n >= SmallestBlock => RoundDown(n) % SmallestBlock = 0
ASSUME AddrAssumption ==
    \A a \in 1 .. UintRange - 1 :
        /\ AddrSize(a) \in 1 .. a
        /\ a % SmallestBlock = 0 => AddrSize(a) % SmallestBlock = 0
ASSUME PowerAssumption ==
    /\ \A p \in Powers : p \in Nat \ {0} /\ (2 * p < UintRange => 2 * p \in Powers)
    /\ \A p, q \in Powers : p <= q => q % p = 0
    /\ \A n \in 1 .. UintRange - 1 :
        /\ \E p \in Powers : p <= n /\ n < 2 * p
        /\ \E p \in Powers : n % p = 0 /\ n % (2 * p) # 0
(* What is asked for can be rounded up: size_tab ends at 2^31 bytes. *)
ASSUME RequestAssumption ==
    \A n \in Requests : RoundUp(n + Header) \in Nat /\ RoundUp(n + Header) >= n + Header

VARIABLES
    free,               \* the blocks in block_lists and hash_table
    heapFree,           \* heap_free
    live,               \* the blocks that callers have
    lost,               \* history: words a failed realloc has dropped
    trouble,            \* history: what has gone wrong
    pc,                 \* the loop the call is in
    work,               \* the block it works on: ptr and size
    rest,               \* a second block: the end that is cut off, or the one
                        \* that is freed when its contents have been copied
    want,               \* the size that was asked for, with its header
    origin              \* realloc: the caller's block

vars == <<free, heapFree, live, lost, trouble, pc, work, rest, want, origin>>

Block(ptr, size) == [ptr |-> ptr, size |-> size]
End(b) == b.ptr + b.size
Words(b) == b.ptr .. End(b) - 1
NoBlock == Block(0, 0)

(* The heap as kern_free leaves it when it is given all of the memory.  No *)
(* code in the repository does so, or allocates block_lists.               *)
WholeHeap ==
    {Block(HeapStart + LargestBlock * i, LargestBlock) :
        i \in 0 .. (HeapSize \div LargestBlock) - 1}

Init ==
    /\ free = WholeHeap /\ heapFree = HeapSize
    /\ live = {} /\ lost = {} /\ trouble = {}
    /\ pc = "idle" /\ work = NoBlock /\ rest = NoBlock /\ want = 0 /\ origin = NoBlock

-----------------------------------------------------------------------------
(* insert_addr and delete_addr. *)
InsertAddr_bug(b) == free' = free \cup {b} /\ UNCHANGED heapFree

InsertAddr(b) ==
    /\ free' = free \cup {b}
    /\ heapFree' = (heapFree + b.size) % UintRange

DeleteAddr_bug(b) == b \in free /\ UNCHANGED <<free, heapFree>>

DeleteAddr(b) ==
    /\ free' = free \ {b}
    /\ heapFree' = (heapFree - b.size) % UintRange

(* A call returns with the blocks callers have from then on. *)
Return(blocks) ==
    /\ live' = blocks
    /\ pc' = "idle" /\ work' = NoBlock /\ rest' = NoBlock /\ want' = 0 /\ origin' = NoBlock

-----------------------------------------------------------------------------
(* Without priority an allocation has to leave the reserve alone.  The     *)
(* difference is unsigned.                                                 *)
LeavesReserve(size) == size <= (heapFree - EmergencyStore) % UintRange

(* acquire_block looks from the list of the rounded size upwards.  Below   *)
(* SMALLEST_BLOCK the number of the list wraps around past high_list.      *)
BigEnough(size) ==
    {b \in free : RoundUp(size) >= SmallestBlock /\ RoundDown(b.size) >= RoundUp(size)}

AcquireBlock(size) ==
    \E b \in BigEnough(size) :
        /\ \A c \in BigEnough(size) : RoundDown(b.size) <= RoundDown(c.size)
        /\ DeleteAddr(b)
        /\ work' = b
        /\ want' = size
        /\ pc' = "split"

(* malloc, and kern_malloc up to split_block. *)
Malloc(n) ==
    /\ pc = "idle"
    /\ LeavesReserve(RoundUp(n + Header))
    /\ AcquireBlock(n + Header)
    /\ UNCHANGED <<live, lost, trouble, rest, origin>>

(* split_block breaks the largest powers of two off the end. *)
SplitBlock_bug ==
    /\ pc = "split" /\ work.size > want
    /\ LET pow == RoundDown(work.size - want) IN
         /\ InsertAddr(Block(End(work) - pow, pow))
         /\ work' = Block(work.ptr, work.size - pow)
    /\ UNCHANGED <<live, lost, trouble, pc, rest, want, origin>>

SplitBlock ==
    /\ pc = "split" /\ work.size - want >= SmallestBlock
    /\ LET pow == RoundDown(work.size - want) IN
         /\ InsertAddr(Block(End(work) - pow, pow))
         /\ work' = Block(work.ptr, work.size - pow)
    /\ UNCHANGED <<live, lost, trouble, pc, rest, want, origin>>

(* kern_free begins: merge_block's loop is entered below LARGEST_BLOCK. *)
StartFree(b) ==
    /\ work' = b
    /\ pc' = IF b.size < LargestBlock THEN "merge forward" ELSE "insert"

(* kern_malloc returns; a realloc has copied the contents and frees the    *)
(* block it had grown.                                                     *)
SplitDone ==
    /\ pc = "split" /\ work.size - want < SmallestBlock
    /\ IF rest = NoBlock
       THEN Return(live \cup {work})
       ELSE /\ live' = live \cup {work}
            /\ StartFree(rest)
            /\ rest' = NoBlock /\ want' = 0 /\ origin' = NoBlock
    /\ UNCHANGED <<free, heapFree, lost, trouble>>

-----------------------------------------------------------------------------
Following == {b \in free : b.ptr = End(work)}
Preceding == {b \in free : End(b) = work.ptr /\ b.size = work.size}

(* The neighbour leaves the lists and becomes part of the block. *)
Swallow(b) ==
    /\ DeleteAddr(b)
    /\ work' = Block(IF b.ptr < work.ptr THEN b.ptr ELSE work.ptr, work.size + b.size)
    /\ UNCHANGED <<live, lost, rest, want, origin>>

Merge(b) == Swallow(b) /\ UNCHANGED trouble

Grow(b) ==
    /\ Swallow(b)
    /\ trouble' = IF work.size + b.size > LargestBlock THEN trouble \cup {"outgrown"} ELSE trouble

Goto(label) ==
    /\ pc' = label
    /\ UNCHANGED <<free, heapFree, live, lost, trouble, work, rest, want, origin>>

(* free and kern_free up to merge_block. *)
Free(b) ==
    /\ pc = "idle" /\ b \in live
    /\ live' = live \ {b}
    /\ StartFree(b)
    /\ UNCHANGED <<free, heapFree, lost, trouble, rest, want, origin>>

(* merge_block_forward: up to the size that fits the address. *)
MergeForward ==
    /\ pc = "merge forward"
    /\ IF work.size < AddrSize(work.ptr) /\ Following # {}
       THEN UNCHANGED pc /\ \E b \in Following : Merge(b)
       ELSE Goto("merge back")

CanMergeBack == work.size = AddrSize(work.ptr) /\ work.size < LargestBlock

(* The other half of a merge_block round: the block before this one. *)
MergeBack_bug == pc = "merge back" /\ Goto("insert")

MergeBack ==
    /\ pc = "merge back"
    /\ IF CanMergeBack /\ Preceding # {}
       THEN /\ \E b \in Preceding : Merge(b)
            /\ pc' = IF 2 * work.size < LargestBlock THEN "merge forward" ELSE "insert"
       ELSE Goto("insert")

(* kern_free puts the block into the lists by powers of two. *)
InsertBlocks_bug ==
    /\ pc = "insert"
    /\ LET pow == IF work.size > LargestBlock THEN LargestBlock ELSE work.size IN
         /\ InsertAddr(Block(work.ptr, pow))
         /\ IF work.size = pow
            THEN Return(live)
            ELSE /\ work' = Block(work.ptr + pow, work.size - pow)
                 /\ UNCHANGED <<live, pc, rest, want, origin>>
    /\ UNCHANGED <<lost, trouble>>

InsertBlocks ==
    /\ pc = "insert"
    /\ LET pow == IF RoundDown(work.size) > LargestBlock
                  THEN LargestBlock ELSE RoundDown(work.size) IN
         /\ InsertAddr(Block(work.ptr, pow))
         /\ IF work.size = pow
            THEN Return(live)
            ELSE /\ work' = Block(work.ptr + pow, work.size - pow)
                 /\ UNCHANGED <<live, pc, rest, want, origin>>
    /\ UNCHANGED <<lost, trouble>>

-----------------------------------------------------------------------------
(* cut_block_end: what is kept, and the size that is left, unsigned.  Of a *)
(* multiple of SMALLEST_BLOCK one smallest block too many is kept: when    *)
(* that is more than there is, the size wraps around.                      *)
Kept(size) == (size \div SmallestBlock) * SmallestBlock + SmallestBlock

StartCut(b, size) ==
    /\ work' = Block(b.ptr, Kept(size))
    /\ rest' = Block(b.ptr + Kept(size), (b.size - Kept(size)) % UintRange)
    /\ trouble' = IF Kept(size) > b.size THEN trouble \cup {"wrapped"} ELSE trouble
    /\ pc' = "cut"

(* realloc, and kern_realloc up to trim_block (whose live_merge_forward    *)
(* stops at once, the block being large enough) or grow_block.             *)
Realloc(b, n) ==
    /\ pc = "idle" /\ b \in live
    /\ live' = live \ {b}
    /\ \/ /\ b.size >= n + Header
          /\ StartCut(b, n + Header)
          /\ UNCHANGED <<want, origin>>
       \/ /\ b.size < n + Header
          /\ LeavesReserve(n + Header - b.size)
          /\ work' = b /\ origin' = b /\ want' = n + Header
          /\ pc' = "grow forward"
          /\ UNCHANGED <<trouble, rest>>
    /\ UNCHANGED <<free, heapFree, lost>>

(* live_merge_forward, in grow_block. *)
GrowForward ==
    /\ pc = "grow forward"
    /\ IF work.size < want /\ work.size < AddrSize(work.ptr) /\ Following # {}
       THEN UNCHANGED pc /\ \E b \in Following : Grow(b)
       ELSE Goto("grow back")

GrowBack ==
    /\ pc = "grow back"
    /\ IF work.size < want /\ work.size = AddrSize(work.ptr) /\ Preceding # {}
       THEN /\ \E b \in Preceding : Grow(b)
            /\ pc' = IF 2 * work.size < want THEN "grow forward" ELSE "grown"
       ELSE Goto("grown")

(* Large enough: the contents are moved and the end is cut off. *)
GrownEnough ==
    /\ pc = "grown" /\ work.size >= want
    /\ StartCut(work, want)
    /\ UNCHANGED <<free, heapFree, live, lost, want, origin>>

(* Not large enough: another block, with priority. *)
GrownShort ==
    /\ pc = "grown" /\ work.size < want
    /\ AcquireBlock(want)
    /\ rest' = work
    /\ UNCHANGED <<live, lost, trouble, origin>>

(* No such block: the caller keeps the one it had, and its header; what it *)
(* had grown by is in no list any more.                                    *)
ReallocFails ==
    /\ pc = "grown" /\ work.size < want /\ BigEnough(want) = {}
    /\ lost' = lost \cup (Words(work) \ Words(origin))
    /\ Return(live \cup {origin})
    /\ UNCHANGED <<free, heapFree, trouble>>

(* A piece is as large as its address and what is left allow.  It is not   *)
(* capped as in kern_free.  The model ends at a piece that is not in the   *)
(* heap, which is written into other memory, and at one that is larger     *)
(* than LARGEST_BLOCK, which has no list.                                  *)
CutBlockEnd ==
    /\ pc = "cut"
    /\ IF rest.size = 0
       THEN Return(live \cup {work}) /\ UNCHANGED <<free, heapFree>>
       ELSE LET fits == AddrSize(rest.ptr)
                in == IF rest.size > fits THEN fits ELSE RoundDown(rest.size) IN
              /\ rest.ptr + in <= HeapStart + HeapSize /\ in <= LargestBlock
              /\ InsertAddr(Block(rest.ptr, in))
              /\ rest' = Block(rest.ptr + in, rest.size - in)
              /\ UNCHANGED <<live, pc, work, want, origin>>
    /\ UNCHANGED <<lost, trouble>>

Next ==
    \/ \E n \in Requests : Malloc(n) \/ \E b \in live : Realloc(b, n)
    \/ \E b \in live : Free(b)
    \/ SplitBlock \/ SplitDone
    \/ MergeForward \/ MergeBack \/ InsertBlocks
    \/ GrowForward \/ GrowBack \/ GrownEnough \/ GrownShort \/ ReallocFails
    \/ CutBlockEnd

Spec == Init /\ [][Next]_vars

-----------------------------------------------------------------------------
IsBlock(b) ==
    /\ b \in [ptr : Nat, size : Nat \ {0}]
    /\ b.size % SmallestBlock = 0 /\ b.ptr % SmallestBlock = 0
    /\ HeapStart <= b.ptr /\ End(b) <= HeapStart + HeapSize

Apart(b, c) == End(b) <= c.ptr \/ End(c) <= b.ptr

InHand == {b \in {work, rest} : b.size # 0}

Locations == {"idle", "split", "merge forward", "merge back", "insert",
              "grow forward", "grow back", "grown", "cut"}

Wrapped == "wrapped" \in trouble

(* Until cut_block_end has wrapped around: every block, free or not, is a  *)
(* multiple of SMALLEST_BLOCK inside the heap, and the call's locals are   *)
(* those of the loop it is in.                                             *)
TypeOK ==
    /\ trouble \subseteq {"wrapped", "outgrown"}
    /\ ~Wrapped =>
        /\ \A b \in free \cup live \cup InHand : IsBlock(b)
        /\ heapFree \in 0 .. UintRange - 1
        /\ lost \subseteq HeapStart .. HeapStart + HeapSize - 1
        /\ pc \in Locations /\ want \in Nat
        /\ pc = "idle" <=> work = NoBlock
        /\ rest # NoBlock => pc \in {"split", "cut"}

(* No word is in two blocks: not in two that callers have, not in one of   *)
(* them and in the lists, not in two blocks of the lists, whatever was     *)
(* split, merged, grown or cut (the pieces of split_block and              *)
(* cut_block_end, the neighbours of merge_block and grow_block), until     *)
(* cut_block_end has wrapped around: then "free any extra memory" puts     *)
(* what follows the caller's block into the lists, and blocks do overlap.  *)
NoOverlap ==
    ~Wrapped =>
        /\ \A b, c \in free \cup live : b # c => Apart(b, c)
        /\ free \cap live = {}

(* Between calls every word is in a block, except those that a realloc     *)
(* without success has grown by; and heap_free is what the lists hold,     *)
(* until cut_block_end has wrapped around.                                 *)
EveryWordAccounted ==
    ~Wrapped =>
        /\ heapFree = Cardinality(UNION {Words(b) : b \in free})
        /\ pc = "idle" =>
            UNION {Words(b) : b \in free \cup live} =
                (HeapStart .. HeapStart + HeapSize - 1) \ lost

(* A block in the lists is a power of two that divides its address, so     *)
(* that its list (addr_power) and its neighbours (addr_size) are right,    *)
(* until a realloc has grown a block beyond LARGEST_BLOCK or cut_block_end *)
(* has wrapped around.                                                     *)
FreeBlocksFit ==
    trouble = {} =>
        \A b \in free : b.size \in Powers /\ b.size <= LargestBlock /\ b.ptr % b.size = 0

(* When everything was given back, and no realloc has dropped anything or  *)
(* grown a block beyond LARGEST_BLOCK, the heap is again what it was at    *)
(* first: merge_block finds every neighbour, in whatever order the blocks  *)
(* come back.                                                              *)
HeapMergesBack ==
    trouble = {} /\ pc = "idle" /\ live = {} /\ lost = {} => free = WholeHeap

=============================================================================
