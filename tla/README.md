# metakernel: a TLA+ verification project

metakernel is a small multiprocessor kernel for IA-32, written in C and assembly. This project models the
parts that carry its own logic (synchronisation, scheduling, memory allocation), checks them with TLC on small
instances, and proves the central properties with TLAPS for instances of any size. Source paths below are relative
to the repository root. The build the models follow is the one of the makefiles: `MULTITHREAD` and
`SCHED_SPECIAL_MODES` defined, and without swapping.

## 1. Inventory

| component | source | state | operations |
|---|---|---|---|
| kernel mutex | `src/sync/sync.c`, `arch/sync/*.s` | lock bit, count of spinners, sleep queue, holder, timer count | lock, trylock, unlock, async forms, `sync_check`, `lock_sleep`, `detect_deadlock` |
| condition variables | `src/sync/sync.c` 316-553, 655-675 | core spin lock, count of spinners, type mutex, queue and its mutex | wait, signal, broadcast, async forms, `wait_sleep` |
| reader/writer lock | `src/sync/rw_lock.c` | unsigned count (-1 = writer), a mutex, a condition | read/write lock and unlock, upgrade, downgrade |
| rendezvous points | `src/sched/rendezvous.c` | count, reset flag, condition flag | init, join |
| special scheduling modes | `src/sched/exclusion.c`, `do_exclusion` in `scheduler.c` | the excluding processor, a flag per processor | clear, set, check |
| thread heaps | `priority_heap.c`, `affinity_heap.c` | array, size, the index each thread remembers | insert, delete, set_key, head, grow |
| scheduler | `scheduler.c`, `thread_sched.c` | running, finished and affinity queue, current thread, load counters | resched, insert, remove, restart, reassign, eschew, change_remaining; load balancing |
| kernel allocator | `src/mem/malloc/malloc.c`, `arch/mem/malloc/ia_32_round.s` | free lists, hash of free blocks, `heap_free` | malloc, realloc, free |
| physical pages | `page_alloc.c`, `phys_mem.c`, `page_cache.c` | a free list and a count for each colour, colour tables, table of anonymous pages, page cache | allocate, insert, create, free, fetch |
| virtual memory | `virt_mem.c`, `cow_table.c`, `inv_page_table.c` | vm objects and their mappers, a tree of mappings for each address space, copy-on-write tables | create, destroy, map, unmap, remap, copy, fault |
| inodes and file systems | `src/io/*.c` | inode cache, table of mounted systems | look up, release, mount |
| generic containers | `include/data_structures.h` | macro templates | red-black tree, hash table, circular list, heap |
| thread table; paging stubs; support code; architecture code; devices and crofs | see `PROJECT.json` | | |

How they interact. `timer_interrupt` (`thread_sched.c`) runs on every processor; it calls `sync_check`, which may put
the interrupted thread to sleep in the queue of a mutex it was spinning on, and `sched_resched`, which chooses the
next thread and runs `do_exclusion`, which joins a rendezvous with all other processors. Unlocking a mutex restarts a
thread through `thread_restart` on some processor's scheduler. Schedulers give threads to each other in
`rebalance_load`, which releases a scheduler's mutex in the middle of a removal. The reader/writer lock is built on the
mutex and the condition variable, the scheduler's queues on the heaps, the heaps' arrays on the allocator. A page fault
looks the address up in the tree of mappings of the address space and gets its page from `anon_page_create` or
`phys_page_fetch`, which hold one mutex of their own around the allocator's and the page cache's.

What is hard: lost wakeups between spinning, sleeping and hand-over; counters changed without their lock; the reuse of
a barrier; the order of a heap whose keys change under it; a queue taken apart while its owner is in the middle of an
operation; splitting and merging of memory blocks; rotations and exchanges in a tree with parent links; a search that
lets its lock go between two looks; unsigned differences. `PROJECT.json` lists each of these hazards
with its line and with the properties that are about it.

What makes the components correct:
one owner at a time and no forgotten sleeper (mutex); exact count, no lost wakeup, every request served (rw lock);
nobody leaves before everybody has come and everybody leaves (rendezvous); the head is a best thread and a thread is
found by its index (heaps); no thread lost, queued twice or starved (scheduler); no word in two blocks, none lost
(allocator); every wake-up used by a waiter (condition variables); a balanced search tree of just what was put in
(red-black tree); the tree holds the mappings there are (address space); no page with two uses, one copy of a page of
a file, no failed allocation while there are pages (physical pages).

## 2. Modules

| module | models | implements | proofs | instance |
|---|---|---|---|---|
| `RwLock` | rw_lock.c | `SharedLock` | `RwLockProofs` | `MCRwLock` |
| `Rendezvous`, `RendezvousPair` | rendezvous.c and its prescribed use | `CpuBarrier` | `RendezvousPairProofs` | `MCRendezvousPair` |
| `Exclusion` (on `Rendezvous`) | exclusion.c, do_exclusion | | | `MCExclusion` |
| `KernMutex` | the mutex half of sync.c | | `KernMutexProofs` | `MCKernMutex` |
| `ThreadHeap` | both heaps | `ReadyQueue` | `ThreadHeapProofs` | `MCThreadHeap` |
| `Scheduler` | scheduler.c, with thread_sched.c around it | | `SchedulerProofs` | `MCScheduler` |
| `KernHeap` | malloc.c | | `KernHeapProofs` | `MCKernHeap` |
| `CondVar` (on `CircularList`) | the condition variables of sync.c | | | `MCCondVar` |
| `RedBlackTree` | RED_BLACK_TREE of data_structures.h | | `RedBlackTreeProofs` | `MCRedBlackTree` |
| `AddressSpace` (extends `RedBlackTree`) | the mappings of virt_mem.c | | | `MCAddressSpace` |
| `PhysPages` (on `CircularList`) | page_alloc.c, phys_mem.c, page_cache.c | | `PhysPagesProofs` | `MCPhysPages` |
| `CircularList` | CIRCULAR_LIST of data_structures.h, as operators | | | |

The `map` of `PROJECT.json` gives for each definition the lines it models. Definitions whose name ends in `_bug` are
mutated forms of the definition that follows them; no specification uses them. They show that a property can fail.

**RwLock.** A thread's program counter names the function it is in (`rl`, `ru`, `wl`, `wu`, `ug`, `dg`) and whether it
is at the `mutex_lock`, in the body, in `cond_wait` or at the `mutex_unlock`. One step is what the mutex makes
atomic. The mutex and the condition variable keep the contract of `sync.h`. As `sync.c` stands they do not keep all of
it (`KernMutex` shows the mutex's part), so what is shown of `RwLock` is what rw_lock.c makes of correct primitives.

**Rendezvous, RendezvousPair, Exclusion.** `rendezvous_join` is one step up to its loop (it runs under the spin lock)
and one for leaving the loop. `RendezvousPair` has every processor join first, second, first, ...: "two rendezvous
points are used in succession". `Exclusion` joins them as `do_exclusion` does. Nothing in the repository calls
`rendezvous_init`; the points start as it leaves them for all processors. `exclusion` starts as 0, the static
variable it is.

**KernMutex.** One mutex, threads on processors of their own, one interrupt handler with the async functions.
A section under `data_mutex` is one step; `num_spin++` and `--` are a read and a write, as the decrements are not
protected. The timer is a 16-bit count in the code and a smaller one here; a tick already on its way when the timer is
switched off still arrives. `halt` is where `detect_deadlock` follows a null or waiting holder. Left out: priority
inheritance, and `async_mutex_lock` on a taken mutex, which calls a function that does not exist.

**ThreadHeap.** The hole moves one loop iteration per step. `kind` selects the file. Deletion is by the index the
thread remembers; an index may be stale once the thread has left. `set_key` compares as the code does, unsigned, and keys may
be negative: `keep_current_thread` passes the time of a thread that was pinned past it, and priority changes pass negative
differences. `misled` is a history variable: such a comparison has come out wrong.
The callers see to it that one operation ends before the next begins. `heap_grow` only reallocates and is left out.

**Scheduler.** Queues are sets. The head of a queue is any of its members, because `sched_resched` writes
`stat.remaining` of queued threads in place and the order is lost with that. The calls of thread_sched.c hold the scheduler's
`mutex` and are one step each, but `timer_interrupt` does not take it. So a tick is several steps: `SyncCheck` (the thread
enters a sleep queue and sets its status, in the order of `lock_sleep` or of `wait_sleep`), `Resched` (up to the deletion of
`retire_current_thread`, or the choice of `keep_current_thread`), `ChooseHead` (the epoch, and the head is read), `TakeHead` (it is
noted as current, `do_exclusion`). Calls of other processors come in between; the heap operations themselves are whole.
A removal is two steps with `rebalance_load` between them, which releases the mutex whoever has it, and takes it again;
after a removal by the tick nobody releases it. A thread in a sleep queue (`waiting`) is woken as soon as it is there, on this
or on another processor, whether or not it has left the queues. Affinities and epoch
numbers are choices, as is the answer of `do_exclusion` (`granted`).
`sched_exchange_thread` is always called with the thread's own scheduler and then returns its argument.
`trouble` is a history variable with three values for what goes wrong, and there the model ends: `stolen`, another processor took the thread the
tick had chosen; `twice`, a thread was queued that is in the queues, so that its one position no longer says where;
`null`, a null thread was written to.

**KernHeap.** Words of four bytes; `work` and `rest` are the blocks a call has in hand, and a step is one round of one
loop. `free` is the content of both the lists and the hash table. A refused call changes nothing and is no step.
`empty_caches` is an empty function, so the second tries of `kern_malloc` and `kern_realloc` repeat the first. `lost` is a
history variable: the words a failed realloc had already taken. No code in the repository gives the heap its first
blocks, its lists or `high_list`; `WholeHeap` is what `kern_free` makes of the whole memory, and every list is
searched. `trouble` is a history variable too: `wrapped`, the size that `cut_block_end` has left wrapped around; `outgrown`, a
realloc has merged a block that is larger than LARGEST_BLOCK. The model ends where a piece of `cut_block_end` is outside the heap
or has no list.
One call runs at a time (two at once are not safe: the lock is released between lookup and deletion).

**CondVar.** A program counter for each actor; one step is what lies between two accesses to shared data that can
interfere. `num_spin++` and `--` are a read and a write, as `wait_sleep` does its own without `num_mutex`; what is under
`queue_mutex` is one step, except for the loop of `cond_broadcast`, one round at a time. The queue is the circular list
itself, with its links, because `thread_queue_remove` deletes the node before the head and a thread that was woken can
sleep again while it is linked. The caller's mutex has an owner and no more; its callers hold it, as rw_lock.c does.
`halt` is a thread that is lost with its processor: a tick finds it with wait type WAIT_COND and a null wait object, or it
is restarted by `wait_reentry` outside `spin_lock`. An unassigned `wakeup_thread` is any thread. Left out: `async_cond_wait`.

**RedBlackTree.** The macro as virt_mem.c instantiates it: the nodes are their own keys (`comp` compares the pointers).
A step is one round of a loop; the left and right halves of the code are one definition with the side as a parameter.
`tree_delete` takes the colour of the replacement from `flags` of the target, bit 0 of which is VMOBJ_READ (`Readable`), and it
searches to the left for what `tree_insert` put to the right; so it finds a node only if it is the root. Both are in the
model. `members` is what the callers have put in and got back. `vmobj_map` takes any flags, so `Readable` is any set of
nodes; `miscoloured` is a history variable, the bit was not the colour, and `fault` is where a loop reads through NULL.

**AddressSpace.** vmobj_map and vmobj_unmap hold the mutexes of the space and the object throughout, so one call of the
two is under way, with the steps of the tree in it; objects are created and destroyed meanwhile. Where
`collision_test` reads through a null or freed mapping its answer is a choice. Objects that are copies, `vmobj_remap`, and
what `vmobj_destroy` does through null list links are left out.

**PhysPages.** Two colour tables (`spc`, `obj`), the free lists with their links, the two hash tables as one chain each.
Everything under the mutex of phys_mem.c is one step up to the search of the free lists, one step for each colour of
the search, and one step for the rest; a freed page is inserted in a step of its own, without that mutex. Colour tables are
never filled in the repository: they start in order with counts of zero. A table that is adjusted is given as a whole
(`change_color_count`), as nobody else can look at it meanwhile. Callers use ids they were given and have not
freed; the id of a copy is among them, so that the mutex that `anon_page_free` keeps for an unknown id is in the model. History
variables: `given`, `copies` and `copied` (pages and ids of copies, which no table has), `short` (an allocation has failed) and `stocked`.
Left out: what is in a page, swapped pages (swap.c is "not begun"), `phys_page_free` and `page_cache_delete` (nothing
calls them), and calls that begin after an allocation has failed. Calls that are under way then go on with the page at
address 0, as the code does; two of them can give it back, and then it is twice in a free list. That needs more processors than
the run has, and it came up when the invariants were proved for any number: so `PageListsSound` and `PagesAccounted` are about
the time before the first failure (`~short`), and `FailsOnlyWhenEmpty` about the search itself.

## 3. Runs

| run | instance and bounds | what it shows |
|---|---|---|
| `rw_lock` | 3 threads, counter of 8 values | count exact, no lost wakeup, requests served, implements `SharedLock`. Three threads are a waiting writer, a waiting upgrader and a reader, or two upgraders against a writer |
| `rendezvous_pair` | 4 processors, 6 joins each | nobody left on a lowered flag, barrier, all joins return. Six joins reuse each point twice, which is where the flag is lowered |
| `exclusion` (violation) | 2 processors | the processors all spin on flags nobody is left to raise |
| `kern_mutex` | 3 threads, an interrupt handler, counters of 4 values | mutual exclusion, queue linked once. Counters wrap only where the code drives them below zero or leaks |
| `sleeper_forgotten` (violation) | 2 threads | see findings |
| `thread_heap` | 6 threads, keys -1 to 1, both kinds; at most two threads with the worst key and none with the best, or one and two | index, refinement, and the head is a best thread until `set_key` has misjudged a direction. With six threads the last one, dropped in a hole of the other branch, has to go up, which takes two of the worst key; that it matters which of two children goes up takes three keys and two threads with the best |
| `scheduler` | 3 threads, one with half the time of the others; at most one at a time asleep, pinned or in a sleep queue; one removal of another processor in progress | queues agree and the current thread is queued, with all calls between the steps of a tick, and nobody starves. Three threads are one that runs, one that is taken and one that comes |
| `kern_heap` | 32 words (8 smallest blocks), largest block 16, reserve 4, requests of 1, 2, 3, 4, 7, 8, 13 and 19 words | no overlap, accounts exact, blocks aligned, the heap merges back. With the header 3, 7 and 19 are multiples of SMALLEST_BLOCK, where `cut_block_end` keeps a piece too many or wraps; 1 and 2 are below it, and 1 is refused by malloc; 13 rounds up to the largest block and 19 is beyond it; the largest block is half of the heap, so that the limit on merging is met |
| `red_black_tree` | 8 nodes, two of them not readable | parent and child agree after every round, the tree is a search tree of just its members, balanced until a colour is wrong, and calls return. Eight nodes are enough for every case of the fixer on both sides, and for a replacement that is a child, a grandchild or further down; the two nodes that are not readable have readable ones on both sides |
| `address_space` (violation) | 3 mappings of 2 objects, 4 addresses | an unmapped mapping stays in the tree |
| `broadcast_race` (violation) | 3 threads, an interrupt handler, counters of 4 values | see findings |
| `phys_pages` | 2 processors, 4 pages in 3 colours, 2 ids, 2 pages of files, calls begin while no colour is counted more than once | lists and counts agree, pages accounted for, one cached copy, unique ids but for those of copies, colour heaps, failing only when empty. Three colours are a root with two children, one colour has two pages, and four pages run out within the bound; two ids collide. Symmetric in processors and ids |

In `scheduler` the counters of the load have one value, since no property there depends on them, and
`PRIORITY_BOOST` is 0 so that times stay small. `scheduler` and `thread_heap` have state constraints (`OneAway`, `FewUnlike`), which are
the bounds of the table. `CHECK_DEADLOCK FALSE` is in the runs of `KernMutex` and `CondVar`, where
threads may all be asleep or halted, of `Exclusion`, whose property describes the standstill itself, of `PhysPages`,
where freeing an unknown id keeps the mutex for good, and of `Scheduler`, `KernHeap` and `RedBlackTree`, which end where something has
gone wrong as said above.

A property that the code does not keep for ever is stated up to the step that breaks it, which is as narrow as could be
found and recorded in a history variable (`misled`, `trouble`, `miscoloured`, `copied`). It then says that this step is the
only way to lose it; the step itself is in the run, and no input is left out to avoid it. Without its condition each
of them is violated in the same run (see "further disagreements" below); only `FreeBlocksFit` could do without `outgrown` there, because the
model ends at a piece that is larger than LARGEST_BLOCK and has no list.

Fairness. `RwLock`: weak fairness of every step of a thread and of giving the lock up; the scheduler runs every thread,
and a thread that has the lock uses it and returns it. New requests are not forced; `EveryRequestServed` is about
requests made before they stop, since a stream of readers can starve a writer. `RendezvousPair` and `Exclusion`:
every processor runs. `Scheduler`: the timer goes on, and a removal in progress ends. `EveryThreadRuns` supposes that in
the end only granted ticks happen, all threads are runnable, and nothing has gone wrong. `RedBlackTree`: a call that has begun goes on, for nothing
in it waits.

### Findings

Each is a disagreement between what the code does and a line of the repository, quoted in `PROJECT.json`.

1. `exclusion`: `do_exclusion` joins the same point on consecutive ticks, while rendezvous.c works only because two
   points are used in succession. All processors end up spinning.
2. `sleeper_forgotten`: the "not a race condition" of `lock_sleep` is one: a spinner the unlocker has counted goes to sleep,
   and stays asleep for a free mutex.
3. `address_space`: `tree_delete` searches in the opposite direction to `tree_insert`. `vmobj_unmap` of any mapping but
   the root's frees it and leaves it in the tree.
4. `broadcast_race`: `type_mutex` does not make a broadcaster wait for the thread it released, because every waiter that
   comes out unlocks it; the core mutex is unlocked twice before anybody gets it, and one of the two wake-ups is lost.

Further disagreements that are in the models, without a run of their own. The first six are where a property of a passing run ends:

* Scheduler: `sched_eschew_thread` and its like "are guaranteed not to return the currently running thread" (scheduler.c:585-587). `timer_interrupt`
  calls `sched_resched` without the lock (thread_sched.c:394). It has read the head of the running queue (scheduler.c:170) and not yet stored it in
  `current_thread` when another processor takes the thread of least affinity that is not `current_thread`: it is given that head, and both run it
  (`trouble` is `stolen`). A thread that has put itself in a sleep queue and is woken before the tick has removed it is queued twice (`twice`, sync.c:645).
* Scheduler: "we enter holding lock on sched" (thread_sched.c:353) is not so when the tick removes a thread that has gone to sleep. `rebalance_load`
  then unlocks a mutex that another processor may hold (355) and returns with it locked (370, 381); nothing on the way out of `timer_interrupt` unlocks it.
* ThreadHeap: "only if we increase the key do we need to go up" (priority_heap.c:250). The key is an `int` and `val` unsigned, so 1 to -1 counts as an
  increase (247): the thread stays above better ones, and the head is not a best thread (`misled`).
* KernHeap: `trim_block` is to "free any extra memory and return the original pointer" (malloc.c:438-440). For a size that with its header is a multiple
  of 16 `cut_block_end` keeps 16 bytes too many (396); when the block has just that size the rest wraps around (398), and memory of other callers
  enters the lists (`wrapped`).
* RedBlackTree: "root cannot be red" (data_structures.h:250-252), but `tree_delete` colours the replacement by bit 0 of the flags (582). For a mapping
  that is not readable the new root is red (`miscoloured`), and the next insertion below it looks for an uncle through NULL (257).
* PhysPages: "we want a unique identifier" (phys_mem.c:126), but the case PSRC_ANON (163-203) does not enter the copy in the table, so its id is not
  found and is given out again (`copied`).
* KernMutex: "Timer stays disabled in this case. It is reactivated by whomever acquires the mutex." (sync.c:200-202). A thread that
  gets the mutex by its second `spin_trylock`, or on the fast path, does not restore what the unlocker disabled.
* Scheduler: the reset of the load counters "if we run idle" (scheduler.c:280) comes after the return for empty queues.
* CondVar: waits "ALWAYS block" (sync.c:316), but `cond_init` leaves the core mutex free, so the first one does not; and
  `cond_broadcast` with an empty queue leaves `queue_mutex` locked.
* AddressSpace: "it is illegal to destroy a vm object that is mapped" (virt_mem.c:461), but the test (465) goes ahead for every object
  that is in the table.
* PhysPages: "ordered list of color" (page_alloc.c:16) is a heap, so the search takes a least used colour first and the others in
  no particular order.

## 4. Theorems

TLAPS checks all of these for every value of the constants that meets the module's assumptions.

* `RwLockProofs`: `TypeCorrect`, `CountCorrect`, `WakeupCorrect`, `Refinement`. Assumptions: finitely many threads, fewer than
  UINT_MAX. The invariant relates the count to the set of threads at points that have the lock, by cardinalities that
  change by one; `NoLostWakeup` alone is not inductive, since it speaks only of the moments when the
  mutex is free. The strengthening (`WakeupInv`) holds inside the critical sections too: the only thread that empties the lock
  without a broadcast is an upgrader that gave back the last share, and it takes the lock itself.
* `RendezvousPairProofs`: `TypeCorrect`, `StragglersSeeFlag`, `Refinement`. Assumptions: all processors take part, at least
  two. The invariant describes the current round: who has joined it, what count, reset and flag of each
  point are in terms of that, and that processors are at most one join apart.
* `KernMutexProofs`: `TypeCorrect`, `Exclusion`, `QueueIntact`. Ownership is by program point, and hand-over is an owner too (the
  thread being restarted, and the one restarted but not running). The queue's invariant adds that a thread on its way
  into the queue is not in it, which `detect_deadlock` has checked.
* `ThreadHeapProofs`: `TypeCorrect`, `IndexCorrect`, `HeadCorrect`, `Refinement`, for any threads and any keys; `HeadCorrect` until `set_key` has
  misjudged a direction (`misled`), the others without condition. The invariant is the heap order with a hole: every slot but the hole's is in order
  with its parent, and the children of the hole with the hole's parent. That the head is a best thread follows by looking
  at the least slot that would be better than it. Room in the array follows by the pigeonhole principle.
* `SchedulerProofs`: `TypeCorrect`, `QueuesCorrect`, `CurrentCorrect`. The conjunction of the three is inductive, and none of
  them is alone: a position is the thread's own only if it is in the queue, and the queues agree only if the positions are
  right. Within a tick the thread that goes from one queue to the other (`Moving`) is in neither, and the head that was read is to stay in the
  running queue. The theorems go through every call of another processor at every point of the tick; the three values of `trouble` are what they leave.
  `ShiftAssumption` (powers of two are positive) is an assumption because the provers do not know exponentiation.
* `KernHeapProofs`: `TypeCorrect`, `OverlapFree`, `WordsAccounted`, for any requests, until `cut_block_end` has wrapped around.
  `HeapInv` extends `NoOverlap` to the blocks in hand, and
  keeps, for each loop, that the block is at least as large as what was asked for and that the caller's block is part of the
  grown one. `WordInv` adds that the lists, the callers' blocks, the blocks in hand and `lost` are all of the heap, disjoint, and
  that `heap_free` is the number of words in the lists (the sum modulo 2^30 does not wrap, because the heap is smaller).
  `ListsFit` and `HeapMerges` hold until besides a block has outgrown LARGEST_BLOCK: a `realloc` to more than that merges largest
  blocks into one, and when it is trimmed `cut_block_end` inserts pieces that are not capped. (With that condition dropped `HeapMergesBack`
  fails in TLC.) `SizedAssumption`: LARGEST_BLOCK is a power of two, and the heap begins at a multiple of it.
  `FitInv`: every block of a caller is no larger than the power of two that divides its address, what `split_block` has
  still to break off fits the end of the block, and `grow_block` does not get past LARGEST_BLOCK. `MergeInv`: an aligned place whose
  words are all free is one block, or there is a word in front of it, in a larger aligned place, that is not free. Buddies may be free side
  by side, because `cut_block_end` does not merge; but only on the right of something that is still in use, and when that is
  freed merge_block goes forward over all of them. A simpler invariant, that no two buddies are free, is false.
  `RoundAssumption`, `AddrAssumption` and `PowerAssumption` are what is needed of powers of two: that a smaller one divides a
  larger one, that the double of one is one, that every number has one below it and a largest one that divides it. They are
  assumptions because the provers do not know exponentiation; TLC evaluates them for the instance.
* `PhysPagesProofs`: `TypesKept`, `ColorTablesAreHeaps`, `IdsStayUnique`, `SearchIsComplete`, `FreeListsSound`, `EveryPageAccounted`,
  `OneCopyEach`, that is all properties of the run, for any number of processors, pages, colours and ids. `TypeInv` has the shape
  of every local by program point and the owner of the mutex of phys_mem.c (a processor in a search or with a page it has found);
  each colour table is a heap with an index, which `change_color_count` keeps: its loop is a recursive function, and the proof
  follows it down with a heap that has one place out of order. `IdsInv`: the ids in the table are distinct, and a caller that is about to
  enter one has looked; `GivenInv`: an id that was never a copy's and that a caller has or is giving back is in the table, and nobody else has it. `ScanInv`: the colours a search has still to see do not become empty, since whoever takes pages holds the
  mutex. `PagesInv`: until an allocation has failed the pool is the disjoint union of the free lists, the tables, the copies and what calls have
  in hand, and each list is a ring through exactly the pages of its colour. `FileInv`: a processor between the look into the
  page cache and its insertion owns the mutex, so the page is still missing.
* `RedBlackTreeProofs`: `TypesKept`, `LinksKept`, `SearchTreeKept`, `BalanceKept`, that is all invariants of the run, for any finite set of
  nodes and any flags (`Readable`). Links and order are kept without condition, also when colours are wrong; the balance, and that no loop follows
  NULL, until `miscoloured`. What `tree_delete` takes for the colour of the target is bit 0 of its flags, and the
  only target it finds below which there is a node is the root, so the bit is wrong just when it is not set.
  Not even `TypesKept` can be had alone: that `brother_node` is not NULL when the fixer looks at its colour follows from the
  number of black nodes on the ways down. So there is one inductive invariant, `Inv`, with a part for each loop. It does not use `Below`
  and `BlackDepth`, which are recursive, but says that there are a root, a function `sub` (for each node the nodes from it on down) and a
  function `ap` (for each node the weight of every way down) with which links, order and colours agree from each node to its children.
  `Tree`: the links are mutual, `sub` of a node is the node and the disjoint `sub` of its children, those on the left less and those on the right greater.
  `Level`: `ap` of a node is `ap` of either child, 0 for NULL, plus its weight, which is 1 if it is black; while the fixer works `fix_ptr`
  weighs one more and the replacement nothing. `Coloured`: the root is black and no red node has a red parent, but for the
  node at which a loop works. `Level` and `Coloured` are only required until `miscoloured`; `Tree` always. `Heating`, `FixAt` and `SpliceAt` say where that is; `Beside`, that the replacement is the neighbour of the target in
  the order, below it and without a child towards it, so that the exchange keeps the order. `Searching` has what comes of the
  inverted comparison: unless the target is the root, `in` is not below it.
  A rotation is treated once: it exchanges `sub` and, when the child that goes up is red, `ap` of two nodes (`RotateLinks`, `RotateSorted`,
  `RotateRedLevel`, `RotateColours`); the fixer's case 4, where it is black, has its own levels. The cases of insertion and of the fixer are then one lemma
  each, as are TakeOut and PutInPlace (`SpliceDone`). `BelowIs` shows that the recursive `Below` finds `sub`: as long as something is
  missing a round adds a node, so `Cardinality(Node)` rounds are enough. `OverheadLevel`: the black nodes from the root to a node
  and the level below it add up to the level of the root, hence `Balanced`.

Induction. The library's induction theorems take an operator and cannot be used; but with the set of naturals for which a statement
fails, and the well-foundedness of `<`, induction is an ordinary lemma (`SetInduction` in `PhysPagesProofs` and
`RedBlackTreeProofs`, `TreeInduction` for trees). It is what the recursive functions are proved with: the walk along a list (`Ring`), the loop of `change_color_count`, and `Below`.

Only model-checked: the liveness properties (`EveryRequestServed`, `EveryJoinReturns`, `EveryThreadRuns`, `EveryCallReturns`), as
liveness under fairness is out of the prover's reach.

## 5. Plan

Modelled, in the order of the plan: reader/writer lock, rendezvous, exclusion, mutex, heaps, scheduler, allocator,
condition variables, red-black tree, address space, physical pages.

Every invariant and action property of the passing runs is a theorem of section 4.

Models that could follow: thread_sched.c with several processors (choice by load,
priority changes with the inverted difference); several mutexes, with `detect_deadlock` along chains of holders and
priority inheritance; whether `RwLock` survives on `CondVar` as it is, instead of on the contract.

### Not modelled

* Copy-on-write and page faults of virt_mem.c (`vm_page_fault`, `vmobj_remap`, `addr_spc_destroy`), `cow_table.c`,
  `inv_page_table.c`: they work on page tables, colour tables and inode objects that nothing in the repository sets up, and
  several of their paths use variables that are never assigned; there is too little defined behaviour to state a property
  about.
* Inodes, inode cache and file systems: tables of function pointers with no file system behind them. On their error paths
  they return with a mutex held (`filesys.c:44`, `inode_cache.c:108`).
* The binary heap and the growing hash table of data_structures.h: no source file instantiates them.
* The thread table (it does not compile at this commit), swapping ("not begun"), the handlers of illegal accesses (they
  panic), descriptor tables, processor start-up and page-table instructions (hardware set-up without a protocol), the
  parallel-port driver and crofs (stubs over ports), `util.c`, `panic.c` and the boot-time allocator (no concurrency, little
  state).
