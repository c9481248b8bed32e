----------------------------- MODULE ThreadHeap -----------------------------
(***************************************************************************)
(* The heaps of threads a scheduler chooses from: priority_heap.c (the     *)
(* running and the finished queue, largest remaining time first) and       *)
(* affinity_heap.c (least affinity first).  The two files are the same     *)
(* code with the comparison turned round, so a heap has a kind.            *)
(*                                                                         *)
(* data[k] is the code's data_name[k - 1]; slots above size are never read *)
(* and are shown empty.  An operation lifts one thread, tmp, out of the    *)
(* array, which leaves a hole at i, moves the hole up and then down, one   *)
(* loop iteration per step, and drops tmp in it.  One operation ends       *)
(* before the next begins, which is the contract of the files (they take   *)
(* no lock); the steps are there so that the loops are not one opaque      *)
(* function.                                                               *)
(*                                                                         *)
(* Every thread carries its own index, pos (priority_heap_pos or           *)
(* affinity_heap_pos), which is how a thread in the middle of the heap is  *)
(* found again; a thread that left the heap keeps its last index.          *)
(*                                                                         *)
(* misled is a history variable: set_key has taken a key that got worse    *)
(* for one that got better, or the other way round.                        *)
(***************************************************************************)
EXTENDS Integers, FiniteSets

CONSTANTS
  Threads,     \* the threads there are
  Keys,        \* the values of stat.remaining (an int) or of affinity
  UintRange,   \* number of values of an unsigned int: 2^32 on the target
  NULL

ASSUME ThreadsAssumption == IsFiniteSet(Threads) /\ NULL \notin Threads
ASSUME KeysAssumption == Keys \subseteq Int /\ Keys # {}
ASSUME UintAssumption == UintRange \in Nat /\ \A v \in Keys : -UintRange < v /\ v < UintRange

VARIABLES
  kind,   \* "priority" or "affinity": which file's code runs
  data,   \* data_name
  size,
  pos,    \* the index each thread remembers
  key,    \* stat.remaining, or affinity
  pc,     \* "idle", or the loop the operation is in: "up" or "down"
  i,      \* where the hole is
  tmp,    \* the thread that will fill it
  misled

vars == <<kind, data, size, pos, key, pc, i, tmp, misled>>

(* Room for every thread: the callers grow the array before they insert. *)
Slots == 1 .. Cardinality(Threads)

(* The kind's comparison: a belongs above b. *)
Before(a, b) == IF kind = "priority" THEN a > b ELSE a < b

(* affinity is an unsigned int, stat.remaining an int. *)
KeysOf(k) == IF k = "priority" THEN Keys ELSE Keys \cap Nat

Unsigned(v) == IF v < 0 THEN v + UintRange ELSE v

Parent(k) == k \div 2

KeyAt(k) == key[data[k]]

Filled == IF pc = "idle" THEN 1 .. size ELSE (1 .. size) \ {i}

Members == {data[k] : k \in Filled} \cup (IF pc = "idle" THEN {} ELSE {tmp})

Init ==
  /\ kind \in {"priority", "affinity"}
  /\ data = [k \in Slots |-> NULL]
  /\ size = 0
  /\ pos = [t \in Threads |-> 0]
  /\ key \in [Threads -> KeysOf(kind)]
  /\ pc = "idle" /\ i = 0 /\ tmp = NULL
  /\ misled = FALSE

-----------------------------------------------------------------------------

(* The operations, up to their first loop. *)

(* heap_insert of a thread whose key the caller has just set. *)
Insert(t, v) ==
  /\ pc = "idle" /\ t \notin Members
  /\ size' = size + 1
  /\ key' = [key EXCEPT ![t] = v]
  /\ pc' = "up" /\ i' = size + 1 /\ tmp' = t
  /\ UNCHANGED <<kind, data, pos, misled>>

(* heap_delete(heap, t's index): the last thread is pulled out and the     *)
(* hole is where t was; nothing moves when t is the last.                  *)
Delete_bug(t) ==            \* without the early return for the last thread
  /\ pc = "idle" /\ t \in Members
  /\ size' = size - 1
  /\ data' = [data EXCEPT ![size] = NULL]
  /\ pc' = "up" /\ i' = pos[t] /\ tmp' = data[size]
  /\ UNCHANGED <<kind, pos, key, misled>>

Delete_bug2(t) ==           \* the last thread is pulled out, t stays in its place
  /\ pc = "idle" /\ t \in Members
  /\ size' = size - 1
  /\ data' = [data EXCEPT ![size] = NULL]
  /\ IF pos[t] = size
       THEN UNCHANGED <<pc, i, tmp>>
       ELSE pc' = "up" /\ i' = pos[t] /\ tmp' = t
  /\ UNCHANGED <<kind, pos, key, misled>>

Delete(t) ==
  /\ pc = "idle" /\ t \in Members
  /\ size' = size - 1
  /\ data' = [data EXCEPT ![size] = NULL]
  /\ IF pos[t] = size
       THEN UNCHANGED <<pc, i, tmp>>
       ELSE pc' = "up" /\ i' = pos[t] /\ tmp' = data[size]
  /\ UNCHANGED <<kind, pos, key, misled>>

(* heap_set_key(heap, t's index, v): v arrives as an unsigned int, so the  *)
(* comparison that decides whether the key improves is an unsigned one.    *)
Improves(old, new) ==
  IF kind = "priority" THEN Unsigned(old) < Unsigned(new)
                       ELSE Unsigned(old) > Unsigned(new)

Misjudged(old, new) == Improves(old, new) # Before(new, old)

SetKey(t, v) ==
  /\ pc = "idle" /\ t \in Members
  /\ key[t] # v
  /\ key' = [key EXCEPT ![t] = v]
  /\ misled' = (misled \/ Misjudged(key[t], v))
  /\ IF Improves(key[t], v) /\ pos[t] = 1
       THEN UNCHANGED <<pc, i, tmp>>
       ELSE pc' = (IF Improves(key[t], v) THEN "up" ELSE "down") /\ i' = pos[t] /\ tmp' = data[pos[t]]
  /\ UNCHANGED <<kind, data, size, pos>>

-----------------------------------------------------------------------------

(* The loops, shared by the three operations.  The thread in slot k moves  *)
(* into the hole and the hole to k. *)
MoveHole_bug(k) ==          \* the moved thread keeps its old index
  /\ data' = [data EXCEPT ![i] = data[k]]
  /\ i' = k
  /\ UNCHANGED <<kind, size, pos, key, pc, tmp, misled>>

MoveHole(k) ==
  /\ pos' = [pos EXCEPT ![data[k]] = i]
  /\ data' = [data EXCEPT ![i] = data[k]]
  /\ i' = k
  /\ UNCHANGED <<kind, size, key, pc, tmp, misled>>

GoesUp == i # 1 /\ Before(key[tmp], KeyAt(Parent(i)))

Up == pc = "up" /\ GoesUp /\ MoveHole(Parent(i))

UpEnd ==
  /\ pc = "up" /\ ~GoesUp
  /\ pc' = "down"
  /\ UNCHANGED <<kind, data, size, pos, key, i, tmp, misled>>

(* A child exists and belongs above tmp. *)
Overtakes(c) == c <= size /\ Before(KeyAt(c), key[tmp])

(* The four branches of the loop body: of two children above tmp the       *)
(* better one moves up, the right one when they are equal.                 *)
DownLeft_bug ==             \* the left child, although the right one is better
  /\ pc = "down" /\ Overtakes(2 * i)
  /\ MoveHole(2 * i)

DownLeft ==
  /\ pc = "down" /\ Overtakes(2 * i)
  /\ Overtakes(2 * i + 1) => Before(KeyAt(2 * i), KeyAt(2 * i + 1))
  /\ MoveHole(2 * i)

DownRight ==
  /\ pc = "down" /\ Overtakes(2 * i + 1)
  /\ ~Before(KeyAt(2 * i), KeyAt(2 * i + 1))
  /\ MoveHole(2 * i + 1)

Finish ==
  /\ pc = "down" /\ ~Overtakes(2 * i) /\ ~Overtakes(2 * i + 1)
  /\ pos' = [pos EXCEPT ![tmp] = i]
  /\ data' = [data EXCEPT ![i] = tmp]
  /\ pc' = "idle" /\ i' = 0 /\ tmp' = NULL
  /\ UNCHANGED <<kind, size, key, misled>>

Next ==
  \/ \E t \in Threads :
       \/ Delete(t)
       \/ \E v \in KeysOf(kind) : Insert(t, v) \/ SetKey(t, v)
  \/ Up \/ UpEnd \/ DownLeft \/ DownRight \/ Finish

Spec == Init /\ [][Next]_vars

-----------------------------------------------------------------------------

(* Every variable keeps its type; in particular the size never goes below  *)
(* zero or past the room there is, and the hole is always inside the heap. *)
TypeOK ==
  /\ kind \in {"priority", "affinity"}
  /\ size \in 0 .. Cardinality(Threads)
  /\ data \in [Slots -> Threads \cup {NULL}]
  /\ \A k \in Filled : data[k] \in Threads
  /\ pos \in [Threads -> 0 .. Cardinality(Threads)]
  /\ key \in [Threads -> KeysOf(kind)]
  /\ pc \in {"idle", "up", "down"}
  /\ IF pc = "idle" THEN i = 0 /\ tmp = NULL ELSE i \in 1 .. size /\ tmp \in Threads
  /\ misled \in BOOLEAN

(* The test delete_from_queue and sched_change_remaining make to find out  *)
(* which queue a thread is in -- the index it remembers is inside the heap *)
(* and that slot holds it -- is right for every thread, the ones that have *)
(* left the heap and keep an old index included.                           *)
IndexFindsThread ==
  /\ \A k \in Filled : pos[data[k]] = k
  /\ pc # "idle" => \A k \in Filled : data[k] # tmp

(* heap_head returns a thread that no other thread in the heap should have *)
(* been chosen before, after any sequence of operations on any keys, up to *)
(* a set_key that takes a key from below zero to zero or more, or back.    *)
(* From there on it is false: the unsigned comparison takes such a change  *)
(* for one in the other direction ("only if we increase the key do we need *)
(* to go up", priority_heap.c), and the thread stays on the wrong side.    *)
HeadBest == \A k \in 1 .. size : ~Before(KeyAt(k), KeyAt(1))

HeadIsBest == ~misled /\ pc = "idle" => HeadBest

(* What the loops keep true of the array around the hole: no thread sits   *)
(* below one it belongs above, the threads under the hole may take the     *)
(* place of the one over it, and on the way down tmp may stay where the    *)
(* hole is as far as the threads above are concerned.                      *)
Ordered ==
  \A k \in Filled :
    k # 1 /\ Parent(k) \in Filled => ~Before(KeyAt(k), KeyAt(Parent(k)))

Bridged ==
  pc # "idle" /\ i # 1 =>
    \A c \in Filled : Parent(c) = i => ~Before(KeyAt(c), KeyAt(Parent(i)))

Fits == pc = "down" /\ i # 1 => ~Before(key[tmp], KeyAt(Parent(i)))

InOrder == Ordered /\ Bridged /\ Fits

HeapInv == TypeOK /\ IndexFindsThread /\ (~misled => InOrder)

(* An operation enters, takes out or changes exactly the thread its caller *)
(* named -- for delete and set_key by the index the thread remembers --    *)
(* and the loops, which move other threads about, lose and duplicate none. *)
Queue == INSTANCE ReadyQueue WITH members <- Members

NamedThread ==
  /\ \A t \in Threads :
       /\ Delete(t) => Queue!Remove(t)
       /\ \A v \in KeysOf(kind) :
            (Insert(t, v) => Queue!Enter(t, v)) /\ (SetKey(t, v) => Queue!ChangeKey(t, v))
  /\ pc # "idle" => UNCHANGED Queue!vars

ImplementsReadyQueue == Queue!Spec /\ [][NamedThread]_vars
=============================================================================
