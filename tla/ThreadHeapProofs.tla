-------------------------- MODULE ThreadHeapProofs --------------------------
(***************************************************************************)
(* Proofs about ThreadHeap for any number of threads, either kind of heap, *)
(* and any keys.  The order of the heap is lost when set_key's unsigned    *)
(* comparison misjudges a key (misled); the indices, and which threads the *)
(* heap holds, are right all the same.                                     *)
(***************************************************************************)
EXTENDS ThreadHeap, FiniteSetTheorems, WellFoundedInduction, TLAPS

(* The code's index arithmetic: k's parent is below k, and k is one of its *)
(* parent's two children.                                                  *)
LEMMA ParentFacts ==
  /\ \A k \in Nat : k > 1 => /\ Parent(k) \in Nat
                             /\ Parent(k) >= 1 /\ Parent(k) < k
                             /\ k = 2 * Parent(k) \/ k = 2 * Parent(k) + 1
  /\ \A k \in Nat : Parent(2 * k) = k /\ Parent(2 * k + 1) = k
BY DEF Parent

LEMMA ParentSlot ==
  ASSUME NEW m \in Nat, NEW k \in 1 .. m, k # 1
  PROVE  Parent(k) \in 1 .. m /\ Parent(k) < k /\ Parent(k) # k
<1>1. k \in Nat /\ k > 1 /\ k <= m
  OBVIOUS
<1>2. Parent(k) \in Nat /\ Parent(k) >= 1 /\ Parent(k) < k
  BY <1>1, ParentFacts
<1> QED BY <1>1, <1>2

(* There is room for one more thread as long as one is outside the heap:   *)
(* the array never runs over the number of threads.                        *)
LEMMA Room ==
  ASSUME TypeOK, IndexFindsThread, pc = "idle",
         NEW t \in Threads, t \notin Members
  PROVE  size + 1 <= Cardinality(Threads)
<1> DEFINE f == [k \in 1 .. size |-> data[k]]
<1>1. size \in Nat /\ Filled = 1 .. size
  BY FS_CardinalityType, ThreadsAssumption DEF TypeOK, Filled
<1>2. f \in [1 .. size -> Threads \ {t}]
  BY <1>1 DEF TypeOK, Members
<1>3. \A x, y \in 1 .. size : f[x] = f[y] => x = y
  BY <1>1 DEF IndexFindsThread
<1>4. IsFiniteSet(Threads \ {t}) /\ Cardinality(Threads \ {t}) = Cardinality(Threads) - 1
  BY FS_RemoveElement, ThreadsAssumption
<1>5. IsFiniteSet(1 .. size) /\ Cardinality(1 .. size) = size
  BY <1>1, FS_Interval
<1>6. Cardinality(Threads) \in Nat
  BY FS_CardinalityType, ThreadsAssumption
<1> HIDE DEF f
<1>7. CASE Cardinality(Threads) - 1 < size
  <2>1. \E x, y \in 1 .. size : x # y /\ f[x] = f[y]
    BY <1>2, <1>4, <1>5, <1>7, FS_PigeonHole
  <2> QED BY <2>1, <1>3
<1> QED BY <1>7, <1>1, <1>6

(* A thread in an idle heap is in the slot whose index it remembers. *)
LEMMA Lookup ==
  ASSUME TypeOK, IndexFindsThread, pc = "idle",
         NEW t \in Threads, t \in Members
  PROVE  /\ Filled = 1 .. size /\ size \in Nat
         /\ pos[t] \in 1 .. size /\ data[pos[t]] = t
         /\ size <= Cardinality(Threads) /\ Cardinality(Threads) \in Nat
         /\ 1 .. size \subseteq Slots
<1>1. size \in Nat /\ Cardinality(Threads) \in Nat /\ size <= Cardinality(Threads)
  BY FS_CardinalityType, ThreadsAssumption DEF TypeOK
<1> QED BY <1>1 DEF TypeOK, IndexFindsThread, Members, Filled, Slots

-----------------------------------------------------------------------------

LEMMA InitInv == Init => HeapInv
<1> SUFFICES ASSUME Init PROVE HeapInv
  OBVIOUS
<1>1. Cardinality(Threads) \in Nat
  BY FS_CardinalityType, ThreadsAssumption
<1>2. Filled = {}
  BY DEF Init, Filled
<1>3. misled \in BOOLEAN
  BY DEF Init
<1>4. TypeOK /\ IndexFindsThread
  BY <1>1, <1>2, <1>3 DEF Init, TypeOK, IndexFindsThread, Slots
<1> QED BY <1>2, <1>4 DEF Init, HeapInv, InOrder, Ordered, Bridged, Fits

(* What a busy heap's type says, with the bounds spelled out. *)
LEMMA Busy ==
  ASSUME TypeOK, pc # "idle"
  PROVE  /\ Filled = (1 .. size) \ {i}
         /\ size \in Nat /\ i \in Nat /\ i >= 1 /\ i <= size
         /\ Cardinality(Threads) \in Nat /\ size <= Cardinality(Threads)
         /\ 1 .. size \subseteq Slots
         /\ tmp \in Threads
         /\ \A t \in Threads : key[t] \in Int
<1>1. Cardinality(Threads) \in Nat
  BY FS_CardinalityType, ThreadsAssumption
<1>2. Filled = (1 .. size) \ {i} /\ i \in 1 .. size /\ size \in 0 .. Cardinality(Threads)
      /\ tmp \in Threads
  BY DEF TypeOK, Filled
<1>3. \A t \in Threads : key[t] \in Int
  BY KeysAssumption DEF TypeOK, KeysOf
<1> QED BY <1>1, <1>2, <1>3 DEF Slots

(* Moving the hole to slot k keeps every index right. *)
LEMMA MoveHoleKeeps ==
  ASSUME TypeOK, IndexFindsThread, pc # "idle",
         NEW k \in Filled, MoveHole(k)
  PROVE  /\ TypeOK' /\ IndexFindsThread'
         /\ Filled' = (1 .. size) \ {k}
         /\ data'[i] = data[k]
         /\ \A j \in (1 .. size) \ {i} : data'[j] = data[j]
<1> USE Busy
<1>1. Filled' = (1 .. size) \ {k} /\ i' = k /\ pc' = pc
  BY DEF MoveHole, Filled
<1>2. data' \in [Slots -> Threads \cup {NULL}]
      /\ data'[i] = data[k] /\ \A j \in (1 .. size) \ {i} : data'[j] = data[j]
  BY DEF MoveHole, TypeOK
<1>3. pos' \in [Threads -> 0 .. Cardinality(Threads)]
      /\ pos'[data[k]] = i /\ \A t \in Threads \ {data[k]} : pos'[t] = pos[t]
  BY DEF MoveHole, TypeOK
<1>4. TypeOK'
  BY <1>1, <1>2, <1>3 DEF MoveHole, TypeOK, KeysOf
<1>5. \A j \in Filled' : pos'[data'[j]] = j
  BY <1>1, <1>2, <1>3 DEF IndexFindsThread, TypeOK
<1>6. \A j \in Filled' : data'[j] # tmp'
  BY <1>1, <1>2 DEF IndexFindsThread, MoveHole
<1> QED BY <1>1, <1>2, <1>4, <1>5, <1>6 DEF IndexFindsThread, MoveHole

(* The order of the keys, whichever kind the heap is. *)
LEMMA BeforeFacts ==
  ASSUME NEW a \in Int, NEW b \in Int, NEW c \in Int
  PROVE  /\ ~Before(a, b) /\ ~Before(b, c) => ~Before(a, c)
         /\ Before(a, b) => ~Before(b, a)
         /\ ~Before(a, b) /\ Before(c, b) => ~Before(a, c)
BY DEF Before

(* A set of naturals has a least element; the library's proof that < is    *)
(* well-founded gives it. *)
LEMMA LeastSlot ==
  ASSUME NEW S \in SUBSET Nat, S # {}
  PROVE  \E m \in S : \A n \in S : m <= n
<1>1. \E m \in S : \A n \in S : <<n, m>> \notin OpToRel(<, Nat)
  BY WFMin, NatLessThanWellFounded
<1>2. OpToRel(<, Nat) = {ss \in Nat \X Nat : ss[1] < ss[2]}
  BY Zenon DEF OpToRel
<1>3. \A m, n \in S : <<n, m>> \notin OpToRel(<, Nat) => ~(n < m)
  BY <1>2, Zenon
<1>4. \A m, n \in S : ~(n < m) => m <= n
  OBVIOUS
<1> QED BY <1>1, <1>3, <1>4, Zenon

(* What UpKeeps and the two DownKeeps lemmas share: after the hole moved   *)
(* from i to k, the keys are where they were, except the one now in i.     *)
LEMMA AfterMove ==
  ASSUME TypeOK, IndexFindsThread, pc # "idle", NEW k \in Filled, MoveHole(k)
  PROVE  /\ TypeOK' /\ IndexFindsThread'
         /\ Filled' = (1 .. size) \ {k}
         /\ data'[i] = data[k]
         /\ \A j \in (1 .. size) \ {i} : data'[j] = data[j]
         /\ \A j \in Filled : KeyAt(j) \in Int
         /\ kind' = kind /\ i' = k /\ pc' = pc /\ tmp' = tmp /\ key' = key
         /\ misled' = misled
<1>1. \A j \in Filled : KeyAt(j) \in Int
  BY Busy DEF TypeOK, KeyAt
<1> QED BY <1>1, MoveHoleKeeps DEF MoveHole

LEMMA UpKeeps ==
  ASSUME TypeOK, IndexFindsThread, Up
  PROVE  TypeOK' /\ IndexFindsThread' /\ (InOrder => InOrder') /\ misled' = misled
<1> DEFINE p == Parent(i)
<1>0. TypeOK /\ IndexFindsThread /\ pc = "up" /\ i # 1 /\ MoveHole(p)
  BY DEF Up, GoesUp
<1>a. /\ Filled = (1 .. size) \ {i} /\ size \in Nat
      /\ i \in Nat /\ i > 1 /\ i <= size
  BY <1>0, Busy
<1>1. p \in Filled /\ p < i /\ p \in Nat /\ p >= 1
  BY <1>a, ParentFacts
<1> HIDE DEF p
<1>2. /\ TypeOK' /\ IndexFindsThread' /\ Filled' = (1 .. size) \ {p}
      /\ data'[i] = data[p] /\ \A j \in (1 .. size) \ {i} : data'[j] = data[j]
      /\ \A j \in Filled : KeyAt(j) \in Int
      /\ kind' = kind /\ i' = p /\ pc' = pc /\ key' = key /\ misled' = misled
  BY <1>0, <1>1, AfterMove
<1> SUFFICES ASSUME InOrder PROVE Ordered' /\ Bridged' /\ Fits'
  BY <1>2 DEF InOrder
<1>3. Ordered'
  <2> SUFFICES ASSUME NEW j \in (1 .. size) \ {p}, j # 1,
                      Parent(j) \in (1 .. size) \ {p}
               PROVE  ~Before(key[data'[j]], key[data'[Parent(j)]])
    BY <1>2 DEF Ordered, Parent, KeyAt, Before
  <2>1. j # i
    BY DEF p
  <2>2. CASE Parent(j) = i
    BY <1>0, <1>1, <1>2, <1>a, <2>1, <2>2 DEF InOrder, Bridged, KeyAt, p
  <2>3. CASE Parent(j) # i
    BY <1>2, <1>a, <2>1, <2>3 DEF InOrder, Ordered, KeyAt
  <2> QED BY <2>2, <2>3
<1>4. Bridged'
  <2> SUFFICES ASSUME p # 1, NEW c \in (1 .. size) \ {p}, Parent(c) = p
               PROVE  ~Before(key[data'[c]], key[data'[Parent(p)]])
    BY <1>2 DEF Bridged, Parent, KeyAt, Before
  <2> DEFINE q == Parent(p)
  <2>1. q \in Filled /\ q \in (1 .. size) \ {i}
    BY <1>1, <1>a, ParentFacts
  <2> HIDE DEF q
  <2>2. ~Before(KeyAt(p), KeyAt(q))
    BY <1>1, <2>1 DEF InOrder, Ordered, q
  <2>3. CASE c = i
    BY <1>2, <2>1, <2>2, <2>3 DEF KeyAt, q
  <2>4. CASE c # i
    <3>0. c # 1
      BY <1>1 DEF Parent
    <3>1. ~Before(KeyAt(c), KeyAt(p))
      BY <1>1, <1>a, <2>4, <3>0 DEF InOrder, Ordered
    <3>2. ~Before(KeyAt(c), KeyAt(q))
      BY <1>1, <1>2, <1>a, <2>1, <2>2, <2>4, <3>1, BeforeFacts
    <3> QED BY <1>2, <2>1, <2>4, <3>2 DEF KeyAt, q
  <2> QED BY <2>3, <2>4
<1>5. Fits'
  BY <1>0, <1>2 DEF Fits
<1> QED BY <1>3, <1>4, <1>5

(* The hole goes down to child c, which no thread under i beats. *)
LEMMA DownKeeps ==
  ASSUME TypeOK, IndexFindsThread, pc = "down", NEW c \in {2 * i, 2 * i + 1},
         Overtakes(c), MoveHole(c),
         \A d \in {2 * i, 2 * i + 1} :
           d # c /\ d <= size => ~Before(KeyAt(d), KeyAt(c))
  PROVE  TypeOK' /\ IndexFindsThread' /\ (InOrder => InOrder') /\ misled' = misled
<1>a. /\ Filled = (1 .. size) \ {i} /\ size \in Nat
      /\ i \in Nat /\ i >= 1 /\ i <= size /\ tmp \in Threads
      /\ \A t \in Threads : key[t] \in Int
  BY Busy
<1>1. c \in Filled /\ c > i /\ c \in Nat /\ Parent(c) = i
  <2>1. c \in Nat /\ c > i /\ c <= size
    BY <1>a DEF Overtakes
  <2>2. Parent(c) = i
    BY <1>a, ParentFacts
  <2> QED BY <1>a, <2>1, <2>2
<1>2. /\ TypeOK' /\ IndexFindsThread' /\ Filled' = (1 .. size) \ {c}
      /\ data'[i] = data[c] /\ \A j \in (1 .. size) \ {i} : data'[j] = data[j]
      /\ \A j \in Filled : KeyAt(j) \in Int
      /\ kind' = kind /\ i' = c /\ pc' = pc /\ tmp' = tmp /\ key' = key
      /\ misled' = misled
  BY <1>1, AfterMove
<1> SUFFICES ASSUME InOrder PROVE Ordered' /\ Bridged' /\ Fits'
  BY <1>2 DEF InOrder
<1>3. Ordered'
  <2> SUFFICES ASSUME NEW j \in (1 .. size) \ {c}, j # 1,
                      Parent(j) \in (1 .. size) \ {c}
               PROVE  ~Before(key[data'[j]], key[data'[Parent(j)]])
    BY <1>2 DEF Ordered, Parent, KeyAt, Before
  <2>0. j \in Nat /\ j > 1 /\ j <= size /\ Parent(j) < j
        /\ (j = 2 * Parent(j) \/ j = 2 * Parent(j) + 1)
    BY <1>a, ParentFacts
  <2>1. CASE j = i
    <3>1. ~Before(KeyAt(c), KeyAt(Parent(i)))
      BY <1>1, <2>1 DEF InOrder, Bridged
    <3> QED BY <1>2, <2>0, <2>1, <3>1 DEF KeyAt
  <2>2. CASE Parent(j) = i
    BY <1>2, <2>0, <2>2 DEF KeyAt
  <2>3. CASE j # i /\ Parent(j) # i
    BY <1>2, <1>a, <2>3 DEF InOrder, Ordered, KeyAt
  <2> QED BY <2>1, <2>2, <2>3
<1>4. Bridged'
  <2> SUFFICES ASSUME NEW g \in (1 .. size) \ {c}, Parent(g) = c
               PROVE  ~Before(key[data'[g]], key[data'[Parent(c)]])
    BY <1>2 DEF Bridged, Parent, KeyAt, Before
  <2>1. g # 1 /\ g # i
    BY <1>1, <1>a, ParentFacts DEF Parent
  <2>2. ~Before(KeyAt(g), KeyAt(c))
    BY <1>1, <1>a, <2>1 DEF InOrder, Ordered
  <2> QED BY <1>1, <1>2, <2>1, <2>2 DEF KeyAt
<1>5. Fits'
  <2>1. ~Before(key[tmp], KeyAt(c))
    BY <1>1, <1>2, <1>a, BeforeFacts DEF Overtakes
  <2> QED BY <1>1, <1>2, <2>1 DEF Fits, Parent, KeyAt, Before
<1> QED BY <1>3, <1>4, <1>5

LEMMA DownLeftKeeps ==
  ASSUME TypeOK, IndexFindsThread, DownLeft
  PROVE  TypeOK' /\ IndexFindsThread' /\ (InOrder => InOrder') /\ misled' = misled
<1>0. TypeOK /\ IndexFindsThread /\ pc = "down"
  BY DEF DownLeft
<1>a. /\ Filled = (1 .. size) \ {i} /\ size \in Nat
      /\ i \in Nat /\ i >= 1 /\ i <= size /\ tmp \in Threads
      /\ \A t \in Threads : key[t] \in Int
  BY <1>0, Busy
<1>b. \A j \in Filled : KeyAt(j) \in Int
  BY <1>0, <1>a DEF TypeOK, KeyAt
<1>1. ASSUME 2 * i + 1 <= size
      PROVE  ~Before(KeyAt(2 * i + 1), KeyAt(2 * i))
  <2>1. KeyAt(2 * i) \in Int /\ KeyAt(2 * i + 1) \in Int /\ key[tmp] \in Int
    BY <1>1, <1>a, <1>b
  <2> QED BY <1>1, <2>1 DEF DownLeft, Overtakes, Before
<1>2. 2 * i \in {2 * i, 2 * i + 1} /\ Overtakes(2 * i) /\ MoveHole(2 * i)
  BY DEF DownLeft
<1>3. \A d \in {2 * i, 2 * i + 1} :
        d # 2 * i /\ d <= size => ~Before(KeyAt(d), KeyAt(2 * i))
  BY <1>1
<1> QED BY <1>0, <1>2, <1>3, DownKeeps

LEMMA DownRightKeeps ==
  ASSUME TypeOK, IndexFindsThread, DownRight
  PROVE  TypeOK' /\ IndexFindsThread' /\ (InOrder => InOrder') /\ misled' = misled
<1>1. pc = "down" /\ Overtakes(2 * i + 1) /\ MoveHole(2 * i + 1)
  BY DEF DownRight
<1>2. \A d \in {2 * i, 2 * i + 1} :
        d # 2 * i + 1 /\ d <= size => ~Before(KeyAt(d), KeyAt(2 * i + 1))
  BY DEF DownRight
<1> QED BY <1>1, <1>2, DownKeeps

LEMMA UpEndKeeps ==
  ASSUME TypeOK, IndexFindsThread, UpEnd
  PROVE  TypeOK' /\ IndexFindsThread' /\ (InOrder => InOrder') /\ misled' = misled
<1>1. Filled' = Filled
  BY DEF UpEnd, Filled
<1>2. TypeOK' /\ IndexFindsThread'
  BY <1>1 DEF UpEnd, TypeOK, IndexFindsThread, KeysOf
<1> SUFFICES ASSUME InOrder PROVE Ordered' /\ Bridged' /\ Fits'
  BY <1>2 DEF UpEnd, InOrder
<1>3. Ordered' /\ Bridged'
  BY <1>1 DEF UpEnd, InOrder, Ordered, Bridged, KeyAt, Before
<1>4. Fits'
  BY DEF UpEnd, GoesUp, Fits, KeyAt, Before
<1> QED BY <1>3, <1>4

LEMMA FinishKeeps ==
  ASSUME TypeOK, IndexFindsThread, Finish
  PROVE  TypeOK' /\ IndexFindsThread' /\ (InOrder => InOrder') /\ misled' = misled
<1>0. TypeOK /\ IndexFindsThread /\ pc = "down" /\ pc' = "idle"
  BY DEF Finish
<1>a. /\ Filled = (1 .. size) \ {i} /\ size \in Nat
      /\ i \in Nat /\ i >= 1 /\ i <= size /\ tmp \in Threads
      /\ 1 .. size \subseteq Slots
      /\ Cardinality(Threads) \in Nat /\ size <= Cardinality(Threads)
  BY <1>0, Busy
<1>1. Filled' = 1 .. size /\ kind' = kind /\ key' = key /\ size' = size
  BY DEF Finish, Filled
<1>2. data' \in [Slots -> Threads \cup {NULL}]
      /\ data'[i] = tmp /\ \A j \in (1 .. size) \ {i} : data'[j] = data[j]
  BY <1>0, <1>a DEF Finish, TypeOK
<1>3. pos' \in [Threads -> 0 .. Cardinality(Threads)]
      /\ pos'[tmp] = i /\ \A t \in Threads \ {tmp} : pos'[t] = pos[t]
  BY <1>0, <1>a DEF Finish, TypeOK
<1>4. TypeOK'
  BY <1>0, <1>a, <1>1, <1>2, <1>3 DEF Finish, TypeOK, KeysOf
<1>5. IndexFindsThread'
  BY <1>0, <1>a, <1>1, <1>2, <1>3 DEF IndexFindsThread, TypeOK
<1> SUFFICES ASSUME InOrder PROVE Ordered' /\ Bridged' /\ Fits'
  BY <1>4, <1>5 DEF Finish, InOrder
<1>6. Ordered'
  <2> SUFFICES ASSUME NEW j \in 1 .. size, j # 1, Parent(j) \in 1 .. size
               PROVE  ~Before(key[data'[j]], key[data'[Parent(j)]])
    BY <1>1 DEF Ordered, Parent, KeyAt, Before
  <2>0. j \in Nat /\ j <= size /\ Parent(j) < j
        /\ (j = 2 * Parent(j) \/ j = 2 * Parent(j) + 1)
    BY <1>a, ParentFacts
  <2>1. CASE j = i
    BY <1>0, <1>2, <2>0, <2>1 DEF InOrder, Fits, KeyAt
  <2>2. CASE Parent(j) = i
    BY <1>2, <2>0, <2>2 DEF Finish, Overtakes, KeyAt
  <2>3. CASE j # i /\ Parent(j) # i
    BY <1>2, <1>a, <2>3 DEF InOrder, Ordered, KeyAt
  <2> QED BY <2>1, <2>2, <2>3
<1>7. Bridged' /\ Fits'
  BY <1>0 DEF Bridged, Fits
<1> QED BY <1>6, <1>7

LEMMA InsertKeeps ==
  ASSUME TypeOK, IndexFindsThread, NEW t \in Threads, NEW v \in KeysOf(kind), Insert(t, v)
  PROVE  TypeOK' /\ IndexFindsThread' /\ (InOrder => InOrder') /\ misled' = misled
<1>0. TypeOK /\ IndexFindsThread /\ pc = "idle" /\ t \notin Members
  BY DEF Insert
<1>a. size \in Nat /\ size + 1 <= Cardinality(Threads) /\ Cardinality(Threads) \in Nat
  BY <1>0, Room, FS_CardinalityType, ThreadsAssumption DEF TypeOK
<1>1. /\ Filled = 1 .. size /\ Filled' = 1 .. size
      /\ kind' = kind /\ data' = data /\ pos' = pos /\ size' = size + 1
      /\ pc' = "up" /\ i' = size + 1 /\ tmp' = t /\ misled' = misled
  BY <1>0, <1>a DEF Insert, Filled
<1>2. \A j \in 1 .. size : data[j] \in Threads /\ data[j] # t
  BY <1>0, <1>1 DEF TypeOK, Members
<1>3. key' \in [Threads -> KeysOf(kind)] /\ \A j \in 1 .. size : key'[data[j]] = key[data[j]]
  BY <1>0, <1>2 DEF Insert, TypeOK
<1>4. TypeOK'
  BY <1>0, <1>a, <1>1, <1>2, <1>3 DEF TypeOK, KeysOf
<1>5. IndexFindsThread'
  BY <1>0, <1>1, <1>2 DEF IndexFindsThread
<1> SUFFICES ASSUME InOrder PROVE Ordered' /\ Bridged' /\ Fits'
  BY <1>4, <1>5 DEF Insert, InOrder
<1>6. Ordered'
  BY <1>1, <1>3 DEF InOrder, Ordered, KeyAt, Before
<1>7. Bridged'
  <2>1. \A c \in 1 .. size : Parent(c) # size + 1
    BY <1>a DEF Parent
  <2> QED BY <1>1, <2>1 DEF Bridged, Parent
<1>8. Fits'
  BY <1>1 DEF Fits
<1> QED BY <1>6, <1>7, <1>8

(* Taking the thread in slot n out of an ordered array leaves a hole that  *)
(* the threads under it may fill. *)
LEMMA Bridge ==
  ASSUME TypeOK, InOrder, pc = "idle", NEW n \in 1 .. size, n # 1,
         NEW c \in 1 .. size, c # n, Parent(c) = n
  PROVE  ~Before(KeyAt(c), KeyAt(Parent(n))) /\ Parent(n) \in (1 .. size) \ {n}
<1>a. size \in Nat /\ Filled = 1 .. size
  BY FS_CardinalityType, ThreadsAssumption DEF TypeOK, Filled
<1>b. \A j \in 1 .. size : KeyAt(j) \in Int
  BY <1>a, KeysAssumption DEF TypeOK, KeyAt, KeysOf
<1>1. Parent(n) \in 1 .. size /\ Parent(n) # n
  BY <1>a, ParentSlot
<1>2. c # 1
  BY <1>a DEF Parent
<1>3. ~Before(KeyAt(c), KeyAt(n)) /\ ~Before(KeyAt(n), KeyAt(Parent(n)))
  BY <1>a, <1>1, <1>2 DEF InOrder, Ordered
<1>4. KeyAt(c) \in Int /\ KeyAt(n) \in Int /\ KeyAt(Parent(n)) \in Int
  BY <1>b, <1>1
<1>5. ~Before(KeyAt(c), KeyAt(Parent(n)))
  BY <1>3, <1>4, BeforeFacts
<1> QED BY <1>1, <1>5

LEMMA DeleteKeeps ==
  ASSUME TypeOK, IndexFindsThread, NEW t \in Threads, Delete(t)
  PROVE  TypeOK' /\ IndexFindsThread' /\ (InOrder => InOrder') /\ misled' = misled
<1>0. TypeOK /\ IndexFindsThread /\ pc = "idle" /\ t \in Members
  BY DEF Delete
<1>a. /\ Filled = 1 .. size /\ size \in Nat /\ size >= 1
      /\ pos[t] \in 1 .. size /\ data[pos[t]] = t
      /\ Cardinality(Threads) \in Nat /\ size <= Cardinality(Threads)
      /\ 1 .. size \subseteq Slots
  BY <1>0, Lookup
<1>1. /\ data' \in [Slots -> Threads \cup {NULL}]
      /\ \A j \in 1 .. (size - 1) : data'[j] = data[j]
      /\ kind' = kind /\ pos' = pos /\ key' = key /\ size' = size - 1 /\ misled' = misled
  BY <1>0, <1>a DEF Delete, TypeOK
<1>2. CASE pos[t] = size
  <2>1. pc' = "idle" /\ i' = i /\ tmp' = tmp /\ Filled' = 1 .. (size - 1)
    BY <1>0, <1>1, <1>2 DEF Delete, Filled
  <2>2. TypeOK' /\ IndexFindsThread'
    BY <1>0, <1>a, <1>1, <2>1 DEF TypeOK, IndexFindsThread, KeysOf
  <2> SUFFICES ASSUME InOrder PROVE Ordered' /\ Bridged' /\ Fits'
    BY <2>2 DEF InOrder, Delete
  <2>3. Ordered'
    BY <1>a, <1>1, <2>1 DEF InOrder, Ordered, KeyAt, Before
  <2> QED BY <2>1, <2>3 DEF Bridged, Fits
<1>3. CASE pos[t] # size
  <2> DEFINE n == pos[t]
  <2>1. /\ pc' = "up" /\ i' = n /\ tmp' = data[size]
        /\ Filled' = (1 .. (size - 1)) \ {n}
        /\ n \in 1 .. (size - 1)
    BY <1>0, <1>1, <1>3, <1>a DEF Delete, Filled
  <2> HIDE DEF n
  <2>2. TypeOK'
    BY <1>0, <1>a, <1>1, <2>1 DEF TypeOK, KeysOf
  <2>3. IndexFindsThread'
    BY <1>0, <1>a, <1>1, <2>1 DEF TypeOK, IndexFindsThread
  <2> SUFFICES ASSUME InOrder PROVE Ordered' /\ Bridged' /\ Fits'
    BY <2>2, <2>3 DEF InOrder, Delete
  <2>4. Ordered'
    BY <1>a, <1>1, <2>1 DEF InOrder, Ordered, KeyAt, Before
  <2>5. Bridged'
    <3> SUFFICES ASSUME n # 1, NEW c \in (1 .. (size - 1)) \ {n}, Parent(c) = n
                 PROVE  ~Before(key[data'[c]], key[data'[Parent(n)]])
      BY <1>1, <2>1 DEF Bridged, Parent, KeyAt, Before
    <3>1. n \in 1 .. size /\ c \in 1 .. size /\ c # n
      BY <1>a, <2>1
    <3>2. ~Before(KeyAt(c), KeyAt(Parent(n)))
      BY <1>0, <3>1, Bridge
    <3>3. Parent(n) \in 1 .. (size - 1)
      BY <1>a, <2>1, ParentSlot
    <3> QED BY <1>1, <3>2, <3>3 DEF KeyAt
  <2> QED BY <2>1, <2>4, <2>5 DEF Fits
<1> QED BY <1>2, <1>3

LEMMA SetKeyKeeps ==
  ASSUME TypeOK, IndexFindsThread, NEW t \in Threads, NEW v \in KeysOf(kind), SetKey(t, v)
  PROVE  /\ TypeOK' /\ IndexFindsThread' /\ (misled => misled')
         /\ InOrder /\ ~misled' => InOrder'
<1> DEFINE n == pos[t]
<1>0. TypeOK /\ IndexFindsThread /\ pc = "idle" /\ t \in Members
  BY DEF SetKey
<1>a. /\ Filled = 1 .. size /\ size \in Nat /\ size >= 1
      /\ n \in 1 .. size /\ data[n] = t
      /\ Cardinality(Threads) \in Nat /\ size <= Cardinality(Threads)
      /\ 1 .. size \subseteq Slots
  BY <1>0, Lookup
<1> HIDE DEF n
<1>1. /\ key' \in [Threads -> KeysOf(kind)] /\ key'[t] = v
      /\ \A j \in (1 .. size) \ {n} : data[j] # t /\ key'[data[j]] = key[data[j]]
      /\ kind' = kind /\ data' = data /\ size' = size /\ pos' = pos
  BY <1>0, <1>a DEF SetKey, TypeOK, IndexFindsThread
<1>2. v \in Int /\ key[t] \in Int /\ v # key[t]
      /\ \A j \in 1 .. size : key[data[j]] \in Int
  BY <1>0, <1>a, KeysAssumption DEF SetKey, TypeOK, KeysOf
<1>b. (misled => misled') /\ (misled' <=> misled \/ Misjudged(key[t], v)) /\ misled' \in BOOLEAN
  BY DEF SetKey, TypeOK
<1>3. ASSUME ~misled'
      PROVE  /\ Improves(key[t], v) => Before(v, key[t])
             /\ ~Improves(key[t], v) => Before(key[t], v)
  BY <1>b, <1>3, <1>2 DEF Misjudged, Improves, Before
<1>4. CASE Improves(key[t], v) /\ n = 1
  <2>1. pc' = "idle" /\ i' = i /\ tmp' = tmp /\ Filled' = 1 .. size
    BY <1>0, <1>1, <1>4 DEF SetKey, Filled, n
  <2>2. TypeOK' /\ IndexFindsThread'
    BY <1>0, <1>a, <1>b, <1>1, <2>1 DEF TypeOK, IndexFindsThread, KeysOf
  <2> SUFFICES ASSUME InOrder, ~misled' PROVE Ordered' /\ Bridged' /\ Fits'
    BY <2>2, <1>b DEF InOrder
  <2>3. Ordered'
    <3> SUFFICES ASSUME NEW j \in 1 .. size, j # 1, Parent(j) \in 1 .. size
                 PROVE  ~Before(key'[data[j]], key'[data[Parent(j)]])
      BY <1>1, <2>1 DEF Ordered, Parent, KeyAt, Before
    <3>1. ~Before(key[data[j]], key[data[Parent(j)]])
      BY <1>a DEF InOrder, Ordered, KeyAt
    <3>2. CASE Parent(j) = 1
      BY <1>1, <1>2, <1>3, <1>4, <1>a, <3>1, <3>2 DEF Before
    <3>3. CASE Parent(j) # 1
      BY <1>1, <1>4, <3>1, <3>3
    <3> QED BY <3>2, <3>3
  <2> QED BY <2>1, <2>3 DEF Bridged, Fits
<1>5. CASE ~(Improves(key[t], v) /\ n = 1)
  <2>1. /\ pc' = (IF Improves(key[t], v) THEN "up" ELSE "down")
        /\ i' = n /\ tmp' = t /\ Filled' = (1 .. size) \ {n}
    BY <1>a, <1>1, <1>5 DEF SetKey, Filled, n
  <2>2. TypeOK' /\ IndexFindsThread'
    BY <1>0, <1>a, <1>b, <1>1, <2>1 DEF TypeOK, IndexFindsThread, KeysOf
  <2> SUFFICES ASSUME InOrder, ~misled' PROVE Ordered' /\ Bridged' /\ Fits'
    BY <2>2, <1>b DEF InOrder
  <2>3. Ordered'
    BY <1>a, <1>1, <2>1 DEF InOrder, Ordered, KeyAt, Before
  <2>4. Bridged'
    <3> SUFFICES ASSUME n # 1, NEW c \in (1 .. size) \ {n}, Parent(c) = n
                 PROVE  ~Before(key'[data[c]], key'[data[Parent(n)]])
      BY <1>1, <2>1 DEF Bridged, Parent, KeyAt, Before
    <3>1. ~Before(KeyAt(c), KeyAt(Parent(n))) /\ Parent(n) \in (1 .. size) \ {n}
      BY <1>0, <1>a, Bridge
    <3> QED BY <1>1, <3>1 DEF KeyAt
  <2>5. Fits'
    <3> SUFFICES ASSUME ~Improves(key[t], v), n # 1
                 PROVE  ~Before(v, key'[data[Parent(n)]])
      BY <1>1, <2>1 DEF Fits, Parent, KeyAt, Before
    <3>1. Parent(n) \in (1 .. size) \ {n}
      BY <1>a, ParentSlot
    <3>2. ~Before(key[t], key[data[Parent(n)]])
      BY <1>a, <3>1 DEF InOrder, Ordered, KeyAt
    <3> QED BY <1>1, <1>2, <1>3, <3>1, <3>2 DEF Before
  <2> QED BY <2>3, <2>4, <2>5
<1> QED BY <1>4, <1>5

-----------------------------------------------------------------------------

(* Every operation of the two files, loop iteration by loop iteration,     *)
(* keeps the array ordered around its hole and every thread's index right. *)
THEOREM HeapInvariant == Spec => []HeapInv
<1>1. ASSUME HeapInv, [Next]_vars PROVE HeapInv'
  <2>1. CASE UNCHANGED vars
    BY <1>1, <2>1 DEF vars, HeapInv, InOrder, TypeOK, IndexFindsThread, Ordered, Bridged, Fits,
                      Filled, KeyAt, Before, KeysOf
  <2>2. CASE Next
    BY <1>1, <2>2, InsertKeeps, DeleteKeeps, SetKeyKeeps, UpKeeps, UpEndKeeps,
       DownLeftKeeps, DownRightKeeps, FinishKeeps DEF Next, HeapInv
  <2> QED BY <1>1, <2>1, <2>2
<1>2. HeapInv /\ [Next]_vars => HeapInv'
  BY <1>1
<1> QED BY <1>2, InitInv, PTL DEF Spec

(* Spec => []TypeOK: no operation drives the size below zero or past the   *)
(* number of threads, or the hole out of the heap.                         *)
THEOREM TypeCorrect == Spec => []TypeOK
<1>1. HeapInv => TypeOK
  BY DEF HeapInv
<1> QED BY <1>1, HeapInvariant, PTL

(* Spec => []IndexFindsThread: the membership test of delete_from_queue    *)
(* and sched_change_remaining is exact.                                    *)
THEOREM IndexCorrect == Spec => []IndexFindsThread
<1>1. HeapInv => IndexFindsThread
  BY DEF HeapInv
<1> QED BY <1>1, HeapInvariant, PTL

(* Spec => []HeadIsBest: heap_head returns a best thread.  If some slot    *)
(* held a better one, take the least such slot: its parent is not better   *)
(* than the head, yet not worse than the slot.                             *)
THEOREM HeadCorrect == Spec => []HeadIsBest
<1>1. HeapInv => HeadIsBest
  <2> SUFFICES ASSUME HeapInv, InOrder, pc = "idle"
               PROVE  \A k \in 1 .. size : ~Before(KeyAt(k), KeyAt(1))
    BY DEF HeadIsBest, HeadBest, HeapInv
  <2> DEFINE S == {k \in 1 .. size : Before(KeyAt(k), KeyAt(1))}
  <2>a. size \in Nat /\ Filled = 1 .. size
    BY FS_CardinalityType, ThreadsAssumption DEF HeapInv, TypeOK, Filled
  <2>b. \A j \in 1 .. size : KeyAt(j) \in Int
    BY <2>a, KeysAssumption DEF HeapInv, TypeOK, KeyAt, KeysOf
  <2>1. ASSUME S # {} PROVE FALSE
    <3>1. S \in SUBSET Nat
      BY <2>a
    <3>2. PICK m \in S : \A n \in S : m <= n
      BY <2>1, <3>1, LeastSlot
    <3>3. m \in 1 .. size /\ Before(KeyAt(m), KeyAt(1))
      OBVIOUS
    <3>4. m # 1
      BY <3>3, <2>a, <2>b, BeforeFacts
    <3>5. Parent(m) \in 1 .. size /\ Parent(m) < m
      BY <3>3, <3>4, <2>a, ParentSlot
    <3>6. ~Before(KeyAt(Parent(m)), KeyAt(1))
      BY <3>2, <3>5, <2>a
    <3>7. ~Before(KeyAt(m), KeyAt(Parent(m)))
      BY <3>3, <3>4, <3>5, <2>a DEF InOrder, Ordered
    <3>8. 1 \in 1 .. size
      BY <2>a, <3>3
    <3> QED BY <3>3, <3>5, <3>6, <3>7, <3>8, <2>b, BeforeFacts
  <2> QED BY <2>1
<1> QED BY <1>1, HeapInvariant, PTL

-----------------------------------------------------------------------------

(* The threads in the heap are the ones in the array and, during an        *)
(* operation, the one that was lifted out of it: moving the hole and       *)
(* filling it change nothing of that.                                      *)
LEMMA MoveStutters ==
  ASSUME HeapInv, pc # "idle", NEW k \in Filled, MoveHole(k)
  PROVE  Members' = Members /\ key' = key
<1>1. TypeOK
  BY DEF HeapInv
<1>2. Filled = (1 .. size) \ {i} /\ i \in 1 .. size
  BY <1>1, Busy
<1>3. /\ Filled' = (1 .. size) \ {k} /\ data'[i] = data[k]
      /\ \A j \in (1 .. size) \ {i} : data'[j] = data[j]
      /\ pc' = pc /\ tmp' = tmp /\ key' = key
  BY AfterMove DEF HeapInv
<1>4. {data'[j] : j \in Filled'} = {data[j] : j \in Filled}
  BY <1>2, <1>3
<1> QED BY <1>3, <1>4 DEF Members

(* Each operation affects exactly the thread that was named.               *)
LEMMA InsertEnters ==
  ASSUME TypeOK, NEW t \in Threads, NEW v \in KeysOf(kind), Insert(t, v)
  PROVE  Queue!Enter(t, v)
<1>1. pc = "idle" /\ pc' = "up" /\ tmp' = t /\ i' = size + 1 /\ size' = size + 1
      /\ data' = data /\ size \in Nat
  BY FS_CardinalityType, ThreadsAssumption DEF Insert, TypeOK
<1>2. Filled' = Filled
  BY <1>1 DEF Filled
<1>3. Members' = Members \cup {t}
  BY <1>1, <1>2 DEF Members
<1> QED BY <1>3 DEF Insert, Queue!Enter

LEMMA DeleteRemoves ==
  ASSUME TypeOK, IndexFindsThread, NEW t \in Threads, Delete(t)
  PROVE  Queue!Remove(t)
<1>1. t \in Members /\ pc = "idle" /\ key' = key /\ size' = size - 1
  BY DEF Delete
<1>2. /\ Filled = 1 .. size /\ size \in Nat /\ size >= 1 /\ 1 .. size \subseteq Slots
      /\ pos[t] \in 1 .. size /\ data[pos[t]] = t
  BY <1>1, Lookup
<1>3. \A j \in 1 .. (size - 1) : data'[j] = data[j]
  BY <1>2 DEF Delete, TypeOK
<1>4. \A j \in 1 .. size : data[j] = t <=> j = pos[t]
  BY <1>2 DEF IndexFindsThread
<1>5. CASE pos[t] = size
  <2>1. pc' = "idle" /\ Filled' = 1 .. (size - 1)
    BY <1>1, <1>5 DEF Delete, Filled
  <2>2. Members' = Members \ {t}
    BY <1>1, <1>2, <1>3, <1>4, <1>5, <2>1 DEF Members
  <2> QED BY <1>1, <2>2 DEF Queue!Remove
<1>6. CASE pos[t] # size
  <2>1. pc' # "idle" /\ tmp' = data[size] /\ Filled' = (1 .. (size - 1)) \ {pos[t]}
    BY <1>1, <1>6 DEF Delete, Filled
  <2>2. 1 .. size = (1 .. (size - 1)) \cup {size}
    BY <1>2
  <2>3. Members' = Members \ {t}
    BY <1>1, <1>2, <1>3, <1>4, <1>6, <2>1, <2>2 DEF Members
  <2> QED BY <1>1, <2>3 DEF Queue!Remove
<1> QED BY <1>5, <1>6

LEMMA SetKeyChanges ==
  ASSUME TypeOK, IndexFindsThread, NEW t \in Threads, NEW v \in KeysOf(kind), SetKey(t, v)
  PROVE  Queue!ChangeKey(t, v)
<1>1. t \in Members /\ pc = "idle" /\ data' = data /\ size' = size
  BY DEF SetKey
<1>2. /\ Filled = 1 .. size /\ pos[t] \in 1 .. size /\ data[pos[t]] = t
  BY <1>1, Lookup
<1>3. Members' = Members
  BY <1>1, <1>2 DEF SetKey, Members, Filled
<1> QED BY <1>1, <1>3 DEF SetKey, Queue!ChangeKey

(* A heap, with its array, its hole and its indices, implements the queue  *)
(* the scheduler means to use, and each call of an operation is that       *)
(* operation of the queue on the thread that was named.                    *)
THEOREM Refinement == Spec => ImplementsReadyQueue
<1>1. Init => Queue!Init
  <2> SUFFICES ASSUME Init PROVE Queue!Init
    OBVIOUS
  <2>1. Members = {}
    BY DEF Init, Members, Filled
  <2>2. key \in [Threads -> Keys]
    BY DEF Init, KeysOf
  <2> QED BY <2>1, <2>2 DEF Queue!Init
<1>2. ASSUME HeapInv, [Next]_vars PROVE [Queue!Next]_(Queue!vars) /\ [NamedThread]_vars
  <2>0. TypeOK /\ IndexFindsThread
    BY <1>2 DEF HeapInv
  <2>1. CASE UNCHANGED vars
    BY <2>1 DEF vars, Members, Filled, Queue!vars
  <2>2. \A t \in Threads :
          /\ Delete(t) => Queue!Remove(t)
          /\ \A v \in KeysOf(kind) :
               (Insert(t, v) => Queue!Enter(t, v)) /\ (SetKey(t, v) => Queue!ChangeKey(t, v))
    BY <2>0, InsertEnters, DeleteRemoves, SetKeyChanges
  <2>3. CASE \E t \in Threads : Delete(t) \/ \E v \in KeysOf(kind) : Insert(t, v) \/ SetKey(t, v)
    <3>1. KeysOf(kind) \subseteq Keys
      BY DEF KeysOf
    <3>2. Queue!Next
      BY <2>2, <2>3, <3>1 DEF Queue!Next
    <3>3. pc = "idle"
      BY <2>3 DEF Delete, Insert, SetKey
    <3> QED BY <2>2, <3>2, <3>3 DEF NamedThread
  <2>4. ASSUME Up \/ UpEnd \/ DownLeft \/ DownRight \/ Finish
        PROVE  UNCHANGED Queue!vars
    <3>1. CASE Up
      <4>1. pc # "idle" /\ i # 1 /\ MoveHole(Parent(i))
        BY <3>1 DEF Up, GoesUp
      <4>2. Filled = (1 .. size) \ {i} /\ size \in Nat /\ i \in 1 .. size
        BY <2>0, <4>1, Busy
      <4>3. Parent(i) \in Filled
        BY <4>1, <4>2, ParentSlot
      <4> QED BY <1>2, <4>1, <4>3, MoveStutters DEF Queue!vars
    <3>2. CASE UpEnd
      BY <3>2 DEF UpEnd, Members, Filled, Queue!vars
    <3>3. CASE DownLeft \/ DownRight
      <4>1. PICK c \in {2 * i, 2 * i + 1} : pc # "idle" /\ c <= size /\ MoveHole(c)
        BY <3>3 DEF DownLeft, DownRight, Overtakes
      <4>2. Filled = (1 .. size) \ {i} /\ size \in Nat /\ i \in Nat /\ i >= 1
        BY <2>0, <4>1, Busy
      <4>3. c \in Filled
        BY <4>1, <4>2
      <4> QED BY <1>2, <4>1, <4>3, MoveStutters DEF Queue!vars
    <3>4. CASE Finish
      <4>1. pc # "idle" /\ pc' = "idle" /\ key' = key /\ size' = size
        BY <3>4 DEF Finish
      <4>2. Filled = (1 .. size) \ {i} /\ i \in 1 .. size /\ 1 .. size \subseteq Slots
        BY <2>0, <4>1, Busy
      <4>3. Filled' = 1 .. size /\ data'[i] = tmp /\ \A j \in (1 .. size) \ {i} : data'[j] = data[j]
        BY <2>0, <3>4, <4>1, <4>2 DEF Finish, TypeOK, Filled
      <4>4. Members' = Members
        BY <4>1, <4>2, <4>3 DEF Members
      <4> QED BY <4>1, <4>4 DEF Queue!vars
    <3> QED BY <2>4, <3>1, <3>2, <3>3, <3>4
  <2>5. CASE Up \/ UpEnd \/ DownLeft \/ DownRight \/ Finish
    <3>1. UNCHANGED Queue!vars
      BY <2>4, <2>5
    <3> QED BY <2>2, <3>1 DEF NamedThread
  <2> QED BY <1>2, <2>1, <2>3, <2>5 DEF Next
<1> QED BY <1>1, <1>2, HeapInvariant, PTL DEF Spec, ImplementsReadyQueue, Queue!Spec
=============================================================================
