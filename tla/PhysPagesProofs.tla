--------------------------- MODULE PhysPagesProofs ----------------------------
(***************************************************************************)
(* Proofs about PhysPages, for any pool, number of colours and number of   *)
(* processors.                                                             *)
(***************************************************************************)
EXTENDS PhysPages, FiniteSetTheorems, SequenceTheorems, WellFoundedInduction, TLAPS

-----------------------------------------------------------------------------
(* Induction over the naturals, in terms of sets.                          *)
LEMMA LeastNatural ==
  ASSUME NEW T, T \subseteq Nat, T # {}
  PROVE  \E x \in T : \A y \in T : x <= y
<1> DEFINE R == OpToRel(<, Nat)
<1>1. IsWellFoundedOn(R, Nat)
  BY NatLessThanWellFounded
<1>2. \A x, y \in Nat : y < x => <<y, x>> \in R
  BY DEF OpToRel
<1> HIDE DEF R
<1>3. PICK x \in T : \A y \in T : ~(<<y, x>> \in R)
  BY <1>1, WFMin
<1>4. ASSUME NEW y \in T PROVE x <= y
  <2>1. x \in Nat /\ y \in Nat /\ ~(<<y, x>> \in R)
    BY <1>3
  <2>2. ~(y < x)
    BY <1>2, <2>1
  <2> QED BY <2>1, <2>2
<1> QED BY <1>4

LEMMA SetInduction ==
  ASSUME NEW S, 0 \in S, \A n \in Nat : n \in S => n + 1 \in S
  PROVE  Nat \subseteq S
<1> SUFFICES ASSUME Nat \ S # {} PROVE FALSE
  OBVIOUS
<1>1. PICK x \in Nat \ S : \A y \in Nat \ S : x <= y
  BY LeastNatural
<1>2. x # 0 /\ x - 1 \in Nat
  BY <1>1
<1> QED BY <1>1, <1>2

-----------------------------------------------------------------------------
(* Circular lists.                                                         *)
Link == [next: [Page -> Page \cup {NoNode}], last: [Page -> Page \cup {NoNode}]]

(* The nodes R of the list h: the two pointers of a node undo each other,  *)
(* and whoever follows next from h meets all of R.                         *)
IsRing(l, h, R) ==
    /\ R \subseteq Page
    /\ h = NoNode <=> R = {}
    /\ h # NoNode => h \in R
    /\ \A n \in R : /\ l.next[n] \in R /\ l.last[n] \in R
                    /\ l.last[l.next[n]] = n /\ l.next[l.last[n]] = n
    /\ \A S \in SUBSET R : h \in S /\ (\A n \in S : l.next[n] \in S) => S = R

LEMMA PageFinite == IsFiniteSet(Page) /\ Cardinality(Page) \in Nat /\ NoNode \notin Page
<1>1. IsFiniteSet(Page)
  BY PoolAssumption, FS_AddElement DEF Page
<1> QED BY <1>1, FS_CardinalityType, PoolAssumption DEF Page, PageZero, NoNode

(* A list depends on the pointers of its nodes only.                       *)
LEMMA RingFrame ==
  ASSUME NEW l, NEW m, NEW h, NEW R, IsRing(l, h, R),
         \A n \in R : m.next[n] = l.next[n] /\ m.last[n] = l.last[n]
  PROVE  IsRing(m, h, R)
BY DEF IsRing

(* clist_insert.                                                           *)
LEMMA InsertRing ==
  ASSUME NEW l \in Link, NEW h, NEW R, IsRing(l, h, R), NEW n \in Page \ R
  PROVE  /\ ClistInsert(l, h, n) \in Link
         /\ IsRing(ClistInsert(l, h, n), n, R \cup {n})
         /\ \A m \in Page \ (R \cup {n}) :
              /\ ClistInsert(l, h, n).next[m] = l.next[m]
              /\ ClistInsert(l, h, n).last[m] = l.last[m]
<1> DEFINE k == ClistInsert(l, h, n)
           b == l.last[h]
<1>0. NoNode \notin Page
  BY PageFinite
<1>1. CASE h = NoNode
  <2>1. R = {}
    BY <1>1 DEF IsRing
  <2>2. k = [l EXCEPT !.next[n] = n, !.last[n] = n]
    BY <1>1 DEF ClistInsert
  <2>3. k = [next |-> [l.next EXCEPT ![n] = n], last |-> [l.last EXCEPT ![n] = n]]
    BY <2>2 DEF Link
  <2> HIDE DEF k
  <2>5. /\ k \in Link /\ k.next[n] = n /\ k.last[n] = n
        /\ \A m \in Page \ {n} : k.next[m] = l.next[m] /\ k.last[m] = l.last[m]
    BY <2>3 DEF Link
  <2>4. IsRing(k, n, {n})
    BY <1>0, <2>5 DEF IsRing
  <2> QED BY <2>1, <2>4, <2>5 DEF k
<1>2. CASE h # NoNode
  <2>1. h \in R /\ b \in R /\ l.next[b] = h /\ R \subseteq Page /\ n \notin R
    BY <1>2 DEF IsRing
  <2>2. k = [[l EXCEPT !.next[n] = h, !.last[n] = b] EXCEPT !.next[b] = n, !.last[h] = n]
    BY <1>2 DEF ClistInsert
  <2>9. k = [next |-> [l.next EXCEPT ![n] = h, ![b] = n],
             last |-> [l.last EXCEPT ![n] = b, ![h] = n]]
    BY <2>1, <2>2 DEF Link
  <2> HIDE DEF k
  <2>3. /\ k \in Link
        /\ k.next = [l.next EXCEPT ![n] = h, ![b] = n]
        /\ k.last = [l.last EXCEPT ![n] = b, ![h] = n]
    BY <2>1, <2>9 DEF Link
  <2> HIDE DEF k
  <2>4. /\ k.next[n] = h /\ k.next[b] = n /\ k.last[n] = b /\ k.last[h] = n
        /\ \A m \in Page \ {n, b} : k.next[m] = l.next[m]
        /\ \A m \in Page \ {n, h} : k.last[m] = l.last[m]
    BY <2>1, <2>3 DEF Link
  <2> HIDE DEF b
  <2>5. \A m \in R \cup {n} :
          /\ k.next[m] \in R \cup {n} /\ k.last[m] \in R \cup {n}
          /\ k.last[k.next[m]] = m /\ k.next[k.last[m]] = m
    <3>1. \A m \in R : /\ l.next[m] \in R /\ l.last[m] \in R
                       /\ l.last[l.next[m]] = m /\ l.next[l.last[m]] = m
      BY DEF IsRing
    <3>2. l.last[h] = b
      BY DEF b
    <3> QED BY <2>1, <2>4, <3>1, <3>2
  <2>6. ASSUME NEW S \in SUBSET (R \cup {n}), n \in S, \A m \in S : k.next[m] \in S
        PROVE  S = R \cup {n}
    <3>1. h \in S \cap R
      BY <2>1, <2>4, <2>6
    <3>2. \A m \in S \cap R : l.next[m] \in S \cap R
      BY <2>1, <2>4, <2>6, <3>1 DEF IsRing
    <3>3. S \cap R = R
      BY <3>1, <3>2 DEF IsRing
    <3> QED BY <2>6, <3>3
  <2>7. IsRing(k, n, R \cup {n})
    BY <1>0, <2>1, <2>5, <2>6 DEF IsRing
  <2>8. \A m \in Page \ (R \cup {n}) : k.next[m] = l.next[m] /\ k.last[m] = l.last[m]
    BY <2>1, <2>4
  <2> QED BY <2>3, <2>7, <2>8 DEF k
<1> QED BY <1>1, <1>2

(* clist_delete.                                                           *)
LEMMA DeleteRing ==
  ASSUME NEW l \in Link, NEW h, NEW R, IsRing(l, h, R), h # NoNode
  PROVE  /\ ClistDelete(l, h).links \in Link
         /\ IsRing(ClistDelete(l, h).links, ClistDelete(l, h).list, R \ {h})
         /\ \A m \in Page \ R :
              /\ ClistDelete(l, h).links.next[m] = l.next[m]
              /\ ClistDelete(l, h).links.last[m] = l.last[m]
<1> DEFINE k == ClistDelete(l, h).links
           b == l.last[h]
           a == l.next[h]
<1>0. NoNode \notin Page
  BY PageFinite
<1>1. /\ h \in R /\ a \in R /\ b \in R /\ R \subseteq Page
      /\ l.next[b] = h /\ l.last[a] = h
      /\ \A m \in R : /\ l.next[m] \in R /\ l.last[m] \in R
                      /\ l.last[l.next[m]] = m /\ l.next[l.last[m]] = m
  BY DEF IsRing
<1>2. CASE a = h
  <2>1. ClistDelete(l, h) = [links |-> l, list |-> NoNode]
    BY <1>2 DEF ClistDelete
  <2>2. R = {h}
    <3>1. {h} \in SUBSET R /\ \A m \in {h} : l.next[m] \in {h}
      BY <1>1, <1>2
    <3> QED BY <3>1 DEF IsRing
  <2>3. IsRing(l, NoNode, {})
    BY DEF IsRing
  <2> QED BY <2>1, <2>2, <2>3
<1>3. CASE a # h
  <2> DEFINE cut == [l EXCEPT !.next[b] = a]
  <2>0. cut = [next |-> [l.next EXCEPT ![b] = a], last |-> l.last]
    BY DEF Link
  <2>1. ClistDelete(l, h) = [links |-> [cut EXCEPT !.last[a] = b], list |-> cut.next[h]]
    BY <1>3 DEF ClistDelete
  <2>2. b # h
    BY <1>1, <1>3
  <2>9. /\ k = [next |-> [l.next EXCEPT ![b] = a], last |-> [l.last EXCEPT ![a] = b]]
        /\ ClistDelete(l, h).list = [l.next EXCEPT ![b] = a][h]
    <3> HIDE DEF cut
    <3> QED BY <2>0, <2>1
  <2> HIDE DEF k
  <2>3. /\ k \in Link
        /\ k.next = [l.next EXCEPT ![b] = a] /\ k.last = [l.last EXCEPT ![a] = b]
        /\ ClistDelete(l, h).list = a
    BY <1>1, <2>2, <2>9 DEF Link
  <2> HIDE DEF k
  <2>4. /\ k.next[b] = a /\ k.last[a] = b
        /\ \A m \in Page \ {b} : k.next[m] = l.next[m]
        /\ \A m \in Page \ {a} : k.last[m] = l.last[m]
    BY <1>1, <2>3 DEF Link
  <2> HIDE DEF a, b
  <2>5. \A m \in R \ {h} :
          /\ k.next[m] \in R \ {h} /\ k.last[m] \in R \ {h}
          /\ k.last[k.next[m]] = m /\ k.next[k.last[m]] = m
    <3>1. l.last[h] = b /\ l.next[h] = a
      BY DEF a, b
    <3> QED BY <1>1, <1>3, <2>2, <2>4, <3>1
  <2>6. ASSUME NEW S \in SUBSET (R \ {h}), a \in S, \A m \in S : k.next[m] \in S
        PROVE  S = R \ {h}
    <3>1. S \cup {h} \in SUBSET R
      BY <1>1
    <3>2. \A m \in S \cup {h} : l.next[m] \in S \cup {h}
      BY <1>1, <2>4, <2>6 DEF a
    <3>3. S \cup {h} = R
      BY <3>1, <3>2 DEF IsRing
    <3> QED BY <3>3
  <2>7. IsRing(k, a, R \ {h})
    BY <1>0, <1>1, <1>3, <2>5, <2>6 DEF IsRing
  <2>8. \A m \in Page \ R : k.next[m] = l.next[m] /\ k.last[m] = l.last[m]
    BY <1>1, <2>4
  <2> QED BY <2>3, <2>7, <2>8 DEF k
<1> QED BY <1>2, <1>3

(* The walk along a ring meets every node of it.  It is a function that is *)
(* defined by recursion, which has to be shown to exist.                   *)
IsWalk(f, nx, h, N) ==
    f = [k \in 0 .. N |-> IF k = 0 THEN {h} ELSE f[k - 1] \cup {nx[m] : m \in f[k - 1]}]

LEMMA WalkExists ==
  ASSUME NEW nx, NEW R, NEW h \in R, \A m \in R : nx[m] \in R, NEW N \in Nat
  PROVE  \E f : IsWalk(f, nx, h, N)
<1> DEFINE Walks(n, f) ==
             /\ f[0] = {h}
             /\ \A k \in 1 .. n : f[k] = f[k - 1] \cup {nx[m] : m \in f[k - 1]}
           Long == {n \in Nat : \E f \in [0 .. n -> SUBSET R] : Walks(n, f)}
<1>1. 0 \in Long
  <2>1. [k \in 0 .. 0 |-> {h}] \in [0 .. 0 -> SUBSET R] /\ Walks(0, [k \in 0 .. 0 |-> {h}])
    OBVIOUS
  <2> QED BY <2>1
<1>2. ASSUME NEW n \in Nat, n \in Long PROVE n + 1 \in Long
  <2>1. PICK f \in [0 .. n -> SUBSET R] : Walks(n, f)
    BY <1>2
  <2> DEFINE more == f[n] \cup {nx[m] : m \in f[n]}
             g == [k \in 0 .. n + 1 |-> IF k = n + 1 THEN more ELSE f[k]]
  <2>2. more \in SUBSET R
    OBVIOUS
  <2>3. g[n + 1] = f[n] \cup {nx[m] : m \in f[n]} /\ \A k \in 0 .. n : g[k] = f[k]
    OBVIOUS
  <2>4. g \in [0 .. n + 1 -> SUBSET R]
    BY <2>2
  <2> HIDE DEF g, more
  <2>5. g[0] = {h}
    BY <2>1, <2>3
  <2>6. ASSUME NEW k \in 1 .. n + 1 PROVE g[k] = g[k - 1] \cup {nx[m] : m \in g[k - 1]}
    <3>1. CASE k = n + 1
      BY <2>3, <3>1
    <3>2. CASE k # n + 1
      <4>1. k \in 1 .. n /\ k - 1 \in 0 .. n /\ k \in 0 .. n
        BY <3>2
      <4> QED BY <2>1, <2>3, <4>1
    <3> QED BY <3>1, <3>2
  <2>7. Walks(n + 1, g)
    BY <2>5, <2>6
  <2> QED BY <2>4, <2>7
<1>3. N \in Long
  <2> HIDE DEF Long
  <2> QED BY <1>1, <1>2, SetInduction
<1>4. PICK f \in [0 .. N -> SUBSET R] : Walks(N, f)
  BY <1>3
<1>5. IsWalk(f, nx, h, N)
  BY <1>4 DEF IsWalk
<1> QED BY <1>5

LEMMA RingIs ==
  ASSUME NEW l, NEW h, NEW R, IsRing(l, h, R)
  PROVE  Ring(l.next, h) = R
<1> DEFINE N == Cardinality(Page)
           nx == l.next
           W == CHOOSE f : f = [k \in 0 .. N |->
                  IF k = 0 THEN {h} ELSE f[k - 1] \cup {nx[m] : m \in f[k - 1]}]
<1>1. Ring(nx, h) = IF h = NoNode THEN {} ELSE W[N]
  BY DEF Ring
<1>2. CASE h = NoNode
  BY <1>1, <1>2 DEF IsRing
<1>3. CASE h # NoNode
  <2>1. /\ h \in R /\ R \subseteq Page /\ \A m \in R : nx[m] \in R
        /\ IsFiniteSet(Page) /\ N \in Nat
    BY <1>3, PageFinite DEF IsRing
  <2>2. W = [k \in 0 .. N |-> IF k = 0 THEN {h} ELSE W[k - 1] \cup {nx[m] : m \in W[k - 1]}]
    <3>1. \E f : f = [k \in 0 .. N |->
            IF k = 0 THEN {h} ELSE f[k - 1] \cup {nx[m] : m \in f[k - 1]}]
      <4> HIDE DEF N, nx, W
      <4>1. \E f : IsWalk(f, nx, h, N)
        BY <2>1, WalkExists
      <4> QED BY <4>1, Zenon DEF IsWalk
    <3> HIDE DEF N, nx
    <3> QED BY <3>1, Zenon
  <2> HIDE DEF W
  <2>3. W[0] = {h} /\ \A k \in 0 .. N : k + 1 \in 0 .. N =>
          W[k + 1] = W[k] \cup {nx[m] : m \in W[k]}
    BY <2>1, <2>2
  <2> DEFINE Met == {k \in Nat : k \in 0 .. N =>
                       /\ W[k] \subseteq R /\ h \in W[k]
                       /\ W[k] = R \/ Cardinality(W[k]) > k}
  <2>4. 0 \in Met
    BY <2>1, <2>3, FS_Singleton
  <2>5. ASSUME NEW k \in Nat, k \in Met PROVE k + 1 \in Met
    <3> SUFFICES ASSUME k + 1 \in 0 .. N
                 PROVE  /\ W[k + 1] \subseteq R /\ h \in W[k + 1]
                        /\ W[k + 1] = R \/ Cardinality(W[k + 1]) > k + 1
      OBVIOUS
    <3>1. k \in 0 .. N /\ W[k + 1] = W[k] \cup {nx[m] : m \in W[k]}
      BY <2>1, <2>3
    <3>2. W[k] \subseteq R /\ h \in W[k] /\ (W[k] = R \/ Cardinality(W[k]) > k)
      BY <2>5, <3>1
    <3>3. W[k + 1] \subseteq R /\ h \in W[k + 1]
      BY <2>1, <3>1, <3>2
    <3>4. CASE W[k] = R
      BY <2>1, <3>1, <3>4
    <3>5. CASE W[k] # R
      <4>1. PICK m \in W[k] : nx[m] \notin W[k]
        BY <3>2, <3>5 DEF IsRing
      <4>2. IsFiniteSet(W[k]) /\ IsFiniteSet(W[k + 1])
        BY <2>1, <3>2, <3>3, FS_Subset
      <4>3. Cardinality(W[k] \cup {nx[m]}) = Cardinality(W[k]) + 1
            /\ IsFiniteSet(W[k] \cup {nx[m]})
        BY <4>1, <4>2, FS_AddElement
      <4>4. Cardinality(W[k] \cup {nx[m]}) <= Cardinality(W[k + 1])
        <5>1. W[k] \cup {nx[m]} \in SUBSET W[k + 1]
          BY <3>1, <4>1
        <5> QED BY <4>2, <5>1, FS_Subset
      <4>5. Cardinality(W[k]) \in Nat /\ Cardinality(W[k + 1]) \in Nat
        BY <4>2, FS_CardinalityType
      <4> QED BY <3>2, <3>3, <3>5, <4>3, <4>4, <4>5
    <3> QED BY <3>3, <3>4, <3>5
  <2>6. N \in Met
    <3> HIDE DEF Met
    <3> QED BY <2>1, <2>4, <2>5, SetInduction
  <2>7. W[N] \subseteq R /\ (W[N] = R \/ Cardinality(W[N]) > N)
    BY <2>1, <2>6
  <2>8. Cardinality(W[N]) <= N
    <3>1. W[N] \in SUBSET Page
      BY <2>1, <2>7
    <3> QED BY <2>1, <3>1, FS_Subset
  <2>9. Cardinality(W[N]) \in Nat
    BY <2>1, <2>7, FS_Subset, FS_CardinalityType
  <2> QED BY <1>1, <1>3, <2>1, <2>7, <2>8, <2>9
<1> QED BY <1>2, <1>3

-----------------------------------------------------------------------------
(* The chains of the hash tables.                                          *)
LEMMA InsertChain ==
  ASSUME NEW S, NEW chain \in Seq(S), NEW e \in S
  PROVE  /\ hash_table_insert(chain, e) \in Seq(S)
         /\ DOMAIN hash_table_insert(chain, e) = 1 .. Len(chain) + 1
         /\ hash_table_insert(chain, e)[1] = e
         /\ \A i \in 2 .. Len(chain) + 1 : hash_table_insert(chain, e)[i] = chain[i - 1]
BY DEF hash_table_insert

LEMMA DeleteChain ==
  ASSUME NEW S, NEW chain \in Seq(S), NEW k \in 1 .. Len(chain)
  PROVE  /\ hash_table_delete(chain, k) \in Seq(S)
         /\ DOMAIN hash_table_delete(chain, k) = 1 .. Len(chain) - 1
         /\ \A i \in 1 .. Len(chain) - 1 :
              hash_table_delete(chain, k)[i] = IF i < k THEN chain[i] ELSE chain[i + 1]
<1> DEFINE a == SubSeq(chain, 1, k - 1)
           b == SubSeq(chain, k + 1, Len(chain))
<1>1. hash_table_delete(chain, k) = a \o b
  BY DEF hash_table_delete, RemoveAt
<1>2. a \in Seq(S) /\ Len(a) = k - 1 /\ \A i \in 1 .. k - 1 : a[i] = chain[i]
  OBVIOUS
<1>3. b \in Seq(S) /\ Len(b) = Len(chain) - k /\ \A i \in 1 .. Len(chain) - k : b[i] = chain[i + k]
  OBVIOUS
<1> HIDE DEF a, b
<1> DEFINE d == a \o b
<1>4. /\ d \in Seq(S) /\ Len(d) = Len(chain) - 1
      /\ \A i \in 1 .. Len(chain) - 1 :
           d[i] = IF i <= k - 1 THEN a[i] ELSE b[i - (k - 1)]
  <2>1. Len(a) + Len(b) = Len(chain) - 1
    BY <1>2, <1>3
  <2>2. /\ d \in Seq(S) /\ Len(d) = Len(a) + Len(b)
        /\ \A i \in 1 .. Len(a) + Len(b) : d[i] = IF i <= Len(a) THEN a[i] ELSE b[i - Len(a)]
    BY <1>2, <1>3, ConcatProperties
  <2> HIDE DEF d
  <2> QED BY <1>2, <2>1, <2>2
<1> HIDE DEF d
<1>5. ASSUME NEW i \in 1 .. Len(chain) - 1
      PROVE  d[i] = IF i < k THEN chain[i] ELSE chain[i + 1]
  <2>0. i \in Int /\ k \in Int /\ d[i] = IF i <= k - 1 THEN a[i] ELSE b[i - (k - 1)]
    BY <1>4
  <2>1. CASE i < k
    <3>1. i \in 1 .. k - 1 /\ i <= k - 1
      BY <2>1
    <3> QED BY <1>2, <2>0, <2>1, <3>1
  <2>2. CASE ~(i < k)
    <3>1. i - (k - 1) \in 1 .. Len(chain) - k /\ (i - (k - 1)) + k = i + 1
      BY <2>2
    <3>2. d[i] = b[i - (k - 1)]
      BY <2>0, <2>2
    <3>3. b[i - (k - 1)] = chain[(i - (k - 1)) + k]
      BY <1>3, <3>1
    <3> QED BY <2>2, <3>1, <3>2, <3>3
  <2> QED BY <2>1, <2>2
<1>6. DOMAIN d = 1 .. Len(chain) - 1
  BY <1>4
<1> QED BY <1>1, <1>4, <1>5, <1>6 DEF d

(* Colours.                                                                *)
LEMMA PageColor == \A n \in Int : page_color(n) \in Color
BY ColorAssumption DEF page_color, Color

TableType == [list: [1 .. NumColors -> Color], index: [Color -> 1 .. NumColors],
              count: [Color -> Nat]]

(* What change_color_count keeps: list and index are inverse to each other *)
(* and the list is a heap.                                                 *)
HeapTable(t) ==
    /\ t \in TableType
    /\ \A c \in Color : t.list[t.index[c]] = c
    /\ \A i \in 1 .. NumColors : t.index[t.list[i]] = i
    /\ \A i \in 2 .. NumColors : t.count[t.list[i \div 2]] <= t.count[t.list[i]]

LEMMA ChildFacts ==
  ASSUME NEW t \in TableType, NEW c \in Color, NEW i \in 1 .. NumColors, Sinks(t, c, i)
  PROVE  /\ SmallerChild(t, i) \in 1 .. NumColors /\ SmallerChild(t, i) > i
         /\ SmallerChild(t, i) \div 2 = i
         /\ t.count[t.list[SmallerChild(t, i)]] < t.count[c]
<1>1. i \in Nat /\ NumColors \in Nat /\ 2 * i <= NumColors /\ i >= 1
      /\ t.count[t.list[SmallerChild(t, i)]] < t.count[c]
  BY ColorAssumption DEF Sinks
<1>2. \/ SmallerChild(t, i) = 2 * i
      \/ 2 * i < NumColors /\ SmallerChild(t, i) = 2 * i + 1
  BY DEF SmallerChild
<1>3. (2 * i) \div 2 = i /\ (2 * i + 1) \div 2 = i
  BY <1>1
<1> HIDE DEF SmallerChild
<1> QED BY <1>1, <1>2, <1>3

(* The places that change_color_count goes through, from place i on.       *)
IsWay(w, t, c) ==
    w = [i \in 1 .. NumColors |->
           {i} \cup (IF Sinks(t, c, i) THEN w[SmallerChild(t, i)] ELSE {})]

LEMMA WayExists ==
  ASSUME NEW t \in TableType, NEW c \in Color
  PROVE  \E w : IsWay(w, t, c)
<1> DEFINE Place == 1 .. NumColors
           Closed(S) == \A x \in S : Sinks(t, c, x) => SmallerChild(t, x) \in S
           G == [i \in Place |-> {j \in Place : \A S \in SUBSET Place : i \in S /\ Closed(S) => j \in S}]
<1>1. \A i \in Place : Sinks(t, c, i) => SmallerChild(t, i) \in Place
  BY ChildFacts
<1>2. ASSUME NEW i \in Place
      PROVE  G[i] = {i} \cup (IF Sinks(t, c, i) THEN G[SmallerChild(t, i)] ELSE {})
  <2> DEFINE X == {i} \cup (IF Sinks(t, c, i) THEN G[SmallerChild(t, i)] ELSE {})
  <2>1. \A x \in Place : x \in G[x] /\ G[x] \subseteq Place
    OBVIOUS
  <2>2. \A x \in Place : Closed(G[x])
    BY <1>1
  <2>3. X \in SUBSET Place /\ i \in X
    BY <1>1, <2>1
  <2>4. Closed(X)
    <3>1. CASE Sinks(t, c, i)
      <4>1. SmallerChild(t, i) \in Place /\ X = {i} \cup G[SmallerChild(t, i)]
        BY <1>1, <3>1
      <4> HIDE DEF X, G
      <4> QED BY <2>1, <2>2, <4>1
    <3>2. CASE ~Sinks(t, c, i)
      BY <3>2
    <3> QED BY <3>1, <3>2
  <2>5. G[i] \subseteq X
    <3> HIDE DEF X
    <3> QED BY <2>3, <2>4
  <2>6. X \subseteq G[i]
    <3>1. CASE Sinks(t, c, i)
      <4>1. SmallerChild(t, i) \in Place
        BY <1>1, <3>1
      <4>2. \A j \in G[SmallerChild(t, i)] : j \in G[i]
        BY <3>1, <4>1
      <4> QED BY <2>1, <3>1, <4>2
    <3>2. CASE ~Sinks(t, c, i)
      BY <2>1, <3>2
    <3> QED BY <3>1, <3>2
  <2> QED BY <2>5, <2>6
<1>3. IsWay(G, t, c)
  <2>1. G = [i \in Place |-> G[i]]
    OBVIOUS
  <2> HIDE DEF G
  <2> QED BY <1>2, <2>1 DEF IsWay
<1> QED BY <1>3

(* A way goes from its first place down to one where the colour stays.     *)
IsPath(w, t, c, i) ==
    /\ i \in w[i]
    /\ \A j \in w[i] : j \in i .. NumColors
    /\ \A j \in w[i] \ {i} :
         /\ j \div 2 \in w[i] /\ Sinks(t, c, j \div 2) /\ SmallerChild(t, j \div 2) = j
    /\ \A j \in w[i] : Sinks(t, c, j) => SmallerChild(t, j) \in w[i]
    /\ \E e \in w[i] : \A j \in w[i] : Sinks(t, c, j) <=> j # e

LEMMA WayIsPath ==
  ASSUME NEW t \in TableType, NEW c \in Color, NEW w, IsWay(w, t, c), NEW place \in 1 .. NumColors
  PROVE  IsPath(w, t, c, place)
<1> DEFINE Deep == {k \in Nat : \A i \in 1 .. NumColors : i > NumColors - k => IsPath(w, t, c, i)}
<1>1. 0 \in Deep
  BY ColorAssumption
<1>2. ASSUME NEW k \in Nat, k \in Deep PROVE k + 1 \in Deep
  <2> SUFFICES ASSUME NEW i \in 1 .. NumColors, i > NumColors - (k + 1) PROVE IsPath(w, t, c, i)
    OBVIOUS
  <2>1. w[i] = {i} \cup (IF Sinks(t, c, i) THEN w[SmallerChild(t, i)] ELSE {})
    BY DEF IsWay
  <2>2. CASE Sinks(t, c, i)
    <3> DEFINE m == SmallerChild(t, i)
    <3>1. m \in 1 .. NumColors /\ m > i /\ m \div 2 = i
      BY <2>2, ChildFacts
    <3>2. IsPath(w, t, c, m)
      BY <1>2, <3>1, ColorAssumption
    <3>3. w[i] = {i} \cup w[m]
      BY <2>1, <2>2
    <3>9. SmallerChild(t, i) = m
      OBVIOUS
    <3> HIDE DEF m
    <3>4. \A j \in w[i] : j \in i .. NumColors /\ (j \in w[m] => j # i)
      BY <3>1, <3>2, <3>3 DEF IsPath
    <3>5. \A j \in w[i] \ {i} :
            /\ j \div 2 \in w[i] /\ Sinks(t, c, j \div 2) /\ SmallerChild(t, j \div 2) = j
      BY <2>2, <3>1, <3>2, <3>3, <3>9 DEF IsPath
    <3>6. \A j \in w[i] : Sinks(t, c, j) => SmallerChild(t, j) \in w[i]
      BY <3>1, <3>2, <3>3, <3>9 DEF IsPath
    <3>7. \E e \in w[i] : \A j \in w[i] : Sinks(t, c, j) <=> j # e
      BY <2>2, <3>2, <3>3, <3>4 DEF IsPath
    <3> QED BY <3>3, <3>4, <3>5, <3>6, <3>7 DEF IsPath
  <2>3. CASE ~Sinks(t, c, i)
    BY <2>1, <2>3 DEF IsPath
  <2> QED BY <2>2, <2>3
<1>3. NumColors \in Deep
  <2> HIDE DEF Deep
  <2> QED BY <1>1, <1>2, SetInduction, ColorAssumption
<1> QED BY <1>3, ColorAssumption

(* SmallerChild is a child whose count is not above that of the other.     *)
LEMMA SmallerChildIs ==
  ASSUME NEW t \in TableType, NEW h \in 1 .. NumColors, NEW i \in 1 .. NumColors,
         i = 2 * h \/ i = 2 * h + 1
  PROVE  /\ SmallerChild(t, h) \in 1 .. NumColors
         /\ t.count[t.list[SmallerChild(t, h)]] <= t.count[t.list[i]]
<1> DEFINE f(j) == t.count[t.list[j]]
<1>1. \A j \in 1 .. NumColors : f(j) \in Nat
  BY DEF TableType
<1>2. /\ SmallerChild(t, h) = IF 2 * h < NumColors /\ f(2 * h + 1) < f(2 * h) THEN 2 * h + 1 ELSE 2 * h
      /\ h \in Int /\ NumColors \in Int
  BY ColorAssumption DEF SmallerChild
<1>3. 2 * h \in 1 .. NumColors /\ (2 * h < NumColors => 2 * h + 1 \in 1 .. NumColors)
  BY <1>2
<1> HIDE DEF f
<1>4. SmallerChild(t, h) \in 1 .. NumColors /\ f(SmallerChild(t, h)) <= f(i)
  <2>1. CASE 2 * h < NumColors /\ f(2 * h + 1) < f(2 * h)
    BY <1>1, <1>2, <1>3, <2>1
  <2>2. CASE ~(2 * h < NumColors /\ f(2 * h + 1) < f(2 * h))
    <3>1. SmallerChild(t, h) = 2 * h
      BY <1>2, <2>2
    <3>2. CASE i = 2 * h
      BY <1>1, <1>3, <3>1, <3>2
    <3>3. CASE i = 2 * h + 1
      BY <1>1, <1>2, <1>3, <2>2, <3>1, <3>3
    <3> QED BY <3>2, <3>3
  <2> QED BY <2>1, <2>2
<1> QED BY <1>4 DEF f

LEMMA OrderFields ==
  ASSUME NEW L, NEW I, NEW C, NEW t \in [list: L, index: I, count: C],
         NEW list \in L, NEW index \in I
  PROVE  /\ [t EXCEPT !.list = list, !.index = index] \in [list: L, index: I, count: C]
         /\ [t EXCEPT !.list = list, !.index = index].list = list
         /\ [t EXCEPT !.list = list, !.index = index].index = index
         /\ [t EXCEPT !.list = list, !.index = index].count = t.count
OBVIOUS

LEMMA CountKeepsHeap ==
  ASSUME NEW tab, HeapTable(tab), NEW c \in Color
  PROVE  HeapTable(change_color_count(tab, c))
<1> DEFINE t == [tab EXCEPT !.count[c] = @ + 1]
           w == CHOOSE f : f = [i \in 1 .. NumColors |->
                  {i} \cup (IF Sinks(t, c, i) THEN f[SmallerChild(t, i)] ELSE {})]
           hole == w[t.index[c]]
           list == [i \in 1 .. NumColors |->
                      IF i \notin hole THEN t.list[i]
                      ELSE IF Sinks(t, c, i) THEN t.list[SmallerChild(t, i)] ELSE c]
           index == [d \in Color |-> IF \E i \in hole : list[i] = d
                                       THEN CHOOSE i \in hole : list[i] = d ELSE t.index[d]]
           new == [t EXCEPT !.list = list, !.index = index]
<1>1. change_color_count(tab, c) = new
  BY DEF change_color_count
<1>2. /\ t \in TableType
      /\ t.list = tab.list /\ t.index = tab.index /\ t.count = [tab.count EXCEPT ![c] = @ + 1]
  <2>1. tab \in TableType
    BY DEF HeapTable
  <2> DEFINE L == [1 .. NumColors -> Color]
             I == [Color -> 1 .. NumColors]
  <2>2. tab \in [list: L, index: I, count: [Color -> Nat]]
    BY <2>1 DEF TableType
  <2> HIDE DEF L, I
  <2>3. t \in [list: L, index: I, count: [Color -> Nat]]
    BY <2>2
  <2>4. t.list = tab.list
    BY <2>2
  <2>5. t.index = tab.index
    BY <2>2
  <2>6. t.count = [tab.count EXCEPT ![c] = @ + 1]
    BY <2>2
  <2> HIDE DEF t
  <2> QED BY <2>3, <2>4, <2>5, <2>6 DEF TableType, L, I
<1> HIDE DEF t
<1>3. /\ t \in TableType
      /\ \A d \in Color : t.list[t.index[d]] = d
      /\ \A i \in 1 .. NumColors : t.index[t.list[i]] = i
  BY <1>2 DEF HeapTable
<1>4. \A i \in 2 .. NumColors :
        /\ t.list[i] # c /\ t.list[i \div 2] # c => t.count[t.list[i \div 2]] <= t.count[t.list[i]]
        /\ t.list[i] = c => t.count[t.list[i \div 2]] <= t.count[c] - 1
        /\ t.list[i \div 2] = c => t.count[c] - 1 <= t.count[t.list[i]]
  <2>1. /\ t.list = tab.list /\ t.count[c] = tab.count[c] + 1
        /\ \A d \in Color \ {c} : t.count[d] = tab.count[d]
    BY <1>2 DEF HeapTable, TableType
  <2>2. tab.count \in [Color -> Nat] /\ tab.list \in [1 .. NumColors -> Color]
    BY DEF HeapTable, TableType
  <2> SUFFICES ASSUME NEW i \in 2 .. NumColors
               PROVE  /\ t.list[i] # c /\ t.list[i \div 2] # c
                           => t.count[t.list[i \div 2]] <= t.count[t.list[i]]
                      /\ t.list[i] = c => t.count[t.list[i \div 2]] <= t.count[c] - 1
                      /\ t.list[i \div 2] = c => t.count[c] - 1 <= t.count[t.list[i]]
    OBVIOUS
  <2> DEFINE h == i \div 2
  <2>3. h \in 1 .. NumColors /\ h # i /\ i \in 1 .. NumColors
    BY ColorAssumption
  <2>4. tab.count[tab.list[h]] <= tab.count[tab.list[i]]
    BY DEF HeapTable
  <2>5. t.list[i] # t.list[h]
    BY <1>3, <2>3
  <2> HIDE DEF h
  <2>6. tab.list[h] \in Color /\ tab.list[i] \in Color
    BY <2>2, <2>3
  <2>7. /\ t.list[i] # c /\ t.list[h] # c => t.count[t.list[h]] <= t.count[t.list[i]]
        /\ t.list[i] = c => t.count[t.list[h]] <= t.count[c] - 1
        /\ t.list[h] = c => t.count[c] - 1 <= t.count[t.list[i]]
    BY <2>1, <2>2, <2>4, <2>5, <2>6
  <2> QED BY <2>7 DEF h
<1>5. IsWay(w, t, c)
  <2>1. \E f : IsWay(f, t, c)
    BY <1>3, WayExists
  <2> QED BY <2>1, Zenon DEF IsWay
<1> DEFINE top == t.index[c]
<1>6. top \in 1 .. NumColors /\ t.list[top] = c
  BY <1>3 DEF TableType
<1>7. IsPath(w, t, c, top)
  BY <1>3, <1>5, <1>6, WayIsPath
<1>8. /\ top \in hole /\ \A j \in hole : j \in top .. NumColors
      /\ \A j \in hole \ {top} :
           /\ j \div 2 \in hole /\ Sinks(t, c, j \div 2) /\ SmallerChild(t, j \div 2) = j
      /\ \A j \in hole : Sinks(t, c, j) => SmallerChild(t, j) \in hole
      /\ \E e \in hole : \A j \in hole : Sinks(t, c, j) <=> j # e
  BY <1>7 DEF IsPath
<1> HIDE DEF w, hole, top
<1>9. /\ hole \subseteq 1 .. NumColors
      /\ \A j \in hole : Sinks(t, c, j) =>
           /\ SmallerChild(t, j) \in hole /\ SmallerChild(t, j) > j
           /\ SmallerChild(t, j) # top /\ SmallerChild(t, j) \div 2 = j
  <2>1. hole \subseteq 1 .. NumColors
    BY <1>6, <1>8
  <2>2. ASSUME NEW j \in hole, Sinks(t, c, j)
        PROVE  /\ SmallerChild(t, j) \in hole /\ SmallerChild(t, j) > j
               /\ SmallerChild(t, j) # top /\ SmallerChild(t, j) \div 2 = j
    <3>1. j \in 1 .. NumColors /\ top \in Int /\ j >= top
      BY <1>6, <1>8, <2>1
    <3>2. SmallerChild(t, j) > j /\ SmallerChild(t, j) \div 2 = j /\ SmallerChild(t, j) \in 1 .. NumColors
      BY <1>3, <2>2, <3>1, ChildFacts
    <3>3. SmallerChild(t, j) \in hole
      BY <1>8, <2>2
    <3> QED BY <3>1, <3>2, <3>3
  <2> QED BY <2>1, <2>2
<1>10. /\ list \in [1 .. NumColors -> Color]
       /\ \A i \in (1 .. NumColors) \ hole : list[i] = t.list[i]
       /\ \A i \in hole : list[i] = IF Sinks(t, c, i) THEN t.list[SmallerChild(t, i)] ELSE c
  BY <1>3, <1>9 DEF TableType
<1> HIDE DEF list
(* The list is one to one, and it is an order of the same colours.         *)
<1>11. \A i, j \in hole : list[i] = list[j] => i = j
  <2> SUFFICES ASSUME NEW i \in hole, NEW j \in hole, list[i] = list[j] PROVE i = j
    OBVIOUS
  <2>1. CASE Sinks(t, c, i) /\ Sinks(t, c, j)
    <3>1. SmallerChild(t, i) = SmallerChild(t, j)
      <4>1. SmallerChild(t, i) \in 1 .. NumColors /\ SmallerChild(t, j) \in 1 .. NumColors
        BY <1>9, <2>1
      <4>2. t.list[SmallerChild(t, i)] = t.list[SmallerChild(t, j)]
        BY <1>10, <2>1
      <4> QED BY <1>3, <4>1, <4>2
    <3> QED BY <1>9, <2>1, <3>1
  <2>2. CASE ~Sinks(t, c, i) /\ ~Sinks(t, c, j)
    BY <1>8, <2>2
  <2>3. ASSUME NEW x \in hole, Sinks(t, c, x) PROVE list[x] # c
    <3>1. SmallerChild(t, x) \in 1 .. NumColors /\ SmallerChild(t, x) # top
      BY <1>9, <2>3
    <3>2. t.index[t.list[SmallerChild(t, x)]] # t.index[c]
      BY <1>3, <3>1 DEF top
    <3> QED BY <1>10, <2>3, <3>2
  <2> QED BY <1>10, <2>1, <2>2, <2>3
<1>12. \A i \in (1 .. NumColors) \ hole : \A j \in hole : list[i] # list[j]
  <2> SUFFICES ASSUME NEW i \in (1 .. NumColors) \ hole, NEW j \in hole, list[i] = list[j] PROVE FALSE
    OBVIOUS
  <2>1. list[i] = t.list[i] /\ t.index[list[i]] = i
    BY <1>3, <1>10
  <2>2. CASE Sinks(t, c, j)
    <3>1. SmallerChild(t, j) \in hole /\ SmallerChild(t, j) \in 1 .. NumColors
      BY <1>9, <2>2
    <3>2. t.index[list[j]] = SmallerChild(t, j)
      BY <1>3, <1>10, <2>2, <3>1
    <3> QED BY <2>1, <3>1, <3>2
  <2>3. CASE ~Sinks(t, c, j)
    <3>1. i = top
      BY <1>10, <2>1, <2>3 DEF top
    <3> QED BY <1>8, <3>1
  <2> QED BY <2>2, <2>3
<1>13. \A d \in Color : t.index[d] \in hole => \E i \in hole : list[i] = d
  <2> SUFFICES ASSUME NEW d \in Color, t.index[d] \in hole PROVE \E i \in hole : list[i] = d
    OBVIOUS
  <2> DEFINE j == t.index[d]
  <2>1. t.list[j] = d
    BY <1>3
  <2>2. CASE j = top
    <3>1. d = c
      BY <1>3, <2>1, <2>2, <1>6
    <3> QED BY <1>8, <1>10, <3>1
  <2>3. CASE j # top
    <3>1. j \in hole \ {top}
      BY <2>3
    <3>2. j \div 2 \in hole /\ Sinks(t, c, j \div 2) /\ SmallerChild(t, j \div 2) = j
      BY <1>8, <3>1
    <3> QED BY <1>10, <2>1, <3>2
  <2> QED BY <2>2, <2>3
<1>14. ASSUME NEW d \in Color
       PROVE  index[d] \in 1 .. NumColors /\ list[index[d]] = d
  <2>1. CASE \E i \in hole : list[i] = d
    <3>1. index[d] = CHOOSE i \in hole : list[i] = d
      BY <2>1
    <3>2. index[d] \in hole /\ list[index[d]] = d
      BY <2>1, <3>1
    <3> QED BY <1>9, <3>2
  <2>2. CASE ~\E i \in hole : list[i] = d
    <3>1. index[d] = t.index[d]
      BY <2>2
    <3>2. t.index[d] \in (1 .. NumColors) \ hole
      BY <1>3, <1>13, <2>2 DEF TableType
    <3> QED BY <1>3, <1>10, <3>1, <3>2
  <2> QED BY <2>1, <2>2
<1>15. index \in [Color -> 1 .. NumColors]
  BY <1>14
<1> HIDE DEF index
<1>16. \A i, j \in 1 .. NumColors : list[i] = list[j] => i = j
  <2>1. \A i, j \in (1 .. NumColors) \ hole : list[i] = list[j] => i = j
    BY <1>3, <1>10
  <2> QED BY <1>11, <1>12, <2>1
<1>17. \A i \in 1 .. NumColors : index[list[i]] = i
  BY <1>10, <1>14, <1>16
(* The list is a heap.                                                     *)
<1>18. ASSUME NEW i \in 2 .. NumColors
       PROVE  t.count[list[i \div 2]] <= t.count[list[i]]
  <2> DEFINE h == i \div 2
  <2>1. h \in 1 .. NumColors /\ i \in 1 .. NumColors /\ i \in Int /\ h \in Int /\ h < i
    BY ColorAssumption
  <2>2. t.count \in [Color -> Nat] /\ t.list \in [1 .. NumColors -> Color]
    BY <1>3 DEF TableType
  <2>3. \A j \in 1 .. NumColors : t.list[j] = c => j = top
    BY <1>3, <1>6
  <2>4. i = 2 * h \/ i = 2 * h + 1
    BY <2>1
  <2>9. /\ SmallerChild(t, h) \in 1 .. NumColors
        /\ t.count[t.list[SmallerChild(t, h)]] <= t.count[t.list[i]]
        /\ SmallerChild(t, h) = i \/ ~(i \in hole /\ h \in hole)
    <3>1. /\ 2 * h <= NumColors /\ t.list[2 * h] \in Color
          /\ 2 * h < NumColors => 2 * h + 1 \in 1 .. NumColors /\ t.list[2 * h + 1] \in Color
      BY <2>1, <2>2, <2>4, ColorAssumption
    <3>2. i \in hole /\ h \in hole => i # top
      BY <1>6, <1>8, <2>1
    <3>3. i \in hole /\ h \in hole => SmallerChild(t, h) = i
      BY <1>8, <3>2
    <3>4. /\ SmallerChild(t, h) \in 1 .. NumColors
          /\ t.count[t.list[SmallerChild(t, h)]] <= t.count[t.list[i]]
      BY <1>3, <2>1, <2>4, SmallerChildIs
    <3> QED BY <3>3, <3>4
  <2>10. t.list[h] \in Color /\ t.list[i] \in Color /\ c \in Color
    BY <2>1, <2>2
  <2>11. /\ t.list[i] # c /\ t.list[h] # c => t.count[t.list[h]] <= t.count[t.list[i]]
         /\ t.list[i] = c => t.count[t.list[h]] <= t.count[c] - 1
    BY <1>4
  <2>5. CASE h \notin hole /\ i \notin hole
    <3>1. list[h] = t.list[h] /\ list[i] = t.list[i] /\ t.list[h] # c /\ t.list[i] # c
      BY <1>8, <1>10, <2>1, <2>3, <2>5
    <3> QED BY <2>11, <3>1
  <2>6. CASE h \notin hole /\ i \in hole
    <3>1. i = top
      BY <1>8, <2>6
    <3>2. t.count[t.list[h]] <= t.count[c] - 1 /\ list[h] = t.list[h]
      BY <1>6, <1>10, <2>1, <2>6, <2>11, <3>1
    <3>3. CASE ~Sinks(t, c, i)
      BY <1>10, <2>2, <2>6, <2>10, <3>2, <3>3
    <3>4. CASE Sinks(t, c, i)
      <4> DEFINE k == SmallerChild(t, i)
      <4>1. k \in 2 .. NumColors /\ k \div 2 = i /\ list[i] = t.list[k]
        <5>1. k \in 1 .. NumColors /\ k > i /\ k \div 2 = i /\ list[i] = t.list[k]
          BY <1>9, <1>10, <2>6, <3>4
        <5> HIDE DEF k
        <5> QED BY <2>1, <5>1
      <4>2. t.count[c] - 1 <= t.count[t.list[k]] /\ t.list[k] \in Color
        <5> HIDE DEF k
        <5>1. t.list[k \div 2] = c
          BY <1>6, <3>1, <4>1
        <5>2. t.count[c] - 1 <= t.count[t.list[k]]
          BY <1>4, <4>1, <5>1
        <5>3. k \in 1 .. NumColors
          BY <4>1
        <5> QED BY <2>2, <5>2, <5>3
      <4> QED BY <2>2, <2>10, <3>2, <4>1, <4>2
    <3> QED BY <3>3, <3>4
  <2>7. CASE h \in hole /\ ~Sinks(t, c, h)
    <3>1. i \notin hole
      <4>1. i # top
        BY <1>6, <1>8, <2>1, <2>7
      <4> QED BY <1>8, <2>7, <4>1
    <3>2. list[h] = c /\ list[i] = t.list[i]
      BY <1>10, <2>1, <2>7, <3>1
    <3>3. ~(t.count[t.list[SmallerChild(t, h)]] < t.count[c])
      <4>1. 2 * h <= NumColors
        BY <2>1, <2>4, ColorAssumption
      <4> QED BY <2>7, <4>1 DEF Sinks
    <3>4. t.list[SmallerChild(t, h)] \in Color
      BY <2>2, <2>9
    <3> QED BY <2>2, <2>9, <2>10, <3>2, <3>3, <3>4
  <2>8. CASE h \in hole /\ Sinks(t, c, h)
    <3>1. list[h] = t.list[SmallerChild(t, h)]
      BY <1>10, <2>8
    <3>2. CASE i \notin hole
      BY <1>10, <2>1, <2>9, <3>1, <3>2
    <3>3. CASE i \in hole /\ ~Sinks(t, c, i)
      <4>1. list[i] = c /\ list[h] = t.list[i] /\ t.count[t.list[i]] < t.count[c]
        BY <1>10, <2>8, <2>9, <3>1, <3>3 DEF Sinks
      <4> QED BY <2>2, <2>10, <4>1
    <3>4. CASE i \in hole /\ Sinks(t, c, i)
      <4> DEFINE k == SmallerChild(t, i)
      <4>1. k \in 2 .. NumColors /\ k \div 2 = i /\ k # top /\ list[i] = t.list[k]
        <5>1. k \in 1 .. NumColors /\ k > i /\ k \div 2 = i /\ k # top /\ list[i] = t.list[k]
          BY <1>9, <1>10, <3>4
        <5> HIDE DEF k
        <5> QED BY <2>1, <5>1
      <4>2. list[h] = t.list[i] /\ i # top
        BY <1>6, <1>8, <2>1, <2>8, <2>9, <3>1, <3>4
      <4>3. t.list[i] # c /\ t.list[k] # c
        BY <2>1, <2>3, <4>1, <4>2
      <4> HIDE DEF k
      <4> QED BY <1>4, <4>1, <4>2, <4>3
    <3> QED BY <3>2, <3>3, <3>4
  <2> QED BY <2>5, <2>6, <2>7, <2>8
<1>20. new \in TableType /\ new.list = list /\ new.index = index /\ new.count = t.count
  BY <1>3, <1>10, <1>15, OrderFields DEF TableType
<1> HIDE DEF new
<1> QED BY <1>1, <1>14, <1>17, <1>18, <1>20 DEF HeapTable

-----------------------------------------------------------------------------
(* Types, the shape of the argument of a call at each of its places, and   *)
(* who holds the mutex.                                                    *)
Slot == Page \cup {NoNode}
CallPlace == {"idle", "create", "fetch", "free", "scan", "kern", "got", "insert"}
CreateArg == [op: {"PSRC_NULL", "PSRC_ANON", "PSRC_KERN"}, shared: BOOLEAN, id: Id]
FileArg == [op: {"PSRC_INODE"}, key: InodePage, shared: BOOLEAN]
AnonArg == [op: {"PSRC_ANON"}, id: Id]
FreeArg == [op: {"free"}, id: Id]
Arg == CreateArg \cup FileArg \cup AnonArg \cup FreeArg \cup {[op |-> "none"]}
Entry == [id: Id, page: Slot]

ArgFits(x, a) ==
    /\ x = "create" => a \in CreateArg
    /\ x = "fetch" => a \in FileArg \cup AnonArg
    /\ x \in {"free", "insert"} => a \in FreeArg
    /\ x = "kern" => a \in CreateArg
    /\ x \in {"scan", "got"} => a \in CreateArg \cup FileArg

Holding == {"scan", "kern", "got"}

ListsOK ==
    /\ boot \subseteq Pool /\ links \in Link
    /\ free_pages \in [Color -> Slot] /\ page_count \in [Color -> Nat]

CtOK == ct \in [Table -> TableType] /\ \A t \in Table : HeapTable(ct[t])

TablesOK ==
    /\ anon \in Seq(Entry) /\ cached \in Seq(Slot) /\ inode_page \in [Page -> InodePage]
    /\ given \in [Id -> Nat] /\ short \in BOOLEAN /\ copies \subseteq Slot /\ copied \subseteq Id

CallsOK ==
    /\ owner \in Proc \cup {Nobody}
    /\ pc \in [Proc -> CallPlace] /\ arg \in [Proc -> Arg]
    /\ \A p \in Proc : ArgFits(pc[p], arg[p]) /\ (pc[p] \in Holding => owner = p)

LocalsOK == at \in [Proc -> 1 .. NumColors + 1] /\ hand \in [Proc -> Slot] /\ stocked \in [Proc -> BOOLEAN]

TypeInv == ListsOK /\ CtOK /\ TablesOK /\ CallsOK /\ LocalsOK

LEMMA SlotFacts ==
  /\ Slot \subseteq Int /\ Page \subseteq Slot /\ NoNode \in Slot /\ PageZero \in Slot
  /\ \A n \in Slot : page_color(n) \in Color
<1>1. Slot \subseteq Int
  BY PoolAssumption DEF Slot, Page, PageZero, NoNode
<1> QED BY <1>1, PageColor DEF Slot, Page

LEMMA ArgShapes ==
  /\ \A a \in CreateArg : /\ "id" \in DOMAIN a /\ "key" \notin DOMAIN a /\ a.id \in Id
                          /\ a.op # "PSRC_INODE" /\ a.shared \in BOOLEAN
  /\ \A a \in FileArg : /\ "id" \notin DOMAIN a /\ "key" \in DOMAIN a /\ a.key \in InodePage
                        /\ a.op = "PSRC_INODE" /\ a.shared \in BOOLEAN
  /\ \A a \in AnonArg : a.op = "PSRC_ANON" /\ a.id \in Id
  /\ \A a \in FreeArg : a.id \in Id
  /\ \A a \in CreateArg, id \in Id : [a EXCEPT !.id = id] \in CreateArg /\ [a EXCEPT !.id = id].id = id
<1>1. \A a \in CreateArg : /\ "id" \in DOMAIN a /\ "key" \notin DOMAIN a /\ a.id \in Id
                           /\ a.op # "PSRC_INODE" /\ a.shared \in BOOLEAN
  BY DEF CreateArg
<1>2. \A a \in FileArg : /\ "id" \notin DOMAIN a /\ "key" \in DOMAIN a /\ a.key \in InodePage
                         /\ a.op = "PSRC_INODE" /\ a.shared \in BOOLEAN
  BY DEF FileArg
<1>3. \A a \in AnonArg : a.op = "PSRC_ANON" /\ a.id \in Id
  BY DEF AnonArg
<1>4. \A a \in FreeArg : a.id \in Id
  BY DEF FreeArg
<1>5. \A a \in CreateArg, id \in Id : [a EXCEPT !.id = id] \in CreateArg /\ [a EXCEPT !.id = id].id = id
  BY DEF CreateArg
<1> QED BY <1>1, <1>2, <1>3, <1>4, <1>5

LEMMA CountOK ==
  ASSUME CtOK, NEW tabs, NEW c \in Color, Count(tabs, c)
  PROVE  CtOK'
<1>1. \A t \in Table : HeapTable(change_color_count(ct[t], c)) /\ change_color_count(ct[t], c) \in TableType
  BY CountKeepsHeap DEF CtOK, HeapTable
<1>2. \A t \in Table : ct'[t] = change_color_count(ct[t], c) \/ ct'[t] = ct[t]
  BY DEF Count
<1>3. ct' = [t \in Table |-> ct'[t]]
  BY DEF Count
<1> HIDE DEF HeapTable
<1>4. \A t \in Table : HeapTable(ct'[t]) /\ ct'[t] \in TableType
  BY <1>1, <1>2 DEF CtOK
<1> QED BY <1>3, <1>4 DEF CtOK

(* The links have their type whatever node is inserted or deleted.         *)
LEMMA LinkTypes ==
  ASSUME NEW l \in Link, NEW h \in Slot, NEW n \in Slot
  PROVE  /\ ClistInsert(l, h, n) \in Link
         /\ ClistDelete(l, h).links \in Link /\ ClistDelete(l, h).list \in Slot
<1>1. h # NoNode => l.next[h] \in Slot /\ l.last[h] \in Slot
  BY DEF Slot, Link
<1>2. ClistInsert(l, h, n) \in Link
  <2>1. CASE h = NoNode
    BY <2>1 DEF ClistInsert, Link, Slot
  <2>2. CASE h # NoNode
    BY <1>1, <2>2 DEF ClistInsert, Link, Slot
  <2> QED BY <2>1, <2>2
<1>3. ClistDelete(l, h).links \in Link /\ ClistDelete(l, h).list \in Slot
  <2>1. CASE h = NoNode \/ l.next[h] = h
    BY <2>1 DEF ClistDelete, Slot
  <2>2. CASE ~(h = NoNode \/ l.next[h] = h)
    <3> DEFINE cut == [l EXCEPT !.next[l.last[h]] = l.next[h]]
    <3>1. cut \in Link
      BY <1>1, <2>2 DEF Link, Slot
    <3>2. ClistDelete(l, h) = [links |-> [cut EXCEPT !.last[l.next[h]] = l.last[h]], list |-> cut.next[h]]
      BY <2>2 DEF ClistDelete
    <3> HIDE DEF cut
    <3>3. cut.next[h] \in Slot /\ [cut EXCEPT !.last[l.next[h]] = l.last[h]] \in Link
      BY <1>1, <2>2, <3>1 DEF Link, Slot
    <3> QED BY <3>2, <3>3
  <2> QED BY <2>1, <2>2
<1> QED BY <1>2, <1>3

(* One call moves on, and the others stay where they are.                  *)
LEMMA CallMoves ==
  ASSUME CallsOK, NEW p \in Proc, NEW x \in CallPlace, NEW a \in Arg, ArgFits(x, a),
         pc' = [pc EXCEPT ![p] = x], arg' = [arg EXCEPT ![p] = a],
         owner' \in Proc \cup {Nobody}, x \in Holding => owner' = p,
         owner' = owner \/ owner = Nobody \/ pc[p] \in Holding
  PROVE  CallsOK'
<1>1. pc' \in [Proc -> CallPlace] /\ arg' \in [Proc -> Arg]
  BY DEF CallsOK
<1>2. ASSUME NEW q \in Proc PROVE ArgFits(pc'[q], arg'[q]) /\ (pc'[q] \in Holding => owner' = q)
  <2>1. CASE q = p
    BY <2>1 DEF CallsOK
  <2>2. CASE q # p
    <3>1. pc'[q] = pc[q] /\ arg'[q] = arg[q]
      BY <2>2 DEF CallsOK
    <3>2. ArgFits(pc[q], arg[q]) /\ (pc[q] \in Holding => owner = q)
      BY DEF CallsOK
    <3>3. pc[p] \in Holding => owner = p
      BY DEF CallsOK
    <3> QED BY <2>2, <3>1, <3>2, <3>3, NobodyAssumption
  <2> QED BY <2>1, <2>2
<1> QED BY <1>1, <1>2 DEF CallsOK

LEMMA ReturnOK ==
  ASSUME CallsOK, LocalsOK, NEW p \in Proc, Return(p),
         owner' \in Proc \cup {Nobody}, owner' = owner \/ owner = Nobody \/ pc[p] \in Holding
  PROVE  CallsOK' /\ LocalsOK'
<1> DEFINE none == [op |-> "none"]
<1>1. none \in Arg /\ "idle" \in CallPlace /\ ArgFits("idle", none) /\ "idle" \notin Holding
  BY DEF Arg, CallPlace, ArgFits, Holding
<1>2. pc' = [pc EXCEPT ![p] = "idle"] /\ arg' = [arg EXCEPT ![p] = none]
  BY DEF Return, Goto
<1>3. CallsOK'
  <2> HIDE DEF none
  <2> QED BY <1>1, <1>2, CallMoves
<1>4. LocalsOK'
  BY ColorAssumption, SlotFacts DEF Return, LocalsOK
<1> QED BY <1>3, <1>4

(* A call goes on with the argument that it has.                           *)
LEMMA GotoOK ==
  ASSUME CallsOK, NEW p \in Proc, NEW x \in CallPlace, ArgFits(x, arg[p]),
         Goto(p, x), UNCHANGED arg,
         owner' \in Proc \cup {Nobody}, x \in Holding => owner' = p,
         owner' = owner \/ owner = Nobody \/ pc[p] \in Holding
  PROVE  CallsOK'
<1>1. arg[p] \in Arg /\ arg' = [arg EXCEPT ![p] = arg[p]] /\ pc' = [pc EXCEPT ![p] = x]
  BY DEF CallsOK, Goto
<1> QED BY <1>1, CallMoves

LEMMA SearchOK ==
  ASSUME LocalsOK, NEW p \in Proc, Search(p), UNCHANGED hand
  PROVE  LocalsOK'
BY ColorAssumption DEF Search, LocalsOK

LEMMA InsertOK ==
  ASSUME ListsOK, NEW n \in Slot, phys_page_insert(n), boot' \subseteq Pool
  PROVE  ListsOK'
<1>1. page_color(n) \in Color
  BY SlotFacts
<1> DEFINE c == page_color(n)
<1>2. c \in Color /\ free_pages[c] \in Slot
  BY <1>1 DEF ListsOK
<1>3. /\ links' = ClistInsert(links, free_pages[c], n)
      /\ free_pages' = [free_pages EXCEPT ![c] = n]
      /\ page_count' = [page_count EXCEPT ![c] = @ + 1]
  BY DEF phys_page_insert
<1> HIDE DEF c
<1>4. links' \in Link
  BY <1>2, <1>3, LinkTypes DEF ListsOK
<1>5. free_pages' \in [Color -> Slot]
  BY <1>3 DEF ListsOK
<1>6. page_count' \in [Color -> Nat]
  BY <1>2, <1>3 DEF ListsOK
<1> QED BY <1>4, <1>5, <1>6 DEF ListsOK

LEMMA TakeOK ==
  ASSUME ListsOK, LocalsOK, NEW p \in Proc, NEW c \in Color, TakePage(p, c),
         UNCHANGED <<boot, at, stocked>>
  PROVE  ListsOK' /\ LocalsOK'
<1>1. free_pages[c] \in Slot /\ page_count[c] \in Nat /\ page_count[c] # 0
  BY DEF ListsOK, TakePage
<1>2. /\ links' = ClistDelete(links, free_pages[c]).links
      /\ free_pages' = [free_pages EXCEPT ![c] = ClistDelete(links, free_pages[c]).list]
      /\ page_count' = [page_count EXCEPT ![c] = @ - 1]
      /\ hand' = [hand EXCEPT ![p] = free_pages[c]]
  BY DEF TakePage
<1>3. links' \in Link /\ ClistDelete(links, free_pages[c]).list \in Slot
  BY <1>1, <1>2, LinkTypes DEF ListsOK
<1>4. ListsOK'
  BY <1>1, <1>2, <1>3 DEF ListsOK
<1>5. LocalsOK'
  BY <1>1, <1>2 DEF LocalsOK
<1> QED BY <1>4, <1>5

(* The first entry of a chain that has the key is one of them.             *)
LEMMA LookupFinds ==
  ASSUME TablesOK, NEW id, Entries(id) # {}
  PROVE  /\ anon_page_lookup(id) \in 1 .. Len(anon) /\ DOMAIN anon = 1 .. Len(anon)
         /\ anon[anon_page_lookup(id)].id = id /\ anon[anon_page_lookup(id)] \in Entry
         /\ anon[anon_page_lookup(id)].page \in Slot
<1>1. DOMAIN anon = 1 .. Len(anon) /\ \A i \in 1 .. Len(anon) : anon[i] \in Entry
  BY DEF TablesOK
<1>2. Entries(id) \subseteq Nat
  BY <1>1 DEF Entries
<1>3. \E i \in Entries(id) : \A j \in Entries(id) : i <= j
  BY <1>2, LeastNatural
<1>4. anon_page_lookup(id) \in Entries(id)
  BY <1>3 DEF anon_page_lookup
<1> QED BY <1>1, <1>4 DEF Entries, Entry

-----------------------------------------------------------------------------
(* Each action keeps TypeInv.                                              *)
LEMMA CallType ==
  ASSUME TypeInv, NEW p \in Proc, Call(p)
  PROVE  TypeInv'
<1>1. ASSUME NEW x \in {"create", "fetch", "free"}, NEW a, a \in Arg, ArgFits(x, a), Begin(p, x, a),
             given' \in [Id -> Nat]
      PROVE  TypeInv'
  <2>1. /\ UNCHANGED <<boot, links, free_pages, page_count, ct, owner, anon, cached, inode_page, copies, copied,
                       short, at, hand, stocked>>
        /\ pc' = [pc EXCEPT ![p] = x] /\ arg' = [arg EXCEPT ![p] = a]
    BY <1>1 DEF Begin, lists, tables, Goto
  <2>2. x \in CallPlace /\ x \notin Holding
    BY <1>1 DEF CallPlace, Holding
  <2>3. CallsOK'
    BY <1>1, <2>1, <2>2, CallMoves DEF TypeInv, CallsOK
  <2>4. ListsOK' /\ CtOK' /\ LocalsOK'
    BY <2>1 DEF TypeInv, ListsOK, CtOK, LocalsOK
  <2>5. TablesOK'
    BY <1>1, <2>1 DEF TypeInv, TablesOK
  <2> QED BY <2>3, <2>4, <2>5 DEF TypeInv
<1>2. given \in [Id -> Nat]
  BY DEF TypeInv, TablesOK
<1>3. ASSUME NEW type \in {"PSRC_NULL", "PSRC_ANON", "PSRC_KERN"}, NEW shared \in BOOLEAN, NEW id \in Id,
             anon_page_create(p, type, shared, id)
      PROVE  TypeInv'
  <2> DEFINE a == [op |-> type, shared |-> shared, id |-> id]
  <2>1. a \in CreateArg
    BY DEF CreateArg
  <2>2. Begin(p, "create", a) /\ given' = given
    BY <1>3 DEF anon_page_create
  <2> HIDE DEF a
  <2>3. a \in Arg /\ ArgFits("create", a)
    BY <2>1 DEF Arg, ArgFits
  <2> QED BY <1>1, <1>2, <2>2, <2>3
<1>4. ASSUME NEW k \in InodePage, NEW shared \in BOOLEAN, fetch_inode_page(p, k, shared)
      PROVE  TypeInv'
  <2> DEFINE a == [op |-> "PSRC_INODE", key |-> k, shared |-> shared]
  <2>1. a \in FileArg
    BY DEF FileArg
  <2>2. Begin(p, "fetch", a) /\ given' = given
    BY <1>4 DEF fetch_inode_page
  <2> HIDE DEF a
  <2>3. a \in Arg /\ ArgFits("fetch", a)
    BY <2>1 DEF Arg, ArgFits
  <2> QED BY <1>1, <1>2, <2>2, <2>3
<1>5. ASSUME NEW id \in Id, fetch_anon_page(p, id)
      PROVE  TypeInv'
  <2> DEFINE a == [op |-> "PSRC_ANON", id |-> id]
  <2>1. a \in AnonArg
    BY DEF AnonArg
  <2>2. Begin(p, "fetch", a) /\ given' = given
    BY <1>5 DEF fetch_anon_page
  <2> HIDE DEF a
  <2>3. a \in Arg /\ ArgFits("fetch", a)
    BY <2>1 DEF Arg, ArgFits
  <2> QED BY <1>1, <1>2, <2>2, <2>3
<1>6. ASSUME NEW id \in Id, anon_page_free(p, id)
      PROVE  TypeInv'
  <2> DEFINE a == [op |-> "free", id |-> id]
  <2>1. a \in FreeArg
    BY DEF FreeArg
  <2>2. Begin(p, "free", a) /\ given' = [given EXCEPT ![id] = @ - 1] /\ given[id] > 0
    BY <1>6 DEF anon_page_free
  <2> HIDE DEF a
  <2>3. a \in Arg /\ ArgFits("free", a)
    BY <2>1 DEF Arg, ArgFits
  <2>4. given' \in [Id -> Nat]
    BY <1>2, <2>2
  <2> QED BY <1>1, <2>2, <2>3, <2>4
<1> QED BY <1>3, <1>4, <1>5, <1>6 DEF Call

(* What a step of p finds: the shape of its argument.                      *)
LEMMA StepArg ==
  ASSUME TypeInv, NEW p \in Proc
  PROVE  /\ pc[p] \in CallPlace /\ arg[p] \in Arg /\ hand[p] \in Slot /\ at[p] \in 1 .. NumColors + 1
         /\ page_color(hand[p]) \in Color /\ owner \in Proc \cup {Nobody}
         /\ pc[p] = "create" => arg[p] \in CreateArg
         /\ pc[p] = "fetch" => arg[p] \in FileArg \cup AnonArg
         /\ pc[p] \in {"free", "insert"} => arg[p] \in FreeArg
         /\ pc[p] = "kern" => arg[p] \in CreateArg
         /\ pc[p] \in {"scan", "got"} => arg[p] \in CreateArg \cup FileArg
         /\ pc[p] \in Holding => owner = p
BY SlotFacts DEF TypeInv, CallsOK, LocalsOK, ArgFits

LEMMA CreateType ==
  ASSUME TypeInv, NEW p \in Proc, AnotherId(p) \/ CreateLock(p)
  PROVE  TypeInv'
<1>0. UNCHANGED <<boot, links, free_pages, page_count, ct, anon, cached, inode_page, given, copies, copied, short>>
  BY DEF AnotherId, CreateLock, lists, tables, ghosts
<1>1. ListsOK' /\ CtOK' /\ TablesOK'
  BY <1>0 DEF TypeInv, ListsOK, CtOK, TablesOK
<1>2. pc[p] = "create" /\ arg[p] \in CreateArg /\ arg \in [Proc -> Arg] /\ pc \in [Proc -> CallPlace]
  BY StepArg DEF AnotherId, CreateLock, TypeInv, CallsOK
<1>3. CASE AnotherId(p)
  <2>1. PICK id \in Id : arg' = [arg EXCEPT ![p].id = id]
    BY <1>3 DEF AnotherId
  <2> DEFINE a == [arg[p] EXCEPT !.id = id]
  <2>2. a \in CreateArg /\ arg' = [arg EXCEPT ![p] = a]
    BY <1>2, <2>1, ArgShapes
  <2> HIDE DEF a
  <2>3. a \in Arg /\ ArgFits("create", a) /\ "create" \in CallPlace /\ "create" \notin Holding
    BY <2>2 DEF Arg, ArgFits, CallPlace, Holding
  <2>4. pc' = [pc EXCEPT ![p] = "create"] /\ owner' = owner /\ UNCHANGED <<at, hand, stocked>>
    BY <1>2, <1>3 DEF AnotherId
  <2>5. CallsOK'
    BY <2>2, <2>3, <2>4, CallMoves DEF TypeInv, CallsOK
  <2>6. LocalsOK'
    BY <2>4 DEF TypeInv, LocalsOK
  <2> QED BY <1>1, <2>5, <2>6 DEF TypeInv
<1>4. CASE CreateLock(p)
  <2>1. owner = Nobody /\ owner' = p /\ UNCHANGED <<arg, hand>>
    BY <1>4 DEF CreateLock, mutex_lock
  <2>2. \/ Goto(p, "kern") /\ UNCHANGED <<at, stocked>>
        \/ Search(p)
    BY <1>4 DEF CreateLock
  <2>3. LocalsOK'
    <3>1. CASE UNCHANGED <<at, stocked>>
      BY <2>1, <3>1 DEF TypeInv, LocalsOK
    <3> QED BY <2>1, <2>2, <3>1, SearchOK DEF TypeInv
  <2>4. Goto(p, "kern") \/ Goto(p, "scan")
    BY <2>2 DEF Search
  <2>5. /\ ArgFits("kern", arg[p]) /\ "kern" \in CallPlace
        /\ ArgFits("scan", arg[p]) /\ "scan" \in CallPlace
    BY <1>2 DEF ArgFits, CallPlace
  <2>6. CallsOK'
    BY <2>1, <2>4, <2>5, GotoOK DEF TypeInv
  <2> QED BY <1>1, <2>3, <2>6 DEF TypeInv
<1> QED BY <1>3, <1>4

LEMMA AllocType ==
  ASSUME TypeInv, NEW p \in Proc, phys_page_alloc(p) \/ kern_page_alloc(p)
  PROVE  TypeInv'
<1>0. UNCHANGED <<boot, ct, owner, anon, cached, inode_page, given, copies, copied, arg, stocked>>
  BY DEF phys_page_alloc, kern_page_alloc, tables
<1>1. CtOK'
  BY <1>0 DEF TypeInv, CtOK
<1>2. pc[p] \in Holding /\ owner = p /\ arg[p] \in CreateArg \cup FileArg /\ at[p] \in 1 .. NumColors + 1
  BY StepArg DEF phys_page_alloc, kern_page_alloc, Holding
<1>3. "got" \in CallPlace /\ ArgFits("got", arg[p])
  BY <1>2 DEF CallPlace, ArgFits
<1>4. Goto(p, "got") => CallsOK'
  BY <1>0, <1>2, <1>3, GotoOK DEF TypeInv
<1>5. ASSUME NEW c \in Color, TakePage(p, c), UNCHANGED <<at, short>> PROVE TypeInv'
  <2>1. ListsOK' /\ LocalsOK'
    BY <1>0, <1>5, TakeOK DEF TypeInv
  <2>2. TablesOK'
    BY <1>0, <1>5 DEF TypeInv, TablesOK
  <2> QED BY <1>1, <1>4, <1>5, <2>1, <2>2 DEF TypeInv, TakePage
<1>6. ASSUME NoPage(p), UNCHANGED at PROVE TypeInv'
  <2>1. /\ UNCHANGED <<links, free_pages, page_count>> /\ hand' = [hand EXCEPT ![p] = PageZero]
        /\ short' = TRUE /\ Goto(p, "got")
    BY <1>6 DEF NoPage, lists
  <2>2. ListsOK' /\ TablesOK'
    BY <1>0, <2>1 DEF TypeInv, ListsOK, TablesOK
  <2>3. LocalsOK'
    BY <1>0, <1>6, <2>1, SlotFacts DEF TypeInv, LocalsOK
  <2> QED BY <1>1, <1>4, <2>1, <2>2, <2>3 DEF TypeInv
<1>7. CASE phys_page_alloc(p)
  <2> DEFINE t == IF arg[p].shared THEN "obj" ELSE "spc"
             c == ct[t].list[at[p]]
  <2>1. t \in Table
    BY DEF Table
  <2>2. at[p] <= NumColors => c \in Color
    <3> HIDE DEF t
    <3>1. ct[t] \in TableType
      BY <2>1 DEF TypeInv, CtOK
    <3>2. ct[t].list \in [1 .. NumColors -> Color]
      BY <3>1 DEF TableType
    <3> QED BY <1>2, <3>2, ColorAssumption
  <2>3. \/ NoPage(p) /\ UNCHANGED at
        \/ /\ at[p] <= NumColors
           /\ \/ TakePage(p, c) /\ UNCHANGED <<at, short>>
              \/ at' = [at EXCEPT ![p] = @ + 1] /\ UNCHANGED <<lists, hand, pc, short>>
    BY <1>7 DEF phys_page_alloc
  <2> HIDE DEF t, c
  <2>4. CASE at[p] <= NumColors /\ at' = [at EXCEPT ![p] = @ + 1] /\ UNCHANGED <<lists, hand, pc, short>>
    <3>1. UNCHANGED <<links, free_pages, page_count, hand, pc, short>>
      BY <2>4 DEF lists
    <3>2. ListsOK' /\ TablesOK' /\ CallsOK'
      BY <1>0, <3>1 DEF TypeInv, ListsOK, TablesOK, CallsOK
    <3>3. LocalsOK'
      BY <1>0, <1>2, <2>4, <3>1, ColorAssumption DEF TypeInv, LocalsOK
    <3> QED BY <1>1, <3>2, <3>3 DEF TypeInv
  <2> QED BY <1>5, <1>6, <2>2, <2>3, <2>4
<1>8. CASE kern_page_alloc(p)
  <2> DEFINE c == ct["obj"].list[1]
  <2>1. c \in Color
    <3>1. ct["obj"] \in TableType
      BY DEF TypeInv, CtOK, Table
    <3>2. ct["obj"].list \in [1 .. NumColors -> Color]
      BY <3>1 DEF TableType
    <3> QED BY <3>2, ColorAssumption
  <2>2. UNCHANGED at /\ ((TakePage(p, c) /\ UNCHANGED short) \/ NoPage(p))
    BY <1>8 DEF kern_page_alloc
  <2> HIDE DEF c
  <2> QED BY <1>5, <1>6, <2>1, <2>2
<1> QED BY <1>7, <1>8

LEMMA EndType ==
  ASSUME TypeInv, NEW p \in Proc, CreateEnd(p) \/ FetchEnd(p)
  PROVE  TypeInv'
<1>0. /\ UNCHANGED <<boot, links, free_pages, page_count, short>> /\ Return(p)
      /\ pc[p] = "got" /\ owner' = Nobody
  BY DEF CreateEnd, FetchEnd, lists, ghosts
<1>1. ListsOK'
  BY <1>0 DEF TypeInv, ListsOK
<1>2. CallsOK' /\ LocalsOK'
  BY <1>0, ReturnOK DEF TypeInv, Holding
<1> DEFINE n == hand[p]
<1>3. page_color(n) \in Color /\ n \in Slot /\ arg[p] \in CreateArg \cup FileArg
  BY <1>0, StepArg
<1>4. CASE CreateEnd(p)
  <2>1. arg[p].id \in Id
    BY <1>3, <1>4, ArgShapes DEF CreateEnd
  <2>2. UNCHANGED ct \/ Count({"obj"}, page_color(n))
    BY <1>4 DEF CreateEnd
  <2>3. CtOK'
    <3>1. CASE UNCHANGED ct
      BY <3>1 DEF TypeInv, CtOK
    <3> QED BY <1>3, <2>2, <3>1, CountOK DEF TypeInv
  <2>4. /\ \/ copies' = copies \cup {n} /\ copied' = copied \cup {arg[p].id} /\ UNCHANGED anon
           \/ anon' = hash_table_insert(anon, [id |-> arg[p].id, page |-> n]) /\ UNCHANGED <<copies, copied>>
        /\ given' = [given EXCEPT ![arg[p].id] = @ + 1]
        /\ UNCHANGED <<cached, inode_page>>
    BY <1>4 DEF CreateEnd
  <2>5. anon' \in Seq(Entry)
    <3> DEFINE e == [id |-> arg[p].id, page |-> n]
    <3>1. e \in Entry /\ anon \in Seq(Entry)
      BY <1>3, <2>1 DEF Entry, TypeInv, TablesOK
    <3> HIDE DEF e
    <3>2. hash_table_insert(anon, e) \in Seq(Entry)
      BY <3>1, InsertChain
    <3> QED BY <2>4, <3>1, <3>2 DEF e
  <2>6. given' \in [Id -> Nat] /\ copies' \subseteq Slot /\ copied' \subseteq Id
    BY <1>3, <2>1, <2>4 DEF TypeInv, TablesOK
  <2>7. TablesOK'
    BY <1>0, <2>4, <2>5, <2>6 DEF TypeInv, TablesOK
  <2> QED BY <1>1, <1>2, <2>3, <2>7 DEF TypeInv
<1>5. CASE FetchEnd(p)
  <2>1. arg[p].key \in InodePage
    BY <1>3, <1>5, ArgShapes DEF FetchEnd
  <2>2. /\ Count({"spc", "obj"}, page_color(n)) /\ UNCHANGED <<anon, given, copies, copied, short>>
        /\ inode_page' = [inode_page EXCEPT ![n] = arg[p].key]
        /\ cached' = hash_table_insert(cached, n)
    BY <1>5 DEF FetchEnd, page_cache_insert, ghosts
  <2>3. CtOK'
    BY <1>3, <2>2, CountOK DEF TypeInv
  <2>4. cached' \in Seq(Slot)
    BY <1>3, <2>2, InsertChain DEF TypeInv, TablesOK
  <2>5. inode_page' \in [Page -> InodePage]
    BY <2>1, <2>2 DEF TypeInv, TablesOK
  <2>6. TablesOK'
    BY <2>2, <2>4, <2>5 DEF TypeInv, TablesOK
  <2> QED BY <1>1, <1>2, <2>3, <2>6 DEF TypeInv
<1> QED BY <1>4, <1>5

LEMMA FetchType ==
  ASSUME TypeInv, NEW p \in Proc, FetchHit(p) \/ FetchMiss(p) \/ FetchAnon(p)
  PROVE  TypeInv'
<1>0. /\ UNCHANGED <<boot, links, free_pages, page_count, anon, cached, inode_page, given, copies, copied, short>>
      /\ pc[p] = "fetch" /\ owner = Nobody
  BY DEF FetchHit, FetchMiss, FetchAnon, lists, tables, ghosts, mutex_lock
<1>1. ListsOK' /\ TablesOK'
  BY <1>0 DEF TypeInv, ListsOK, TablesOK
<1>2. arg[p] \in FileArg \cup AnonArg
  BY <1>0, StepArg
<1>3. CASE FetchHit(p)
  <2>1. PICK n \in ToSet(cached) : Count({"spc"}, page_color(n))
    BY <1>3 DEF FetchHit
  <2>2. n \in Slot
    BY DEF TypeInv, TablesOK, ToSet
  <2>3. CtOK'
    BY <2>1, <2>2, SlotFacts, CountOK DEF TypeInv
  <2>4. CallsOK' /\ LocalsOK'
    BY <1>0, <1>3, ReturnOK DEF TypeInv, FetchHit
  <2> QED BY <1>1, <2>3, <2>4 DEF TypeInv
<1>4. CASE FetchMiss(p)
  <2>1. /\ owner' = p /\ Search(p) /\ UNCHANGED <<ct, arg, hand>> /\ Goto(p, "scan")
        /\ arg[p].op = "PSRC_INODE"
    BY <1>4 DEF FetchMiss, mutex_lock, Search
  <2>2. LocalsOK'
    BY <2>1, SearchOK DEF TypeInv
  <2>3. arg[p] \in FileArg
    BY <1>2, <2>1, ArgShapes
  <2>4. "scan" \in CallPlace /\ ArgFits("scan", arg[p])
    BY <2>3 DEF CallPlace, ArgFits
  <2>5. CallsOK'
    BY <1>0, <2>1, <2>4, GotoOK DEF TypeInv
  <2>6. CtOK'
    BY <2>1 DEF TypeInv, CtOK
  <2> QED BY <1>1, <2>2, <2>5, <2>6 DEF TypeInv
<1>5. CASE FetchAnon(p)
  <2>1. CallsOK' /\ LocalsOK'
    BY <1>0, <1>5, ReturnOK DEF TypeInv, FetchAnon
  <2>2. CtOK'
    <3>1. CASE Entries(arg[p].id) = {}
      BY <1>5, <3>1 DEF FetchAnon, TypeInv, CtOK
    <3>2. CASE Entries(arg[p].id) # {}
      <4> DEFINE n == anon[anon_page_lookup(arg[p].id)].page
      <4>1. n \in Slot
        BY <3>2, LookupFinds DEF TypeInv
      <4>2. Count({"spc"}, page_color(n))
        BY <1>5, <3>2 DEF FetchAnon
      <4> HIDE DEF n
      <4> QED BY <4>1, <4>2, SlotFacts, CountOK DEF TypeInv
    <3> QED BY <3>1, <3>2
  <2> QED BY <1>1, <2>1, <2>2 DEF TypeInv
<1> QED BY <1>3, <1>4, <1>5

LEMMA FreeType ==
  ASSUME TypeInv, NEW p \in Proc, FreeEntry(p) \/ FreeUnknown(p) \/ FreePage(p)
  PROVE  TypeInv'
<1>0. UNCHANGED <<boot, ct, cached, inode_page, given, copies, copied, short>>
  BY DEF FreeEntry, FreeUnknown, FreePage, lists, tables, ghosts
<1>1. CtOK'
  BY <1>0 DEF TypeInv, CtOK
<1>2. CASE FreeEntry(p)
  <2> DEFINE i == anon_page_lookup(arg[p].id)
  <2>1. /\ pc[p] = "free" /\ owner' = owner /\ UNCHANGED <<arg, links, free_pages, page_count, at, stocked>>
        /\ hand' = [hand EXCEPT ![p] = anon[i].page] /\ anon' = hash_table_delete(anon, i)
        /\ Goto(p, "insert") /\ Entries(arg[p].id) # {}
    BY <1>2 DEF FreeEntry, lists
  <2>2. i \in 1 .. Len(anon) /\ anon[i].page \in Slot
    BY <2>1, LookupFinds DEF TypeInv
  <2> HIDE DEF i
  <2>3. "insert" \in CallPlace /\ "insert" \notin Holding /\ ArgFits("insert", arg[p])
    BY <2>1, StepArg DEF CallPlace, Holding, ArgFits
  <2>4. CallsOK'
    BY <2>1, <2>3, GotoOK DEF TypeInv, CallsOK
  <2>5. LocalsOK'
    BY <2>1, <2>2 DEF TypeInv, LocalsOK
  <2>6. anon' \in Seq(Entry)
    BY <2>1, <2>2, DeleteChain DEF TypeInv, TablesOK
  <2>7. ListsOK' /\ TablesOK'
    BY <1>0, <2>1, <2>6 DEF TypeInv, ListsOK, TablesOK
  <2> QED BY <1>1, <2>4, <2>5, <2>7 DEF TypeInv
<1>3. CASE FreeUnknown(p)
  <2>1. /\ owner = Nobody /\ owner' = p /\ Return(p) /\ UNCHANGED <<links, free_pages, page_count, anon>>
    BY <1>3 DEF FreeUnknown, mutex_lock, lists, tables
  <2>2. CallsOK' /\ LocalsOK'
    BY <2>1, ReturnOK DEF TypeInv
  <2>3. ListsOK' /\ TablesOK'
    BY <1>0, <2>1 DEF TypeInv, ListsOK, TablesOK
  <2> QED BY <1>1, <2>2, <2>3 DEF TypeInv
<1>4. CASE FreePage(p)
  <2>1. phys_page_insert(hand[p]) /\ Return(p) /\ UNCHANGED <<owner, anon>>
    BY <1>4 DEF FreePage, tables
  <2>2. CallsOK' /\ LocalsOK'
    BY <2>1, ReturnOK DEF TypeInv, CallsOK
  <2>3. ListsOK'
    BY <1>0, <2>1, StepArg, InsertOK DEF TypeInv, ListsOK
  <2>4. TablesOK'
    BY <1>0, <2>1 DEF TypeInv, TablesOK
  <2> QED BY <1>1, <2>2, <2>3, <2>4 DEF TypeInv
<1> QED BY <1>2, <1>3, <1>4

LEMMA BootType ==
  ASSUME TypeInv, Boot
  PROVE  TypeInv'
<1>0. UNCHANGED <<ct, owner, anon, cached, inode_page, given, copies, copied, short, pc, arg, at, hand, stocked>>
  BY DEF Boot, tables, ghosts, local
<1>1. PICK n \in boot : phys_page_insert(n) /\ boot' = boot \ {n}
  BY DEF Boot
<1>2. n \in Slot /\ boot' \subseteq Pool
  BY <1>1 DEF TypeInv, ListsOK, Slot, Page
<1>3. ListsOK'
  BY <1>1, <1>2, InsertOK DEF TypeInv
<1>4. CtOK' /\ TablesOK' /\ LocalsOK'
  BY <1>0 DEF TypeInv, CtOK, TablesOK, LocalsOK
<1>5. CallsOK'
  BY <1>0 DEF TypeInv, CallsOK
<1> QED BY <1>3, <1>4, <1>5 DEF TypeInv

LEMMA TypeNext ==
  ASSUME TypeInv, [Next]_vars
  PROVE  TypeInv'
<1>1. CASE UNCHANGED vars
  <2>1. UNCHANGED <<boot, links, free_pages, page_count, ct, owner, anon, cached, inode_page, given, copies, copied,
                    short, pc, arg, at, hand, stocked>>
    BY <1>1 DEF vars, lists, tables, ghosts, local
  <2> QED BY <2>1 DEF TypeInv, ListsOK, CtOK, TablesOK, CallsOK, LocalsOK
<1>2. CASE Next
  BY <1>2, CallType, CreateType, AllocType, EndType, FetchType, FreeType, BootType DEF Next, Step
<1> QED BY <1>1, <1>2

LEMMA TypeInit ==
  ASSUME Init
  PROVE  TypeInv
<1>1. ListsOK
  BY SlotFacts DEF Init, ListsOK, Link, Slot
<1>2. CtOK
  <2> DEFINE l == [i \in 1 .. NumColors |-> i - 1]
             x == [c \in Color |-> c + 1]
             n == [c \in Color |-> 0]
             t0 == [list |-> l, index |-> x, count |-> n]
  <2>1. ct = [t \in Table |-> t0]
    BY DEF Init
  <2>2. l \in [1 .. NumColors -> Color] /\ x \in [Color -> 1 .. NumColors] /\ n \in [Color -> Nat]
    BY ColorAssumption DEF Color
  <2>3. (\A c \in Color : l[x[c]] = c) /\ (\A i \in 1 .. NumColors : x[l[i]] = i)
    BY ColorAssumption DEF Color
  <2>4. \A i \in 2 .. NumColors : n[l[i \div 2]] <= n[l[i]]
    <3>1. \A i \in 1 .. NumColors : n[l[i]] = 0
      BY <2>2
    <3>2. \A i \in 2 .. NumColors : i \in 1 .. NumColors /\ i \div 2 \in 1 .. NumColors
      BY ColorAssumption
    <3> HIDE DEF l, n
    <3> QED BY <3>1, <3>2
  <2> HIDE DEF l, x, n
  <2>5. t0 \in TableType /\ t0.list = l /\ t0.index = x /\ t0.count = n
    BY <2>2 DEF TableType
  <2>6. HeapTable(t0)
    <3> HIDE DEF t0
    <3> QED BY <2>3, <2>4, <2>5 DEF HeapTable
  <2> HIDE DEF t0
  <2> QED BY <2>1, <2>5, <2>6 DEF CtOK
<1>3. TablesOK
  <2>1. anon = <<>> /\ cached = <<>> /\ <<>> \in Seq(Entry) /\ <<>> \in Seq(Slot)
    BY DEF Init
  <2>2. (CHOOSE k \in InodePage : TRUE) \in InodePage
    BY InodeAssumption
  <2>3. inode_page \in [Page -> InodePage]
    BY <2>2 DEF Init
  <2>4. given \in [Id -> Nat] /\ short \in BOOLEAN /\ copies \subseteq Slot /\ copied \subseteq Id
    BY DEF Init
  <2> QED BY <2>1, <2>3, <2>4 DEF TablesOK
<1>4. CallsOK
  <2>1. pc = [p \in Proc |-> "idle"] /\ arg = [p \in Proc |-> [op |-> "none"]] /\ owner = Nobody
    BY DEF Init
  <2> QED BY <2>1 DEF CallsOK, CallPlace, Arg, ArgFits, Holding
<1>5. LocalsOK
  BY ColorAssumption, SlotFacts DEF Init, LocalsOK
<1> QED BY <1>1, <1>2, <1>3, <1>4, <1>5 DEF TypeInv

LEMMA TypeAlways == Spec => []TypeInv
BY TypeInit, TypeNext, PTL DEF Spec

(* The variables of PhysPages keep their types: a count never falls below  *)
(* zero, and no search of phys_page_alloc looks for a colour past the last.*)
THEOREM TypesKept == Spec => []TypeOK
<1>1. TypeInv => TypeOK
  BY DEF TypeInv, ListsOK, CtOK, TablesOK, CallsOK, LocalsOK, TypeOK, Slot, Entry, Link, TableType, CallPlace
<1> QED BY <1>1, TypeAlways, PTL

(* change_color_count keeps each colour table a heap, with an index that   *)
(* is the inverse of the list, whatever colours are counted and in         *)
(* whichever order: phys_page_alloc begins with a least used colour.       *)
THEOREM ColorTablesAreHeaps == Spec => []ColorHeap
<1>1. TypeInv => ColorHeap
  BY DEF TypeInv, CtOK, HeapTable, ColorHeap
<1> QED BY <1>1, TypeAlways, PTL

-----------------------------------------------------------------------------
(* Which steps touch what.  A call holds the mutex of phys_mem.c from      *)
(* CreateLock or FetchMiss on, and its argument stays.                     *)
LEMMA HoldSteps ==
  ASSUME TypeInv, [Next]_vars, NEW q \in Proc, pc'[q] \in Holding
  PROVE  /\ arg'[q] = arg[q]
         /\ pc[q] \in Holding \/ CreateLock(q) \/ FetchMiss(q)
<1>0. pc \in [Proc -> CallPlace] /\ arg \in [Proc -> Arg]
  BY DEF TypeInv, CallsOK
<1>1. CASE UNCHANGED vars
  BY <1>1 DEF vars, local
<1>2. CASE Boot
  BY <1>2 DEF Boot, local
<1>3. ASSUME NEW p \in Proc, Call(p) PROVE arg'[q] = arg[q] /\ pc[q] \in Holding
  <2>1. PICK x \in {"create", "fetch", "free"} : \E a : Begin(p, x, a)
    BY <1>3, Zenon DEF Call, anon_page_create, fetch_inode_page, fetch_anon_page, anon_page_free
  <2>2. q # p /\ pc'[q] = pc[q] /\ arg'[q] = arg[q]
    BY <1>0, <2>1 DEF Begin, Goto, Holding
  <2> QED BY <2>2
<1>4. ASSUME NEW p \in Proc, Return(p) PROVE arg'[q] = arg[q] /\ pc[q] \in Holding
  BY <1>0, <1>4 DEF Return, Goto, Holding
<1>5. ASSUME NEW p \in Proc, AnotherId(p) PROVE arg'[q] = arg[q] /\ pc[q] \in Holding
  <2>1. q # p
    BY <1>5 DEF AnotherId, Holding
  <2> QED BY <1>0, <1>5, <2>1 DEF AnotherId
<1>6. ASSUME NEW p \in Proc, CreateLock(p) PROVE arg'[q] = arg[q] /\ (pc[q] \in Holding \/ q = p)
  BY <1>0, <1>6 DEF CreateLock, Search, Goto
<1>7. ASSUME NEW p \in Proc, FetchMiss(p) PROVE arg'[q] = arg[q] /\ (pc[q] \in Holding \/ q = p)
  BY <1>0, <1>7 DEF FetchMiss, Search, Goto
<1>8. ASSUME NEW p \in Proc, FreeEntry(p) PROVE arg'[q] = arg[q] /\ pc[q] \in Holding
  BY <1>0, <1>8 DEF FreeEntry, Goto, Holding
<1>9. ASSUME NEW p \in Proc, phys_page_alloc(p) \/ kern_page_alloc(p)
      PROVE  arg'[q] = arg[q] /\ pc[q] \in Holding
  <2>1. UNCHANGED arg /\ pc[p] \in Holding /\ (UNCHANGED pc \/ Goto(p, "got"))
    BY <1>9 DEF phys_page_alloc, kern_page_alloc, TakePage, NoPage, Holding
  <2> QED BY <1>0, <2>1 DEF Goto
<1>10. ASSUME NEW p \in Proc, Step(p)
       PROVE  arg'[q] = arg[q] /\ (pc[q] \in Holding \/ CreateLock(q) \/ FetchMiss(q))
  <2>1. \/ Return(p) \/ AnotherId(p) \/ CreateLock(p) \/ FetchMiss(p) \/ FreeEntry(p)
        \/ phys_page_alloc(p) \/ kern_page_alloc(p)
    BY <1>10 DEF Step, CreateEnd, FetchHit, FetchEnd, FetchAnon, FreeUnknown, FreePage
  <2> QED BY <1>4, <1>5, <1>6, <1>7, <1>8, <1>9, <2>1
<1> QED BY <1>1, <1>2, <1>3, <1>10 DEF Next

LEMMA TableSteps ==
  ASSUME [Next]_vars
  PROVE  /\ UNCHANGED anon \/ \E p \in Proc : CreateEnd(p) \/ FreeEntry(p)
         /\ UNCHANGED <<cached, inode_page>> \/ \E p \in Proc : FetchEnd(p)
         /\ UNCHANGED <<copies, copied>> \/ \E p \in Proc : CreateEnd(p)
         /\ UNCHANGED short \/ short'
<1>1. CASE UNCHANGED vars
  BY <1>1 DEF vars, tables, ghosts
<1>2. CASE Boot
  BY <1>2 DEF Boot, tables, ghosts
<1>3. ASSUME NEW p \in Proc, Call(p) PROVE UNCHANGED <<anon, cached, inode_page, copies, copied, short>>
  <2>1. \E x, a : Begin(p, x, a)
    BY <1>3, Zenon DEF Call, anon_page_create, fetch_inode_page, fetch_anon_page, anon_page_free
  <2> QED BY <2>1 DEF Begin, tables
<1>4. ASSUME NEW p \in Proc, Step(p), ~CreateEnd(p), ~FreeEntry(p) PROVE UNCHANGED anon
  BY <1>4 DEF Step, AnotherId, CreateLock, FetchHit, FetchMiss, FetchEnd, FetchAnon, FreeUnknown, FreePage,
     phys_page_alloc, kern_page_alloc, tables
<1>5. ASSUME NEW p \in Proc, Step(p), ~FetchEnd(p) PROVE UNCHANGED <<cached, inode_page>>
  BY <1>5 DEF Step, AnotherId, CreateLock, CreateEnd, FetchHit, FetchMiss, FetchAnon, FreeEntry, FreeUnknown,
     FreePage, phys_page_alloc, kern_page_alloc, tables
<1>6. ASSUME NEW p \in Proc, Step(p), ~CreateEnd(p) PROVE UNCHANGED <<copies, copied>>
  BY <1>6 DEF Step, AnotherId, CreateLock, FetchHit, FetchMiss, FetchEnd, FetchAnon, FreeEntry, FreeUnknown,
     FreePage, phys_page_alloc, kern_page_alloc, ghosts
<1>7. ASSUME NEW p \in Proc, Step(p) PROVE UNCHANGED short \/ short'
  BY <1>7 DEF Step, AnotherId, CreateLock, CreateEnd, FetchHit, FetchMiss, FetchEnd, FetchAnon, FreeEntry,
     FreeUnknown, FreePage, phys_page_alloc, kern_page_alloc, ghosts, NoPage
<1> QED BY <1>1, <1>2, <1>3, <1>4, <1>5, <1>6, <1>7 DEF Next

(* No two entries of the table have the same id.                           *)
EntriesUnique == \A i, j \in DOMAIN anon : anon[i].id = anon[j].id => i = j

(* An id that a call has found free stays free while it holds the mutex.   *)
IdsInv ==
    /\ EntriesUnique
    /\ \A p \in Proc : pc[p] \in Holding /\ arg[p] \in CreateArg => Entries(arg[p].id) = {}

LEMMA IdsNext ==
  ASSUME TypeInv, IdsInv, [Next]_vars
  PROVE  IdsInv'
<1>0. anon \in Seq(Entry)
  BY DEF TypeInv, TablesOK
<1>1. CASE UNCHANGED anon
  <2>1. EntriesUnique' /\ \A id : Entries(id)' = Entries(id)
    BY <1>1 DEF IdsInv, EntriesUnique, Entries
  <2>2. ASSUME NEW q \in Proc, pc'[q] \in Holding, arg'[q] \in CreateArg PROVE Entries(arg[q].id) = {}
    <3>1. arg'[q] = arg[q] /\ (pc[q] \in Holding \/ CreateLock(q) \/ FetchMiss(q))
      BY <2>2, HoldSteps
    <3>2. CASE CreateLock(q)
      BY <3>2 DEF CreateLock
    <3>3. ~FetchMiss(q)
      BY <2>2, <3>1, ArgShapes DEF FetchMiss
    <3> QED BY <2>2, <3>1, <3>2, <3>3 DEF IdsInv
  <2>3. \A q \in Proc : pc'[q] \in Holding => arg'[q] = arg[q]
    BY HoldSteps
  <2> QED BY <2>1, <2>2, <2>3 DEF IdsInv, Entries
<1>2. ASSUME NEW p \in Proc, CreateEnd(p) PROVE IdsInv'
  <2>1. /\ pc[p] = "got" /\ "id" \in DOMAIN arg[p] /\ owner' = Nobody
        /\ UNCHANGED anon \/ anon' = hash_table_insert(anon, [id |-> arg[p].id, page |-> hand[p]])
    BY <1>2 DEF CreateEnd
  <2>2. arg[p] \in CreateArg /\ pc[p] \in Holding
    BY <2>1, StepArg, ArgShapes DEF Holding
  <2>3. \A q \in Proc : pc'[q] \notin Holding
    <3>1. TypeInv'
      BY TypeNext
    <3> QED BY <2>1, <3>1, NobodyAssumption DEF TypeInv, CallsOK
  <2>4. EntriesUnique'
    <3> DEFINE e == [id |-> arg[p].id, page |-> hand[p]]
    <3>1. \A i \in DOMAIN anon : anon[i].id # arg[p].id
      BY <2>2 DEF IdsInv, Entries
    <3>2. e \in Entry /\ e.id = arg[p].id
      BY <2>2, StepArg, ArgShapes DEF Entry
    <3> HIDE DEF e
    <3>3. CASE anon' = hash_table_insert(anon, e)
      <4>0. /\ DOMAIN hash_table_insert(anon, e) = 1 .. Len(anon) + 1 /\ hash_table_insert(anon, e)[1] = e
            /\ \A i \in 2 .. Len(anon) + 1 : hash_table_insert(anon, e)[i] = anon[i - 1]
        BY <1>0, <3>2, InsertChain
      <4>1. /\ DOMAIN anon' = 1 .. Len(anon) + 1 /\ anon'[1] = e /\ DOMAIN anon = 1 .. Len(anon)
            /\ \A i \in 2 .. Len(anon) + 1 : anon'[i] = anon[i - 1]
        BY <1>0, <3>3, <4>0
      <4>2. \A N \in Nat : \A i \in 1 .. N + 1 : i = 1 \/ (i \in 2 .. N + 1 /\ i - 1 \in 1 .. N)
        OBVIOUS
      <4>3. \A i \in 1 .. Len(anon) + 1 : i = 1 \/ (i \in 2 .. Len(anon) + 1 /\ i - 1 \in 1 .. Len(anon))
        <5>1. Len(anon) \in Nat
          BY <1>0
        <5> QED BY <4>2, <5>1, Zenon
      <4>4. ASSUME NEW i \in DOMAIN anon', NEW j \in DOMAIN anon', anon'[i].id = anon'[j].id PROVE i = j
        <5>1. i \in 1 .. Len(anon) + 1 /\ j \in 1 .. Len(anon) + 1
          BY <4>1
        <5>2. CASE i = 1 /\ j # 1
          BY <3>1, <3>2, <4>1, <4>3, <4>4, <5>1, <5>2
        <5>3. CASE j = 1 /\ i # 1
          BY <3>1, <3>2, <4>1, <4>3, <4>4, <5>1, <5>3
        <5>4. CASE i # 1 /\ j # 1
          <6>1. i - 1 \in DOMAIN anon /\ j - 1 \in DOMAIN anon /\ anon[i - 1].id = anon[j - 1].id
            BY <4>1, <4>3, <4>4, <5>1, <5>4
          <6>2. i - 1 = j - 1
            BY <6>1 DEF IdsInv, EntriesUnique
          <6> QED BY <5>1, <6>2
        <5> QED BY <5>2, <5>3, <5>4
      <4> QED BY <4>4 DEF EntriesUnique
    <3>4. CASE UNCHANGED anon
      BY <3>4 DEF IdsInv, EntriesUnique
    <3> QED BY <2>1, <3>3, <3>4 DEF e
  <2> QED BY <2>3, <2>4 DEF IdsInv
<1>3. ASSUME NEW p \in Proc, FreeEntry(p) PROVE IdsInv'
  <2> DEFINE k == anon_page_lookup(arg[p].id)
  <2>1. anon' = hash_table_delete(anon, k) /\ owner = Nobody /\ owner' = owner /\ k \in 1 .. Len(anon)
    BY <1>3, LookupFinds DEF FreeEntry, TypeInv
  <2>2. \A q \in Proc : pc'[q] \notin Holding
    <3>1. TypeInv'
      BY TypeNext
    <3> QED BY <2>1, <3>1, NobodyAssumption DEF TypeInv, CallsOK
  <2> HIDE DEF k
  <2>3. /\ DOMAIN anon' = 1 .. Len(anon) - 1 /\ DOMAIN anon = 1 .. Len(anon) /\ Len(anon) \in Nat
        /\ \A i \in 1 .. Len(anon) - 1 : anon'[i] = IF i < k THEN anon[i] ELSE anon[i + 1]
    BY <1>0, <2>1, DeleteChain
  <2> DEFINE old(i) == IF i < k THEN i ELSE i + 1
  <2>4. \A i \in DOMAIN anon' : old(i) \in DOMAIN anon /\ anon'[i] = anon[old(i)]
    BY <2>3
  <2>5. \A i, j \in DOMAIN anon' : old(i) = old(j) => i = j
    BY <2>1, <2>3
  <2> HIDE DEF old
  <2>6. EntriesUnique'
    BY <2>4, <2>5 DEF IdsInv, EntriesUnique
  <2> QED BY <2>2, <2>6 DEF IdsInv
<1> QED BY <1>1, <1>2, <1>3, TableSteps

LEMMA IdsAlways == Spec => []IdsInv
<1>1. Init => IdsInv
  BY DEF Init, IdsInv, EntriesUnique, Holding
<1>2. TypeInv /\ IdsInv /\ [Next]_vars => IdsInv'
  BY IdsNext
<1> QED BY <1>1, <1>2, TypeAlways, PTL DEF Spec

LEMMA FreeSteps ==
  ASSUME TypeInv, [Next]_vars, NEW q \in Proc, pc'[q] = "free"
  PROVE  \/ pc[q] = "free" /\ arg'[q] = arg[q]
         \/ \E id \in Id : anon_page_free(q, id) /\ arg'[q].id = id
<1>0. pc \in [Proc -> CallPlace] /\ arg \in [Proc -> Arg]
  BY DEF TypeInv, CallsOK
<1>1. CASE UNCHANGED vars
  BY <1>1 DEF vars, local
<1>2. CASE Boot
  BY <1>2 DEF Boot, local
<1>3. ASSUME NEW p \in Proc, Call(p)
      PROVE  (pc[q] = "free" /\ arg'[q] = arg[q]) \/ \E id \in Id : anon_page_free(q, id) /\ arg'[q].id = id
  <2>1. CASE \E id \in Id : anon_page_free(p, id)
    <3>1. PICK id \in Id : anon_page_free(p, id)
      BY <2>1
    <3>2. pc' = [pc EXCEPT ![p] = "free"] /\ arg' = [arg EXCEPT ![p] = [op |-> "free", id |-> id]]
      BY <3>1 DEF anon_page_free, Begin, Goto
    <3> QED BY <1>0, <1>3, <3>1, <3>2
  <2>2. CASE ~\E id \in Id : anon_page_free(p, id)
    <3>1. PICK x \in {"create", "fetch"} : \E a : Begin(p, x, a)
      BY <1>3, <2>2, Zenon DEF Call, anon_page_create, fetch_inode_page, fetch_anon_page
    <3>2. q # p /\ pc'[q] = pc[q] /\ arg'[q] = arg[q]
      BY <1>0, <3>1 DEF Begin, Goto
    <3> QED BY <3>2
  <2> QED BY <2>1, <2>2
<1>4. ASSUME NEW p \in Proc, Return(p) PROVE pc[q] = "free" /\ arg'[q] = arg[q]
  BY <1>0, <1>4 DEF Return, Goto
<1>5. ASSUME NEW p \in Proc, AnotherId(p) PROVE pc[q] = "free" /\ arg'[q] = arg[q]
  <2>1. q # p
    BY <1>5 DEF AnotherId
  <2> QED BY <1>0, <1>5, <2>1 DEF AnotherId
<1>6. ASSUME NEW p \in Proc, CreateLock(p) PROVE pc[q] = "free" /\ arg'[q] = arg[q]
  BY <1>0, <1>6 DEF CreateLock, Search, Goto
<1>7. ASSUME NEW p \in Proc, FetchMiss(p) PROVE pc[q] = "free" /\ arg'[q] = arg[q]
  BY <1>0, <1>7 DEF FetchMiss, Search, Goto
<1>8. ASSUME NEW p \in Proc, FreeEntry(p) PROVE pc[q] = "free" /\ arg'[q] = arg[q]
  BY <1>0, <1>8 DEF FreeEntry, Goto
<1>9. ASSUME NEW p \in Proc, phys_page_alloc(p) \/ kern_page_alloc(p)
      PROVE  pc[q] = "free" /\ arg'[q] = arg[q]
  <2>1. UNCHANGED arg /\ (UNCHANGED pc \/ Goto(p, "got"))
    BY <1>9 DEF phys_page_alloc, kern_page_alloc, TakePage, NoPage
  <2> QED BY <1>0, <2>1 DEF Goto
<1>10. ASSUME NEW p \in Proc, Step(p) PROVE pc[q] = "free" /\ arg'[q] = arg[q]
  <2>1. \/ Return(p) \/ AnotherId(p) \/ CreateLock(p) \/ FetchMiss(p) \/ FreeEntry(p)
        \/ phys_page_alloc(p) \/ kern_page_alloc(p)
    BY <1>10 DEF Step, CreateEnd, FetchHit, FetchEnd, FetchAnon, FreeUnknown, FreePage
  <2> QED BY <1>4, <1>5, <1>6, <1>7, <1>8, <1>9, <2>1
<1> QED BY <1>1, <1>2, <1>3, <1>10 DEF Next

LEMMA GivenSteps ==
  ASSUME [Next]_vars
  PROVE  UNCHANGED given \/ \E p \in Proc : CreateEnd(p) \/ \E id \in Id : anon_page_free(p, id)
<1>1. CASE UNCHANGED vars
  BY <1>1 DEF vars, ghosts
<1>2. CASE Boot
  BY <1>2 DEF Boot, ghosts
<1>3. ASSUME NEW p \in Proc, Call(p), ~\E id \in Id : anon_page_free(p, id) PROVE UNCHANGED given
  BY <1>3 DEF Call, anon_page_create, fetch_inode_page, fetch_anon_page
<1>4. ASSUME NEW p \in Proc, Step(p), ~CreateEnd(p) PROVE UNCHANGED given
  BY <1>4 DEF Step, AnotherId, CreateLock, FetchHit, FetchMiss, FetchEnd, FetchAnon, FreeEntry, FreeUnknown,
     FreePage, phys_page_alloc, kern_page_alloc, ghosts
<1> QED BY <1>1, <1>2, <1>3, <1>4 DEF Next

(* Of the ids that were never given to a copy, one that a caller has, or   *)
(* that is being freed, is in the table, and nobody else has it or frees   *)
(* it.                                                                     *)
Own == Id \ copied

Known(id) == \E i \in DOMAIN anon : anon[i].id = id

Freeing(p, id) == pc[p] = "free" /\ arg[p].id = id

GivenInv ==
    /\ given \in [Id -> Nat]
    /\ \A id \in Own : given[id] <= 1 /\ (given[id] = 1 => Known(id))
    /\ \A p \in Proc, id \in Own : Freeing(p, id) => given[id] = 0 /\ Known(id)
    /\ \A p, q \in Proc, id \in Own : Freeing(p, id) /\ Freeing(q, id) => p = q

LEMMA GivenNext ==
  ASSUME TypeInv, IdsInv, GivenInv, [Next]_vars
  PROVE  GivenInv'
<1>0. anon \in Seq(Entry) /\ DOMAIN anon = 1 .. Len(anon) /\ Len(anon) \in Nat
  BY DEF TypeInv, TablesOK
<1>1. given' \in [Id -> Nat]
  BY TypeNext DEF TypeInv, TablesOK
<1>2. Own \subseteq Id /\ Own' \subseteq Own
  <2>1. ASSUME NEW p \in Proc, CreateEnd(p) PROVE copied \subseteq copied'
    BY <2>1 DEF CreateEnd
  <2> QED BY <2>1, TableSteps DEF Own
<1> SUFFICES /\ \A id \in Own' : given'[id] <= 1 /\ (given'[id] = 1 => Known(id)')
             /\ \A p \in Proc, id \in Own' : Freeing(p, id)' => given'[id] = 0 /\ Known(id)'
             /\ \A p, q \in Proc, id \in Own' : Freeing(p, id)' /\ Freeing(q, id)' => p = q
  BY <1>1 DEF GivenInv
<1>3. /\ given \in [Id -> Nat]
      /\ \A id \in Own : given[id] <= 1 /\ (given[id] = 1 => Known(id))
      /\ \A p \in Proc, id \in Own : Freeing(p, id) => given[id] = 0 /\ Known(id)
      /\ \A p, q \in Proc, id \in Own : Freeing(p, id) /\ Freeing(q, id) => p = q
  BY DEF GivenInv
<1>4. \A q \in Proc, id \in Id : Freeing(q, id)' => Freeing(q, id) \/ anon_page_free(q, id)
  BY FreeSteps DEF Freeing
<1>5. ASSUME NEW p \in Proc, CreateEnd(p)
      PROVE  /\ \A id \in Own' : given'[id] <= 1 /\ (given'[id] = 1 => Known(id)')
             /\ \A q \in Proc, id \in Own' : Freeing(q, id)' => given'[id] = 0 /\ Known(id)'
             /\ \A q, r \in Proc, id \in Own' : Freeing(q, id)' /\ Freeing(r, id)' => q = r
  <2>0. /\ pc[p] = "got" /\ "id" \in DOMAIN arg[p] /\ given' = [given EXCEPT ![arg[p].id] = @ + 1]
        /\ pc' = [pc EXCEPT ![p] = "idle"]
    BY <1>5 DEF CreateEnd, Return, Goto
  <2>2. arg[p] \in CreateArg /\ pc[p] \in Holding /\ arg[p].id \in Id
    BY <2>0, StepArg, ArgShapes DEF Holding
  <2>x. PICK x \in Id : x = arg[p].id
    BY <2>2
  <2>1. pc[p] = "got" /\ given' = [given EXCEPT ![x] = @ + 1]
    BY <2>0, <2>x
  <2>9. given'[x] = given[x] + 1 /\ \A id \in Id \ {x} : given'[id] = given[id]
    BY <1>3, <2>1
  <2>10. \A q \in Proc, id \in Id : Freeing(q, id)' => Freeing(q, id)
    <3>1. pc' = [pc EXCEPT ![p] = "idle"] /\ pc \in [Proc -> CallPlace]
      BY <2>0 DEF TypeInv, CallsOK
    <3>2. ASSUME NEW q \in Proc, NEW id \in Id, anon_page_free(q, id), pc'[q] = "free" PROVE FALSE
      BY <2>1, <3>1, <3>2 DEF anon_page_free, Begin
    <3> QED BY <1>4, <3>2 DEF Freeing
  <2>3. ~Known(x)
    BY <2>2, <2>x DEF IdsInv, Entries, Known
  <2>8. x \in Own => given[x] = 0 /\ \A q \in Proc : ~Freeing(q, x)
    BY <1>3, <2>3
  <2>4. CASE arg[p].op = "PSRC_ANON"
    <3>1. UNCHANGED anon /\ x \notin Own'
      BY <1>5, <2>4, <2>x DEF CreateEnd, Own
    <3>2. \A id \in Id : Known(id)' <=> Known(id)
      BY <3>1 DEF Known
    <3> QED BY <1>2, <1>3, <2>9, <2>10, <3>1, <3>2
  <2>5. CASE arg[p].op # "PSRC_ANON"
    <3> DEFINE e == [id |-> arg[p].id, page |-> hand[p]]
    <3>1. anon' = hash_table_insert(anon, e)
      BY <1>5, <2>5 DEF CreateEnd
    <3>2. e \in Entry /\ e.id = x
      BY <2>2, <2>x, StepArg DEF Entry
    <3> HIDE DEF e
    <3>3. /\ DOMAIN anon' = 1 .. Len(anon) + 1 /\ anon'[1] = e
          /\ \A i \in 2 .. Len(anon) + 1 : anon'[i] = anon[i - 1]
      <4>1. /\ DOMAIN hash_table_insert(anon, e) = 1 .. Len(anon) + 1 /\ hash_table_insert(anon, e)[1] = e
            /\ \A i \in 2 .. Len(anon) + 1 : hash_table_insert(anon, e)[i] = anon[i - 1]
        BY <1>0, <3>2, InsertChain
      <4> QED BY <3>1, <4>1
    <3>4. \A i \in 1 .. Len(anon) : i + 1 \in DOMAIN anon' /\ anon'[i + 1] = anon[i]
      <4>1. \A i \in 1 .. Len(anon) : i + 1 \in 2 .. Len(anon) + 1 /\ i + 1 \in 1 .. Len(anon) + 1 /\ (i + 1) - 1 = i
        BY <1>0
      <4> QED BY <3>3, <4>1
    <3>5. Known(x)'
      <4>1. 1 \in DOMAIN anon'
        BY <1>0, <3>3
      <4>2. anon'[1].id = x
        BY <3>2, <3>3
      <4> QED BY <4>1, <4>2 DEF Known
    <3>6. ASSUME NEW id \in Id, Known(id) PROVE Known(id)'
      <4>1. PICK i \in DOMAIN anon : anon[i].id = id
        BY <3>6 DEF Known
      <4>2. i + 1 \in DOMAIN anon' /\ anon'[i + 1].id = id
        BY <1>0, <3>4, <4>1
      <4> QED BY <4>2 DEF Known
    <3>7. \A id \in Own' : given'[id] <= 1 /\ (given'[id] = 1 => Known(id)')
      BY <1>2, <1>3, <2>8, <2>9, <3>5, <3>6
    <3>8. \A q \in Proc, id \in Own' : Freeing(q, id)' => given'[id] = 0 /\ Known(id)'
      BY <1>2, <1>3, <2>8, <2>9, <2>10, <3>6
    <3> QED BY <1>2, <1>3, <2>10, <3>7, <3>8
  <2> QED BY <2>4, <2>5
<1>6. ASSUME NEW p \in Proc, NEW x \in Id, anon_page_free(p, x)
      PROVE  /\ \A id \in Own' : given'[id] <= 1 /\ (given'[id] = 1 => Known(id)')
             /\ \A q \in Proc, id \in Own' : Freeing(q, id)' => given'[id] = 0 /\ Known(id)'
             /\ \A q, r \in Proc, id \in Own' : Freeing(q, id)' /\ Freeing(r, id)' => q = r
  <2>1. /\ given[x] > 0 /\ given' = [given EXCEPT ![x] = @ - 1] /\ UNCHANGED anon
        /\ pc[p] = "idle" /\ pc' = [pc EXCEPT ![p] = "free"]
        /\ arg' = [arg EXCEPT ![p] = [op |-> "free", id |-> x]]
    BY <1>6 DEF anon_page_free, Begin, Goto, tables
  <2>2. /\ x \in Own => given[x] = 1 /\ given'[x] = 0
        /\ \A id \in Id \ {x} : given'[id] = given[id]
    BY <1>3, <2>1
  <2>3. \A id \in Id : Known(id)' <=> Known(id)
    BY <2>1 DEF Known
  <2>4. \A q \in Proc, id \in Id : Freeing(q, id)' => (q = p /\ id = x) \/ (q # p /\ Freeing(q, id))
    <3>1. pc \in [Proc -> CallPlace] /\ arg \in [Proc -> Arg]
      BY DEF TypeInv, CallsOK
    <3> QED BY <2>1, <3>1 DEF Freeing
  <2>5. x \in Own => \A q \in Proc : ~Freeing(q, x)
    BY <1>3, <2>2
  <2>6. \A id \in Own' : given'[id] <= 1 /\ (given'[id] = 1 => Known(id)')
    BY <1>2, <1>3, <2>2, <2>3
  <2>7. \A q \in Proc, id \in Own' : Freeing(q, id)' => given'[id] = 0 /\ Known(id)'
    BY <1>2, <1>3, <2>2, <2>3, <2>4
  <2>8. \A q, r \in Proc, id \in Own' : Freeing(q, id)' /\ Freeing(r, id)' => q = r
    BY <1>2, <1>3, <2>4, <2>5
  <2> QED BY <2>6, <2>7, <2>8
<1>7. ASSUME UNCHANGED <<anon, given>>, \A p \in Proc, id \in Id : ~anon_page_free(p, id)
      PROVE  /\ \A id \in Own' : given'[id] <= 1 /\ (given'[id] = 1 => Known(id)')
             /\ \A q \in Proc, id \in Own' : Freeing(q, id)' => given'[id] = 0 /\ Known(id)'
             /\ \A q, r \in Proc, id \in Own' : Freeing(q, id)' /\ Freeing(r, id)' => q = r
  <2>1. \A id \in Id : Known(id)' <=> Known(id)
    BY <1>7 DEF Known
  <2>2. \A q \in Proc, id \in Id : Freeing(q, id)' => Freeing(q, id)
    BY <1>4, <1>7
  <2> QED BY <1>2, <1>3, <1>7, <2>1, <2>2
<1>8. ASSUME NEW p \in Proc, FreeEntry(p)
      PROVE  /\ \A id \in Own' : given'[id] <= 1 /\ (given'[id] = 1 => Known(id)')
             /\ \A q \in Proc, id \in Own' : Freeing(q, id)' => given'[id] = 0 /\ Known(id)'
             /\ \A q, r \in Proc, id \in Own' : Freeing(q, id)' /\ Freeing(r, id)' => q = r
  <2> DEFINE k == anon_page_lookup(arg[p].id)
  <2>0. /\ anon' = hash_table_delete(anon, k) /\ k \in 1 .. Len(anon) /\ anon[k].id = arg[p].id
        /\ UNCHANGED given /\ pc[p] = "free"
    BY <1>8, LookupFinds DEF FreeEntry, TypeInv, ghosts
  <2>x. PICK x \in Id : x = arg[p].id
    BY <2>0, StepArg, ArgShapes
  <2>1. /\ anon' = hash_table_delete(anon, k) /\ k \in 1 .. Len(anon) /\ anon[k].id = x
        /\ UNCHANGED given /\ pc[p] = "free"
    BY <2>0, <2>x
  <2>2. Freeing(p, x)
    BY <2>1, <2>x DEF Freeing
  <2> HIDE DEF k
  <2>3. /\ DOMAIN anon' = 1 .. Len(anon) - 1
        /\ \A i \in 1 .. Len(anon) - 1 : anon'[i] = IF i < k THEN anon[i] ELSE anon[i + 1]
    BY <1>0, <2>1, DeleteChain
  <2>4. \A id \in Id \ {x} : Known(id) => Known(id)'
    <3>1. SUFFICES ASSUME NEW id \in Id \ {x}, NEW i \in 1 .. Len(anon), anon[i].id = id PROVE Known(id)'
      BY <1>0 DEF Known
    <3>2. i # k
      BY <2>1, <3>1
    <3>3. CASE i < k
      <4>1. i \in DOMAIN anon' /\ anon'[i] = anon[i]
        BY <1>0, <2>1, <2>3, <3>3
      <4> QED BY <3>1, <4>1 DEF Known
    <3>4. CASE i > k
      <4>1. i - 1 \in 1 .. Len(anon) - 1 /\ ~(i - 1 < k) /\ (i - 1) + 1 = i
        BY <1>0, <2>1, <3>4
      <4>2. i - 1 \in DOMAIN anon' /\ anon'[i - 1] = anon[i]
        BY <2>3, <4>1
      <4> QED BY <3>1, <4>2 DEF Known
    <3> QED BY <1>0, <2>1, <3>2, <3>3, <3>4
  <2>5. \A q \in Proc, id \in Own' : Freeing(q, id)' => Freeing(q, id) /\ id # x
    <3>1. pc' = [pc EXCEPT ![p] = "insert"] /\ pc \in [Proc -> CallPlace]
      BY <1>8 DEF FreeEntry, Goto, TypeInv, CallsOK
    <3>2. ASSUME NEW q \in Proc, NEW id \in Id, Freeing(q, id)' PROVE q # p /\ Freeing(q, id)
      <4>1. q # p /\ pc[q] = "free"
        BY <3>1, <3>2 DEF Freeing
      <4>2. ~anon_page_free(q, id)
        BY <4>1 DEF anon_page_free, Begin
      <4> QED BY <1>4, <3>2, <4>1, <4>2
    <3> QED BY <1>2, <1>3, <2>2, <3>2
  <2>6. x \in Own => given[x] = 0
    BY <1>3, <2>2
  <2> QED BY <1>2, <1>3, <2>1, <2>4, <2>5, <2>6
<1>9. UNCHANGED anon \/ \E p \in Proc : CreateEnd(p) \/ FreeEntry(p)
  BY TableSteps
<1> QED BY <1>5, <1>6, <1>7, <1>8, <1>9, GivenSteps

LEMMA GivenAlways == Spec => []GivenInv
<1>1. Init => GivenInv
  BY DEF Init, GivenInv, Freeing, Own
<1>2. TypeInv /\ IdsInv /\ GivenInv /\ [Next]_vars => GivenInv'
  BY GivenNext
<1> QED BY <1>1, <1>2, TypeAlways, IdsAlways, PTL DEF Spec

(* anon_page_create gives an id to one caller at a time, unless it gave it *)
(* to a copy before: it looks for the id again whenever it has taken the   *)
(* mutex, holds the mutex from the look that finds nothing to the          *)
(* insertion, and an id is in the table until the caller that has it frees *)
(* it.                                                                     *)
THEOREM IdsStayUnique == Spec => []IdsUnique
<1>1. GivenInv => IdsUnique
  BY DEF GivenInv, IdsUnique, Own
<1> QED BY <1>1, GivenAlways, PTL

-----------------------------------------------------------------------------
(* While a call holds the mutex of phys_mem.c, all that the others can do  *)
(* is to begin a call and to put pages back.                               *)
LEMMA OthersWait ==
  ASSUME TypeInv, [Next]_vars, NEW q \in Proc, pc[q] \in Holding
  PROVE  \/ CreateEnd(q) \/ FetchEnd(q) \/ phys_page_alloc(q) \/ kern_page_alloc(q)
         \/ /\ UNCHANGED <<ct, cached, inode_page, copies, anon, short, owner>>
            /\ pc'[q] = pc[q] /\ at'[q] = at[q] /\ stocked'[q] = stocked[q] /\ hand'[q] = hand[q]
            /\ \A c \in Color : page_count[c] # 0 => page_count'[c] # 0
<1> DEFINE Rest == /\ UNCHANGED <<ct, cached, inode_page, copies, anon, short, owner>>
                   /\ pc'[q] = pc[q] /\ at'[q] = at[q] /\ stocked'[q] = stocked[q] /\ hand'[q] = hand[q]
                   /\ \A c \in Color : page_count[c] # 0 => page_count'[c] # 0
<1>0. /\ owner = q /\ owner # Nobody /\ pc \in [Proc -> CallPlace]
      /\ at \in [Proc -> 1 .. NumColors + 1] /\ hand \in [Proc -> Slot] /\ stocked \in [Proc -> BOOLEAN]
      /\ page_count \in [Color -> Nat]
  BY NobodyAssumption DEF TypeInv, CallsOK, LocalsOK, ListsOK
<1>1. CASE UNCHANGED vars
  <2>1. Rest
    BY <1>1 DEF vars, lists, tables, ghosts, local
  <2> QED BY <2>1
<1>2. ASSUME NEW n, phys_page_insert(n) PROVE \A c \in Color : page_count[c] # 0 => page_count'[c] # 0
  <2> DEFINE d == page_color(n)
  <2>1. page_count' = [page_count EXCEPT ![d] = @ + 1]
    BY <1>2 DEF phys_page_insert
  <2> HIDE DEF d
  <2> QED BY <1>0, <2>1
<1>3. CASE Boot
  <2>1. Rest
    BY <1>2, <1>3 DEF Boot, tables, ghosts, local
  <2> QED BY <2>1
<1>4. ASSUME NEW p \in Proc, Call(p) PROVE Rest
  <2>1. PICK x, a : Begin(p, x, a)
    BY <1>4, Zenon DEF Call, anon_page_create, fetch_inode_page, fetch_anon_page, anon_page_free
  <2>2. p # q
    BY <2>1 DEF Begin, Holding
  <2> QED BY <1>0, <2>1, <2>2 DEF Begin, Goto, tables, lists
<1>5. ASSUME NEW p \in Proc, FreePage(p) PROVE Rest
  <2>1. p # q
    BY <1>5 DEF FreePage, Holding
  <2>2. \A c \in Color : page_count[c] # 0 => page_count'[c] # 0
    BY <1>2, <1>5 DEF FreePage
  <2>3. UNCHANGED <<ct, cached, inode_page, copies, anon, short, owner>> /\ Return(p)
    BY <1>5 DEF FreePage, tables, ghosts
  <2> QED BY <1>0, <2>1, <2>2, <2>3 DEF Return, Goto
<1>6. ASSUME NEW p \in Proc,
             \/ AnotherId(p) \/ CreateLock(p) \/ FetchHit(p) \/ FetchMiss(p) \/ FetchAnon(p)
             \/ FreeEntry(p) \/ FreeUnknown(p)
      PROVE  FALSE
  BY <1>0, <1>6 DEF AnotherId, CreateLock, FetchHit, FetchMiss, FetchAnon, FreeEntry, FreeUnknown, mutex_lock
<1>7. ASSUME NEW p \in Proc, CreateEnd(p) \/ FetchEnd(p) \/ phys_page_alloc(p) \/ kern_page_alloc(p)
      PROVE  p = q
  <2>1. pc[p] \in Holding
    BY <1>7 DEF CreateEnd, FetchEnd, phys_page_alloc, kern_page_alloc, Holding
  <2> QED BY <1>0, <2>1 DEF TypeInv, CallsOK
<1> HIDE DEF Rest
<1>8. ASSUME NEW p \in Proc, Step(p)
      PROVE  Rest \/ CreateEnd(q) \/ FetchEnd(q) \/ phys_page_alloc(q) \/ kern_page_alloc(q)
  BY <1>5, <1>6, <1>7, <1>8 DEF Step
<1> QED BY <1>1, <1>3, <1>4, <1>8 DEF Next, Rest

(* A search that began while there was a free page has not gone past every *)
(* colour that has one.                                                    *)
TableOf(p) == IF arg[p].shared THEN "obj" ELSE "spc"

ScanInv ==
    \A p \in Proc : pc[p] = "scan" /\ stocked[p] =>
      \E i \in at[p] .. NumColors : page_count[ct[TableOf(p)].list[i]] # 0

LEMMA ScanNext ==
  ASSUME TypeInv, ScanInv, [Next]_vars
  PROVE  ScanInv'
<1> SUFFICES ASSUME NEW q \in Proc, pc'[q] = "scan", stocked'[q]
             PROVE  (\E i \in at[q] .. NumColors : page_count[ct[TableOf(q)].list[i]] # 0)'
  BY DEF ScanInv
<1>0. /\ arg'[q] = arg[q] /\ TableOf(q) \in Table
      /\ pc[q] \in Holding \/ CreateLock(q) \/ FetchMiss(q)
  BY HoldSteps DEF Holding, TableOf, Table
<1> DEFINE t == TableOf(q)
<1>1. TableOf(q)' = t
  BY <1>0 DEF TableOf
<1>2. /\ at \in [Proc -> 1 .. NumColors + 1] /\ pc \in [Proc -> CallPlace] /\ stocked \in [Proc -> BOOLEAN]
      /\ page_count \in [Color -> Nat] /\ HeapTable(ct[t])
  BY <1>0 DEF TypeInv, LocalsOK, CallsOK, ListsOK, CtOK
<1>3. ct[t].list \in [1 .. NumColors -> Color] /\ ct[t].index \in [Color -> 1 .. NumColors]
  BY <1>2 DEF HeapTable, TableType
<1> HIDE DEF t
<1>4. SUFFICES \E i \in at'[q] .. NumColors : page_count'[ct'[t].list[i]] # 0
  BY <1>1
<1>5. CASE pc[q] \in Holding
  <2>1. /\ ~CreateEnd(q) /\ ~FetchEnd(q) /\ ~kern_page_alloc(q)
    <3>1. ~Goto(q, "idle") /\ ~Goto(q, "got")
      BY <1>2 DEF Goto
    <3> QED BY <3>1 DEF CreateEnd, FetchEnd, Return, kern_page_alloc, TakePage, NoPage
  <2>2. CASE phys_page_alloc(q)
    <3> DEFINE c == ct[t].list[at[q]]
    <3>1. ~Goto(q, "got")
      BY <1>2 DEF Goto
    <3>2. /\ pc[q] = "scan" /\ at[q] <= NumColors /\ page_count[c] = 0 /\ at' = [at EXCEPT ![q] = @ + 1]
          /\ UNCHANGED <<page_count, ct, stocked>>
      BY <2>2, <3>1 DEF phys_page_alloc, TakePage, NoPage, t, TableOf, lists
    <3>3. PICK i \in at[q] .. NumColors : page_count[ct[t].list[i]] # 0
      BY <3>2 DEF ScanInv, t
    <3>4. i # at[q]
      BY <3>2, <3>3
    <3>5. i \in at'[q] .. NumColors
      BY <1>2, <3>2, <3>3, <3>4
    <3> QED BY <3>2, <3>3, <3>5
  <2>3. CASE /\ UNCHANGED ct
             /\ pc'[q] = pc[q] /\ at'[q] = at[q] /\ stocked'[q] = stocked[q]
             /\ \A c \in Color : page_count[c] # 0 => page_count'[c] # 0
    <3>1. PICK i \in at[q] .. NumColors : page_count[ct[t].list[i]] # 0
      BY <2>3 DEF ScanInv, t
    <3>2. i \in 1 .. NumColors
      BY <1>2, <3>1
    <3>3. page_count'[ct[t].list[i]] # 0
      BY <1>3, <2>3, <3>1, <3>2
    <3> QED BY <2>3, <3>1, <3>3
  <2> QED BY <1>5, <2>1, <2>2, <2>3, OthersWait
<1>6. CASE CreateLock(q) \/ FetchMiss(q)
  <2>1. UNCHANGED <<page_count, ct>> /\ (Search(q) \/ Goto(q, "kern"))
    BY <1>6 DEF CreateLock, FetchMiss, lists
  <2>2. ~Goto(q, "kern")
    BY <1>2 DEF Goto
  <2>3. /\ at' = [at EXCEPT ![q] = 1]
        /\ stocked' = [stocked EXCEPT ![q] = \E c \in Color : page_count[c] # 0]
    BY <2>1, <2>2 DEF Search
  <2>4. PICK c \in Color : page_count[c] # 0
    BY <1>2, <2>3
  <2>5. ct[t].index[c] \in 1 .. NumColors /\ ct[t].list[ct[t].index[c]] = c
    BY <1>2, <1>3 DEF HeapTable
  <2>6. at'[q] = 1
    BY <1>2, <2>3
  <2> QED BY <2>1, <2>4, <2>5, <2>6
<1> QED BY <1>0, <1>5, <1>6

LEMMA ScanAlways == Spec => []ScanInv
<1>1. Init => ScanInv
  BY DEF Init, ScanInv
<1>2. TypeInv /\ ScanInv /\ [Next]_vars => ScanInv'
  BY ScanNext
<1> QED BY <1>1, <1>2, TypeAlways, PTL DEF Spec

(* phys_page_alloc comes to the end of the colours without a page only if  *)
(* there was none when it began, although it lets go of the mutex of       *)
(* page_alloc.c between two colours: the colour table that it follows does *)
(* not change meanwhile, and only the holder of the mutex of phys_mem.c    *)
(* takes pages.                                                            *)
THEOREM SearchIsComplete == Spec => []FailsOnlyWhenEmpty
<1>1. TypeInv /\ ScanInv => FailsOnlyWhenEmpty
  <2> SUFFICES ASSUME TypeInv, ScanInv, NEW p \in Proc, pc[p] = "scan", at[p] > NumColors, stocked[p]
               PROVE  FALSE
    BY DEF FailsOnlyWhenEmpty
  <2>1. PICK i \in at[p] .. NumColors : TRUE
    BY DEF ScanInv
  <2>2. at[p] \in Int
    BY StepArg
  <2> QED BY <2>1, <2>2, ColorAssumption
<1> QED BY <1>1, TypeAlways, ScanAlways, PTL

-----------------------------------------------------------------------------
(* Where the pages are.                                                    *)
RingsOK ==
    \A c \in Color :
      /\ IsRing(links, free_pages[c], FreeList(c))
      /\ Cardinality(FreeList(c)) = page_count[c]
      /\ \A n \in FreeList(c) : page_color(n) = c

LEMMA InsertKeepsRings ==
  ASSUME ListsOK, RingsOK, NEW n \in Page, n \notin FreePages, phys_page_insert(n)
  PROVE  RingsOK' /\ FreePages' = FreePages \cup {n}
<1> DEFINE c == page_color(n)
           k == ClistInsert(links, free_pages[c], n)
           R == FreeList(c)
<1>1. /\ links' = k /\ free_pages' = [free_pages EXCEPT ![c] = n]
      /\ page_count' = [page_count EXCEPT ![c] = @ + 1]
  BY DEF phys_page_insert
<1>2. c \in Color /\ links \in Link /\ free_pages \in [Color -> Slot] /\ page_count \in [Color -> Nat]
  BY SlotFacts DEF ListsOK
<1>3. IsRing(links, free_pages[c], R) /\ n \notin R
  BY <1>2 DEF RingsOK, FreePages
<1>4. /\ IsRing(k, n, R \cup {n})
      /\ \A m \in Page \ (R \cup {n}) : k.next[m] = links.next[m] /\ k.last[m] = links.last[m]
  BY <1>2, <1>3, InsertRing
<1>9. page_color(n) = c
  OBVIOUS
<1> HIDE DEF c, k
<1>5. free_pages'[c] = n /\ \A d \in Color \ {c} : free_pages'[d] = free_pages[d]
  BY <1>1, <1>2
<1>6. FreeList(c)' = R \cup {n}
  BY <1>1, <1>4, <1>5, RingIs DEF FreeList
<1>7. ASSUME NEW d \in Color \ {c}
      PROVE  IsRing(links', free_pages'[d], FreeList(d)) /\ FreeList(d)' = FreeList(d)
  <2>1. IsRing(links, free_pages[d], FreeList(d)) /\ FreeList(d) \subseteq Page
    BY DEF RingsOK, IsRing
  <2>2. \A m \in FreeList(d) : m \in Page \ (R \cup {n})
    BY <1>2, <1>9, <2>1 DEF RingsOK
  <2>3. IsRing(k, free_pages[d], FreeList(d))
    BY <1>4, <2>1, <2>2, RingFrame
  <2>4. IsRing(links', free_pages'[d], FreeList(d))
    BY <1>1, <1>5, <2>3
  <2> QED BY <2>4, RingIs DEF FreeList
<1>8. IsFiniteSet(R) /\ Cardinality(R \cup {n}) = Cardinality(R) + 1
  <2>1. R \subseteq Page
    BY <1>3 DEF IsRing
  <2>2. IsFiniteSet(R)
    BY <2>1, PageFinite, FS_Subset
  <2> QED BY <1>3, <2>2, FS_AddElement
<1>10. ASSUME NEW d \in Color
       PROVE  /\ IsRing(links', free_pages'[d], FreeList(d)')
              /\ Cardinality(FreeList(d)') = page_count'[d]
              /\ \A m \in FreeList(d)' : page_color(m) = d
  <2>1. CASE d = c
    <3>1. IsRing(links', free_pages'[c], R \cup {n})
      BY <1>1, <1>4, <1>5
    <3>2. Cardinality(R \cup {n}) = page_count'[c]
      BY <1>1, <1>2, <1>8 DEF RingsOK
    <3>3. \A m \in R \cup {n} : page_color(m) = c
      BY <1>2, <1>9 DEF RingsOK
    <3> QED BY <1>6, <2>1, <3>1, <3>2, <3>3
  <2>2. CASE d # c
    <3>1. page_count'[d] = page_count[d]
      BY <1>1, <1>2, <2>2
    <3>2. Cardinality(FreeList(d)) = page_count[d] /\ \A m \in FreeList(d) : page_color(m) = d
      BY DEF RingsOK
    <3> QED BY <1>7, <2>2, <3>1, <3>2
  <2> QED BY <2>1, <2>2
<1>11. FreePages' = FreePages \cup {n}
  BY <1>2, <1>6, <1>7 DEF FreePages
<1> QED BY <1>10, <1>11 DEF RingsOK

LEMMA TakeKeepsRings ==
  ASSUME ListsOK, RingsOK, NEW p \in Proc, NEW c \in Color, TakePage(p, c)
  PROVE  /\ RingsOK' /\ FreePages' = FreePages \ {free_pages[c]}
         /\ free_pages[c] \in FreePages /\ free_pages[c] \in Page
<1> DEFINE k == ClistDelete(links, free_pages[c]).links
           l == ClistDelete(links, free_pages[c]).list
           h == free_pages[c]
           R == FreeList(c)
<1>1. /\ links' = k /\ free_pages' = [free_pages EXCEPT ![c] = l]
      /\ page_count' = [page_count EXCEPT ![c] = @ - 1] /\ page_count[c] # 0
  BY DEF TakePage
<1>2. links \in Link /\ free_pages \in [Color -> Slot] /\ page_count \in [Color -> Nat]
  BY DEF ListsOK
<1>3. IsRing(links, h, R) /\ Cardinality(R) = page_count[c]
  BY DEF RingsOK
<1>4. R # {} /\ h # NoNode /\ h \in R /\ R \subseteq Page
  <2>1. R # {}
    BY <1>1, <1>3, FS_EmptySet
  <2> QED BY <1>3, <2>1 DEF IsRing
<1>5. /\ IsRing(k, l, R \ {h})
      /\ \A m \in Page \ R : k.next[m] = links.next[m] /\ k.last[m] = links.last[m]
  BY <1>2, <1>3, <1>4, DeleteRing
<1> HIDE DEF k, l
<1>6. free_pages'[c] = l /\ \A d \in Color \ {c} : free_pages'[d] = free_pages[d]
  BY <1>1, <1>2
<1>7. FreeList(c)' = R \ {h}
  BY <1>1, <1>5, <1>6, RingIs DEF FreeList
<1>8. ASSUME NEW d \in Color \ {c}
      PROVE  IsRing(links', free_pages'[d], FreeList(d)) /\ FreeList(d)' = FreeList(d)
  <2>1. IsRing(links, free_pages[d], FreeList(d)) /\ FreeList(d) \subseteq Page
    BY DEF RingsOK, IsRing
  <2>2. \A m \in FreeList(d) : m \in Page \ R
    BY <2>1 DEF RingsOK
  <2>3. IsRing(k, free_pages[d], FreeList(d))
    BY <1>5, <2>1, <2>2, RingFrame
  <2>4. IsRing(links', free_pages'[d], FreeList(d))
    BY <1>1, <1>6, <2>3
  <2> QED BY <2>4, RingIs DEF FreeList
<1>9. Cardinality(R \ {h}) = Cardinality(R) - 1
  <2>1. IsFiniteSet(R)
    BY <1>4, PageFinite, FS_Subset
  <2> QED BY <1>4, <2>1, FS_RemoveElement
<1>10. ASSUME NEW d \in Color
       PROVE  /\ IsRing(links', free_pages'[d], FreeList(d)')
              /\ Cardinality(FreeList(d)') = page_count'[d]
              /\ \A m \in FreeList(d)' : page_color(m) = d
  <2>1. CASE d = c
    <3>1. IsRing(links', free_pages'[c], R \ {h})
      BY <1>1, <1>5, <1>6
    <3>2. Cardinality(R \ {h}) = page_count'[c]
      BY <1>1, <1>2, <1>3, <1>9
    <3>3. \A m \in R \ {h} : page_color(m) = c
      BY DEF RingsOK
    <3> QED BY <1>7, <2>1, <3>1, <3>2, <3>3
  <2>2. CASE d # c
    <3>1. page_count'[d] = page_count[d]
      BY <1>1, <1>2, <2>2
    <3>2. Cardinality(FreeList(d)) = page_count[d] /\ \A m \in FreeList(d) : page_color(m) = d
      BY DEF RingsOK
    <3> QED BY <1>8, <2>2, <3>1, <3>2
  <2> QED BY <2>1, <2>2
<1>11. \A d \in Color \ {c} : h \notin FreeList(d)
  BY <1>4 DEF RingsOK
<1>12. FreePages' = FreePages \ {h}
  <2> HIDE DEF h, R
  <2> QED BY <1>7, <1>8, <1>11 DEF FreePages, R
<1>13. h \in FreePages /\ h \in Page
  BY <1>4 DEF FreePages
<1> QED BY <1>10, <1>12, <1>13 DEF RingsOK

(* The pages of the pool are split among the free lists, the pages not yet *)
(* inserted, the copies, the anonymous pages, the page cache and the hands *)
(* of the calls, as long as no allocation has failed.                      *)
AnonPages == {anon[i].page : i \in DOMAIN anon}
CachedPages == {cached[i] : i \in DOMAIN cached}
HandPages == {hand[p] : p \in Proc} \ {NoNode}

Split(F, B, C, A, K, H) ==
    /\ F \cup B \cup C \cup A \cup K \cup H = Pool
    /\ F \cap (B \cup C \cup A \cup K \cup H) = {}
    /\ B \cap (C \cup A \cup K \cup H) = {}
    /\ C \cap (A \cup K \cup H) = {}
    /\ A \cap (K \cup H) = {}
    /\ K \cap H = {}

OneEach ==
    /\ \A i, j \in DOMAIN anon : anon[i].page = anon[j].page => i = j
    /\ \A i, j \in DOMAIN cached : cached[i] = cached[j] => i = j
    /\ \A p, q \in Proc : hand[p] = hand[q] /\ hand[p] # NoNode => p = q

HandFits == \A p \in Proc : hand[p] # NoNode <=> pc[p] \in {"got", "insert"}

Accounted ==
    /\ Split(FreePages, boot, copies, AnonPages, CachedPages, HandPages)
    /\ OneEach /\ HandFits

PagesInv == ~short => RingsOK /\ Accounted

LEMMA PoolFacts == Pool \subseteq Page /\ NoNode \notin Pool /\ PageZero \notin Pool
BY PoolAssumption DEF Page, NoNode, PageZero

(* A page moves from one place to another.                                 *)
LEMMA SplitMoves ==
  ASSUME NEW F, NEW B, NEW C, NEW A, NEW K, NEW H, NEW n, Split(F, B, C, A, K, H)
  PROVE  /\ n \in B => Split(F \cup {n}, B \ {n}, C, A, K, H)
         /\ n \in H => Split(F \cup {n}, B, C, A, K, H \ {n})
         /\ n \in F => Split(F \ {n}, B, C, A, K, H \cup {n})
         /\ n \in H => Split(F, B, C \cup {n}, A, K, H \ {n})
         /\ n \in H => Split(F, B, C, A \cup {n}, K, H \ {n})
         /\ n \in H => Split(F, B, C, A, K \cup {n}, H \ {n})
         /\ n \in A => Split(F, B, C, A \ {n}, K, H \cup {n})
<1>1. n \in B => Split(F \cup {n}, B \ {n}, C, A, K, H)
  BY DEF Split
<1>2. n \in H => Split(F \cup {n}, B, C, A, K, H \ {n})
  BY DEF Split
<1>3. n \in F => Split(F \ {n}, B, C, A, K, H \cup {n})
  BY DEF Split
<1>4. n \in H => Split(F, B, C \cup {n}, A, K, H \ {n})
  BY DEF Split
<1>5. n \in H => Split(F, B, C, A \cup {n}, K, H \ {n})
  BY DEF Split
<1>6. n \in H => Split(F, B, C, A, K \cup {n}, H \ {n})
  BY DEF Split
<1>7. n \in A => Split(F, B, C, A \ {n}, K, H \cup {n})
  BY DEF Split
<1> QED BY <1>1, <1>2, <1>3, <1>4, <1>5, <1>6, <1>7

(* What is in the hands when one call lays its page down or takes one up.  *)
LEMMA HandChanges ==
  ASSUME hand \in [Proc -> Slot], pc \in [Proc -> CallPlace], HandFits,
         \A p, q \in Proc : hand[p] = hand[q] /\ hand[p] # NoNode => p = q,
         NEW p \in Proc, NEW n \in Slot, hand' = [hand EXCEPT ![p] = n],
         NEW x, pc' = [pc EXCEPT ![p] = x], n # NoNode <=> x \in {"got", "insert"},
         n \notin HandPages
  PROVE  /\ HandFits' /\ \A q, r \in Proc : hand'[q] = hand'[r] /\ hand'[q] # NoNode => q = r
         /\ hand[p] # NoNode /\ n = NoNode => HandPages' = HandPages \ {hand[p]} /\ hand[p] \in HandPages
         /\ hand[p] = NoNode /\ n = NoNode => HandPages' = HandPages
         /\ hand[p] = NoNode /\ n # NoNode => HandPages' = HandPages \cup {n}
<1>1. hand'[p] = n /\ pc'[p] = x /\ \A q \in Proc \ {p} : hand'[q] = hand[q] /\ pc'[q] = pc[q]
  OBVIOUS
<1>2. HandFits'
  BY <1>1 DEF HandFits
<1>3. \A q \in Proc : hand[q] = NoNode \/ hand[q] # n
  BY DEF HandPages
<1>4. \A q, r \in Proc : hand'[q] = hand'[r] /\ hand'[q] # NoNode => q = r
  BY <1>1, <1>3
<1>5. \A m : m \in HandPages' <=> m # NoNode /\ \E q \in Proc : hand'[q] = m
  BY DEF HandPages
<1>6. \A m : m \in HandPages <=> m # NoNode /\ \E q \in Proc : hand[q] = m
  BY DEF HandPages
<1>7. ASSUME hand[p] # NoNode, n = NoNode PROVE HandPages' = HandPages \ {hand[p]} /\ hand[p] \in HandPages
  <2>1. \A m : m \in HandPages' <=> m \in HandPages /\ m # hand[p]
    BY <1>1, <1>5, <1>6, <1>7
  <2> QED BY <1>6, <1>7, <2>1
<1>8. ASSUME hand[p] = NoNode, n = NoNode PROVE HandPages' = HandPages
  <2>1. \A m : m \in HandPages' <=> m \in HandPages
    BY <1>1, <1>5, <1>6, <1>8
  <2> QED BY <2>1
<1>9. ASSUME hand[p] = NoNode, n # NoNode PROVE HandPages' = HandPages \cup {n}
  <2>1. \A m : m \in HandPages' <=> m \in HandPages \/ m = n
    BY <1>1, <1>5, <1>6, <1>9
  <2> QED BY <2>1
<1> QED BY <1>2, <1>4, <1>7, <1>8, <1>9

(* The places of a chain after an insertion and after a deletion.          *)
LEMMA InsertPlaces ==
  ASSUME NEW S, NEW chain \in Seq(S), NEW e \in S
  PROVE  /\ 1 \in DOMAIN hash_table_insert(chain, e) /\ hash_table_insert(chain, e)[1] = e
         /\ \A i \in DOMAIN hash_table_insert(chain, e) :
              i = 1 \/ (i - 1 \in DOMAIN chain /\ hash_table_insert(chain, e)[i] = chain[i - 1])
         /\ \A j \in DOMAIN chain :
              j + 1 \in DOMAIN hash_table_insert(chain, e) /\ hash_table_insert(chain, e)[j + 1] = chain[j]
         /\ DOMAIN chain \subseteq Int /\ DOMAIN hash_table_insert(chain, e) \subseteq Int
<1> DEFINE new == hash_table_insert(chain, e)
           N == Len(chain)
<1>1. N \in Nat /\ DOMAIN chain = 1 .. N
  OBVIOUS
<1>2. DOMAIN new = 1 .. N + 1 /\ new[1] = e /\ \A i \in 2 .. N + 1 : new[i] = chain[i - 1]
  BY InsertChain
<1> HIDE DEF new, N
<1>3. \A i \in 1 .. N + 1 : i = 1 \/ (i - 1 \in 1 .. N /\ new[i] = chain[i - 1])
  BY <1>1, <1>2
<1>4. \A j \in 1 .. N : j + 1 \in 1 .. N + 1 /\ new[j + 1] = chain[j]
  <2> TAKE j \in 1 .. N
  <2>1. j + 1 \in 2 .. N + 1 /\ (j + 1) - 1 = j
    BY <1>1
  <2> QED BY <1>1, <1>2, <2>1
<1> QED BY <1>1, <1>2, <1>3, <1>4 DEF new

LEMMA DeletePlaces ==
  ASSUME NEW S, NEW chain \in Seq(S), NEW k \in DOMAIN chain
  PROVE  \E old \in [DOMAIN hash_table_delete(chain, k) -> DOMAIN chain \ {k}] :
           /\ \A i \in DOMAIN hash_table_delete(chain, k) : hash_table_delete(chain, k)[i] = chain[old[i]]
           /\ \A i, j \in DOMAIN hash_table_delete(chain, k) : old[i] = old[j] => i = j
           /\ \A j \in DOMAIN chain \ {k} : \E i \in DOMAIN hash_table_delete(chain, k) : old[i] = j
<1> DEFINE new == hash_table_delete(chain, k)
           N == Len(chain)
<1>1. N \in Nat /\ DOMAIN chain = 1 .. N /\ k \in 1 .. N
  OBVIOUS
<1>2. DOMAIN new = 1 .. N - 1 /\ \A i \in 1 .. N - 1 : new[i] = IF i < k THEN chain[i] ELSE chain[i + 1]
  BY <1>1, DeleteChain
<1> HIDE DEF new, N
<1> DEFINE old == [i \in 1 .. N - 1 |-> IF i < k THEN i ELSE i + 1]
<1>3. old \in [1 .. N - 1 -> (1 .. N) \ {k}]
  BY <1>1
<1>4. \A i \in 1 .. N - 1 : new[i] = chain[old[i]]
  BY <1>1, <1>2
<1>5. \A i, j \in 1 .. N - 1 : old[i] = old[j] => i = j
  BY <1>1
<1>6. ASSUME NEW j \in (1 .. N) \ {k} PROVE \E i \in 1 .. N - 1 : old[i] = j
  <2>1. CASE j < k
    <3>1. j \in 1 .. N - 1 /\ old[j] = j
      BY <1>1, <2>1
    <3> QED BY <3>1
  <2>2. CASE ~(j < k)
    <3>1. j - 1 \in 1 .. N - 1 /\ old[j - 1] = j
      BY <1>1, <2>2
    <3> QED BY <3>1
  <2> QED BY <2>1, <2>2
<1> HIDE DEF old
<1>7. old \in [DOMAIN new -> DOMAIN chain \ {k}]
  BY <1>1, <1>2, <1>3
<1>8. /\ \A i \in DOMAIN new : new[i] = chain[old[i]]
      /\ \A i, j \in DOMAIN new : old[i] = old[j] => i = j
      /\ \A j \in DOMAIN chain \ {k} : \E i \in DOMAIN new : old[i] = j
  BY <1>1, <1>2, <1>4, <1>5, <1>6
<1> QED BY <1>7, <1>8, Zenon DEF new

-----------------------------------------------------------------------------
(* Each action keeps PagesInv.                                             *)
LEMMA AccountFacts ==
  ASSUME TypeInv, Accounted
  PROVE  /\ hand \in [Proc -> Slot] /\ pc \in [Proc -> CallPlace] /\ HandFits
         /\ \A p, q \in Proc : hand[p] = hand[q] /\ hand[p] # NoNode => p = q
         /\ FreePages \subseteq Pool /\ boot \subseteq Pool /\ HandPages \subseteq Pool
         /\ AnonPages \subseteq Pool /\ CachedPages \subseteq Pool /\ NoNode \notin HandPages
         /\ FreePages \cap (HandPages \cup boot) = {} /\ HandPages \cap (AnonPages \cup CachedPages) = {}
BY DEF TypeInv, LocalsOK, CallsOK, Accounted, OneEach, Split, HandPages

(* A call that has no page goes on without one.                            *)
LEMMA QuietStep ==
  ASSUME TypeInv, RingsOK, Accounted, NEW p \in Proc, NEW x, x \notin {"got", "insert"},
         pc[p] \notin {"got", "insert"}, Goto(p, x), hand' = [hand EXCEPT ![p] = NoNode],
         UNCHANGED <<boot, links, free_pages, page_count, anon, cached, copies>>
  PROVE  RingsOK' /\ Accounted'
<1>1. RingsOK' /\ FreePages' = FreePages /\ AnonPages' = AnonPages /\ CachedPages' = CachedPages
  BY DEF RingsOK, FreePages, FreeList, AnonPages, CachedPages
<1>2. /\ hand \in [Proc -> Slot] /\ pc \in [Proc -> CallPlace] /\ HandFits /\ NoNode \notin HandPages
      /\ \A q, r \in Proc : hand[q] = hand[r] /\ hand[q] # NoNode => q = r
  BY AccountFacts
<1>3. hand[p] = NoNode /\ pc' = [pc EXCEPT ![p] = x] /\ NoNode \in Slot
  BY <1>2, SlotFacts DEF HandFits, Goto
<1>4. /\ HandFits' /\ HandPages' = HandPages
      /\ \A q, r \in Proc : hand'[q] = hand'[r] /\ hand'[q] # NoNode => q = r
  BY <1>2, <1>3, HandChanges
<1>5. Split(FreePages, boot, copies, AnonPages, CachedPages, HandPages)'
  BY <1>1, <1>4 DEF Accounted, Split
<1>6. OneEach'
  BY <1>4 DEF Accounted, OneEach
<1> QED BY <1>1, <1>4, <1>5, <1>6 DEF Accounted

LEMMA TakePages ==
  ASSUME TypeInv, RingsOK, Accounted, NEW p \in Proc, pc[p] \in {"scan", "kern"}, NEW c \in Color,
         TakePage(p, c), UNCHANGED <<boot, anon, cached, copies>>
  PROVE  RingsOK' /\ Accounted'
<1> DEFINE n == free_pages[c]
<1>1. RingsOK' /\ FreePages' = FreePages \ {n} /\ n \in FreePages /\ n \in Page
  BY TakeKeepsRings DEF TypeInv
<1>2. AnonPages' = AnonPages /\ CachedPages' = CachedPages
  BY DEF AnonPages, CachedPages
<1>3. hand' = [hand EXCEPT ![p] = n] /\ pc' = [pc EXCEPT ![p] = "got"]
  BY DEF TakePage, Goto
<1> HIDE DEF n
<1>4. n \in Slot /\ n # NoNode /\ n \notin HandPages
  BY <1>1, SlotFacts, PageFinite, AccountFacts
<1>5. hand[p] = NoNode
  BY AccountFacts DEF HandFits
<1>6. /\ HandFits' /\ HandPages' = HandPages \cup {n}
      /\ \A q, r \in Proc : hand'[q] = hand'[r] /\ hand'[q] # NoNode => q = r
  BY <1>3, <1>4, <1>5, AccountFacts, HandChanges
<1>8. Split(FreePages, boot, copies, AnonPages, CachedPages, HandPages)'
  <2>1. Split(FreePages \ {n}, boot, copies, AnonPages, CachedPages, HandPages \cup {n})
    BY <1>1, SplitMoves DEF Accounted
  <2> QED BY <1>1, <1>2, <1>6, <2>1 DEF Split
<1>9. OneEach'
  BY <1>6 DEF Accounted, OneEach
<1> QED BY <1>1, <1>6, <1>8, <1>9 DEF Accounted

(* A call lays its page down and returns.                                  *)
LEMMA LayDown ==
  ASSUME TypeInv, Accounted, NEW p \in Proc, pc[p] \in {"got", "insert"}, Return(p)
  PROVE  /\ HandFits' /\ HandPages' = HandPages \ {hand[p]} /\ hand[p] \in HandPages /\ hand[p] \in Pool
         /\ \A q, r \in Proc : hand'[q] = hand'[r] /\ hand'[q] # NoNode => q = r
<1>1. hand' = [hand EXCEPT ![p] = NoNode] /\ pc' = [pc EXCEPT ![p] = "idle"] /\ NoNode \in Slot
  BY SlotFacts DEF Return, Goto
<1>2. hand[p] # NoNode /\ NoNode \notin HandPages
  BY AccountFacts DEF HandFits
<1>3. /\ HandFits' /\ HandPages' = HandPages \ {hand[p]} /\ hand[p] \in HandPages
      /\ \A q, r \in Proc : hand'[q] = hand'[r] /\ hand'[q] # NoNode => q = r
  BY <1>1, <1>2, AccountFacts, HandChanges
<1> QED BY <1>3, AccountFacts

LEMMA CreatePages ==
  ASSUME TypeInv, RingsOK, Accounted, NEW p \in Proc, CreateEnd(p)
  PROVE  RingsOK' /\ Accounted'
<1> DEFINE n == hand[p]
           e == [id |-> arg[p].id, page |-> n]
<1>1. /\ UNCHANGED <<boot, links, free_pages, page_count, cached>> /\ Return(p) /\ pc[p] = "got"
      /\ \/ copies' = copies \cup {n} /\ UNCHANGED anon
         \/ anon' = hash_table_insert(anon, e) /\ UNCHANGED copies
  BY DEF CreateEnd, lists
<1>2. RingsOK' /\ FreePages' = FreePages /\ CachedPages' = CachedPages
  BY <1>1 DEF RingsOK, FreePages, FreeList, CachedPages
<1>3. /\ HandFits' /\ HandPages' = HandPages \ {n} /\ n \in HandPages /\ n \in Pool
      /\ \A q, r \in Proc : hand'[q] = hand'[r] /\ hand'[q] # NoNode => q = r
  BY <1>1, LayDown
<1>4. e \in Entry /\ e.page = n
  <2>1. arg[p].id \in Id
    BY <1>1, StepArg, ArgShapes DEF CreateEnd
  <2> QED BY <2>1, StepArg DEF Entry
<1> HIDE DEF n, e
<1>5. CASE copies' = copies \cup {n} /\ UNCHANGED anon
  <2>1. AnonPages' = AnonPages
    BY <1>5 DEF AnonPages
  <2>2. Split(FreePages, boot, copies \cup {n}, AnonPages, CachedPages, HandPages \ {n})
    BY <1>3, SplitMoves DEF Accounted
  <2>3. Split(FreePages, boot, copies, AnonPages, CachedPages, HandPages)'
    BY <1>1, <1>2, <1>3, <1>5, <2>1, <2>2 DEF Split
  <2>4. OneEach'
    BY <1>1, <1>3, <1>5 DEF Accounted, OneEach
  <2> QED BY <1>2, <1>3, <2>3, <2>4 DEF Accounted
<1>6. CASE anon' = hash_table_insert(anon, e) /\ UNCHANGED copies
  <2>1. anon \in Seq(Entry)
    BY DEF TypeInv, TablesOK
  <2>2. /\ 1 \in DOMAIN anon' /\ anon'[1] = e
        /\ \A i \in DOMAIN anon' : i = 1 \/ (i - 1 \in DOMAIN anon /\ anon'[i] = anon[i - 1])
        /\ \A j \in DOMAIN anon : j + 1 \in DOMAIN anon' /\ anon'[j + 1] = anon[j]
        /\ DOMAIN anon \subseteq Int /\ DOMAIN anon' \subseteq Int
    BY <1>4, <1>6, <2>1, InsertPlaces
  <2>3. AnonPages' = AnonPages \cup {n}
    <3>1. \A m : m \in AnonPages' <=> \E i \in DOMAIN anon' : anon'[i].page = m
      BY DEF AnonPages
    <3>2. \A m : m \in AnonPages <=> \E i \in DOMAIN anon : anon[i].page = m
      BY DEF AnonPages
    <3>3. \A m : m \in AnonPages' <=> m \in AnonPages \/ m = n
      BY <1>4, <2>2, <3>1, <3>2
    <3> QED BY <3>3
  <2>4. Split(FreePages, boot, copies, AnonPages \cup {n}, CachedPages, HandPages \ {n})
    BY <1>3, SplitMoves DEF Accounted
  <2>5. Split(FreePages, boot, copies, AnonPages, CachedPages, HandPages)'
    BY <1>1, <1>2, <1>3, <1>6, <2>3, <2>4 DEF Split
  <2>6. \A j \in DOMAIN anon : anon[j].page # n
    BY <1>3, AccountFacts DEF AnonPages
  <2>7. ASSUME NEW i \in DOMAIN anon', NEW j \in DOMAIN anon', anon'[i].page = anon'[j].page PROVE i = j
    <3>1. CASE i = 1
      BY <1>4, <2>2, <2>6, <2>7, <3>1
    <3>2. CASE j = 1
      BY <1>4, <2>2, <2>6, <2>7, <3>2
    <3>3. CASE i # 1 /\ j # 1
      <4>1. i - 1 \in DOMAIN anon /\ j - 1 \in DOMAIN anon /\ anon[i - 1].page = anon[j - 1].page
        BY <2>2, <2>7, <3>3
      <4>2. i - 1 = j - 1
        BY <4>1 DEF Accounted, OneEach
      <4> QED BY <2>2, <4>2
    <3> QED BY <3>1, <3>2, <3>3
  <2>8. OneEach'
    BY <1>1, <1>3, <2>7 DEF Accounted, OneEach
  <2> QED BY <1>2, <1>3, <2>5, <2>8 DEF Accounted
<1> QED BY <1>1, <1>5, <1>6

LEMMA FetchPages ==
  ASSUME TypeInv, RingsOK, Accounted, NEW p \in Proc, FetchEnd(p)
  PROVE  RingsOK' /\ Accounted'
<1> DEFINE n == hand[p]
<1>1. /\ UNCHANGED <<boot, links, free_pages, page_count, anon, copies>> /\ Return(p) /\ pc[p] = "got"
      /\ cached' = hash_table_insert(cached, n)
  BY DEF FetchEnd, lists, ghosts, page_cache_insert
<1>2. RingsOK' /\ FreePages' = FreePages /\ AnonPages' = AnonPages
  BY <1>1 DEF RingsOK, FreePages, FreeList, AnonPages
<1>3. /\ HandFits' /\ HandPages' = HandPages \ {n} /\ n \in HandPages /\ n \in Pool
      /\ \A q, r \in Proc : hand'[q] = hand'[r] /\ hand'[q] # NoNode => q = r
  BY <1>1, LayDown
<1>4. n \in Slot /\ cached \in Seq(Slot)
  BY StepArg DEF TypeInv, TablesOK
<1> HIDE DEF n
<1>5. /\ 1 \in DOMAIN cached' /\ cached'[1] = n
      /\ \A i \in DOMAIN cached' : i = 1 \/ (i - 1 \in DOMAIN cached /\ cached'[i] = cached[i - 1])
      /\ \A j \in DOMAIN cached : j + 1 \in DOMAIN cached' /\ cached'[j + 1] = cached[j]
      /\ DOMAIN cached \subseteq Int /\ DOMAIN cached' \subseteq Int
  BY <1>1, <1>4, InsertPlaces
<1>6. CachedPages' = CachedPages \cup {n}
  <2>1. \A m : m \in CachedPages' <=> \E i \in DOMAIN cached' : cached'[i] = m
    BY DEF CachedPages
  <2>2. \A m : m \in CachedPages <=> \E i \in DOMAIN cached : cached[i] = m
    BY DEF CachedPages
  <2>3. \A m : m \in CachedPages' <=> m \in CachedPages \/ m = n
    BY <1>5, <2>1, <2>2
  <2> QED BY <2>3
<1>7. Split(FreePages, boot, copies, AnonPages, CachedPages \cup {n}, HandPages \ {n})
  BY <1>3, SplitMoves DEF Accounted
<1>8. Split(FreePages, boot, copies, AnonPages, CachedPages, HandPages)'
  BY <1>1, <1>2, <1>3, <1>6, <1>7 DEF Split
<1>9. \A j \in DOMAIN cached : cached[j] # n
  BY <1>3, AccountFacts DEF CachedPages
<1>10. ASSUME NEW i \in DOMAIN cached', NEW j \in DOMAIN cached', cached'[i] = cached'[j] PROVE i = j
  <2>1. CASE i = 1
    BY <1>5, <1>9, <1>10, <2>1
  <2>2. CASE j = 1
    BY <1>5, <1>9, <1>10, <2>2
  <2>3. CASE i # 1 /\ j # 1
    <3>1. i - 1 \in DOMAIN cached /\ j - 1 \in DOMAIN cached /\ cached[i - 1] = cached[j - 1]
      BY <1>5, <1>10, <2>3
    <3>2. i - 1 = j - 1
      BY <3>1 DEF Accounted, OneEach
    <3> QED BY <1>5, <3>2
  <2> QED BY <2>1, <2>2, <2>3
<1>11. OneEach'
  BY <1>1, <1>3, <1>10 DEF Accounted, OneEach
<1> QED BY <1>2, <1>3, <1>8, <1>11 DEF Accounted

LEMMA FreeEntryPages ==
  ASSUME TypeInv, RingsOK, Accounted, NEW p \in Proc, FreeEntry(p)
  PROVE  RingsOK' /\ Accounted'
<1> DEFINE k == anon_page_lookup(arg[p].id)
           n == anon[k].page
<1>1. /\ UNCHANGED <<boot, links, free_pages, page_count, cached, copies>> /\ pc[p] = "free"
      /\ hand' = [hand EXCEPT ![p] = n] /\ pc' = [pc EXCEPT ![p] = "insert"]
      /\ anon' = hash_table_delete(anon, k)
  BY DEF FreeEntry, lists, ghosts, Goto
<1>2. RingsOK' /\ FreePages' = FreePages /\ CachedPages' = CachedPages
  BY <1>1 DEF RingsOK, FreePages, FreeList, CachedPages
<1>3. k \in DOMAIN anon /\ n \in Slot /\ anon \in Seq(Entry)
  BY LookupFinds DEF FreeEntry, TypeInv, TablesOK
<1> HIDE DEF k
<1>4. PICK old \in [DOMAIN anon' -> DOMAIN anon \ {k}] :
        /\ \A i \in DOMAIN anon' : anon'[i] = anon[old[i]]
        /\ \A i, j \in DOMAIN anon' : old[i] = old[j] => i = j
        /\ \A j \in DOMAIN anon \ {k} : \E i \in DOMAIN anon' : old[i] = j
  BY <1>1, <1>3, DeletePlaces
<1>5. n \in AnonPages /\ n # NoNode /\ n \notin HandPages
  BY <1>3, AccountFacts, PoolFacts DEF AnonPages
<1>6. \A j \in DOMAIN anon : anon[j].page = n => j = k
  BY <1>3 DEF Accounted, OneEach
<1>7. AnonPages' = AnonPages \ {n}
  <2>1. \A m : m \in AnonPages' <=> \E i \in DOMAIN anon' : anon'[i].page = m
    BY DEF AnonPages
  <2>2. \A m : m \in AnonPages <=> \E i \in DOMAIN anon : anon[i].page = m
    BY DEF AnonPages
  <2>3. anon[k].page = n
    OBVIOUS
  <2> HIDE DEF n
  <2>4. \A m : m \in AnonPages' => m \in AnonPages /\ m # n
    BY <1>4, <1>6, <2>1, <2>2
  <2>5. \A m : m \in AnonPages /\ m # n => m \in AnonPages'
    BY <1>4, <2>1, <2>2, <2>3
  <2> QED BY <2>4, <2>5
<1> HIDE DEF n
<1>8. hand[p] = NoNode
  BY <1>1, AccountFacts DEF HandFits
<1>9. /\ HandFits' /\ HandPages' = HandPages \cup {n}
      /\ \A q, r \in Proc : hand'[q] = hand'[r] /\ hand'[q] # NoNode => q = r
  BY <1>1, <1>3, <1>5, <1>8, AccountFacts, HandChanges
<1>10. Split(FreePages, boot, copies, AnonPages \ {n}, CachedPages, HandPages \cup {n})
  BY <1>5, SplitMoves DEF Accounted
<1>11. Split(FreePages, boot, copies, AnonPages, CachedPages, HandPages)'
  BY <1>1, <1>2, <1>7, <1>9, <1>10 DEF Split
<1>12. ASSUME NEW i \in DOMAIN anon', NEW j \in DOMAIN anon', anon'[i].page = anon'[j].page PROVE i = j
  <2>1. old[i] \in DOMAIN anon /\ old[j] \in DOMAIN anon /\ anon[old[i]].page = anon[old[j]].page
    BY <1>4, <1>12
  <2>2. old[i] = old[j]
    BY <2>1 DEF Accounted, OneEach
  <2> QED BY <1>4, <2>2
<1>13. OneEach'
  BY <1>1, <1>9, <1>12 DEF Accounted, OneEach
<1> QED BY <1>2, <1>9, <1>11, <1>13 DEF Accounted

LEMMA InsertPages ==
  ASSUME TypeInv, RingsOK, Accounted, Boot \/ \E p \in Proc : FreePage(p)
  PROVE  RingsOK' /\ Accounted'
<1>0. UNCHANGED <<anon, cached, copies>>
  BY DEF Boot, FreePage, tables, ghosts
<1>1. AnonPages' = AnonPages /\ CachedPages' = CachedPages
  BY <1>0 DEF AnonPages, CachedPages
<1>2. CASE Boot
  <2>1. PICK n \in boot : phys_page_insert(n) /\ boot' = boot \ {n}
    BY <1>2 DEF Boot
  <2>2. UNCHANGED <<hand, pc>>
    BY <1>2 DEF Boot, local
  <2>3. n \in Page /\ n \notin FreePages
    BY AccountFacts, PoolFacts
  <2>4. RingsOK' /\ FreePages' = FreePages \cup {n}
    BY <2>1, <2>3, InsertKeepsRings DEF TypeInv
  <2>5. HandPages' = HandPages /\ HandFits' /\ OneEach'
    BY <1>0, <2>2 DEF HandPages, Accounted, HandFits, OneEach
  <2>6. Split(FreePages \cup {n}, boot \ {n}, copies, AnonPages, CachedPages, HandPages)
    BY SplitMoves DEF Accounted
  <2>7. Split(FreePages, boot, copies, AnonPages, CachedPages, HandPages)'
    BY <1>0, <1>1, <2>1, <2>4, <2>5, <2>6 DEF Split
  <2> QED BY <2>4, <2>5, <2>7 DEF Accounted
<1>3. ASSUME NEW p \in Proc, FreePage(p) PROVE RingsOK' /\ Accounted'
  <2> DEFINE n == hand[p]
  <2>1. phys_page_insert(n) /\ Return(p) /\ boot' = boot /\ pc[p] = "insert"
    BY <1>3 DEF FreePage
  <2>2. /\ HandFits' /\ HandPages' = HandPages \ {n} /\ n \in HandPages /\ n \in Pool
        /\ \A q, r \in Proc : hand'[q] = hand'[r] /\ hand'[q] # NoNode => q = r
    BY <2>1, LayDown
  <2> HIDE DEF n
  <2>3. n \in Page /\ n \notin FreePages
    BY <2>2, AccountFacts, PoolFacts
  <2>4. RingsOK' /\ FreePages' = FreePages \cup {n}
    BY <2>1, <2>3, InsertKeepsRings DEF TypeInv
  <2>5. Split(FreePages \cup {n}, boot, copies, AnonPages, CachedPages, HandPages \ {n})
    BY <2>2, SplitMoves DEF Accounted
  <2>6. Split(FreePages, boot, copies, AnonPages, CachedPages, HandPages)'
    BY <1>0, <1>1, <2>1, <2>2, <2>4, <2>5 DEF Split
  <2>7. OneEach'
    BY <1>0, <2>2 DEF Accounted, OneEach
  <2> QED BY <2>2, <2>4, <2>6, <2>7 DEF Accounted
<1> QED BY <1>2, <1>3

LEMMA PagesNext ==
  ASSUME TypeInv, PagesInv, [Next]_vars
  PROVE  PagesInv'
<1> SUFFICES ASSUME ~short' PROVE RingsOK' /\ Accounted'
  BY DEF PagesInv
<1>0. ~short
  BY TableSteps
<1>1. RingsOK /\ Accounted
  BY <1>0 DEF PagesInv
<1>2. hand \in [Proc -> Slot] /\ pc \in [Proc -> CallPlace] /\ HandFits
  BY <1>1, AccountFacts
<1>3. CASE UNCHANGED vars
  <2>1. UNCHANGED <<boot, links, free_pages, page_count, anon, cached, copies, hand, pc>>
    BY <1>3 DEF vars, lists, tables, ghosts, local
  <2>2. RingsOK' /\ FreePages' = FreePages /\ AnonPages' = AnonPages /\ CachedPages' = CachedPages
    BY <1>1, <2>1 DEF RingsOK, FreePages, FreeList, AnonPages, CachedPages
  <2>3. HandPages' = HandPages /\ HandFits' /\ OneEach'
    BY <1>1, <2>1 DEF HandPages, Accounted, HandFits, OneEach
  <2> QED BY <1>1, <2>1, <2>2, <2>3 DEF Accounted, Split
<1>4. ASSUME NEW p \in Proc, pc[p] \notin {"got", "insert"}, UNCHANGED hand
      PROVE  hand' = [hand EXCEPT ![p] = NoNode]
  BY <1>2, <1>4 DEF HandFits
<1>5. ASSUME NEW p \in Proc, Call(p) PROVE RingsOK' /\ Accounted'
  <2>1. PICK x \in {"create", "fetch", "free"} : \E a : Begin(p, x, a)
    BY <1>5, Zenon DEF Call, anon_page_create, fetch_inode_page, fetch_anon_page, anon_page_free
  <2>2. /\ UNCHANGED <<boot, links, free_pages, page_count, anon, cached, copies, hand>>
        /\ Goto(p, x) /\ pc[p] = "idle"
    BY <2>1 DEF Begin, lists, tables
  <2>3. x \notin {"got", "insert"} /\ pc[p] \notin {"got", "insert"}
    BY <2>1, <2>2
  <2> QED BY <1>1, <1>4, <2>2, <2>3, QuietStep
<1>6. ASSUME NEW p \in Proc, AnotherId(p) PROVE RingsOK' /\ Accounted'
  <2>1. /\ UNCHANGED <<boot, links, free_pages, page_count, anon, cached, copies, hand>>
        /\ Goto(p, "create") /\ pc[p] = "create"
    BY <1>2, <1>6 DEF AnotherId, lists, tables, ghosts, Goto
  <2> QED BY <1>1, <1>4, <2>1, QuietStep
<1>7. ASSUME NEW p \in Proc, CreateLock(p) \/ FetchMiss(p) PROVE RingsOK' /\ Accounted'
  <2>1. /\ UNCHANGED <<boot, links, free_pages, page_count, anon, cached, copies, hand>>
        /\ Goto(p, "scan") \/ Goto(p, "kern")
        /\ pc[p] \notin {"got", "insert"}
    BY <1>7 DEF CreateLock, FetchMiss, Search, lists, tables, ghosts
  <2> QED BY <1>1, <1>4, <2>1, QuietStep
<1>8. ASSUME NEW p \in Proc, FetchHit(p) \/ FetchAnon(p) \/ FreeUnknown(p) PROVE RingsOK' /\ Accounted'
  <2>1. /\ UNCHANGED <<boot, links, free_pages, page_count, anon, cached, copies>>
        /\ Goto(p, "idle") /\ hand' = [hand EXCEPT ![p] = NoNode]
        /\ pc[p] \notin {"got", "insert"}
    BY <1>8 DEF FetchHit, FetchAnon, FreeUnknown, Return, lists, tables, ghosts
  <2> QED BY <1>1, <2>1, QuietStep
<1>9. ASSUME NEW p \in Proc, phys_page_alloc(p) PROVE RingsOK' /\ Accounted'
  <2> DEFINE c == ct[IF arg[p].shared THEN "obj" ELSE "spc"].list[at[p]]
  <2>1. /\ UNCHANGED <<boot, anon, cached, copies>> /\ pc[p] = "scan" /\ ~NoPage(p)
        /\ at[p] <= NumColors
        /\ TakePage(p, c) \/ UNCHANGED <<links, free_pages, page_count, hand, pc>>
    BY <1>9 DEF phys_page_alloc, NoPage, lists, tables
  <2>2. c \in Color
    <3> DEFINE t == IF arg[p].shared THEN "obj" ELSE "spc"
    <3>1. t \in Table
      BY DEF Table
    <3> HIDE DEF t
    <3>2. ct[t] \in TableType
      BY <3>1 DEF TypeInv, CtOK
    <3>3. ct[t].list \in [1 .. NumColors -> Color]
      BY <3>2 DEF TableType
    <3>4. at[p] \in 1 .. NumColors
      BY <2>1, StepArg, ColorAssumption
    <3> QED BY <3>3, <3>4 DEF t
  <2> HIDE DEF c
  <2>3. CASE UNCHANGED <<links, free_pages, page_count, hand, pc>>
    <3>1. Goto(p, "scan") /\ hand' = [hand EXCEPT ![p] = NoNode]
      BY <1>2, <1>4, <2>1, <2>3 DEF Goto
    <3> QED BY <1>1, <2>1, <2>3, <3>1, QuietStep
  <2> QED BY <1>1, <2>1, <2>2, <2>3, TakePages
<1>10. ASSUME NEW p \in Proc, kern_page_alloc(p) PROVE RingsOK' /\ Accounted'
  <2> DEFINE c == ct["obj"].list[1]
  <2>1. UNCHANGED <<boot, anon, cached, copies>> /\ pc[p] = "kern" /\ TakePage(p, c)
    BY <1>10 DEF kern_page_alloc, NoPage, tables
  <2>2. c \in Color
    <3>1. ct["obj"] \in TableType
      BY DEF TypeInv, CtOK, Table
    <3>2. ct["obj"].list \in [1 .. NumColors -> Color]
      BY <3>1 DEF TableType
    <3> QED BY <3>2, ColorAssumption
  <2> HIDE DEF c
  <2> QED BY <1>1, <2>1, <2>2, TakePages
<1>11. ASSUME NEW p \in Proc, CreateEnd(p) \/ FetchEnd(p) \/ FreeEntry(p) \/ FreePage(p)
       PROVE  RingsOK' /\ Accounted'
  BY <1>1, <1>11, CreatePages, FetchPages, FreeEntryPages, InsertPages
<1>12. CASE Boot
  BY <1>1, <1>12, InsertPages
<1> QED BY <1>3, <1>5, <1>6, <1>7, <1>8, <1>9, <1>10, <1>11, <1>12 DEF Next, Step

LEMMA PagesAlways == Spec => []PagesInv
<1>1. Init => PagesInv
  <2> SUFFICES ASSUME Init PROVE RingsOK /\ Accounted
    BY DEF PagesInv
  <2>1. /\ boot = Pool /\ anon = <<>> /\ cached = <<>> /\ copies = {} /\ pc = [p \in Proc |-> "idle"]
        /\ hand = [p \in Proc |-> NoNode] /\ \A c \in Color : free_pages[c] = NoNode /\ page_count[c] = 0
    BY DEF Init
  <2>2. \A c \in Color : FreeList(c) = {}
    BY <2>1 DEF FreeList, Ring
  <2>3. RingsOK
    BY <2>1, <2>2, FS_EmptySet DEF RingsOK, IsRing
  <2>4. FreePages = {} /\ AnonPages = {} /\ CachedPages = {} /\ HandPages = {}
    BY <2>1, <2>2 DEF FreePages, AnonPages, CachedPages, HandPages
  <2>5. Split(FreePages, boot, copies, AnonPages, CachedPages, HandPages)
    BY <2>1, <2>4 DEF Split
  <2>6. OneEach /\ HandFits
    BY <2>1 DEF OneEach, HandFits
  <2> QED BY <2>3, <2>5, <2>6 DEF Accounted
<1>2. TypeInv /\ PagesInv /\ [Next]_vars => PagesInv'
  BY PagesNext
<1> QED BY <1>1, <1>2, TypeAlways, PTL DEF Spec

(* Until an allocation fails, each free list is a ring of as many pages as *)
(* page_count says, all of its colour, whichever processors insert and     *)
(* take pages: the head that phys_page_alloc and kern_page_alloc take is a *)
(* page.                                                                   *)
THEOREM FreeListsSound == Spec => []PageListsSound
<1>1. PagesInv => PageListsSound
  BY DEF PagesInv, RingsOK, PageListsSound, IsRing
<1> QED BY <1>1, PagesAlways, PTL

(* Until an allocation fails, every page of the pool is in exactly one     *)
(* place: no page is used for two things and none is lost.                 *)
THEOREM EveryPageAccounted == Spec => []PagesAccounted
<1>1. TypeInv /\ PagesInv => PagesAccounted
  <2> SUFFICES ASSUME TypeInv, PagesInv, ~short, NEW n \in Pool PROVE Places(n) = 1
    BY DEF PagesAccounted
  <2>1. Accounted /\ n # NoNode
    BY PoolFacts DEF PagesInv
  <2> DEFINE f == Cardinality({x \in {"free"} : n \in FreePages})
             b == Cardinality({x \in {"boot"} : n \in boot})
             c == Cardinality({x \in {"copy"} : n \in copies})
             a == Cardinality({i \in DOMAIN anon : anon[i].page = n})
             k == Cardinality({i \in DOMAIN cached : cached[i] = n})
             h == Cardinality({p \in Proc : hand[p] = n})
  <2>2. Cardinality({}) = 0 /\ \A x : Cardinality({x}) = 1
    BY FS_EmptySet, FS_Singleton
  <2>3. f = IF n \in FreePages THEN 1 ELSE 0
    <3>1. {x \in {"free"} : n \in FreePages} = IF n \in FreePages THEN {"free"} ELSE {}
      OBVIOUS
    <3> QED BY <2>2, <3>1
  <2>4. b = IF n \in boot THEN 1 ELSE 0
    <3>1. {x \in {"boot"} : n \in boot} = IF n \in boot THEN {"boot"} ELSE {}
      OBVIOUS
    <3> QED BY <2>2, <3>1
  <2>5. c = IF n \in copies THEN 1 ELSE 0
    <3>1. {x \in {"copy"} : n \in copies} = IF n \in copies THEN {"copy"} ELSE {}
      OBVIOUS
    <3> QED BY <2>2, <3>1
  <2>6. a = IF n \in AnonPages THEN 1 ELSE 0
    <3>1. CASE n \in AnonPages
      <4>1. PICK i \in DOMAIN anon : anon[i].page = n
        BY <3>1 DEF AnonPages
      <4>2. {j \in DOMAIN anon : anon[j].page = n} = {i}
        BY <2>1, <4>1 DEF Accounted, OneEach
      <4> QED BY <2>2, <3>1, <4>2
    <3>2. CASE n \notin AnonPages
      <4>1. {j \in DOMAIN anon : anon[j].page = n} = {}
        BY <3>2 DEF AnonPages
      <4> QED BY <2>2, <3>2, <4>1
    <3> QED BY <3>1, <3>2
  <2>7. k = IF n \in CachedPages THEN 1 ELSE 0
    <3>1. CASE n \in CachedPages
      <4>1. PICK i \in DOMAIN cached : cached[i] = n
        BY <3>1 DEF CachedPages
      <4>2. {j \in DOMAIN cached : cached[j] = n} = {i}
        BY <2>1, <4>1 DEF Accounted, OneEach
      <4> QED BY <2>2, <3>1, <4>2
    <3>2. CASE n \notin CachedPages
      <4>1. {j \in DOMAIN cached : cached[j] = n} = {}
        BY <3>2 DEF CachedPages
      <4> QED BY <2>2, <3>2, <4>1
    <3> QED BY <3>1, <3>2
  <2>8. h = IF n \in HandPages THEN 1 ELSE 0
    <3>1. CASE n \in HandPages
      <4>1. PICK p \in Proc : hand[p] = n
        BY <3>1 DEF HandPages
      <4>2. {q \in Proc : hand[q] = n} = {p}
        BY <2>1, <4>1 DEF Accounted, OneEach
      <4> QED BY <2>2, <3>1, <4>2
    <3>2. CASE n \notin HandPages
      <4>1. {q \in Proc : hand[q] = n} = {}
        BY <2>1, <3>2 DEF HandPages
      <4> QED BY <2>2, <3>2, <4>1
    <3> QED BY <3>1, <3>2
  <2>9. f + b + c + a + k + h = 1
    <3> HIDE DEF f, b, c, a, k, h
    <3>1. Split(FreePages, boot, copies, AnonPages, CachedPages, HandPages)
      BY <2>1 DEF Accounted
    <3>2. \/ f = 1 /\ b = 0 /\ c = 0 /\ a = 0 /\ k = 0 /\ h = 0
          \/ f = 0 /\ b = 1 /\ c = 0 /\ a = 0 /\ k = 0 /\ h = 0
          \/ f = 0 /\ b = 0 /\ c = 1 /\ a = 0 /\ k = 0 /\ h = 0
          \/ f = 0 /\ b = 0 /\ c = 0 /\ a = 1 /\ k = 0 /\ h = 0
          \/ f = 0 /\ b = 0 /\ c = 0 /\ a = 0 /\ k = 1 /\ h = 0
          \/ f = 0 /\ b = 0 /\ c = 0 /\ a = 0 /\ k = 0 /\ h = 1
      BY <2>3, <2>4, <2>5, <2>6, <2>7, <2>8, <3>1 DEF Split
    <3> QED BY <3>2
  <2> QED BY <2>9 DEF Places
<1> QED BY <1>1, TypeAlways, PagesAlways, PTL

-----------------------------------------------------------------------------
(* A page of a file that a call has not found in the cache is not put into *)
(* it while the call holds the mutex, until the call itself does.          *)
FileInv ==
    ~short =>
      /\ OneCopyCached
      /\ \A p \in Proc : pc[p] \in Holding /\ arg[p] \in FileArg =>
           \A i \in DOMAIN cached : inode_page[cached[i]] # arg[p].key

LEMMA FileNext ==
  ASSUME TypeInv, PagesInv, FileInv, [Next]_vars
  PROVE  FileInv'
<1> SUFFICES ASSUME ~short'
             PROVE  /\ OneCopyCached'
                    /\ \A q \in Proc : pc'[q] \in Holding /\ arg'[q] \in FileArg =>
                         \A i \in DOMAIN cached' : inode_page'[cached'[i]] # arg'[q].key
  BY DEF FileInv
<1>0. ~short
  BY TableSteps
<1>1. CASE UNCHANGED <<cached, inode_page>>
  <2>1. OneCopyCached'
    BY <1>0, <1>1 DEF FileInv, OneCopyCached
  <2>2. ASSUME NEW q \in Proc, pc'[q] \in Holding, arg'[q] \in FileArg, NEW i \in DOMAIN cached
        PROVE  inode_page[cached[i]] # arg'[q].key
    <3>1. arg'[q] = arg[q] /\ (pc[q] \in Holding \/ CreateLock(q) \/ FetchMiss(q))
      BY <2>2, HoldSteps
    <3>2. CASE FetchMiss(q)
      BY <3>1, <3>2 DEF FetchMiss, page_cache_lookup, ToSet
    <3>3. ~CreateLock(q)
      <4> SUFFICES ASSUME CreateLock(q) PROVE FALSE
        OBVIOUS
      <4>1. arg[q] \in CreateArg
        BY StepArg DEF CreateLock
      <4> QED BY <2>2, <3>1, <4>1, ArgShapes
    <3>4. CASE pc[q] \in Holding
      BY <1>0, <2>2, <3>1, <3>4 DEF FileInv
    <3> QED BY <3>1, <3>2, <3>3, <3>4
  <2> QED BY <1>1, <2>1, <2>2
<1>2. ASSUME NEW p \in Proc, FetchEnd(p)
      PROVE  /\ OneCopyCached'
             /\ \A q \in Proc : pc'[q] \notin Holding
  <2> DEFINE n == hand[p]
             key == arg[p].key
  <2>1. /\ pc[p] = "got" /\ "key" \in DOMAIN arg[p] /\ owner' = Nobody
        /\ inode_page' = [inode_page EXCEPT ![n] = key] /\ cached' = hash_table_insert(cached, n)
    BY <1>2 DEF FetchEnd, page_cache_insert
  <2>2. arg[p] \in FileArg /\ pc[p] \in Holding
    BY <2>1, StepArg, ArgShapes DEF Holding
  <2>3. \A i \in DOMAIN cached : inode_page[cached[i]] # key
    BY <1>0, <2>2 DEF FileInv
  <2>4. \A q \in Proc : pc'[q] \notin Holding
    <3>1. TypeInv'
      BY TypeNext
    <3> QED BY <2>1, <3>1, NobodyAssumption DEF TypeInv, CallsOK
  <2>5. n \in Pool /\ n \notin CachedPages /\ n \in Page /\ n \in Slot
    <3>1. Accounted /\ hand[p] # NoNode
      BY <1>0, <2>1 DEF PagesInv, Accounted, HandFits
    <3>2. n \in HandPages
      BY <3>1 DEF HandPages
    <3> QED BY <3>1, <3>2, AccountFacts, PoolFacts, SlotFacts
  <2>6. cached \in Seq(Slot) /\ inode_page \in [Page -> InodePage]
    BY DEF TypeInv, TablesOK
  <2> HIDE DEF n, key
  <2>7. /\ 1 \in DOMAIN cached' /\ cached'[1] = n
        /\ \A i \in DOMAIN cached' : i = 1 \/ (i - 1 \in DOMAIN cached /\ cached'[i] = cached[i - 1])
        /\ DOMAIN cached \subseteq Int /\ DOMAIN cached' \subseteq Int
    BY <2>1, <2>5, <2>6, InsertPlaces
  <2>8. /\ inode_page'[n] = key
        /\ \A j \in DOMAIN cached : inode_page'[cached[j]] = inode_page[cached[j]]
    <3>1. \A j \in DOMAIN cached : cached[j] # n /\ cached[j] \in Pool
      <4>1. CachedPages \subseteq Pool
        BY <1>0, AccountFacts DEF PagesInv
      <4> QED BY <2>5, <4>1 DEF CachedPages
    <3> QED BY <2>1, <2>5, <2>6, <3>1, PoolFacts
  <2>9. ASSUME NEW i \in DOMAIN cached', NEW j \in DOMAIN cached',
               inode_page'[cached'[i]] = inode_page'[cached'[j]]
        PROVE  i = j
    <3>1. CASE i = 1
      BY <2>3, <2>7, <2>8, <2>9, <3>1
    <3>2. CASE j = 1
      BY <2>3, <2>7, <2>8, <2>9, <3>2
    <3>3. CASE i # 1 /\ j # 1
      <4>1. /\ i - 1 \in DOMAIN cached /\ j - 1 \in DOMAIN cached
            /\ inode_page[cached[i - 1]] = inode_page[cached[j - 1]]
        BY <2>7, <2>8, <2>9, <3>3
      <4>2. i - 1 = j - 1
        BY <1>0, <4>1 DEF FileInv, OneCopyCached
      <4> QED BY <2>7, <4>2
    <3> QED BY <3>1, <3>2, <3>3
  <2> QED BY <2>4, <2>9 DEF OneCopyCached
<1> QED BY <1>1, <1>2, TableSteps

LEMMA FileAlways == Spec => []FileInv
<1>1. Init => FileInv
  BY DEF Init, FileInv, OneCopyCached, Holding
<1>2. TypeInv /\ PagesInv /\ FileInv /\ [Next]_vars => FileInv'
  BY FileNext
<1> QED BY <1>1, <1>2, TypeAlways, PagesAlways, PTL DEF Spec

(* Until an allocation fails, the page cache has at most one copy of a     *)
(* page of a file: phys_page_fetch holds the mutex of phys_mem.c from the  *)
(* look that misses to page_cache_insert, while the page is read.          *)
THEOREM OneCopyEach == Spec => []OneCopyCached
<1>1. FileInv => OneCopyCached
  BY DEF FileInv, OneCopyCached
<1> QED BY <1>1, FileAlways, PTL
=============================================================================
