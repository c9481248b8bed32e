-------------------------- MODULE RedBlackTreeProofs --------------------------
(***************************************************************************)
(* Proofs about RedBlackTree, for any finite set of nodes, any flags and   *)
(* any sequence of insertions and deletions.  That the nodes are a search  *)
(* tree does not depend on the colours, and is carried through every step  *)
(* without them; the colours and the levels are right as long as           *)
(* tree_delete has taken no wrong colour from the flags of a node.         *)
(***************************************************************************)
EXTENDS RedBlackTree, FiniteSetTheorems, WellFoundedInduction, TLAPS

-----------------------------------------------------------------------------
(* The fields of the nodes, and what the assignments and the rotations of  *)
(* the macro do to them.                                                   *)

Heap == [kid: [Side -> [Node -> Pointer]], up: [Node -> Pointer], black: [Node -> BOOLEAN]]

LEMMA Sides ==
  /\ \A s \in Side : Opposite(s) \in Side /\ Opposite(s) # s /\ Opposite(Opposite(s)) = s
  /\ \A s, t \in Side : t = s \/ t = Opposite(s)
  /\ "left" \in Side /\ "right" \in Side /\ Opposite("left") = "right" /\ Opposite("right") = "left"
BY DEF Side, Opposite

LEMMA NullFacts ==
  /\ Null \notin Node /\ Null \in Pointer
  /\ \A n \in Node : n \in Pointer /\ n \in Nat /\ n # Null
  /\ \A n \in Pointer : n # Null => n \in Node
BY NodeAssumption DEF Null, Pointer

LEMMA HeapFields ==
  ASSUME NEW h \in Heap
  PROVE  /\ \A n \in Node : h.up[n] \in Pointer /\ h.black[n] \in BOOLEAN
         /\ \A n \in Node, s \in Side : h.kid[s][n] \in Pointer
BY DEF Heap

(* What SetUp, SetKid and the assignment of a colour do to the fields.     *)
UpIs(h, n, p, g) ==
    /\ g \in Heap /\ g.kid = h.kid /\ g.black = h.black
    /\ \A x \in Node : g.up[x] = IF x = n THEN p ELSE h.up[x]

KidIs(h, p, s, n, g) ==
    /\ g \in Heap /\ g.up = h.up /\ g.black = h.black
    /\ \A x \in Node, t \in Side : g.kid[t][x] = IF x = p /\ t = s THEN n ELSE h.kid[t][x]

BlackIs(h, n, v, g) ==
    /\ g \in Heap /\ g.kid = h.kid /\ g.up = h.up
    /\ \A x \in Node : g.black[x] = IF x = n THEN v ELSE h.black[x]

LEMMA SetUpFields ==
  ASSUME NEW h \in Heap, NEW n \in Pointer, NEW p \in Pointer
  PROVE  UpIs(h, n, p, SetUp(h, n, p))
BY NullFacts DEF Heap, SetUp, Pointer, UpIs

LEMMA SetKidFields ==
  ASSUME NEW h \in Heap, NEW p \in Pointer, NEW s \in Side, NEW n \in Pointer
  PROVE  KidIs(h, p, s, n, SetKid(h, p, s, n))
<1>1. CASE p = Null
  BY <1>1, NullFacts DEF SetKid, KidIs
<1>2. CASE p # Null
  <2> DEFINE k == [h.kid EXCEPT ![s] = [h.kid[s] EXCEPT ![p] = n]]
             g == [h EXCEPT !.kid = k]
  <2>1. p \in Node
    BY <1>2 DEF Pointer
  <2>2. SetKid(h, p, s, n) = g
    BY <1>2 DEF SetKid
  <2>3. h.kid \in [Side -> [Node -> Pointer]] /\ h.kid[s] \in [Node -> Pointer]
    BY DEF Heap
  <2>4. k \in [Side -> [Node -> Pointer]]
    BY <2>1, <2>3
  <2>5. \A x \in Node, t \in Side : k[t][x] = IF x = p /\ t = s THEN n ELSE h.kid[t][x]
    BY <2>1, <2>3
  <2> HIDE DEF k
  <2>6. g \in Heap /\ g.kid = k /\ g.up = h.up /\ g.black = h.black
    BY <2>4 DEF Heap
  <2> HIDE DEF g
  <2>7. KidIs(h, p, s, n, g)
    BY <2>5, <2>6 DEF KidIs
  <2> QED BY <2>2, <2>7
<1> QED BY <1>1, <1>2

LEMMA SetBlackFields ==
  ASSUME NEW h \in Heap, NEW n \in Node, NEW v \in BOOLEAN
  PROVE  BlackIs(h, n, v, [h EXCEPT !.black[n] = v])
BY DEF Heap, BlackIs

(* What RotateUnder does to the fields.  The child c goes up, its inner    *)
(* child i changes over to top.                                            *)
RotateIs(h, top, s, c, i, p, g) ==
    /\ g \in Heap
    /\ \A x \in Node :
         /\ g.up[x] = IF x = top THEN c ELSE IF x = c THEN p ELSE IF x = i THEN top ELSE h.up[x]
         /\ g.black[x] = IF x = top THEN h.black[c] ELSE IF x = c THEN h.black[top] ELSE h.black[x]
    /\ \A x \in Node, t \in Side :
         g.kid[t][x] = IF x = top /\ t = s THEN i
                       ELSE IF x = c /\ t = Opposite(s) THEN top
                       ELSE IF p # Null /\ x = p /\ t = SideOf(h, top) THEN c
                       ELSE h.kid[t][x]

LEMMA RotateFields ==
  ASSUME NEW h \in Heap, NEW top \in Node, NEW s \in Side, NEW c \in Node, NEW i \in Pointer,
         NEW p \in Pointer,
         c = h.kid[s][top], i = h.kid[Opposite(s)][c], p = h.up[top],
         c # top, i # top, i # c, p # top, p # c
  PROVE  RotateIs(h, top, s, c, i, p, RotateUnder(h, top, s))
<1> DEFINE o == Opposite(s)
           h1 == SetKid(h, top, s, i)
           h2 == SetUp(h1, i, top)
           h3 == SetUp(h2, c, p)
           h4 == SetKid(h3, c, o, top)
           h5 == SetUp(h4, top, c)
           h6 == [h5 EXCEPT !.black[top] = h.black[c]]
           h7 == [h6 EXCEPT !.black[c] = h.black[top]]
           side == IF p = Null THEN s ELSE SideOf(h, top)
           g == SetKid(h7, p, side, c)
<1>1. top \in Pointer /\ c \in Pointer /\ top # Null /\ c # Null
  BY NullFacts
<1>2. o \in Side /\ o # s /\ side \in Side
  BY Sides DEF SideOf
<1>3. h.black[c] \in BOOLEAN /\ h.black[top] \in BOOLEAN
  BY HeapFields
<1>4. RotateUnder(h, top, s) = g
  <2>1. h1 = [h EXCEPT !.kid[s][top] = i]
    BY <1>1 DEF SetKid
  <2> HIDE DEF h1
  <2>2. h2 = SetUp([h EXCEPT !.kid[s][top] = i], i, top)
    BY <2>1
  <2> HIDE DEF h2
  <2>3. Rotate(h, top, s) = [h2 EXCEPT !.up[c] = p, !.kid[o][c] = top, !.up[top] = c,
                             !.black[top] = h.black[c], !.black[c] = h.black[top]]
    BY <2>2 DEF Rotate
  <2>4. h7 = [h2 EXCEPT !.up[c] = p, !.kid[o][c] = top, !.up[top] = c,
                             !.black[top] = h.black[c], !.black[c] = h.black[top]]
    BY <1>1 DEF SetUp, SetKid
  <2> HIDE DEF h7
  <2>5. RotateUnder(h, top, s) = SetKid(Rotate(h, top, s), p, side, c)
    BY DEF RotateUnder
  <2> QED BY <2>3, <2>4, <2>5
<1> HIDE DEF o, side
<1>5. KidIs(h, top, s, i, h1)
  BY <1>1, SetKidFields
<1>6. h1 \in Heap
  BY <1>5 DEF KidIs
<1> HIDE DEF h1
<1>7. UpIs(h1, i, top, h2)
  BY <1>1, <1>6, SetUpFields
<1>8. h2 \in Heap
  BY <1>7 DEF UpIs
<1> HIDE DEF h2
<1>9. UpIs(h2, c, p, h3)
  BY <1>1, <1>8, SetUpFields
<1>10. h3 \in Heap
  BY <1>9 DEF UpIs
<1> HIDE DEF h3
<1>11. KidIs(h3, c, o, top, h4)
  BY <1>1, <1>2, <1>10, SetKidFields
<1>12. h4 \in Heap
  BY <1>11 DEF KidIs
<1> HIDE DEF h4
<1>13. UpIs(h4, top, c, h5)
  BY <1>1, <1>12, SetUpFields
<1>14. h5 \in Heap
  BY <1>13 DEF UpIs
<1> HIDE DEF h5
<1>15. BlackIs(h5, top, h.black[c], h6)
  BY <1>3, <1>14, SetBlackFields
<1>16. h6 \in Heap
  BY <1>15 DEF BlackIs
<1> HIDE DEF h6
<1>17. BlackIs(h6, c, h.black[top], h7)
  BY <1>3, <1>16, SetBlackFields
<1>18. h7 \in Heap
  BY <1>17 DEF BlackIs
<1> HIDE DEF h7
<1>19. KidIs(h7, p, side, c, g)
  BY <1>1, <1>2, <1>18, SetKidFields
<1> HIDE DEF g
<1>20. g \in Heap /\ g.up = h5.up /\ g.black = h7.black
  BY <1>15, <1>17, <1>19 DEF KidIs, BlackIs
<1>21. \A x \in Node :
        /\ g.up[x] = IF x = top THEN c ELSE IF x = c THEN p ELSE IF x = i THEN top ELSE h.up[x]
        /\ g.black[x] = IF x = top THEN h.black[c] ELSE IF x = c THEN h.black[top] ELSE h.black[x]
  BY <1>5, <1>7, <1>9, <1>11, <1>13, <1>15, <1>17, <1>20 DEF KidIs, UpIs, BlackIs
<1>22. \A x \in Node, t \in Side :
              g.kid[t][x] = IF x = top /\ t = s THEN i
                            ELSE IF x = c /\ t = o THEN top
                            ELSE IF p # Null /\ x = p /\ t = SideOf(h, top) THEN c
                            ELSE h.kid[t][x]
  BY <1>5, <1>7, <1>9, <1>11, <1>13, <1>15, <1>17, <1>19, NullFacts DEF side, KidIs, UpIs, BlackIs
<1> QED BY <1>4, <1>20, <1>21, <1>22 DEF o, RotateIs

-----------------------------------------------------------------------------
(* Trees.  Which nodes are below a node is not computed but given, by a    *)
(* function sub with which the links have to agree.                        *)

(* x is on side s of n.                                                    *)
On(s, x, n) == IF s = "left" THEN x < n ELSE x > n

LEMMA Order ==
  ASSUME NEW s \in Side, NEW x \in Node, NEW y \in Node
  PROVE  /\ On(s, x, y) => x # y /\ ~On(Opposite(s), x, y) /\ On(Opposite(s), y, x)
         /\ x # y => On(s, x, y) \/ On(Opposite(s), x, y)
         /\ \A z \in Node : On(s, x, y) /\ On(s, y, z) => On(s, x, z)
BY NodeAssumption DEF Side, Opposite, On

(* The nodes M are linked to a tree with root r.                           *)
LinkedUp(h, M, r) ==
    /\ h.up[r] = Null
    /\ \A n \in M : n # r => h.up[n] \in M /\ \E s \in Side : h.kid[s][h.up[n]] = n
    /\ \A n \in M, s \in Side : h.kid[s][n] # Null => h.kid[s][n] \in M /\ h.up[h.kid[s][n]] = n

(* sub[n] are the nodes from n on down, and they are sorted.               *)
Sorted(h, M, sub) ==
    /\ \A n \in M : sub[n] = {n} \cup sub[h.kid["left"][n]] \cup sub[h.kid["right"][n]]
    /\ \A n \in M, s \in Side : \A x \in sub[h.kid[s][n]] : On(s, x, n)

Tree(h, M, r, sub) ==
    /\ h \in Heap /\ M \subseteq Node /\ r \in M
    /\ sub \in [Pointer -> SUBSET M] /\ sub[Null] = {} /\ sub[r] = M
    /\ LinkedUp(h, M, r)
    /\ Sorted(h, M, sub)

LEMMA SubOf ==
  ASSUME NEW h, NEW M, NEW r, NEW sub, Tree(h, M, r, sub), NEW n \in M, NEW s \in Side
  PROVE  sub[n] = {n} \cup sub[h.kid[s][n]] \cup sub[h.kid[Opposite(s)][n]]
BY DEF Tree, Sorted, Side, Opposite

(* A child, from its parent.                                               *)
LEMMA KidFacts ==
  ASSUME NEW h, NEW M, NEW r, NEW sub, Tree(h, M, r, sub), NEW n \in M, NEW s \in Side,
         NEW k, k = h.kid[s][n], k # Null
  PROVE  /\ k \in M /\ h.up[k] = n /\ k # n /\ k # r /\ SideOf(h, k) = s
         /\ k \in sub[k] /\ sub[k] \subseteq sub[n] /\ n \notin sub[k]
         /\ On(s, k, n) /\ h.kid[Opposite(s)][n] # k
<1>1. k \in M /\ h.up[k] = n
  BY DEF Tree, LinkedUp
<1>2. n \in Node /\ k \in Node /\ n # Null
  BY <1>1, NullFacts DEF Tree
<1>3. k \in sub[k] /\ sub[k] \subseteq sub[n]
  BY <1>1, SubOf
<1>4. \A x \in sub[k] : On(s, x, n) /\ x \in Node
  BY <1>1, <1>2 DEF Tree, Sorted, Pointer
<1>5. n \notin sub[k] /\ k # n
  BY <1>2, <1>3, <1>4, Order
<1>6. k # r
  BY <1>1, <1>2 DEF Tree, LinkedUp
<1>7. h.kid[Opposite(s)][n] # k
  <2> SUFFICES ASSUME h.kid[Opposite(s)][n] = k PROVE FALSE
    OBVIOUS
  <2>1. On(Opposite(s), k, n) /\ On(s, k, n)
    BY <1>3, <1>4, Sides DEF Tree, Sorted
  <2> QED BY <2>1, <1>2, Order
<1>8. SideOf(h, k) = s
  BY <1>1, <1>7, Sides DEF SideOf, Side
<1> QED BY <1>1, <1>3, <1>4, <1>5, <1>6, <1>7, <1>8

(* A node that is not the root, from itself.                               *)
LEMMA UpFacts ==
  ASSUME NEW h, NEW M, NEW r, NEW sub, Tree(h, M, r, sub), NEW n \in M, n # r
  PROVE  h.up[n] \in M /\ SideOf(h, n) \in Side /\ h.kid[SideOf(h, n)][h.up[n]] = n
<1>1. PICK s \in Side : h.up[n] \in M /\ h.kid[s][h.up[n]] = n
  BY DEF Tree, LinkedUp
<1>2. n # Null
  BY NullFacts DEF Tree
<1>3. SideOf(h, n) = s
  BY <1>1, <1>2, KidFacts
<1> QED BY <1>1, <1>3

(* A set of naturals has a least element.                                  *)
LEMMA LeastNatural ==
  ASSUME NEW T, T \subseteq Nat, T # {}
  PROVE  \E x \in T : \A y \in T : x <= y
<1> DEFINE R == OpToRel(<, Nat)
<1>1. IsWellFoundedOn(R, Nat)
  BY NatLessThanWellFounded
<1>2. \A x, y \in Nat : y < x => <<y, x>> \in R
  BY DEF OpToRel
<1> HIDE DEF R
<1>3. PICK x \in T : \A y \in T : ~(<<y, x>> \in R)
  BY <1>1, WFMin
<1>4. ASSUME NEW y \in T PROVE x <= y
  <2>1. x \in Nat /\ y \in Nat /\ ~(<<y, x>> \in R)
    BY <1>3
  <2>2. ~(y < x)
    BY <1>2, <2>1
  <2> QED BY <2>1, <2>2
<1> QED BY <1>4

LEMMA TreeFinite ==
  ASSUME NEW h, NEW M, NEW r, NEW sub, Tree(h, M, r, sub)
  PROVE  IsFiniteSet(M) /\ \A n \in M : sub[n] \subseteq M /\ n \in sub[n] /\ IsFiniteSet(sub[n])
<1>1. IsFiniteSet(M)
  BY NodeAssumption, FS_Subset DEF Tree
<1>2. ASSUME NEW n \in M PROVE sub[n] \subseteq M /\ n \in sub[n]
  <2>1. n \in Pointer
    BY NullFacts DEF Tree
  <2>2. sub[n] \subseteq M
    BY <2>1 DEF Tree
  <2> QED BY <2>2 DEF Tree, Sorted
<1> QED BY <1>1, <1>2, FS_Subset

(* Induction from the leaves up.                                           *)
LEMMA TreeInduction ==
  ASSUME NEW h, NEW M, NEW r, NEW sub, Tree(h, M, r, sub), NEW S,
         \A n \in M : (\A s \in Side : h.kid[s][n] # Null => h.kid[s][n] \in S) => n \in S
  PROVE  M \subseteq S
<1> SUFFICES ASSUME M \ S # {} PROVE FALSE
  OBVIOUS
<1> DEFINE size(n) == Cardinality(sub[n])
           C == {size(n) : n \in M \ S}
<1>1. \A n \in M : size(n) \in Nat
  BY TreeFinite, FS_CardinalityType
<1>2. PICK c \in C : \A d \in C : c <= d
  <2>1. C \subseteq Nat
    BY <1>1
  <2>2. C # {}
    OBVIOUS
  <2> HIDE DEF C
  <2> QED BY <2>1, <2>2, LeastNatural
<1>3. PICK n \in M \ S : c = size(n)
  OBVIOUS
<1>4. ASSUME NEW s \in Side, h.kid[s][n] # Null, h.kid[s][n] \notin S
      PROVE  FALSE
  <2> DEFINE k == h.kid[s][n]
  <2>1. k \in M /\ sub[k] \subseteq sub[n] /\ n \notin sub[k] /\ n \in sub[n]
    BY <1>3, <1>4, KidFacts, TreeFinite
  <2>2. size(k) < size(n)
    BY <2>1, TreeFinite, FS_Subset, FS_CardinalityType
  <2>3. size(k) \in C
    BY <1>4, <2>1
  <2> HIDE DEF k, size, C
  <2> QED BY <1>1, <1>2, <1>3, <2>1, <2>2, <2>3
<1> QED BY <1>3, <1>4

(* What is below a node that is below x, is below x.                       *)
LEMMA SubTrans ==
  ASSUME NEW h, NEW M, NEW r, NEW sub, Tree(h, M, r, sub), NEW m \in M, NEW n \in sub[m]
  PROVE  n \in M /\ sub[n] \subseteq sub[m]
<1> DEFINE S == {x \in M : \A y \in sub[x] : sub[y] \subseteq sub[x]}
<1>1. ASSUME NEW x \in M, \A s \in Side : h.kid[s][x] # Null => h.kid[s][x] \in S
      PROVE  x \in S
  <2>1. ASSUME NEW y \in sub[x], y # x PROVE sub[y] \subseteq sub[x]
    <3>1. PICK s \in Side : y \in sub[h.kid[s][x]]
      BY <2>1, SubOf, Sides
    <3>2. h.kid[s][x] # Null
      BY <3>1 DEF Tree
    <3>3. h.kid[s][x] \in S
      BY <1>1, <3>2
    <3> QED BY <3>1, <3>2, <3>3, KidFacts
  <2> QED BY <2>1
<1>2. M \subseteq S
  <2> HIDE DEF S
  <2> QED BY <1>1, TreeInduction
<1> QED BY <1>2, TreeFinite

(* Below m, the parent of a node other than m is below m too.              *)
LEMMA UpClosed ==
  ASSUME NEW h, NEW M, NEW r, NEW sub, Tree(h, M, r, sub), NEW m \in M, NEW n \in sub[m], n # m
  PROVE  n \in M /\ h.up[n] \in sub[m]
<1> DEFINE S == {x \in M : \A y \in sub[x] : y # x => h.up[y] \in sub[x]}
<1>1. ASSUME NEW x \in M, \A s \in Side : h.kid[s][x] # Null => h.kid[s][x] \in S
      PROVE  x \in S
  <2>1. ASSUME NEW y \in sub[x], y # x PROVE h.up[y] \in sub[x]
    <3>1. PICK s \in Side : y \in sub[h.kid[s][x]]
      BY <2>1, SubOf, Sides
    <3>2. h.kid[s][x] # Null
      BY <3>1 DEF Tree
    <3>3. h.kid[s][x] \in S
      BY <1>1, <3>2
    <3>4. h.up[h.kid[s][x]] = x /\ sub[h.kid[s][x]] \subseteq sub[x] /\ x \in sub[x]
      BY <3>2, KidFacts, TreeFinite
    <3> QED BY <3>1, <3>3, <3>4
  <2> QED BY <2>1
<1>2. M \subseteq S
  <2> HIDE DEF S
  <2> QED BY <1>1, TreeInduction
<1> QED BY <1>2, TreeFinite

-----------------------------------------------------------------------------
(* A rotation keeps the links and the order.                               *)

(* The nodes below and the root after a rotation of the child on side s    *)
(* over top.                                                               *)
TurnSub(h, sub, top, s) ==
    LET c == h.kid[s][top]
        o == Opposite(s)
    IN  [sub EXCEPT ![c] = sub[top], ![top] = {top} \cup sub[h.kid[o][c]] \cup sub[h.kid[o][top]]]

TurnRoot(h, r, top, s) == IF top = r THEN h.kid[s][top] ELSE r

LEMMA RotateInTree ==
  ASSUME NEW h, NEW M, NEW r, NEW sub, Tree(h, M, r, sub), NEW top \in M, NEW s \in Side,
         NEW c, c = h.kid[s][top], c # Null, NEW i, i = h.kid[Opposite(s)][c],
         NEW p, p = h.up[top]
  PROVE  /\ i \in Pointer /\ p \in Pointer
         /\ i # top /\ i # c /\ p # top /\ p # c
         /\ RotateIs(h, top, s, c, i, p, RotateUnder(h, top, s))
<1>1. h \in Heap /\ M \subseteq Node /\ Opposite(s) \in Side
  BY Sides DEF Tree
<1>2. c \in M /\ c # top /\ top \notin sub[c]
  BY KidFacts
<1>3. i \in Pointer /\ p \in Pointer
  BY <1>1, <1>2, HeapFields
<1>4. i # top /\ i # c
  <2>1. CASE i = Null
    BY <2>1, <1>1, <1>2, NullFacts
  <2>2. CASE i # Null
    <3>1. i \in sub[i] /\ sub[i] \subseteq sub[c] /\ i # c
      BY <1>1, <1>2, <2>2, KidFacts
    <3> QED BY <3>1, <1>2
  <2> QED BY <2>1, <2>2
<1>5. p # top /\ p # c
  <2>1. CASE top = r
    <3>1. p = Null
      BY <2>1 DEF Tree, LinkedUp
    <3> QED BY <3>1, <1>1, <1>2, NullFacts
  <2>2. CASE top # r
    <3>1. /\ p \in M /\ SideOf(h, top) \in Side /\ h.kid[SideOf(h, top)][p] = top
      BY <2>2, UpFacts
    <3>2. top # p /\ top \in sub[top] /\ sub[top] \subseteq sub[p]
      BY <1>1, <3>1, NullFacts, KidFacts
    <3> QED BY <3>2, <1>2
  <2> QED BY <2>1, <2>2
<1> QED BY <1>1, <1>2, <1>3, <1>4, <1>5, RotateFields

LEMMA RotateLinks ==
  ASSUME NEW h, NEW M, NEW r, NEW sub, Tree(h, M, r, sub), NEW top \in M, NEW s \in Side,
         h.kid[s][top] # Null
  PROVE  LinkedUp(RotateUnder(h, top, s), M, TurnRoot(h, r, top, s))
<1> DEFINE o == Opposite(s)
           side == SideOf(h, top)
<1>0. PICK c, i, p, g, q :
        /\ c = h.kid[s][top] /\ i = h.kid[o][c] /\ p = h.up[top] /\ g = RotateUnder(h, top, s)
        /\ q = TurnRoot(h, r, top, s)
  OBVIOUS
<1>1. h \in Heap /\ M \subseteq Node /\ r \in M /\ o \in Side /\ s # o /\ Opposite(o) = s
  BY Sides DEF Tree
<1>2. /\ c \in M /\ h.up[c] = top /\ c # top /\ c # r /\ SideOf(h, c) = s /\ c # Null
  BY <1>0, KidFacts
<1>3. /\ i # top /\ i # c /\ p # top /\ p # c /\ RotateIs(h, top, s, c, i, p, g)
  BY <1>0, <1>2, RotateInTree
<1>4. i # Null => i \in M /\ h.up[i] = c /\ i # r /\ SideOf(h, i) = o
  BY <1>0, <1>1, <1>2, KidFacts
<1>5. top # r => p \in M /\ side \in Side /\ h.kid[side][p] = top /\ p # Null
  BY <1>0, <1>1, UpFacts, NullFacts
<1>6. top = r => p = Null
  BY <1>0 DEF Tree, LinkedUp
<1>7. q = (IF top = r THEN c ELSE r)
  BY <1>0 DEF TurnRoot
<1>8. \A x \in M : x \in Node /\ x # Null
  BY <1>1, NullFacts
<1>9. /\ \A x \in M : g.up[x] = IF x = top THEN c ELSE IF x = c THEN p ELSE IF x = i THEN top ELSE h.up[x]
      /\ \A x \in M, t \in Side :
           g.kid[t][x] = IF x = top /\ t = s THEN i
                         ELSE IF x = c /\ t = o THEN top
                         ELSE IF p # Null /\ x = p /\ t = side THEN c
                         ELSE h.kid[t][x]
  BY <1>3, <1>8 DEF RotateIs
<1> HIDE DEF o, side
<1>10. g.up[q] = Null
  BY <1>1, <1>2, <1>4, <1>6, <1>7, <1>8, <1>9 DEF Tree, LinkedUp
<1>11. ASSUME NEW n \in M, n # q
       PROVE  g.up[n] \in M /\ \E t \in Side : g.kid[t][g.up[n]] = n
  <2>1. CASE n = top
    BY <2>1, <1>1, <1>2, <1>9
  <2>2. CASE n = c
    BY <2>2, <1>11, <1>2, <1>3, <1>5, <1>7, <1>9
  <2>3. CASE n = i
    BY <2>3, <1>3, <1>9
  <2>4. CASE n # top /\ n # c /\ n # i
    <3>1. n # r
      BY <2>4, <1>11, <1>7
    <3>2. PICK t \in Side : h.up[n] \in M /\ h.kid[t][h.up[n]] = n
      BY <3>1 DEF Tree, LinkedUp
    <3>3. g.up[n] = h.up[n]
      BY <2>4, <1>9
    <3>4. g.kid[t][h.up[n]] = n
      <4>1. ~(h.up[n] = top /\ t = s)
        BY <1>0, <2>4, <3>2
      <4>2. ~(h.up[n] = c /\ t = o)
        BY <1>0, <2>4, <3>2
      <4>3. ~(p # Null /\ h.up[n] = p /\ t = side)
        BY <1>5, <1>6, <2>4, <3>2
      <4> QED BY <3>2, <4>1, <4>2, <4>3, <1>9
    <3> QED BY <3>2, <3>3, <3>4
  <2> QED BY <2>1, <2>2, <2>3, <2>4
<1>12. ASSUME NEW n \in M, NEW t \in Side, g.kid[t][n] # Null
       PROVE  g.kid[t][n] \in M /\ g.up[g.kid[t][n]] = n
  <2>1. CASE n = top /\ t = s
    BY <2>1, <1>12, <1>3, <1>4, <1>9
  <2>2. CASE n = c /\ t = o
    BY <2>2, <1>2, <1>9
  <2>3. CASE p # Null /\ n = p /\ t = side
    BY <2>3, <1>2, <1>3, <1>9
  <2>4. CASE ~(n = top /\ t = s) /\ ~(n = c /\ t = o) /\ ~(p # Null /\ n = p /\ t = side)
    <3>1. PICK m : m = h.kid[t][n]
      OBVIOUS
    <3>2. g.kid[t][n] = m /\ m # Null
      BY <2>4, <3>1, <1>9, <1>12
    <3>3. m \in M /\ h.up[m] = n /\ SideOf(h, m) = t
      BY <3>1, <3>2, KidFacts
    <3>4. m # top
      BY <3>3, <2>4, <1>0, <1>8 DEF side
    <3>5. m # c
      BY <3>3, <2>4, <1>2
    <3>6. m # i
      BY <3>2, <3>3, <2>4, <1>4
    <3> QED BY <3>2, <3>3, <3>4, <3>5, <3>6, <1>9
  <2> QED BY <2>1, <2>2, <2>3, <2>4
<1> QED BY <1>0, <1>10, <1>11, <1>12 DEF LinkedUp

LEMMA RotateSorted ==
  ASSUME NEW h, NEW M, NEW r, NEW sub, Tree(h, M, r, sub), NEW top \in M, NEW s \in Side,
         h.kid[s][top] # Null
  PROVE  Tree(RotateUnder(h, top, s), M, TurnRoot(h, r, top, s), TurnSub(h, sub, top, s))
<1> DEFINE o == Opposite(s)
           side == SideOf(h, top)
<1>0. PICK c, i, k, e, p, g, q, sb :
        /\ c = h.kid[s][top] /\ i = h.kid[o][c] /\ p = h.up[top] /\ g = RotateUnder(h, top, s)
        /\ k = h.kid[o][top] /\ e = h.kid[s][c]
        /\ q = TurnRoot(h, r, top, s) /\ sb = TurnSub(h, sub, top, s)
  OBVIOUS
<1>1. h \in Heap /\ M \subseteq Node /\ r \in M /\ o \in Side /\ s # o /\ Opposite(o) = s
  BY Sides DEF Tree
<1>2. /\ c \in M /\ h.up[c] = top /\ c # top /\ c # r /\ SideOf(h, c) = s /\ c # Null
      /\ On(s, c, top) /\ top \notin sub[c]
  BY <1>0, KidFacts
<1>3. /\ i # top /\ i # c /\ p # top /\ p # c /\ RotateIs(h, top, s, c, i, p, g)
      /\ i \in Pointer /\ p \in Pointer
  BY <1>0, <1>2, RotateInTree
<1>4. /\ sub[top] = {top} \cup sub[c] \cup sub[k] /\ sub[c] = {c} \cup sub[e] \cup sub[i]
  BY <1>0, <1>1, <1>2, SubOf
<1>5. k \in Pointer /\ e \in Pointer /\ top \in Pointer /\ c \in Pointer /\ top # Null
  BY <1>0, <1>1, <1>2, HeapFields, NullFacts
<1>6. \A x \in M : x \in Node /\ x # Null /\ x \in Pointer
  BY <1>1, NullFacts
<1>7. sub \in [Pointer -> SUBSET M] /\ sub[Null] = {} /\ sub[r] = M
  BY DEF Tree
<1>8. /\ sb \in [Pointer -> SUBSET M]
      /\ \A x \in Pointer : sb[x] = IF x = top THEN {top} \cup sub[i] \cup sub[k]
                                    ELSE IF x = c THEN sub[top] ELSE sub[x]
  <2>1. sb = [sub EXCEPT ![c] = sub[top], ![top] = {top} \cup sub[i] \cup sub[k]]
    BY <1>0 DEF TurnSub
  <2>2. {top} \cup sub[i] \cup sub[k] \in SUBSET M /\ sub[top] \in SUBSET M
    BY <1>3, <1>5, <1>7
  <2> QED BY <2>1, <2>2, <1>5, <1>7
<1>9. sb[Null] = {} /\ sb[q] = M /\ q \in M
  <2>1. q = (IF top = r THEN c ELSE r)
    BY <1>0 DEF TurnRoot
  <2> QED BY <2>1, <1>1, <1>2, <1>5, <1>6, <1>7, <1>8, NullFacts
<1>10. \A x \in M, t \in Side :
           g.kid[t][x] = IF x = top /\ t = s THEN i
                         ELSE IF x = c /\ t = o THEN top
                         ELSE IF p # Null /\ x = p /\ t = side THEN c
                         ELSE h.kid[t][x]
  BY <1>3, <1>6 DEF RotateIs
<1>11. top # r => p \in M /\ side \in Side /\ h.kid[side][p] = top /\ p # Null
  BY <1>0, <1>1, UpFacts, NullFacts
<1>12. top = r => p = Null
  BY <1>0 DEF Tree, LinkedUp
<1> HIDE DEF o, side
(* The set of every child, but for the two that turn, is as it was.        *)
<1>13. ASSUME NEW n \in M, n # top, n # c, NEW t \in Side
       PROVE  sb[g.kid[t][n]] = sub[h.kid[t][n]]
  <2>1. CASE p # Null /\ n = p /\ t = side
    BY <2>1, <1>13, <1>2, <1>5, <1>8, <1>10, <1>11, <1>12
  <2>2. CASE ~(p # Null /\ n = p /\ t = side)
    <3>1. g.kid[t][n] = h.kid[t][n]
      BY <2>2, <1>13, <1>10
    <3>2. PICK m \in Pointer : m = h.kid[t][n]
      BY <1>1, <1>6, HeapFields
    <3>3. m # Null => h.up[m] = n /\ SideOf(h, m) = t
      BY <3>2, KidFacts
    <3>4. m # top
      BY <3>3, <2>2, <1>0, <1>5, <1>6 DEF side
    <3>5. m # c
      BY <3>3, <1>2, <1>13
    <3> QED BY <3>1, <3>2, <3>4, <3>5, <1>8
  <2> QED BY <2>1, <2>2
<1>14. /\ g.kid[s][top] = i /\ g.kid[o][top] = k /\ g.kid[o][c] = top /\ g.kid[s][c] = e
  BY <1>0, <1>1, <1>2, <1>3, <1>10
<1>15. k # top /\ k # c /\ e # top /\ e # c
  <2>1. k # Null => k # top /\ k # c
    BY <1>0, <1>1, KidFacts
  <2>2. e # Null => e # c /\ e \in sub[c]
    BY <1>0, <1>2, KidFacts
  <2> QED BY <2>1, <2>2, <1>2, <1>5
<1>16. /\ sb[i] = sub[i] /\ sb[k] = sub[k] /\ sb[e] = sub[e]
       /\ sb[top] = {top} \cup sub[i] \cup sub[k] /\ sb[c] = sub[top]
  BY <1>2, <1>3, <1>5, <1>8, <1>15
<1>17. ASSUME NEW n \in M
       PROVE  sb[n] = {n} \cup sb[g.kid[s][n]] \cup sb[g.kid[o][n]]
  <2>1. CASE n = top
    BY <2>1, <1>14, <1>16
  <2>2. CASE n = c
    BY <2>2, <1>4, <1>14, <1>16
  <2>3. CASE n # top /\ n # c
    <3>1. sb[n] = sub[n]
      BY <2>3, <1>6, <1>8
    <3>2. sub[n] = {n} \cup sub[h.kid[s][n]] \cup sub[h.kid[o][n]]
      BY SubOf DEF o
    <3> QED BY <3>1, <3>2, <2>3, <1>1, <1>13
  <2> QED BY <2>1, <2>2, <2>3
<1>18. \A n \in M : sb[n] = {n} \cup sb[g.kid["left"][n]] \cup sb[g.kid["right"][n]]
  BY <1>17 DEF o, Side, Opposite
<1>19. \A n \in M, t \in Side : \A x \in sub[h.kid[t][n]] : On(t, x, n)
  BY DEF Tree, Sorted
<1>20. \A x \in Pointer : \A y \in sub[x] : y \in Node
  BY <1>1, <1>7
<1>21. ASSUME NEW n \in M, NEW t \in Side, NEW x \in sb[g.kid[t][n]]
       PROVE  On(t, x, n)
  <2>1. t = s \/ t = o
    BY Sides DEF o
  <2>2. CASE n = top
    <3>1. CASE t = s
      <4>1. x \in sub[c]
        BY <2>2, <3>1, <1>21, <1>4, <1>14, <1>16
      <4> QED BY <4>1, <2>2, <3>1, <1>0, <1>19
    <3>2. CASE t = o
      BY <2>2, <3>2, <1>21, <1>0, <1>1, <1>14, <1>16, <1>19
    <3> QED BY <2>1, <3>1, <3>2
  <2>3. CASE n = c
    <3>1. CASE t = s
      BY <2>3, <3>1, <1>21, <1>0, <1>14, <1>16, <1>19
    <3>2. CASE t = o
      <4>1. On(o, top, c) /\ top \in Node /\ c \in Node
        BY <1>2, <1>6, Order DEF o
      <4>2. x = top \/ x \in sub[i] \/ x \in sub[k]
        BY <2>3, <3>2, <1>21, <1>14, <1>16
      <4>3. CASE x = top
        BY <2>3, <3>2, <4>1, <4>3
      <4>4. CASE x \in sub[i]
        BY <2>3, <3>2, <4>4, <1>0, <1>1, <1>2, <1>19
      <4>5. CASE x \in sub[k]
        <5>1. On(o, x, top) /\ x \in Node
          BY <4>5, <1>0, <1>1, <1>5, <1>19, <1>20
        <5>2. On(o, x, c)
          BY <4>1, <5>1, <1>1, Order
        <5> QED BY <5>2, <2>3, <3>2
      <4> QED BY <4>2, <4>3, <4>4, <4>5
    <3> QED BY <2>1, <3>1, <3>2
  <2>4. CASE n # top /\ n # c
    <3>1. x \in sub[h.kid[t][n]]
      BY <2>4, <1>13, <1>21
    <3> QED BY <3>1, <1>19
  <2> QED BY <2>2, <2>3, <2>4
<1>22. Sorted(g, M, sb)
  BY <1>18, <1>21 DEF Sorted
<1>23. LinkedUp(g, M, q) /\ g \in Heap
  BY <1>0, <1>3, RotateLinks DEF RotateIs
<1>24. Tree(g, M, q, sb)
  BY <1>1, <1>8, <1>9, <1>22, <1>23 DEF Tree
<1> QED BY <1>0, <1>24

-----------------------------------------------------------------------------
(* Levels: the number of black nodes on the ways down, given by a function *)
(* ap.                                                                     *)

(* The weight of a node: 1 if it is black.  While tree_delete works the    *)
(* replacement out weighs nothing and extra counts for one more.           *)
Weight(h, out, extra) ==
    [n \in Node |-> (IF h.black[n] /\ n # out THEN 1 ELSE 0) + (IF n = extra THEN 1 ELSE 0)]

(* ap[n] is the weight of every way from n down to a NULL pointer.         *)
Level(h, M, ap, w) ==
    /\ ap \in [Pointer -> Nat] /\ ap[Null] = 0
    /\ \A n \in M, s \in Side : ap[n] = ap[h.kid[s][n]] + w[n]

(* The root is black, and of a red node and its parent, one is black,      *)
(* but for the nodes X.                                                    *)
Coloured(h, M, r, X) ==
    /\ h.black[r]
    /\ \A n \in M : n = r \/ n \in X \/ h.black[n] \/ h.black[h.up[n]]

(* The nodes around a rotation: the child c goes up over top; i and e are  *)
(* c's children, k is the other child of top.                              *)
Around(h, top, s, c, i, e, k, p) ==
    /\ c = h.kid[s][top] /\ c # Null
    /\ i = h.kid[Opposite(s)][c] /\ e = h.kid[s][c] /\ k = h.kid[Opposite(s)][top]
    /\ p = h.up[top]

Neighbours(h, M, r, top, s, c, i, e, k, p) ==
    /\ Opposite(s) \in Side /\ s # Opposite(s) /\ Opposite(Opposite(s)) = s
    /\ c \in M /\ c # top /\ c # r /\ h.up[c] = top
    /\ i # Null => i \in M /\ i # r /\ i # top /\ i # c /\ i # e /\ i # k /\ i # p /\ h.up[i] = c
    /\ e # Null => e \in M /\ e # r /\ e # top /\ e # c /\ e # k /\ e # p /\ h.up[e] = c
    /\ k # Null => k \in M /\ k # r /\ k # top /\ k # c /\ k # p /\ h.up[k] = top
    /\ p # top /\ p # c
    /\ top # r => p \in M /\ SideOf(h, top) \in Side /\ h.kid[SideOf(h, top)][p] = top
    /\ top = r <=> p = Null
    /\ i \in Pointer /\ e \in Pointer /\ k \in Pointer /\ p \in Pointer

LEMMA AroundFacts ==
  ASSUME NEW h, NEW M, NEW r, NEW sub, Tree(h, M, r, sub), NEW top \in M, NEW s \in Side,
         NEW c, NEW i, NEW e, NEW k, NEW p, Around(h, top, s, c, i, e, k, p)
  PROVE  Neighbours(h, M, r, top, s, c, i, e, k, p)
<1> USE DEF Around
<1>1. h \in Heap /\ M \subseteq Node /\ r \in M /\ Null \notin M
  BY NullFacts DEF Tree
<1>2. Opposite(s) \in Side /\ s # Opposite(s) /\ Opposite(Opposite(s)) = s
  BY Sides
<1>3. /\ c \in M /\ c # top /\ c # r /\ h.up[c] = top /\ c \in sub[c] /\ top \notin sub[c] /\ k # c
      /\ SideOf(h, c) = s
  BY KidFacts
<1>4. i # Null => i \in M /\ i # r /\ i # c /\ h.up[i] = c /\ i \in sub[c] /\ i # e
  BY <1>2, <1>3, KidFacts
<1>5. e # Null => e \in M /\ e # r /\ e # c /\ h.up[e] = c /\ e \in sub[c]
  BY <1>2, <1>3, KidFacts
<1>6. k # Null => k \in M /\ k # r /\ k # top /\ h.up[k] = top /\ top \notin sub[k]
  BY <1>2, KidFacts
<1>7. p # top /\ p # c /\ i \in Pointer /\ p \in Pointer
  BY RotateInTree
<1>8. e \in Pointer /\ k \in Pointer
  BY <1>1, <1>2, <1>3, HeapFields
<1>9. top # r => p \in M /\ SideOf(h, top) \in Side /\ h.kid[SideOf(h, top)][p] = top
  BY UpFacts
<1>10. top = r <=> p = Null
  BY <1>1, <1>9 DEF Tree, LinkedUp
<1>11. p # Null => top \in sub[p] /\ p \in M
  <2>1. top # Null
    BY <1>1
  <2> QED BY <2>1, <1>9, <1>10, KidFacts
<1>12. /\ i # Null => i # p
       /\ e # Null => e # p
  <2>1. ASSUME NEW x, x \in sub[c], x = p, p # Null PROVE FALSE
    BY <2>1, <1>3, <1>11, SubTrans
  <2> QED BY <2>1, <1>4, <1>5
<1>13. k # Null => k # p
  BY <1>6, <1>11
<1> QED BY <1>2, <1>3, <1>4, <1>5, <1>6, <1>7, <1>8, <1>9, <1>10, <1>12, <1>13 DEF Neighbours

LEMMA RotateKids ==
  ASSUME NEW h, NEW M, NEW r, NEW sub, Tree(h, M, r, sub), NEW top \in M, NEW s \in Side,
         NEW c, NEW i, NEW e, NEW k, NEW p, Around(h, top, s, c, i, e, k, p),
         NEW g, g = RotateUnder(h, top, s)
  PROVE  /\ RotateIs(h, top, s, c, i, p, g)
         /\ g.kid[s][top] = i /\ g.kid[Opposite(s)][top] = k
         /\ g.kid[s][c] = e /\ g.kid[Opposite(s)][c] = top
         /\ \A n \in M, t \in Side : n # top /\ n # c =>
              \/ g.kid[t][n] = h.kid[t][n] /\ h.kid[t][n] # top /\ h.kid[t][n] # c
              \/ n = p /\ g.kid[t][n] = c /\ h.kid[t][n] = top
<1>1. /\ M \subseteq Node /\ c = h.kid[s][top] /\ c # Null /\ i = h.kid[Opposite(s)][c]
      /\ e = h.kid[s][c] /\ k = h.kid[Opposite(s)][top] /\ p = h.up[top]
  BY DEF Around, Tree
<1>2. RotateIs(h, top, s, c, i, p, g)
  BY <1>1, RotateInTree
<1>3. /\ c \in M /\ c # top /\ p # top /\ p # c /\ h.up[c] = top
      /\ top # r => h.kid[SideOf(h, top)][p] = top
      /\ top = r <=> p = Null
      /\ Opposite(s) \in Side /\ s # Opposite(s)
  <2>1. Neighbours(h, M, r, top, s, c, i, e, k, p)
    BY AroundFacts
  <2> QED BY <2>1 DEF Neighbours
<1>4. \A x \in M, t \in Side :
           g.kid[t][x] = IF x = top /\ t = s THEN i
                         ELSE IF x = c /\ t = Opposite(s) THEN top
                         ELSE IF p # Null /\ x = p /\ t = SideOf(h, top) THEN c
                         ELSE h.kid[t][x]
  BY <1>1, <1>2 DEF RotateIs
<1>5. /\ g.kid[s][top] = i /\ g.kid[Opposite(s)][top] = k
      /\ g.kid[s][c] = e /\ g.kid[Opposite(s)][c] = top
  BY <1>1, <1>3, <1>4
<1>6. ASSUME NEW n \in M, NEW t \in Side, n # top, n # c
      PROVE  \/ g.kid[t][n] = h.kid[t][n] /\ h.kid[t][n] # top /\ h.kid[t][n] # c
             \/ n = p /\ g.kid[t][n] = c /\ h.kid[t][n] = top
  <2>1. CASE p # Null /\ n = p /\ t = SideOf(h, top)
    BY <2>1, <1>3, <1>4, <1>6
  <2>2. CASE ~(p # Null /\ n = p /\ t = SideOf(h, top))
    <3>1. g.kid[t][n] = h.kid[t][n]
      BY <2>2, <1>4, <1>6
    <3>2. h.kid[t][n] # Null => h.up[h.kid[t][n]] = n /\ SideOf(h, h.kid[t][n]) = t
      BY KidFacts
    <3>3. top # Null /\ n # Null
      BY <1>1, NullFacts
    <3> QED BY <3>1, <3>2, <3>3, <2>2, <1>1, <1>3, <1>6
  <2> QED BY <2>1, <2>2
<1> QED BY <1>2, <1>5, <1>6

(* Levels and weights before and after a rotation that fit together: they  *)
(* are as before but around the rotation, and add up there.                *)
LevelsFit(M, top, c, i, e, k, ap, w, ap2, w2) ==
    /\ ap2 \in [Pointer -> Nat] /\ w \in [Node -> Nat] /\ w2 \in [Node -> Nat]
    /\ \A x \in Pointer : x \notin {top, c, e, k} => ap2[x] = ap[x]
    /\ \A x \in M : x \notin {top, c, e, k} => w2[x] = w[x]
    /\ \A x \in M : x \in {e, k} => ap2[x] - w2[x] = ap[x] - w[x]
    /\ ap2[Null] = 0 /\ ap2[c] = ap[top]
    /\ ap2[top] = ap2[i] + w2[top] /\ ap2[top] = ap2[k] + w2[top]
    /\ ap2[c] = ap2[top] + w2[c] /\ ap2[c] = ap2[e] + w2[c]

LEMMA RotateLevel ==
  ASSUME NEW h, NEW M, NEW r, NEW sub, Tree(h, M, r, sub), NEW top \in M, NEW s \in Side,
         NEW c, NEW i, NEW e, NEW k, NEW p, Around(h, top, s, c, i, e, k, p),
         NEW ap, NEW w, Level(h, M, ap, w), NEW ap2, NEW w2,
         LevelsFit(M, top, c, i, e, k, ap, w, ap2, w2)
  PROVE  Level(RotateUnder(h, top, s), M, ap2, w2)
<1> USE DEF LevelsFit
<1>1. PICK g : g = RotateUnder(h, top, s)
  OBVIOUS
<1>2. /\ RotateIs(h, top, s, c, i, p, g)
      /\ g.kid[s][top] = i /\ g.kid[Opposite(s)][top] = k
      /\ g.kid[s][c] = e /\ g.kid[Opposite(s)][c] = top
      /\ \A n \in M, t \in Side : n # top /\ n # c =>
           \/ g.kid[t][n] = h.kid[t][n] /\ h.kid[t][n] # top /\ h.kid[t][n] # c
           \/ n = p /\ g.kid[t][n] = c /\ h.kid[t][n] = top
  BY <1>1, RotateKids
<1>3. /\ c \in M /\ c # top /\ h.up[c] = top
      /\ e # Null => e \in M /\ e # top /\ e # c /\ e # k /\ e # p /\ h.up[e] = c
      /\ k # Null => k \in M /\ k # top /\ k # c /\ k # p /\ h.up[k] = top
      /\ e \in Pointer /\ k \in Pointer /\ p # top /\ p # c
  <2>1. Neighbours(h, M, r, top, s, c, i, e, k, p)
    BY AroundFacts
  <2> QED BY <2>1 DEF Neighbours
<1>4. /\ \A x \in M : x \in Node /\ x # Null /\ x \in Pointer
      /\ h \in Heap
  BY NullFacts DEF Tree
<1>5. \A n \in M, t \in Side : ap[n] = ap[h.kid[t][n]] + w[n]
  BY DEF Level
<1>6. ASSUME NEW n \in M, NEW t \in Side
      PROVE  ap2[n] = ap2[g.kid[t][n]] + w2[n]
  <2>1. t = s \/ t = Opposite(s)
    BY Sides
  <2>2. CASE n = top
    BY <2>1, <2>2, <1>2
  <2>3. CASE n = c
    BY <2>1, <2>3, <1>2
  <2>4. CASE n # top /\ n # c
    <3>1. PICK m \in Pointer : m = h.kid[t][n]
      BY <1>4, HeapFields
    <3>2. m # Null => h.up[m] = n
      BY <3>1, KidFacts
    <3>3. ap[n] = ap[m] + w[n]
      BY <3>1, <1>5
    <3>4. CASE n = p /\ g.kid[t][n] = c /\ m = top
      <4>1. n \notin {top, c, e, k}
        BY <3>4, <1>3, <1>4
      <4> QED BY <4>1, <3>3, <3>4, <1>4
    <3>5. CASE g.kid[t][n] = m /\ m # top /\ m # c
      <4>1. m \notin {top, c, e, k} \/ m = Null
        BY <3>2, <3>5, <2>4, <1>3, <1>4
      <4>2. ap2[m] = ap[m]
        <5>1. ap[Null] = 0
          BY DEF Level
        <5> QED BY <5>1, <4>1
      <4>3. CASE n \in {e, k}
        <5>1. ap2[n] - w2[n] = ap[n] - w[n]
          BY <4>3
        <5>2. ap2[n] \in Nat /\ w2[n] \in Nat /\ ap[n] \in Nat /\ w[n] \in Nat /\ ap[m] \in Nat
          BY <1>4, <3>1 DEF Level
        <5> QED BY <5>1, <5>2, <4>2, <3>3, <3>5
      <4>4. CASE n \notin {e, k}
        <5>1. ap2[n] = ap[n] /\ w2[n] = w[n]
          BY <4>4, <2>4, <1>4
        <5> QED BY <5>1, <4>2, <3>3, <3>5
      <4> QED BY <4>3, <4>4
    <3> QED BY <3>1, <3>4, <3>5, <2>4, <1>2
  <2> QED BY <2>2, <2>3, <2>4
<1>7. Level(g, M, ap2, w2)
  BY <1>6 DEF Level
<1> QED BY <1>1, <1>7

-----------------------------------------------------------------------------
(* The levels and the colours after a rotation.                            *)

TurnLevel(h, ap, top, s) ==
    [ap EXCEPT ![h.kid[s][top]] = ap[top], ![top] = ap[h.kid[s][top]]]

LEMMA WeightType ==
  ASSUME NEW h, NEW out, NEW extra
  PROVE  Weight(h, out, extra) \in [Node -> Nat]
BY DEF Weight

(* The rotation of a red child: it and top exchange their levels.          *)
LEMMA RotateRedLevel ==
  ASSUME NEW h, NEW M, NEW r, NEW sub, Tree(h, M, r, sub), NEW top \in M, NEW s \in Side,
         NEW ap, NEW out, NEW extra, Level(h, M, ap, Weight(h, out, extra)),
         NEW c, c = h.kid[s][top], c # Null, ~h.black[c], c \notin {out, extra}, top \notin {out, extra}
  PROVE  Level(RotateUnder(h, top, s), M, TurnLevel(h, ap, top, s),
               Weight(RotateUnder(h, top, s), out, extra))
<1> DEFINE o == Opposite(s)
<1>1. PICK i, e, k, p, g, w, w2, ap2 :
        /\ i = h.kid[o][c] /\ e = h.kid[s][c] /\ k = h.kid[o][top] /\ p = h.up[top]
        /\ g = RotateUnder(h, top, s) /\ ap2 = TurnLevel(h, ap, top, s)
        /\ w = Weight(h, out, extra) /\ w2 = Weight(g, out, extra)
  OBVIOUS
<1>2. Around(h, top, s, c, i, e, k, p)
  BY <1>1 DEF Around
<1>3. Neighbours(h, M, r, top, s, c, i, e, k, p)
  BY <1>2, AroundFacts
<1>4. RotateIs(h, top, s, c, i, p, g)
  BY <1>1, <1>2, RotateKids
<1>5. \A x \in M : x \in Node /\ x # Null /\ x \in Pointer
  BY NullFacts DEF Tree
<1>6. /\ ap \in [Pointer -> Nat] /\ ap[Null] = 0
      /\ ap[top] = ap[c] + w[top] /\ ap[top] = ap[k] + w[top]
      /\ ap[c] = ap[i] + w[c] /\ ap[c] = ap[e] + w[c]
  BY <1>1, <1>3 DEF Level, Neighbours
<1>7. w \in [Node -> Nat] /\ w2 \in [Node -> Nat]
  BY <1>1, WeightType
<1>8. w[c] = 0 /\ w2[top] = 0 /\ w2[c] = w[top] /\ \A x \in M : x \notin {top, c} => w2[x] = w[x]
  <2>1. c \in Node /\ top \in Node /\ c # top
    BY <1>3, <1>5 DEF Neighbours
  <2>2. /\ g.black[top] = h.black[c] /\ g.black[c] = h.black[top]
        /\ \A x \in M : x \notin {top, c} => g.black[x] = h.black[x]
    BY <2>1, <1>4, <1>5 DEF RotateIs
  <2> QED BY <2>1, <2>2, <1>1, <1>5 DEF Weight
<1>9. /\ ap2 \in [Pointer -> Nat] /\ ap2[c] = ap[top] /\ ap2[top] = ap[c]
      /\ \A x \in Pointer : x \notin {top, c} => ap2[x] = ap[x]
  <2>1. c \in Pointer /\ top \in Pointer /\ c # top
    BY <1>3, <1>5 DEF Neighbours
  <2>2. ap2 = [ap EXCEPT ![c] = ap[top], ![top] = ap[c]]
    BY <1>1 DEF TurnLevel
  <2> QED BY <2>1, <2>2, <1>6
<1>10. /\ i \in Pointer /\ e \in Pointer /\ k \in Pointer /\ Null \in Pointer
       /\ i \notin {top, c} /\ e \notin {top, c} /\ k \notin {top, c} /\ Null \notin {top, c}
       /\ top \in Node /\ c \in Node
  BY <1>3, <1>5, NullFacts DEF Neighbours
<1>11. ap2[i] = ap[i] /\ ap2[e] = ap[e] /\ ap2[k] = ap[k] /\ ap2[Null] = 0
  BY <1>6, <1>9, <1>10
<1>12. ap[c] = ap[i] /\ ap[c] = ap[e] /\ ap[k] = ap[c]
  BY <1>6, <1>7, <1>8, <1>10
<1>13. /\ ap2[top] = ap2[i] + w2[top] /\ ap2[top] = ap2[k] + w2[top]
       /\ ap2[c] = ap2[top] + w2[c] /\ ap2[c] = ap2[e] + w2[c]
  BY <1>6, <1>7, <1>8, <1>9, <1>10, <1>11, <1>12
<1>14. \A x \in M : x \in {e, k} => ap2[x] - w2[x] = ap[x] - w[x]
  BY <1>8, <1>10, <1>11
<1>15. Level(h, M, ap, w)
  BY <1>1
<1>16. /\ \A x \in Pointer : x \notin {top, c, e, k} => ap2[x] = ap[x]
       /\ \A x \in M : x \notin {top, c, e, k} => w2[x] = w[x]
  BY <1>8, <1>9
<1>17. LevelsFit(M, top, c, i, e, k, ap, w, ap2, w2)
  BY <1>7, <1>9, <1>11, <1>13, <1>14, <1>16 DEF LevelsFit
<1>18. Level(RotateUnder(h, top, s), M, ap2, w2)
  BY <1>2, <1>15, <1>17, RotateLevel
<1> QED BY <1>1, <1>18

(* The nodes next to which a colour may go wrong.                          *)
LEMMA KidOf ==
  ASSUME NEW h, NEW M, NEW r, NEW sub, Tree(h, M, r, sub), NEW n \in M, n # r, NEW s \in Side
  PROVE  n = h.kid[s][h.up[n]] \/ n = h.kid[Opposite(s)][h.up[n]]
BY UpFacts, Sides

(* The rotation of a red child over a black top, whose other child is      *)
(* black: whatever was wrong with the outer child of c, is no more.        *)
LEMMA RotateColours ==
  ASSUME NEW h, NEW M, NEW r, NEW sub, Tree(h, M, r, sub), NEW top \in M, NEW s \in Side,
         NEW c, c = h.kid[s][top], c # Null, NEW X, Coloured(h, M, r, X),
         X \subseteq {h.kid[s][c]}, h.black[top], ~h.black[c], IsBlack(h, h.kid[Opposite(s)][top])
  PROVE  Coloured(RotateUnder(h, top, s), M, TurnRoot(h, r, top, s), {})
<1> DEFINE o == Opposite(s)
<1>1. PICK i, e, k, p, g, q :
        /\ i = h.kid[o][c] /\ e = h.kid[s][c] /\ k = h.kid[o][top] /\ p = h.up[top]
        /\ g = RotateUnder(h, top, s) /\ q = TurnRoot(h, r, top, s)
  OBVIOUS
<1>2. Around(h, top, s, c, i, e, k, p)
  BY <1>1 DEF Around
<1>3. Neighbours(h, M, r, top, s, c, i, e, k, p)
  BY <1>2, AroundFacts
<1>4. RotateIs(h, top, s, c, i, p, g)
  BY <1>1, <1>2, RotateKids
<1>5. r \in M /\ \A x \in M : x \in Node /\ x # Null
  BY NullFacts DEF Tree
<1>6. \A x \in M :
         /\ g.up[x] = IF x = top THEN c ELSE IF x = c THEN p ELSE IF x = i THEN top ELSE h.up[x]
         /\ g.black[x] = IF x = top THEN h.black[c] ELSE IF x = c THEN h.black[top] ELSE h.black[x]
  BY <1>4, <1>5 DEF RotateIs
<1>7. q = IF top = r THEN c ELSE r
  BY <1>1 DEF TurnRoot
<1>8. c \in M /\ c # top /\ c # r
  BY <1>3 DEF Neighbours
<1>9. g.black[c]
  BY <1>6, <1>8
<1>10. g.black[q]
  BY <1>5, <1>6, <1>7, <1>8, <1>9 DEF Coloured
<1>11. ASSUME NEW n \in M, n # q PROVE g.black[n] \/ g.black[g.up[n]]
  <2>1. CASE n = top
    BY <2>1, <1>6, <1>9
  <2>2. CASE n = c
    BY <2>2, <1>9
  <2>3. CASE n = i /\ n # top /\ n # c
    <3>1. i # r /\ h.up[i] = c /\ i # e
      BY <2>3, <1>3, <1>5 DEF Neighbours
    <3>2. h.black[i]
      BY <2>3, <3>1, <1>1 DEF Coloured
    <3> QED BY <2>3, <3>2, <1>6
  <2>4. CASE n # top /\ n # c /\ n # i
    <3>1. n # r /\ h.up[n] \in M
      BY <2>4, <1>7, <1>11, UpFacts
    <3>2. g.up[n] = h.up[n] /\ g.black[n] = h.black[n]
      BY <2>4, <1>6
    <3>3. CASE h.up[n] = c
      BY <3>2, <3>3, <1>9
    <3>4. CASE h.up[n] = top
      <4>1. n = k
        BY <2>4, <3>1, <3>4, <1>1, KidOf
      <4> QED BY <4>1, <3>2, <1>1, <1>5 DEF IsBlack
    <3>5. CASE h.up[n] # c /\ h.up[n] # top
      <4>1. g.black[h.up[n]] = h.black[h.up[n]]
        BY <3>1, <3>5, <1>6
      <4>2. n # e
        BY <3>5, <1>3, <1>5 DEF Neighbours
      <4> QED BY <4>1, <4>2, <3>1, <3>2, <1>1 DEF Coloured
    <3> QED BY <3>3, <3>4, <3>5
  <2> QED BY <2>1, <2>2, <2>3, <2>4
<1>12. Coloured(g, M, q, {})
  BY <1>10, <1>11 DEF Coloured
<1> QED BY <1>1, <1>12

(* The rotation of a red child over a red top: the trouble moves from the  *)
(* child to top.                                                           *)
LEMMA RotateReds ==
  ASSUME NEW h, NEW M, NEW r, NEW sub, Tree(h, M, r, sub), NEW top \in M, NEW s \in Side,
         NEW c, c = h.kid[s][top], c # Null, Coloured(h, M, r, {c}), ~h.black[top], ~h.black[c]
  PROVE  Coloured(RotateUnder(h, top, s), M, TurnRoot(h, r, top, s), {top})
<1> DEFINE o == Opposite(s)
<1>1. PICK i, e, k, p, g, q :
        /\ i = h.kid[o][c] /\ e = h.kid[s][c] /\ k = h.kid[o][top] /\ p = h.up[top]
        /\ g = RotateUnder(h, top, s) /\ q = TurnRoot(h, r, top, s)
  OBVIOUS
<1>2. Around(h, top, s, c, i, e, k, p)
  BY <1>1 DEF Around
<1>3. Neighbours(h, M, r, top, s, c, i, e, k, p)
  BY <1>2, AroundFacts
<1>4. RotateIs(h, top, s, c, i, p, g)
  BY <1>1, <1>2, RotateKids
<1>5. r \in M /\ \A x \in M : x \in Node /\ x # Null
  BY NullFacts DEF Tree
<1>6. c \in M /\ c # top /\ c # r /\ top # r /\ q = r /\ p \in M /\ p # c /\ p # top
  BY <1>1, <1>3 DEF Neighbours, TurnRoot, Coloured
<1>7. \A x \in M :
         /\ g.up[x] = IF x = top THEN c ELSE IF x = c THEN p ELSE IF x = i THEN top ELSE h.up[x]
         /\ g.black[x] <=> h.black[x]
  BY <1>4, <1>5, <1>6 DEF RotateIs
<1>8. ASSUME NEW n \in M, n # q, n # top PROVE g.black[n] \/ g.black[g.up[n]]
  <2>1. CASE n = c
    <3>1. h.black[p]
      BY <1>1, <1>6 DEF Coloured
    <3> QED BY <2>1, <3>1, <1>6, <1>7
  <2>2. CASE n = i /\ n # c
    <3>1. h.up[i] = c /\ i # r
      BY <2>2, <1>3, <1>5 DEF Neighbours
    <3>2. h.black[i]
      BY <2>2, <3>1 DEF Coloured
    <3> QED BY <2>2, <3>2, <1>7
  <2>3. CASE n # c /\ n # i
    <3>1. h.up[n] \in M /\ g.up[n] = h.up[n]
      BY <2>3, <1>6, <1>7, <1>8, UpFacts
    <3> QED BY <2>3, <3>1, <1>6, <1>7, <1>8 DEF Coloured
  <2> QED BY <2>1, <2>2, <2>3
<1>9. g.black[q]
  BY <1>5, <1>6, <1>7 DEF Coloured
<1>10. Coloured(g, M, q, {top})
  BY <1>8, <1>9 DEF Coloured
<1> QED BY <1>1, <1>10

-----------------------------------------------------------------------------
(* The inductive invariant: what holds at each loop, for some root, some   *)
(* sub and some ap.  The nodes are a search tree, whatever their colours;  *)
(* the colours and the levels are right until one is taken from the flags  *)
(* by mistake.  While tree_delete works the levels are those there will be *)
(* when the replacement has left its place.                                *)

(* A red-black tree of the nodes M.                                        *)
Settled(h, M, r, sub, ap) ==
    /\ Tree(h, M, r, sub)
    /\ Level(h, M, ap, Weight(h, Null, Null))
    /\ Coloured(h, M, r, {})

(* A search tree, and a red-black tree if no colour is wrong.              *)
Grown(wrong, h, M, r, sub, ap) ==
    Tree(h, M, r, sub) /\ (~wrong => Settled(h, M, r, sub, ap))

(* tree_insert: in belongs below curr.                                     *)
Descending(sub, ap) ==
    /\ Grown(miscoloured, nodes, members, tree, sub, ap)
    /\ in \in Node \ members /\ curr \in members
    /\ \A a \in members, s \in Side : curr \in sub[nodes.kid[s][a]] => On(s, in, a)

HeatAt(h, M, r, ap, n) ==
    /\ Level(h, M, ap, Weight(h, Null, Null))
    /\ Coloured(h, M, r, {n})
    /\ n # r => ~h.black[n]

Heating(r, sub, ap) ==
    /\ in \in Node /\ curr \in members \cup {in}
    /\ Tree(nodes, members \cup {in}, r, sub)
    /\ ~miscoloured => HeatAt(nodes, members \cup {in}, r, ap, curr)

Rising(r, sub, ap) ==
    /\ in \in Node /\ curr \in members \cup {in}
    /\ Grown(miscoloured, nodes, members \cup {in}, r, sub, ap)

(* tree_delete: what it looks for is below the target only if that is the  *)
(* root.                                                                   *)
Searching(sub, ap) ==
    /\ Grown(miscoloured, nodes, members, tree, sub, ap)
    /\ in \in members
    /\ target = Null \/ target = tree \/ (target \in members /\ in \notin sub[target])

(* Nodes nearer to the target than curr are below curr.                    *)
Approaching(sub, ap) ==
    /\ Grown(miscoloured, nodes, members, tree, sub, ap)
    /\ target = tree
    /\ curr \in sub[nodes.kid[Opposite(direction)][target]]
    /\ \A n \in members : On(Opposite(direction), n, target) /\ On(direction, n, curr)
                            => n \in sub[nodes.kid[direction][curr]]

(* The replacement rp is the neighbour of the target tg on one side, and   *)
(* below it.                                                               *)
Beside(h, M, sub, rp, tg, d) ==
    /\ tg \in M /\ rp \in sub[tg] /\ rp # tg
    /\ h.kid[d][rp] = Null
    /\ On(d, tg, rp)
    /\ \A n \in M : ~(On(Opposite(d), n, tg) /\ On(d, n, rp))

(* "run the fixer": the tree below fx is one black node short once rp is   *)
(* gone.                                                                   *)
FixAt(h, M, r, sub, ap, fx, rp, tg, d) ==
    /\ Tree(h, M, r, sub)
    /\ Level(h, M, ap, Weight(h, rp, fx))
    /\ Coloured(h, M, r, {n \in M : h.up[n] = fx})
    /\ Beside(h, M, sub, rp, tg, d)
    /\ fx \in M /\ rp \in sub[fx]
    /\ fx = rp => h.black[fx]
    /\ fx = rp \/ fx = h.up[rp] \/ h.black[h.up[rp]]
    /\ fx = tg \/ h.up[fx] = tg \/ h.black[tg]

SpliceAt(h, M, r, sub, ap, rp, tg, d) ==
    /\ Tree(h, M, r, sub)
    /\ Level(h, M, ap, Weight(h, rp, Null))
    /\ Coloured(h, M, r, {})
    /\ Beside(h, M, sub, rp, tg, d)
    /\ h.black[h.up[rp]] /\ h.black[tg]

Fixing(r, sub, ap) ==
    /\ Tree(nodes, members, r, sub)
    /\ Beside(nodes, members, sub, replacement, target, direction)
    /\ fix \in members /\ replacement \in sub[fix]
    /\ ~miscoloured => FixAt(nodes, members, r, sub, ap, fix, replacement, target, direction)

Splicing(r, sub, ap) ==
    /\ Tree(nodes, members, r, sub)
    /\ Beside(nodes, members, sub, replacement, target, direction)
    /\ ~miscoloured => SpliceAt(nodes, members, r, sub, ap, replacement, target, direction)

Climbing(r, sub, ap) ==
    /\ target \in members /\ replacement \in members \ {target}
    /\ Grown(miscoloured, nodes, members \ {target}, r, sub, ap)

(* The end at a NULL pointer: some tree is left, of the members and maybe  *)
(* one more node.                                                          *)
Faulty(M, r, sub) == miscoloured /\ members \subseteq M /\ Tree(nodes, M, r, sub)

Typed ==
    /\ tree \in Pointer /\ nodes \in Heap /\ members \subseteq Node /\ direction \in Side
    /\ pc \in {"idle", "descend", "heat", "rise",
               "search", "extreme", "fix", "splice", "climb", "fault"}
    /\ miscoloured \in BOOLEAN
    /\ in \in Pointer /\ (in = Null <=> pc = "idle")
    /\ curr \in Pointer /\ target \in Pointer /\ fix \in Pointer /\ replacement \in Pointer

Phase ==
    /\ pc = "idle" => \/ tree = Null /\ members = {}
                      \/ \E sub, ap : Grown(miscoloured, nodes, members, tree, sub, ap)
    /\ pc = "descend" => \E sub, ap : Descending(sub, ap)
    /\ pc = "heat" => \E r, sub, ap : Heating(r, sub, ap)
    /\ pc = "rise" => \E r, sub, ap : Rising(r, sub, ap)
    /\ pc = "search" => \E sub, ap : Searching(sub, ap)
    /\ pc = "extreme" => \E sub, ap : Approaching(sub, ap)
    /\ pc = "fix" => \E r, sub, ap : Fixing(r, sub, ap)
    /\ pc = "splice" => \E r, sub, ap : Splicing(r, sub, ap)
    /\ pc = "climb" => \E r, sub, ap : Climbing(r, sub, ap)
    /\ pc = "fault" => \E M, r, sub : Faulty(M, r, sub)

Inv == Typed /\ Phase

-----------------------------------------------------------------------------
(* Nodes outside the tree do not matter; tree_insert adds a leaf.          *)

(* Heaps that agree on the nodes M.                                        *)
SameLinks(h, g, M) ==
    g \in Heap /\ \A x \in M : g.up[x] = h.up[x] /\ \A t \in Side : g.kid[t][x] = h.kid[t][x]

LEMMA SameTree ==
  ASSUME NEW h, NEW M, NEW r, NEW sub, Tree(h, M, r, sub), NEW g, SameLinks(h, g, M)
  PROVE  Tree(g, M, r, sub)
<1>1. /\ g \in Heap /\ "left" \in Side /\ "right" \in Side
      /\ \A x \in M : g.up[x] = h.up[x] /\ \A t \in Side : g.kid[t][x] = h.kid[t][x]
  BY Sides DEF SameLinks
<1>2. LinkedUp(g, M, r)
  BY <1>1 DEF Tree, LinkedUp
<1>3. Sorted(g, M, sub)
  BY <1>1 DEF Tree, Sorted
<1> QED BY <1>1, <1>2, <1>3 DEF Tree

LEMMA SameLevel ==
  ASSUME NEW h, NEW M, NEW ap, NEW w, Level(h, M, ap, w), NEW g, SameLinks(h, g, M),
         NEW w2, \A x \in M : w2[x] = w[x]
  PROVE  Level(g, M, ap, w2)
BY DEF Level, SameLinks

LEMMA SettledSame ==
  ASSUME NEW h, NEW M, NEW r, NEW sub, NEW ap, Settled(h, M, r, sub, ap), NEW g,
         SameLinks(h, g, M), \A x \in M : g.black[x] = h.black[x]
  PROVE  Settled(g, M, r, sub, ap)
<1>1. M \subseteq Node /\ r \in M
  BY DEF Settled, Tree
<1>2. Tree(g, M, r, sub)
  BY SameTree DEF Settled
<1>3. \A x \in M : Weight(g, Null, Null)[x] = Weight(h, Null, Null)[x]
  BY <1>1 DEF Weight
<1>4. Level(g, M, ap, Weight(g, Null, Null))
  BY <1>3, SameLevel DEF Settled
<1>5. \A x \in M : x # r => h.up[x] \in M
  BY DEF Settled, Tree, LinkedUp
<1>6. Coloured(g, M, r, {})
  BY <1>1, <1>5 DEF Settled, Coloured, SameLinks
<1> QED BY <1>2, <1>4, <1>6 DEF Settled

LeafIs(h, n, p, colour, g) ==
    /\ g \in Heap
    /\ \A x \in Node : /\ g.up[x] = IF x = n THEN p ELSE h.up[x]
                       /\ g.black[x] = IF x = n THEN colour ELSE h.black[x]
    /\ \A x \in Node, t \in Side : g.kid[t][x] = IF x = n THEN Null ELSE h.kid[t][x]

LEMMA LeafFields ==
  ASSUME NEW h \in Heap, NEW n \in Node, NEW p \in Pointer, NEW colour \in BOOLEAN
  PROVE  LeafIs(h, n, p, colour, Leaf(h, n, p, colour))
<1> DEFINE h1 == SetUp(h, n, p)
           h2 == SetKid(h1, n, "left", Null)
           h3 == SetKid(h2, n, "right", Null)
           h4 == [h3 EXCEPT !.black[n] = colour]
<1>1. n \in Pointer /\ n # Null /\ Null \in Pointer /\ "left" \in Side /\ "right" \in Side
  BY NullFacts, Sides
<1>2. Leaf(h, n, p, colour) = h4
  BY <1>1 DEF Leaf, SetUp, SetKid
<1>3. UpIs(h, n, p, h1)
  BY <1>1, SetUpFields
<1>4. h1 \in Heap
  BY <1>3 DEF UpIs
<1> HIDE DEF h1
<1>5. KidIs(h1, n, "left", Null, h2)
  BY <1>1, <1>4, SetKidFields
<1>6. h2 \in Heap
  BY <1>5 DEF KidIs
<1> HIDE DEF h2
<1>7. KidIs(h2, n, "right", Null, h3)
  BY <1>1, <1>6, SetKidFields
<1>8. h3 \in Heap
  BY <1>7 DEF KidIs
<1> HIDE DEF h3
<1>9. BlackIs(h3, n, colour, h4)
  BY <1>8, SetBlackFields
<1> HIDE DEF h4
<1>10. LeafIs(h, n, p, colour, h4)
  <2>1. h4 \in Heap /\ h4.up = h1.up /\ h4.kid = h3.kid /\ h3.black = h.black
    BY <1>3, <1>5, <1>7, <1>9 DEF UpIs, KidIs, BlackIs
  <2>2. \A x \in Node : /\ h4.up[x] = IF x = n THEN p ELSE h.up[x]
                        /\ h4.black[x] = IF x = n THEN colour ELSE h.black[x]
    BY <2>1, <1>3, <1>9 DEF UpIs, BlackIs
  <2>3. \A x \in Node, t \in Side : h4.kid[t][x] = IF x = n THEN Null ELSE h.kid[t][x]
    <3>1. \A t \in Side : t = "left" \/ t = "right"
      BY DEF Side
    <3> QED BY <2>1, <3>1, <1>3, <1>5, <1>7 DEF UpIs, KidIs
  <2> QED BY <2>1, <2>2, <2>3 DEF LeafIs
<1> QED BY <1>2, <1>10

(* The first node.                                                         *)
LEMMA FirstNode ==
  ASSUME NEW h, NEW n \in Node, NEW g, LeafIs(h, n, Null, TRUE, g)
  PROVE  \E sub, ap : Settled(g, {n}, n, sub, ap)
<1> DEFINE sub == [x \in Pointer |-> IF x = n THEN {n} ELSE {}]
           ap == [x \in Pointer |-> IF x = n THEN 1 ELSE 0]
<1>2. /\ g \in Heap /\ g.up[n] = Null /\ g.black[n]
      /\ \A t \in Side : g.kid[t][n] = Null
  BY DEF LeafIs
<1>3. n \in Pointer /\ n # Null /\ Null \in Pointer /\ "left" \in Side /\ "right" \in Side
  BY NullFacts, Sides
<1>4. sub \in [Pointer -> SUBSET {n}] /\ sub[Null] = {} /\ sub[n] = {n}
  BY <1>3
<1>5. ap \in [Pointer -> Nat] /\ ap[Null] = 0 /\ ap[n] = 1
  BY <1>3
<1> HIDE DEF sub, ap
<1>6. Tree(g, {n}, n, sub)
  BY <1>2, <1>3, <1>4 DEF Tree, LinkedUp, Sorted
<1>7. Weight(g, Null, Null)[n] = 1
  BY <1>2, <1>3 DEF Weight
<1>8. Level(g, {n}, ap, Weight(g, Null, Null))
  <2>1. \A t \in Side : ap[n] = ap[g.kid[t][n]] + Weight(g, Null, Null)[n]
    BY <1>2, <1>5, <1>7
  <2> QED BY <2>1, <1>5 DEF Level
<1>9. Coloured(g, {n}, n, {})
  BY <1>2 DEF Coloured
<1>10. Settled(g, {n}, n, sub, ap)
  BY <1>6, <1>8, <1>9 DEF Settled
<1> QED BY <1>10

(* The new node n below q.                                                 *)
LEMMA NewNode ==
  ASSUME NEW h, NEW M, NEW r, NEW sub, Tree(h, M, r, sub),
         NEW n \in Node \ M, NEW q \in M, NEW t \in Side, h.kid[t][q] = Null, On(t, n, q),
         \A a \in M, s \in Side : q \in sub[h.kid[s][a]] => On(s, n, a),
         NEW f, LeafIs(h, n, q, FALSE, f), NEW g, KidIs(f, q, t, n, g)
  PROVE  /\ \E sb : Tree(g, M \cup {n}, r, sb)
         /\ ~g.black[n]
         /\ Coloured(h, M, r, {}) => Coloured(g, M \cup {n}, r, {n})
         /\ \A ap : Level(h, M, ap, Weight(h, Null, Null))
                      => \E lv : Level(g, M \cup {n}, lv, Weight(g, Null, Null))
<1> DEFINE N == M \cup {n}
           sb == [x \in Pointer |-> IF x = n THEN {n} ELSE IF q \in sub[x] THEN sub[x] \cup {n} ELSE sub[x]]
<1>1. /\ Tree(h, M, r, sub) /\ h \in Heap /\ M \subseteq Node /\ r \in M
      /\ sub \in [Pointer -> SUBSET M] /\ sub[Null] = {} /\ sub[r] = M
      /\ h.up[r] = Null
      /\ \A x \in M : x # r => h.up[x] \in M /\ \E s \in Side : h.kid[s][h.up[x]] = x
      /\ \A x \in M, s \in Side : h.kid[s][x] # Null => h.kid[s][x] \in M /\ h.up[h.kid[s][x]] = x
  BY DEF Tree, LinkedUp
<1>2. /\ n \in Pointer /\ n # Null /\ q \in Pointer /\ n # q /\ Null \in Pointer /\ q # Null /\ n # r
      /\ \A x \in M : x \in Node /\ x \in Pointer /\ x # Null /\ x # n
  BY <1>1, NullFacts
<1>6. /\ g \in Heap /\ g.up[n] = q /\ ~g.black[n]
      /\ \A x \in M : g.up[x] = h.up[x] /\ g.black[x] = h.black[x]
  <2>1. g \in Heap /\ g.up = f.up /\ g.black = f.black
    BY DEF KidIs
  <2>2. /\ f.up[n] = q /\ ~f.black[n]
        /\ \A x \in M : f.up[x] = h.up[x] /\ f.black[x] = h.black[x]
    BY <1>2 DEF LeafIs
  <2> QED BY <2>1, <2>2
<1>6a. \A s \in Side : g.kid[s][n] = Null
  BY <1>2 DEF LeafIs, KidIs
<1>6b. \A x \in M, s \in Side : ~(x = q /\ s = t) => g.kid[s][x] = h.kid[s][x]
  BY <1>2 DEF LeafIs, KidIs
<1>6c. g.kid[t][q] = n
  BY <1>2 DEF KidIs
<1>7. LinkedUp(g, N, r)
  <2>1. g.up[r] = Null
    BY <1>1, <1>6, <1>6a, <1>6b, <1>6c
  <2>2. ASSUME NEW x \in N, x # r PROVE g.up[x] \in N /\ \E s \in Side : g.kid[s][g.up[x]] = x
    <3>1. CASE x = n
      BY <3>1, <1>6, <1>6a, <1>6b, <1>6c
    <3>2. CASE x \in M
      <4>1. PICK s \in Side : h.up[x] \in M /\ h.kid[s][h.up[x]] = x
        BY <2>2, <3>2, <1>1
      <4>2. ~(h.up[x] = q /\ s = t)
        BY <4>1, <3>2, <1>2
      <4> QED BY <3>2, <4>1, <4>2, <1>6, <1>6a, <1>6b, <1>6c
    <3> QED BY <3>1, <3>2
  <2>3. ASSUME NEW x \in N, NEW s \in Side, g.kid[s][x] # Null
        PROVE  g.kid[s][x] \in N /\ g.up[g.kid[s][x]] = x
    <3>1. x \in M
      BY <2>3, <1>6, <1>6a, <1>6b, <1>6c
    <3>2. CASE x = q /\ s = t
      BY <3>1, <3>2, <1>6, <1>6a, <1>6b, <1>6c
    <3>3. CASE ~(x = q /\ s = t)
      BY <2>3, <3>1, <3>3, <1>1, <1>6, <1>6a, <1>6b, <1>6c
    <3> QED BY <3>2, <3>3
  <2> QED BY <2>1, <2>2, <2>3 DEF LinkedUp
<1>8. /\ sb \in [Pointer -> SUBSET N] /\ sb[Null] = {} /\ sb[n] = {n}
      /\ \A x \in Pointer : x # n => sb[x] = IF q \in sub[x] THEN sub[x] \cup {n} ELSE sub[x]
  BY <1>1, <1>2
<1> HIDE DEF sb
<1>9. sb[r] = N
  BY <1>1, <1>2, <1>8
<1>10. ASSUME NEW x \in M, NEW s \in Side
       PROVE  /\ h.kid[s][x] \in Pointer /\ h.kid[s][x] # n
              /\ q # x => (q \in sub[x] <=> q \in sub[h.kid[s][x]] \/ q \in sub[h.kid[Opposite(s)][x]])
              /\ sub[x] = {x} \cup sub[h.kid[s][x]] \cup sub[h.kid[Opposite(s)][x]]
              /\ x \notin sub[h.kid[s][x]]
  <2>1. h.kid[s][x] \in Pointer
    BY <1>1, <1>2, HeapFields
  <2>2. h.kid[s][x] # n
    BY <1>1, <1>2
  <2>3. sub[x] = {x} \cup sub[h.kid[s][x]] \cup sub[h.kid[Opposite(s)][x]]
    BY <1>1, SubOf
  <2>4. x \notin sub[h.kid[s][x]]
    BY <1>1, KidFacts
  <2> QED BY <2>1, <2>2, <2>3, <2>4
<1>11. ASSUME NEW x \in N, NEW s \in Side
       PROVE  sb[x] = {x} \cup sb[g.kid[s][x]] \cup sb[g.kid[Opposite(s)][x]]
  <2>0. Opposite(s) \in Side /\ s # Opposite(s) /\ (t = s \/ t = Opposite(s))
    BY Sides
  <2>1. CASE x = n
    BY <2>0, <2>1, <1>6a, <1>6b, <1>6c, <1>8
  <2>2. CASE x = q
    <3>1. h.kid[s][q] # n /\ h.kid[Opposite(s)][q] # n
      BY <2>0, <1>10
    <3>2. /\ q \notin sub[h.kid[s][q]] /\ q \notin sub[h.kid[Opposite(s)][q]]
      BY <2>0, <1>10
    <3>3. /\ sb[h.kid[s][q]] = sub[h.kid[s][q]]
          /\ sb[h.kid[Opposite(s)][q]] = sub[h.kid[Opposite(s)][q]]
      BY <2>0, <3>1, <3>2, <1>8, <1>10
    <3>4. sb[q] = sub[q] \cup {n} /\ sub[q] = {q} \cup sub[h.kid[s][q]] \cup sub[h.kid[Opposite(s)][q]]
      BY <1>2, <1>8, <1>10
    <3>5. CASE t = s
      BY <2>0, <2>2, <3>3, <3>4, <3>5, <1>1, <1>6a, <1>6b, <1>6c, <1>8, SMTT(30)
    <3>6. CASE t = Opposite(s)
      BY <2>0, <2>2, <3>3, <3>4, <3>6, <1>1, <1>6a, <1>6b, <1>6c, <1>8, SMTT(30)
    <3> QED BY <2>0, <3>5, <3>6
  <2>3. CASE x # n /\ x # q
    <3>1. x \in M
      BY <2>3
    <3>2. PICK y, z : y = h.kid[s][x] /\ z = h.kid[Opposite(s)][x]
      OBVIOUS
    <3>3. g.kid[s][x] = y /\ g.kid[Opposite(s)][x] = z
      BY <2>0, <2>3, <3>1, <3>2, <1>6, <1>6a, <1>6b, <1>6c
    <3>4. /\ y \in Pointer /\ y # n /\ z \in Pointer /\ z # n
          /\ sub[x] = {x} \cup sub[y] \cup sub[z]
          /\ q \in sub[x] <=> q \in sub[y] \/ q \in sub[z]
      BY <2>0, <2>3, <3>1, <3>2, <1>10
    <3>5. sb[x] = IF q \in sub[x] THEN sub[x] \cup {n} ELSE sub[x]
      BY <2>3, <3>1, <1>2, <1>8
    <3>6. /\ sb[y] = IF q \in sub[y] THEN sub[y] \cup {n} ELSE sub[y]
          /\ sb[z] = IF q \in sub[z] THEN sub[z] \cup {n} ELSE sub[z]
      BY <3>4, <1>8
    <3> QED BY <3>3, <3>4, <3>5, <3>6
  <2> QED BY <2>1, <2>2, <2>3
<1>12. ASSUME NEW x \in N, NEW s \in Side, NEW y \in sb[g.kid[s][x]]
       PROVE  On(s, y, x)
  <2>1. x \in M
    BY <1>12, <1>6a, <1>6b, <1>6c, <1>8
  <2>2. CASE x = q /\ s = t
    <3>1. y = n
      BY <2>1, <2>2, <1>6a, <1>6b, <1>6c, <1>8, <1>12
    <3> QED BY <2>2, <3>1
  <2>3. CASE ~(x = q /\ s = t)
    <3>1. g.kid[s][x] = h.kid[s][x]
      BY <2>1, <2>3, <1>6, <1>6a, <1>6b, <1>6c
    <3>2. y \in sub[h.kid[s][x]] \/ (y = n /\ q \in sub[h.kid[s][x]])
      BY <2>1, <3>1, <1>8, <1>10, <1>12
    <3>3. \A z \in sub[h.kid[s][x]] : On(s, z, x)
      BY <2>1, <1>1 DEF Tree, Sorted
    <3> QED BY <2>1, <3>2, <3>3
  <2> QED BY <2>2, <2>3
<1>13. Sorted(g, N, sb)
  <2>1. \A x \in N : sb[x] = {x} \cup sb[g.kid["left"][x]] \cup sb[g.kid["right"][x]]
    BY <1>11, Sides
  <2> QED BY <2>1, <1>12 DEF Sorted
<1>14. Tree(g, N, r, sb)
  BY <1>1, <1>6, <1>7, <1>8, <1>9, <1>13 DEF Tree
<1>15. ASSUME NEW ap, Level(h, M, ap, Weight(h, Null, Null))
       PROVE  \E lv : Level(g, N, lv, Weight(g, Null, Null))
  <2> DEFINE lv == [ap EXCEPT ![n] = 0]
  <2>1. /\ ap \in [Pointer -> Nat] /\ ap[Null] = 0
        /\ \A x \in M, s \in Side : ap[x] = ap[h.kid[s][x]] + Weight(h, Null, Null)[x]
    BY <1>15 DEF Level
  <2>2. /\ lv \in [Pointer -> Nat] /\ lv[Null] = 0 /\ lv[n] = 0
        /\ \A x \in Pointer : x # n => lv[x] = ap[x]
    BY <2>1, <1>2
  <2>3. /\ Weight(g, Null, Null)[n] = 0
        /\ \A x \in M : Weight(g, Null, Null)[x] = Weight(h, Null, Null)[x]
    BY <1>2, <1>6 DEF Weight
  <2> HIDE DEF lv
  <2>4. ASSUME NEW x \in N, NEW s \in Side
        PROVE  lv[x] = lv[g.kid[s][x]] + Weight(g, Null, Null)[x]
    <3>1. CASE x = n
      BY <3>1, <2>2, <2>3, <1>6, <1>6a, <1>6b, <1>6c
    <3>2. CASE x = q /\ s = t
      <4>1. ap[q] = 0 + Weight(h, Null, Null)[q]
        BY <2>1
      <4> QED BY <3>2, <4>1, <2>2, <2>3, <1>2, <1>6, <1>6a, <1>6b, <1>6c
    <3>3. CASE x # n /\ ~(x = q /\ s = t)
      <4>1. x \in M
        BY <3>3
      <4>2. g.kid[s][x] = h.kid[s][x] /\ h.kid[s][x] \in Pointer /\ h.kid[s][x] # n
        BY <3>3, <4>1, <1>6b, <1>10
      <4> QED BY <4>1, <4>2, <2>1, <2>2, <2>3, <1>2
    <3> QED BY <3>1, <3>2, <3>3
  <2>5. Level(g, N, lv, Weight(g, Null, Null))
    BY <2>2, <2>4 DEF Level
  <2> QED BY <2>5
<1>16. Coloured(h, M, r, {}) => Coloured(g, N, r, {n})
  BY <1>1, <1>6 DEF Coloured
<1> QED BY <1>6, <1>14, <1>15, <1>16

-----------------------------------------------------------------------------
(* The heat that tree_insert sends up.                                     *)

(* A red parent has a parent of its own, which is black.                   *)
LEMMA RedParent ==
  ASSUME NEW h, NEW M, NEW r, NEW sub, Tree(h, M, r, sub), NEW n \in M, Coloured(h, M, r, {n}),
         ~IsBlack(h, h.up[n]),
         NEW p, p = h.up[n], NEW g, g = h.up[p], NEW s, s = SideOf(h, p)
  PROVE  /\ n # r /\ p \in M /\ p # r /\ ~h.black[p] /\ g \in M /\ h.black[g] /\ n # g
         /\ s \in Side /\ h.kid[s][g] = p /\ p # Null
         /\ SideOf(h, n) \in Side /\ h.kid[SideOf(h, n)][p] = n
<1>1. p # Null /\ ~h.black[p]
  BY DEF IsBlack
<1>2. n # r
  BY <1>1 DEF Tree, LinkedUp
<1>3. p \in M /\ SideOf(h, n) \in Side /\ h.kid[SideOf(h, n)][p] = n
  BY <1>2, UpFacts
<1>4. p # r
  BY <1>1 DEF Coloured
<1>5. g \in M /\ s \in Side /\ h.kid[s][g] = p
  BY <1>3, <1>4, UpFacts
<1>6. n # Null
  BY NullFacts DEF Tree
<1>7. n # p /\ n \in sub[p]
  BY <1>3, <1>6, KidFacts
<1>8. g \notin sub[p]
  BY <1>1, <1>5, KidFacts
<1>9. h.black[g]
  BY <1>1, <1>3, <1>4, <1>7 DEF Coloured
<1> QED BY <1>1, <1>2, <1>3, <1>4, <1>5, <1>7, <1>8, <1>9

(* "transfer heat up the tree": f is h with the children of g black and g  *)
(* red, unless it is the root.                                             *)
Cooled(h, f, M, r, g, a, b) ==
    /\ SameLinks(h, f, M)
    /\ f.black[a] /\ f.black[b]
    /\ g = r => f.black[g]
    /\ g # r => ~f.black[g]
    /\ \A x \in M : x \notin {a, b, g} => f.black[x] = h.black[x]

LEMMA HeatUp ==
  ASSUME NEW h, NEW M, NEW r, NEW sub, Tree(h, M, r, sub), NEW n \in M, Coloured(h, M, r, {n}),
         NEW ap, Level(h, M, ap, Weight(h, Null, Null)),
         NEW g \in M, NEW s \in Side, NEW a, NEW b, a = h.kid[s][g], b = h.kid[Opposite(s)][g],
         a # Null, b # Null, ~h.black[a], ~h.black[b], h.black[g], h.up[n] \in {a, b},
         NEW f, Cooled(h, f, M, r, g, a, b)
  PROVE  /\ Tree(f, M, r, sub) /\ Coloured(f, M, r, {g})
         /\ \E lv : Level(f, M, lv, Weight(f, Null, Null))
<1> DEFINE lv == [x \in Pointer |-> IF x \in {a, b} \/ (x = g /\ g = r) THEN ap[x] + 1 ELSE ap[x]]
<1>1. Tree(f, M, r, sub)
  BY SameTree DEF Cooled
<1>2. /\ r \in M /\ h \in Heap /\ \A x \in M : x \in Node /\ x # Null /\ x \in Pointer
  BY NullFacts DEF Tree
<1>3. Opposite(s) \in Side /\ Opposite(Opposite(s)) = s
  BY Sides
<1>4. /\ a \in M /\ a # r /\ a # g /\ h.up[a] = g /\ g \notin sub[a] /\ a # b
  BY KidFacts
<1>5. /\ b \in M /\ b # r /\ b # g /\ h.up[b] = g /\ g \notin sub[b]
  BY <1>3, KidFacts
<1>6. \A x \in M : x # r /\ h.up[x] = g => x = a \/ x = b
  BY KidOf
<1>7. \A x \in M : f.up[x] = h.up[x] /\ \A t \in Side : f.kid[t][x] = h.kid[t][x]
  BY DEF Cooled, SameLinks
<1>8. ASSUME NEW x \in M, x # r, x # g PROVE f.black[x] \/ f.black[f.up[x]]
  <2>1. CASE x \in {a, b} \/ h.up[x] \in {a, b}
    BY <2>1, <1>7 DEF Cooled
  <2>2. CASE x \notin {a, b} /\ h.up[x] \notin {a, b}
    <3>1. h.up[x] # g /\ h.up[x] \in M /\ x # n
      BY <2>2, <1>6, <1>8, UpFacts
    <3>2. h.black[x] \/ h.black[h.up[x]]
      BY <3>1, <1>8 DEF Coloured
    <3> QED BY <2>2, <3>1, <3>2, <1>7, <1>8 DEF Cooled
  <2> QED BY <2>1, <2>2
<1>9. Coloured(f, M, r, {g})
  <2>1. f.black[r]
    BY <1>2, <1>4, <1>5 DEF Coloured, Cooled
  <2> QED BY <2>1, <1>8 DEF Coloured
<1>10. PICK w, w2 : w = Weight(h, Null, Null) /\ w2 = Weight(f, Null, Null)
  OBVIOUS
<1>11. /\ w[a] = 0 /\ w2[a] = 1 /\ w[b] = 0 /\ w2[b] = 1 /\ w[g] = 1
       /\ w2[g] = IF g = r THEN 1 ELSE 0
       /\ \A x \in M : x \notin {a, b, g} => w2[x] = w[x]
  BY <1>2, <1>4, <1>5, <1>10 DEF Weight, Cooled
<1>12. /\ ap \in [Pointer -> Nat] /\ ap[Null] = 0
       /\ \A x \in M, t \in Side : ap[x] = ap[h.kid[t][x]] + w[x]
  BY <1>10 DEF Level
<1>13. /\ lv \in [Pointer -> Nat] /\ lv[Null] = 0
       /\ lv[a] = ap[a] + 1 /\ lv[b] = ap[b] + 1
       /\ lv[g] = IF g = r THEN ap[g] + 1 ELSE ap[g]
       /\ \A x \in Pointer : x \notin {a, b, g} => lv[x] = ap[x]
  BY <1>2, <1>4, <1>5, <1>12, NullFacts
<1> HIDE DEF lv
<1>14. ASSUME NEW x \in M, NEW t \in Side PROVE lv[x] = lv[f.kid[t][x]] + w2[x]
  <2>1. PICK m \in Pointer : m = h.kid[t][x] /\ f.kid[t][x] = m
    BY <1>2, <1>7, HeapFields
  <2>2. ap[x] = ap[m] + w[x] /\ ap[x] \in Nat /\ ap[m] \in Nat
    BY <2>1, <1>2, <1>12
  <2>3. m # Null => h.up[m] = x /\ m \in sub[x] /\ m # r /\ m # x
    BY <2>1, KidFacts
  <2>4. CASE x = g
    <3>1. m = a \/ m = b
      BY <2>1, <2>4, Sides
    <3> QED BY <2>1, <2>2, <2>4, <3>1, <1>4, <1>5, <1>11, <1>13
  <2>5. CASE x \in {a, b}
    <3>1. m \notin {a, b, g}
      BY <2>3, <2>5, <1>2, <1>4, <1>5
    <3>2. lv[m] = ap[m] /\ lv[x] = ap[x] + 1 /\ w[x] = 0 /\ w2[x] = 1
      BY <2>5, <3>1, <1>11, <1>13
    <3> QED BY <2>1, <2>2, <3>2
  <2>6. CASE x \notin {a, b, g}
    <3>1. m \notin {a, b}
      BY <2>3, <2>6, <1>2, <1>4, <1>5
    <3>2. lv[m] = ap[m]
      BY <2>3, <3>1, <1>2, <1>13
    <3>3. lv[x] = ap[x] /\ w2[x] = w[x]
      BY <2>6, <1>2, <1>11, <1>13
    <3> QED BY <2>1, <2>2, <3>2, <3>3
  <2> QED BY <2>4, <2>5, <2>6
<1>15. Level(f, M, lv, w2)
  BY <1>13, <1>14 DEF Level
<1> QED BY <1>1, <1>9, <1>10, <1>15

(* A rotation that puts the colours right.                                 *)
LEMMA LastTurn ==
  ASSUME NEW h, NEW M, NEW r, NEW sub, Tree(h, M, r, sub), NEW top \in M, NEW s \in Side,
         NEW ap, Level(h, M, ap, Weight(h, Null, Null)),
         NEW c, c = h.kid[s][top], c # Null, NEW X, Coloured(h, M, r, X),
         X \subseteq {h.kid[s][c]}, h.black[top], ~h.black[c], IsBlack(h, h.kid[Opposite(s)][top])
  PROVE  \E q, sb, lv : Settled(RotateUnder(h, top, s), M, q, sb, lv)
<1> DEFINE g == RotateUnder(h, top, s)
<1>1. Tree(g, M, TurnRoot(h, r, top, s), TurnSub(h, sub, top, s))
  BY RotateSorted
<1>2. Null \notin M /\ c \in M
  BY KidFacts, NullFacts DEF Tree
<1>3. Level(g, M, TurnLevel(h, ap, top, s), Weight(g, Null, Null))
  BY <1>2, RotateRedLevel
<1>4. Coloured(g, M, TurnRoot(h, r, top, s), {})
  BY RotateColours
<1> HIDE DEF g
<1>5. Settled(g, M, TurnRoot(h, r, top, s), TurnSub(h, sub, top, s), TurnLevel(h, ap, top, s))
  BY <1>1, <1>3, <1>4 DEF Settled
<1> QED BY <1>5 DEF g

(* "rotation cases": where there is a grandparent they keep the tree,      *)
(* whatever the colours.                                                   *)
LEMMA InsertTurnTree ==
  ASSUME NEW h, NEW M, NEW r, NEW sub, Tree(h, M, r, sub), NEW n \in M,
         NEW p, p = h.up[n], p # Null, NEW g, g = h.up[p], g # Null, NEW s, s = SideOf(h, p),
         NEW f, SideOf(h, n) = s => f = h, SideOf(h, n) # s => f = RotateUnder(h, p, Opposite(s))
  PROVE  /\ p \in M /\ g \in M /\ s \in Side /\ h.kid[s][g] = p
         /\ f.kid[s][g] \in M
         /\ \E q, sb : Tree(RotateUnder(f, g, s), M, q, sb)
<1>1. n # r /\ p # r
  BY DEF Tree, LinkedUp
<1>2. p \in M /\ SideOf(h, n) \in Side /\ h.kid[SideOf(h, n)][p] = n
  BY <1>1, UpFacts
<1>3. g \in M /\ s \in Side /\ h.kid[s][g] = p
  BY <1>1, <1>2, UpFacts
<1>4. CASE SideOf(h, n) = s
  <2>1. f = h
    BY <1>4
  <2>2. Tree(RotateUnder(h, g, s), M, TurnRoot(h, r, g, s), TurnSub(h, sub, g, s))
    BY <1>3, RotateSorted
  <2> QED BY <2>1, <2>2, <1>2, <1>3
<1>5. CASE SideOf(h, n) # s
  <2>1. PICK o : o = Opposite(s) /\ o \in Side /\ f = RotateUnder(h, p, o) /\ h.kid[o][p] = n
    BY <1>2, <1>3, <1>5, Sides
  <2>2. n # Null
    BY NullFacts DEF Tree
  <2>3. PICK q, sb : Tree(f, M, q, sb)
    <3>1. Tree(RotateUnder(h, p, o), M, TurnRoot(h, r, p, o), TurnSub(h, sub, p, o))
      BY <2>1, <2>2, <1>2, RotateSorted
    <3> QED BY <2>1, <3>1
  <2>4. PICK i, e, k : Around(h, p, o, n, i, e, k, g)
    BY <2>1, <2>2 DEF Around
  <2>5. /\ \A x \in M, t \in Side : x # p /\ x # n =>
             \/ f.kid[t][x] = h.kid[t][x] /\ h.kid[t][x] # p /\ h.kid[t][x] # n
             \/ x = g /\ f.kid[t][x] = n /\ h.kid[t][x] = p
    BY <2>1, <2>4, <1>2, RotateKids, SMTT(30)
  <2>6. g # p /\ g # n
    <3>1. Neighbours(h, M, r, p, o, n, i, e, k, g)
      BY <2>1, <2>4, <1>2, AroundFacts
    <3> QED BY <3>1 DEF Neighbours
  <2>7. f.kid[s][g] = n
    BY <2>5, <2>6, <1>3
  <2>8. Tree(RotateUnder(f, g, s), M, TurnRoot(f, q, g, s), TurnSub(f, sb, g, s))
    BY <2>2, <2>3, <2>7, <1>3, RotateSorted
  <2> QED BY <2>7, <2>8, <1>2, <1>3
<1> QED BY <1>4, <1>5

(* "rotation cases"                                                        *)
LEMMA InsertTurn ==
  ASSUME NEW h, NEW M, NEW r, NEW sub, Tree(h, M, r, sub), NEW n \in M, Coloured(h, M, r, {n}),
         NEW ap, Level(h, M, ap, Weight(h, Null, Null)), n # r => ~h.black[n],
         ~IsBlack(h, h.up[n]), IsBlack(h, uncle_node(h, n)),
         NEW p, p = h.up[n], NEW g, g = h.up[p], NEW s, s = SideOf(h, p),
         NEW f, f = IF SideOf(h, n) = s THEN h ELSE RotateUnder(h, p, Opposite(s))
  PROVE  /\ f.kid[s][g] \in M
         /\ \E q, sb, lv : Settled(RotateUnder(f, g, s), M, q, sb, lv)
<1>1. /\ n # r /\ p \in M /\ p # r /\ ~h.black[p] /\ g \in M /\ h.black[g] /\ n # g
      /\ s \in Side /\ h.kid[s][g] = p /\ p # Null
      /\ SideOf(h, n) \in Side /\ h.kid[SideOf(h, n)][p] = n
  BY RedParent
<1>2. PICK u : u = h.kid[Opposite(s)][g]
  OBVIOUS
<1>3. IsBlack(h, u) /\ ~h.black[n]
  BY <1>1, <1>2 DEF uncle_node
<1>4. CASE SideOf(h, n) = s
  <2>1. f = h
    BY <1>4
  <2>2. \E q, sb, lv : Settled(RotateUnder(h, g, s), M, q, sb, lv)
    BY <1>1, <1>2, <1>3, <1>4, LastTurn
  <2> QED BY <2>1, <2>2, <1>1
<1>5. CASE SideOf(h, n) # s
  <2> DEFINE o == Opposite(s)
  <2>1. f = RotateUnder(h, p, o) /\ o \in Side /\ Opposite(o) = s /\ h.kid[o][p] = n
    BY <1>1, <1>5, Sides
  <2>2. Null \notin M /\ n # Null /\ u # p
    BY <1>1, <1>2, KidFacts, NullFacts DEF Tree
  <2>3. PICK i, e, k : Around(h, p, o, n, i, e, k, g)
    BY <2>1, <2>2 DEF Around
  <2>4. /\ RotateIs(h, p, o, n, i, g, f)
        /\ f.kid[Opposite(o)][n] = p
        /\ \A x \in M, t \in Side : x # p /\ x # n =>
              \/ f.kid[t][x] = h.kid[t][x] /\ h.kid[t][x] # p /\ h.kid[t][x] # n
              \/ x = g /\ f.kid[t][x] = n /\ h.kid[t][x] = p
    BY <2>1, <2>3, <1>1, RotateKids, SMTT(30)
  <2>5. Neighbours(h, M, r, p, o, n, i, e, k, g)
    BY <2>1, <2>3, <1>1, AroundFacts
  <2>6. f.kid[s][g] = n /\ f.kid[o][g] = u /\ f.kid[s][n] = p
    <3>1. g # p /\ g # n
      BY <2>5 DEF Neighbours
    <3> QED BY <2>1, <2>2, <2>4, <3>1, <1>1, <1>2, ZenonT(30)
  <2>7. \A x \in M : f.black[x] <=> h.black[x]
    <3>1. \A x \in M : x \in Node
      BY DEF Tree
    <3> QED BY <2>4, <3>1, <1>1, <1>3, SMTT(30) DEF RotateIs
  <2>8. TurnRoot(h, r, p, o) = r
    BY <1>1 DEF TurnRoot
  <2> HIDE DEF o
  <2>9. PICK sb : Tree(f, M, r, sb)
    <3>1. Tree(f, M, r, TurnSub(h, sub, p, o))
      BY <2>1, <2>2, <2>8, <1>1, RotateSorted
    <3> QED BY <3>1
  <2>10. PICK lv : Level(f, M, lv, Weight(f, Null, Null))
    <3>1. Level(f, M, TurnLevel(h, ap, p, o), Weight(f, Null, Null))
      BY <2>1, <2>2, <1>1, <1>3, RotateRedLevel
    <3> QED BY <3>1
  <2>11. Coloured(f, M, r, {p})
    BY <2>1, <2>2, <2>8, <1>1, <1>3, RotateReds
  <2>12. u # Null => u \in M
    BY <1>1, <1>2, <2>1, KidFacts, SMTT(30) DEF o
  <2>13. IsBlack(f, u) /\ f.black[g] /\ ~f.black[n]
    BY <2>7, <2>12, <1>1, <1>3 DEF IsBlack
  <2>14. \E q, sb2, lv2 : Settled(RotateUnder(f, g, s), M, q, sb2, lv2)
    BY <2>2, <2>6, <2>9, <2>10, <2>11, <2>13, <1>1, LastTurn, SMTT(30) DEF o
  <2> QED BY <2>6, <2>14
<1> QED BY <1>4, <1>5

-----------------------------------------------------------------------------
(* The fixer of tree_delete.                                               *)

(* Where the fixer works: fx and its brother b below p, b on side s.       *)
FixSpot(h, M, r, sub, fx, rp, tg, p, b, s) ==
    /\ p \in M /\ b \in M /\ b # Null /\ s \in Side /\ h.kid[s][p] = b /\ h.kid[Opposite(s)][p] = fx
    /\ h.up[b] = p /\ h.up[fx] = p /\ p \notin sub[fx] /\ p # b /\ b # r
    /\ sub[b] \cap sub[fx] = {} /\ fx \in sub[fx] /\ b \in sub[b]
    /\ rp # p /\ rp \notin sub[b] /\ fx \notin sub[b] /\ fx # p /\ tg \notin sub[b]
    /\ rp # r /\ rp \in M
    /\ fx # rp => h.up[rp] \in sub[fx]

FixPlace(h, M, r, sub, fx, rp, tg, p, b, s) ==
    FixSpot(h, M, r, sub, fx, rp, tg, p, b, s) /\ Coloured(h, M, r, {})

LEMMA FixSpotting ==
  ASSUME NEW h, NEW M, NEW r, NEW sub, NEW fx, NEW rp, NEW tg, NEW d,
         Tree(h, M, r, sub), Beside(h, M, sub, rp, tg, d), fx \in M, rp \in sub[fx], fx # r,
         NEW p, p = h.up[fx], NEW b, b = brother_node(h, fx), b # Null, NEW s, s = SideOf(h, b)
  PROVE  FixSpot(h, M, r, sub, fx, rp, tg, p, b, s)
<1>1. tg \in M /\ rp \in sub[tg] /\ rp # tg
  BY DEF Beside
<1>2. PICK t \in Side : p \in M /\ t = SideOf(h, fx) /\ h.kid[t][p] = fx
  BY <1>1, UpFacts
<1>3. fx # Null /\ p # Null /\ fx \in Node /\ Opposite(t) \in Side /\ Opposite(Opposite(t)) = t
  BY <1>1, <1>2, NullFacts, Sides DEF Tree
<1>4. b = h.kid[Opposite(t)][p]
  BY <1>2 DEF brother_node
<1>6. /\ b \in M /\ h.up[b] = p /\ b # p /\ b # r /\ SideOf(h, b) = Opposite(t)
      /\ b \in sub[b]
  BY <1>2, <1>1, <1>3, <1>4, KidFacts, SMTT(30)
<1>7. /\ fx \in sub[fx] /\ p \notin sub[fx] /\ fx # p
  BY <1>1, <1>2, <1>3, KidFacts
<1>8. s = Opposite(t) /\ s \in Side /\ Opposite(s) = t
  BY <1>3, <1>6
<1>9. sub[b] \cap sub[fx] = {}
  <2> SUFFICES ASSUME NEW x \in sub[b], x \in sub[fx] PROVE FALSE
    OBVIOUS
  <2>1. On(t, x, p) /\ On(Opposite(t), x, p)
    BY <1>1, <1>2, <1>3, <1>4 DEF Tree, Sorted
  <2>2. x \in Node /\ p \in Node
    BY <1>1, <1>2, TreeFinite DEF Tree
  <2> QED BY <2>1, <2>2, Order
<1>10. rp # p /\ rp \notin sub[b] /\ fx \notin sub[b]
  BY <1>1, <1>7, <1>9
<1>11. tg \notin sub[b]
  BY <1>1, <1>6, <1>10, SubTrans
<1>12. rp \in M /\ rp # r
  <2>1. rp \in M /\ h.up[rp] \in sub[tg]
    BY <1>1, UpClosed
  <2>2. Null \notin sub[tg]
    BY <1>1, TreeFinite, NullFacts DEF Tree
  <2> QED BY <2>1, <2>2, <1>1 DEF Tree, LinkedUp
<1>13. fx # rp => h.up[rp] \in sub[fx]
  BY <1>1, UpClosed
<1> QED BY <1>2, <1>4, <1>6, <1>7, <1>8, <1>9, <1>10, <1>11, <1>12, <1>13 DEF FixSpot

(* The brother of fix_ptr exists, because its level is that of fix_ptr,    *)
(* which counts for at least one, and that of NULL is 0.                   *)
LEMMA FixSetting ==
  ASSUME NEW h, NEW M, NEW r, NEW sub, NEW ap, NEW fx, NEW rp, NEW tg, NEW d,
         FixAt(h, M, r, sub, ap, fx, rp, tg, d), fx # r, h.black[fx],
         NEW p, p = h.up[fx], NEW b, b = brother_node(h, fx), NEW s, s = SideOf(h, b)
  PROVE  FixPlace(h, M, r, sub, fx, rp, tg, p, b, s)
<1>1. /\ Tree(h, M, r, sub) /\ Level(h, M, ap, Weight(h, rp, fx))
      /\ Coloured(h, M, r, {n \in M : h.up[n] = fx})
      /\ fx \in M /\ rp \in sub[fx] /\ Beside(h, M, sub, rp, tg, d)
  BY DEF FixAt
<1>2. PICK t \in Side : p \in M /\ t = SideOf(h, fx) /\ h.kid[t][p] = fx
  BY <1>1, UpFacts
<1>3. fx # Null /\ p # Null /\ fx \in Node /\ Opposite(t) \in Side /\ Opposite(Opposite(t)) = t
  BY <1>1, <1>2, NullFacts, Sides DEF Tree
<1>4. b = h.kid[Opposite(t)][p]
  BY <1>2 DEF brother_node
<1>5. b # Null
  <2>1. PICK w : w = Weight(h, rp, fx)
    OBVIOUS
  <2>2. w[fx] >= 1 /\ w[fx] \in Nat /\ w[p] \in Nat
    <3>1. p \in Node
      BY <1>1, <1>2 DEF Tree
    <3> QED BY <2>1, <3>1, <1>3 DEF Weight
  <2>3. h.kid["left"][fx] \in Pointer /\ "left" \in Side
    BY <1>1, <1>3, HeapFields, Sides DEF Tree
  <2>4. /\ ap \in [Pointer -> Nat] /\ ap[Null] = 0
        /\ ap[fx] = ap[h.kid["left"][fx]] + w[fx] /\ ap[p] = ap[fx] + w[p] /\ ap[p] = ap[b] + w[p]
    BY <2>1, <2>3, <1>1, <1>2, <1>3, <1>4 DEF Level
  <2>5. b \in Pointer /\ fx \in Pointer
    BY <1>1, <1>2, <1>3, <1>4, HeapFields DEF Tree, Pointer
  <2>6. ap[b] >= 1
    BY <2>2, <2>3, <2>4, <2>5
  <2> QED BY <2>4, <2>6
<1>6. FixSpot(h, M, r, sub, fx, rp, tg, p, b, s)
  BY <1>1, <1>5, FixSpotting
<1>7. Coloured(h, M, r, {})
  BY <1>1 DEF Coloured
<1> QED BY <1>6, <1>7 DEF FixPlace

(* What a rotation away from fx leaves as it was: cases 1, 3 and 4.        *)
LEMMA TurnBeside ==
  ASSUME NEW h, NEW M, NEW r, NEW sub, Tree(h, M, r, sub), NEW top \in M, NEW u \in Side,
         NEW c, c = h.kid[u][top], c # Null,
         NEW fx \in M, NEW rp, NEW tg, NEW d \in Side, Beside(h, M, sub, rp, tg, d), rp \in sub[fx],
         top \notin sub[fx], c \notin sub[fx], fx \notin sub[c], rp \notin sub[c],
         tg = top => fx = h.kid[Opposite(u)][top]
  PROVE  /\ Beside(RotateUnder(h, top, u), M, TurnSub(h, sub, top, u), rp, tg, d)
         /\ rp \in TurnSub(h, sub, top, u)[fx]
         /\ RotateUnder(h, top, u).up[fx] = h.up[fx]
         /\ RotateUnder(h, top, u).up[rp] = h.up[rp]
<1>1. PICK i, e, k, p, g, sb :
        /\ i = h.kid[Opposite(u)][c] /\ e = h.kid[u][c] /\ k = h.kid[Opposite(u)][top] /\ p = h.up[top]
        /\ g = RotateUnder(h, top, u) /\ sb = TurnSub(h, sub, top, u)
  OBVIOUS
<1>2. Around(h, top, u, c, i, e, k, p)
  BY <1>1 DEF Around
<1>3. Neighbours(h, M, r, top, u, c, i, e, k, p)
  BY <1>2, AroundFacts
<1>4. /\ RotateIs(h, top, u, c, i, p, g)
      /\ \A n \in M, t \in Side : n # top /\ n # c =>
              \/ g.kid[t][n] = h.kid[t][n] /\ h.kid[t][n] # top /\ h.kid[t][n] # c
              \/ n = p /\ g.kid[t][n] = c /\ h.kid[t][n] = top
  BY <1>1, <1>2, RotateKids, SMTT(30)
<1>5. /\ M \subseteq Node /\ \A x \in M : x \in Node /\ x # Null /\ x \in Pointer
      /\ sub \in [Pointer -> SUBSET M]
  BY NullFacts DEF Tree
<1>6. fx \in sub[fx] /\ rp \in M
  BY <1>5, TreeFinite
<1>7. fx # top /\ fx # c /\ rp # top /\ rp # c /\ i # rp /\ i # fx
  <2>1. i # Null => i \in sub[c]
    BY <1>1, <1>3, KidFacts, SMTT(30) DEF Neighbours
  <2>2. c \in sub[c]
    BY KidFacts
  <2> QED BY <2>1, <2>2, <1>5, <1>6
<1>8. g.up[fx] = h.up[fx] /\ g.up[rp] = h.up[rp]
  BY <1>4, <1>5, <1>6, <1>7 DEF RotateIs
<1>9. \A x \in M : sb[x] = IF x = top THEN {top} \cup sub[i] \cup sub[k]
                           ELSE IF x = c THEN sub[top] ELSE sub[x]
  <2>1. sb = [sub EXCEPT ![c] = sub[top], ![top] = {top} \cup sub[i] \cup sub[k]]
    BY <1>1 DEF TurnSub
  <2>2. c \in Pointer /\ top \in Pointer
    BY <1>3, <1>5 DEF Neighbours
  <2> QED BY <2>1, <2>2, <1>5
<1>10. rp \in sb[fx]
  BY <1>7, <1>9
<1>11. g.kid[d][rp] = Null
  <2>1. h.kid[d][rp] = Null
    BY DEF Beside
  <2> QED BY <2>1, <1>4, <1>5, <1>6, <1>7
<1>12. rp \in sb[tg]
  <2>1. tg \in M /\ rp \in sub[tg]
    BY DEF Beside
  <2>2. CASE tg = top
    BY <2>1, <2>2, <1>1, <1>9
  <2>3. CASE tg = c
    <3>1. sub[c] \subseteq sub[top]
      BY KidFacts
    <3> QED BY <2>1, <2>3, <3>1, <1>3, <1>9 DEF Neighbours
  <2>4. CASE tg # top /\ tg # c
    BY <2>1, <2>4, <1>9
  <2> QED BY <2>2, <2>3, <2>4
<1>13. Beside(g, M, sb, rp, tg, d)
  BY <1>11, <1>12 DEF Beside
<1> QED BY <1>1, <1>8, <1>10, <1>13

(* Cases 1, 3 and 4 keep the tree, whatever the colours: b goes up over p, *)
(* or its inner child c over b.                                            *)
LEMMA FixTurnTree ==
  ASSUME NEW h, NEW M, NEW r, NEW sub, Tree(h, M, r, sub), NEW fx \in M, NEW rp, NEW tg, NEW d \in Side,
         Beside(h, M, sub, rp, tg, d), rp \in sub[fx],
         NEW p, NEW b, NEW s, FixSpot(h, M, r, sub, fx, rp, tg, p, b, s)
  PROVE  /\ \E q, sb : /\ Tree(RotateUnder(h, p, s), M, q, sb)
                       /\ Beside(RotateUnder(h, p, s), M, sb, rp, tg, d) /\ rp \in sb[fx]
         /\ h.kid[Opposite(s)][b] # Null =>
              \E q, sb : /\ Tree(RotateUnder(h, b, Opposite(s)), M, q, sb)
                        /\ Beside(RotateUnder(h, b, Opposite(s)), M, sb, rp, tg, d) /\ rp \in sb[fx]
<1>1. /\ p \in M /\ s \in Side /\ b = h.kid[s][p] /\ b # Null /\ fx = h.kid[Opposite(s)][p] /\ b \in M
      /\ p \notin sub[fx] /\ b \notin sub[fx] /\ fx \notin sub[b] /\ rp \notin sub[b]
      /\ b \in sub[b] /\ sub[b] \cap sub[fx] = {} /\ tg \notin sub[b]
  BY DEF FixSpot
<1>2. \E q, sb : /\ Tree(RotateUnder(h, p, s), M, q, sb)
                /\ Beside(RotateUnder(h, p, s), M, sb, rp, tg, d) /\ rp \in sb[fx]
  <2>1. Tree(RotateUnder(h, p, s), M, TurnRoot(h, r, p, s), TurnSub(h, sub, p, s))
    BY <1>1, RotateSorted
  <2>2. /\ Beside(RotateUnder(h, p, s), M, TurnSub(h, sub, p, s), rp, tg, d)
        /\ rp \in TurnSub(h, sub, p, s)[fx]
    BY <1>1, TurnBeside
  <2> QED BY <2>1, <2>2
<1>3. ASSUME h.kid[Opposite(s)][b] # Null
      PROVE  \E q, sb : /\ Tree(RotateUnder(h, b, Opposite(s)), M, q, sb)
                       /\ Beside(RotateUnder(h, b, Opposite(s)), M, sb, rp, tg, d) /\ rp \in sb[fx]
  <2>1. PICK u, c : u = Opposite(s) /\ c = h.kid[u][b] /\ u \in Side /\ c # Null
    BY <1>1, <1>3, Sides
  <2>2. c \in sub[c] /\ sub[c] \subseteq sub[b]
    BY <1>1, <2>1, KidFacts
  <2>3. c \notin sub[fx] /\ fx \notin sub[c] /\ rp \notin sub[c] /\ tg # b
    BY <1>1, <2>2
  <2>4. Tree(RotateUnder(h, b, u), M, TurnRoot(h, r, b, u), TurnSub(h, sub, b, u))
    BY <1>1, <2>1, RotateSorted
  <2>5. /\ Beside(RotateUnder(h, b, u), M, TurnSub(h, sub, b, u), rp, tg, d)
        /\ rp \in TurnSub(h, sub, b, u)[fx]
    BY <1>1, <2>1, <2>3, TurnBeside
  <2> QED BY <2>1, <2>4, <2>5
<1> QED BY <1>2, <1>3

(* A rotation of a red child in cases 1 and 3.                             *)
LEMMA FixTurn ==
  ASSUME NEW h, NEW M, NEW r, NEW sub, NEW ap, NEW fx, NEW rp, NEW tg, NEW d \in Side,
         FixAt(h, M, r, sub, ap, fx, rp, tg, d), Coloured(h, M, r, {}),
         NEW top \in M, NEW u \in Side, NEW c, c = h.kid[u][top], c # Null,
         h.black[top], ~h.black[c], IsBlack(h, h.kid[Opposite(u)][top]),
         top \notin sub[fx], c \notin sub[fx], fx \notin sub[c], rp \notin sub[c],
         fx # rp => h.up[rp] \in sub[fx],
         tg = top => fx = h.kid[Opposite(u)][top]
  PROVE  \E q, sb, lv : FixAt(RotateUnder(h, top, u), M, q, sb, lv, fx, rp, tg, d)
<1>1. /\ Tree(h, M, r, sub) /\ Level(h, M, ap, Weight(h, rp, fx))
      /\ fx \in M /\ rp \in sub[fx] /\ Beside(h, M, sub, rp, tg, d)
      /\ tg \in M /\ rp \in sub[tg] /\ rp # tg
  BY DEF FixAt, Beside
<1>2. PICK i, p, g, q, sb, lv :
        /\ i = h.kid[Opposite(u)][c] /\ p = h.up[top]
        /\ g = RotateUnder(h, top, u) /\ q = TurnRoot(h, r, top, u)
        /\ sb = TurnSub(h, sub, top, u) /\ lv = TurnLevel(h, ap, top, u)
  OBVIOUS
<1>3. /\ Beside(g, M, sb, rp, tg, d) /\ rp \in sb[fx] /\ g.up[fx] = h.up[fx] /\ g.up[rp] = h.up[rp]
  BY <1>1, <1>2, TurnBeside
<1>4. Tree(g, M, q, sb)
  BY <1>1, <1>2, RotateSorted
<1>5. c \in M /\ c \in sub[c] /\ c # top /\ fx \in sub[fx] /\ rp \in M
  BY <1>1, KidFacts, TreeFinite
<1>6. c \notin {rp, fx} /\ top \notin {rp, fx}
  BY <1>1, <1>5
<1>7. Level(g, M, lv, Weight(g, rp, fx))
  BY <1>1, <1>2, <1>6, RotateRedLevel
<1>8. Coloured(g, M, q, {})
  <2>1. {} \subseteq {h.kid[u][c]}
    OBVIOUS
  <2> QED BY <2>1, <1>1, <1>2, RotateColours
<1>9. Coloured(g, M, q, {n \in M : g.up[n] = fx})
  BY <1>8 DEF Coloured
<1>10. /\ \A x \in M : x \notin {top, c} => g.black[x] = h.black[x]
       /\ g.black[c] = h.black[top]
  <2>1. RotateIs(h, top, u, c, i, p, g)
    BY <1>1, <1>2, RotateInTree
  <2>2. M \subseteq Node
    BY <1>1 DEF Tree
  <2> QED BY <2>1, <2>2, <1>5 DEF RotateIs
<1>11. fx = rp => g.black[fx]
  BY <1>1, <1>6, <1>10 DEF FixAt
<1>12. fx = rp \/ fx = g.up[rp] \/ g.black[g.up[rp]]
  <2>1. CASE fx # rp
    <3>1. h.up[rp] \notin {top, c} /\ h.up[rp] \in M
      BY <2>1, <1>1, TreeFinite
    <3> QED BY <3>1, <1>3, <1>10 DEF FixAt
  <2> QED BY <2>1
<1>13. fx = tg \/ g.up[fx] = tg \/ g.black[tg]
  <2>1. CASE tg = top
    <3>1. fx # Null
      BY <1>1, NullFacts DEF Tree
    <3>2. h.up[fx] = top
      BY <2>1, <3>1, <1>1, Sides, KidFacts
    <3> QED BY <2>1, <3>2, <1>3
  <2>2. CASE tg = c
    BY <2>2, <1>10
  <2>3. CASE tg \notin {top, c}
    BY <2>3, <1>1, <1>3, <1>10 DEF FixAt
  <2> QED BY <2>1, <2>2, <2>3
<1>14. FixAt(g, M, q, sb, lv, fx, rp, tg, d)
  BY <1>1, <1>3, <1>4, <1>7, <1>9, <1>11, <1>12, <1>13 DEF FixAt
<1> QED BY <1>2, <1>14

-----------------------------------------------------------------------------
(* The cases of the fixer.                                                 *)

(* Case 1: the brother is red.                                             *)
LEMMA FixCase1 ==
  ASSUME NEW h, NEW M, NEW r, NEW sub, NEW ap, NEW fx, NEW rp, NEW tg, NEW d \in Side,
         FixAt(h, M, r, sub, ap, fx, rp, tg, d), h.black[fx],
         NEW p, NEW b, NEW s, FixPlace(h, M, r, sub, fx, rp, tg, p, b, s), ~h.black[b]
  PROVE  \E q, sb, lv : FixAt(RotateUnder(h, p, s), M, q, sb, lv, fx, rp, tg, d)
<1>1. /\ p \in M /\ s \in Side /\ b = h.kid[s][p] /\ b # Null /\ fx = h.kid[Opposite(s)][p]
      /\ p \notin sub[fx] /\ b \notin sub[fx] /\ fx \notin sub[b] /\ rp \notin sub[b]
      /\ fx # rp => h.up[rp] \in sub[fx]
      /\ Coloured(h, M, r, {})
  BY DEF FixPlace, FixSpot
<1>2. h.black[p]
  BY <1>1 DEF FixPlace, FixSpot, Coloured
<1>3. IsBlack(h, h.kid[Opposite(s)][p])
  BY <1>1 DEF IsBlack
<1> QED BY <1>1, <1>2, <1>3, FixTurn

(* Case 3: only the inner nephew is red.                                   *)
LEMMA FixCase3 ==
  ASSUME NEW h, NEW M, NEW r, NEW sub, NEW ap, NEW fx, NEW rp, NEW tg, NEW d \in Side,
         FixAt(h, M, r, sub, ap, fx, rp, tg, d), h.black[fx],
         NEW p, NEW b, NEW s, FixPlace(h, M, r, sub, fx, rp, tg, p, b, s), h.black[b],
         IsBlack(h, h.kid[s][b]), ~IsBlack(h, h.kid[Opposite(s)][b])
  PROVE  \E q, sb, lv : FixAt(RotateUnder(h, b, Opposite(s)), M, q, sb, lv, fx, rp, tg, d)
<1>1. PICK u, c : u = Opposite(s) /\ c = h.kid[u][b]
  OBVIOUS
<1>2. /\ b \in M /\ s \in Side /\ b \in sub[b] /\ sub[b] \cap sub[fx] = {}
      /\ fx \notin sub[b] /\ rp \notin sub[b] /\ tg \notin sub[b]
      /\ fx # rp => h.up[rp] \in sub[fx]
      /\ Coloured(h, M, r, {})
  BY DEF FixPlace, FixSpot
<1>3. u \in Side /\ Opposite(u) = s
  BY <1>1, <1>2, Sides
<1>4. c # Null /\ ~h.black[c] /\ IsBlack(h, h.kid[Opposite(u)][b])
  BY <1>1, <1>3 DEF IsBlack
<1>5. c \in sub[c] /\ sub[c] \subseteq sub[b]
  BY <1>1, <1>2, <1>3, <1>4, KidFacts DEF FixAt
<1>6. /\ b \notin sub[fx] /\ c \notin sub[fx] /\ fx \notin sub[c] /\ rp \notin sub[c] /\ tg # b
  BY <1>2, <1>5
<1>7. \E q, sb, lv : FixAt(RotateUnder(h, b, u), M, q, sb, lv, fx, rp, tg, d)
  BY <1>1, <1>2, <1>3, <1>4, <1>6, FixTurn
<1> QED BY <1>1, <1>7

(* Case 2: both nephews are black, and what is missing is missing one node *)
(* higher.                                                                 *)
LEMMA FixCase2 ==
  ASSUME NEW h, NEW M, NEW r, NEW sub, NEW ap, NEW fx, NEW rp, NEW tg, NEW d \in Side,
         FixAt(h, M, r, sub, ap, fx, rp, tg, d), h.black[fx],
         NEW p, NEW b, NEW s, FixPlace(h, M, r, sub, fx, rp, tg, p, b, s), h.black[b],
         \A t \in Side : IsBlack(h, h.kid[t][b]),
         NEW f, BlackIs(h, b, FALSE, f)
  PROVE  \E lv : FixAt(f, M, r, sub, lv, p, rp, tg, d)
<1> DEFINE lv == [x \in Pointer |-> IF x = fx \/ x = b THEN ap[x] - 1 ELSE ap[x]]
<1>1. /\ Tree(h, M, r, sub) /\ Level(h, M, ap, Weight(h, rp, fx))
      /\ Beside(h, M, sub, rp, tg, d) /\ tg \in M /\ fx \in M /\ rp \in sub[fx]
  BY DEF FixAt, Beside
<1>2. /\ p \in M /\ b \in M /\ b # Null /\ s \in Side /\ h.kid[s][p] = b /\ h.kid[Opposite(s)][p] = fx
      /\ h.up[b] = p /\ h.up[fx] = p /\ p # b /\ b # r /\ fx # p /\ fx # b /\ rp # p /\ rp # b /\ tg # b
      /\ rp \in M /\ rp # r
      /\ fx # rp => h.up[rp] # b
      /\ Coloured(h, M, r, {})
  BY DEF FixPlace, FixSpot
<1>3. \A x \in M : x \in Node /\ x # Null /\ x \in Pointer
  BY <1>1, NullFacts DEF Tree
<1>4. /\ f \in Heap /\ f.up = h.up /\ f.kid = h.kid /\ ~f.black[b]
      /\ \A x \in M : x # b => f.black[x] = h.black[x]
  BY <1>2, <1>3 DEF BlackIs
<1>5. SameLinks(h, f, M)
  BY <1>4 DEF SameLinks
<1>6. Tree(f, M, r, sub)
  BY <1>1, <1>5, SameTree
<1>7. Level(f, M, lv, Weight(f, rp, p))
  <2>1. PICK w, w2 : w = Weight(h, rp, fx) /\ w2 = Weight(f, rp, p)
    OBVIOUS
  <2>2. w \in [Node -> Nat] /\ w2 \in [Node -> Nat]
    BY <2>1, WeightType
  <2>3. /\ w[b] = 1 /\ w2[b] = 0 /\ w2[p] = w[p] + 1 /\ w[fx] >= 1 /\ w2[fx] = w[fx] - 1
        /\ \A x \in M : x \notin {b, p, fx} => w2[x] = w[x]
    BY <2>1, <1>1, <1>2, <1>3, <1>4 DEF Weight
  <2>4. /\ ap \in [Pointer -> Nat] /\ ap[Null] = 0
        /\ \A x \in M, t \in Side : ap[x] = ap[h.kid[t][x]] + w[x]
    BY <2>1, <1>1 DEF Level
  <2>5. /\ h \in Heap /\ "left" \in Side
    BY <1>1, Sides DEF Tree
  <2>6. ap[fx] >= 1 /\ ap[b] >= 1 /\ ap[fx] \in Nat /\ ap[b] \in Nat
    <3>1. h.kid["left"][fx] \in Pointer /\ h.kid["left"][b] \in Pointer
      BY <2>5, <1>1, <1>2, <1>3, HeapFields
    <3>2. ap[fx] = ap[h.kid["left"][fx]] + w[fx] /\ ap[b] = ap[h.kid["left"][b]] + w[b]
      BY <2>4, <2>5, <1>1, <1>2
    <3> QED BY <3>1, <3>2, <2>2, <2>3, <2>4, <1>1, <1>2, <1>3
  <2>7. /\ lv \in [Pointer -> Nat] /\ lv[Null] = 0 /\ lv[fx] = ap[fx] - 1 /\ lv[b] = ap[b] - 1
        /\ \A x \in Pointer : x \notin {fx, b} => lv[x] = ap[x]
    BY <2>4, <2>6, <1>1, <1>2, <1>3, NullFacts
  <2> HIDE DEF lv
  <2>8. ASSUME NEW x \in M, NEW t \in Side PROVE lv[x] = lv[f.kid[t][x]] + w2[x]
    <3>1. PICK m \in Pointer : m = h.kid[t][x] /\ f.kid[t][x] = m
      BY <2>5, <1>3, <1>4, HeapFields
    <3>2. ap[x] = ap[m] + w[x] /\ ap[x] \in Nat /\ ap[m] \in Nat /\ w[x] \in Nat /\ w2[x] \in Nat
      BY <2>2, <2>4, <3>1, <1>3
    <3>3. m # Null => h.up[m] = x
      BY <3>1, <1>1, KidFacts
    <3>4. CASE x = p
      <4>1. m = b \/ m = fx
        BY <3>1, <3>4, <1>2, Sides
      <4>2. lv[m] = ap[m] - 1 /\ lv[p] = ap[p]
        BY <4>1, <2>7, <1>2, <1>3
      <4> QED BY <3>1, <3>2, <3>4, <4>2, <2>3
    <3>5. CASE x \in {b, fx}
      <4>1. m \notin {b, fx}
        BY <3>3, <3>5, <1>1, <1>2, <1>3
      <4>2. lv[m] = ap[m] /\ lv[x] = ap[x] - 1 /\ w2[x] = w[x] - 1
        BY <3>5, <4>1, <2>3, <2>7
      <4> QED BY <3>1, <3>2, <4>2
    <3>6. CASE x \notin {p, b, fx}
      <4>1. m \notin {b, fx}
        BY <3>3, <3>6, <1>1, <1>2, <1>3
      <4>2. lv[m] = ap[m] /\ lv[x] = ap[x] /\ w2[x] = w[x]
        BY <3>6, <4>1, <2>3, <2>7, <1>3
      <4> QED BY <3>1, <3>2, <4>2
    <3> QED BY <3>4, <3>5, <3>6
  <2>9. Level(f, M, lv, w2)
    BY <2>7, <2>8 DEF Level
  <2> QED BY <2>1, <2>9
<1> HIDE DEF lv
<1>8. Coloured(f, M, r, {n \in M : f.up[n] = p})
  <2>1. f.black[r]
    BY <1>1, <1>2, <1>4 DEF Coloured, Tree
  <2>2. ASSUME NEW n \in M, n # r, f.up[n] # p PROVE f.black[n] \/ f.black[f.up[n]]
    <3>1. h.up[n] \in M /\ f.up[n] = h.up[n] /\ n # b
      BY <2>2, <1>1, <1>2, <1>4, UpFacts
    <3>2. CASE h.up[n] = b
      <4>1. n = h.kid[s][b] \/ n = h.kid[Opposite(s)][b]
        BY <3>2, <2>2, <1>1, <1>2, KidOf
      <4>2. h.black[n]
        BY <4>1, <1>2, <1>3, Sides DEF IsBlack
      <4> QED BY <3>1, <4>2, <1>4
    <3>3. CASE h.up[n] # b
      BY <3>1, <3>3, <2>2, <1>2, <1>4 DEF Coloured
    <3> QED BY <3>2, <3>3
  <2> QED BY <2>1, <2>2 DEF Coloured
<1>9. Beside(f, M, sub, rp, tg, d)
  BY <1>1, <1>4 DEF Beside
<1>10. rp \in sub[p]
  <2>1. sub[fx] \subseteq sub[p]
    BY <1>1, <1>2, <1>3, Sides, KidFacts
  <2> QED BY <2>1, <1>1
<1>11. p = rp \/ p = f.up[rp] \/ f.black[f.up[rp]]
  <2>1. CASE fx = rp
    BY <2>1, <1>2, <1>4
  <2>2. CASE fx # rp
    <3>1. h.up[rp] \in M /\ h.up[rp] # b
      BY <2>2, <1>1, <1>2, UpFacts
    <3>2. h.black[h.up[rp]]
      BY <2>2 DEF FixAt
    <3> QED BY <3>1, <3>2, <1>4
  <2> QED BY <2>1, <2>2
<1>12. p = tg \/ f.up[p] = tg \/ f.black[tg]
  BY <1>1, <1>2, <1>4 DEF FixAt
<1>13. FixAt(f, M, r, sub, lv, p, rp, tg, d)
  BY <1>2, <1>6, <1>7, <1>8, <1>9, <1>10, <1>11, <1>12 DEF FixAt
<1> QED BY <1>13

(* The fixer ends at the root: every way is one black node shorter.        *)
LEMMA FixedRoot ==
  ASSUME NEW h, NEW M, NEW r, NEW sub, NEW ap, NEW rp, NEW tg, NEW d \in Side,
         FixAt(h, M, r, sub, ap, r, rp, tg, d)
  PROVE  \E lv : SpliceAt(h, M, r, sub, lv, rp, tg, d)
<1> DEFINE lv == [x \in Pointer |-> IF x = r THEN ap[x] - 1 ELSE ap[x]]
<1>1. /\ Tree(h, M, r, sub) /\ Level(h, M, ap, Weight(h, rp, r)) /\ r \in M
      /\ Beside(h, M, sub, rp, tg, d) /\ tg \in M /\ rp \in sub[tg] /\ rp # tg
  BY DEF FixAt, Beside
<1>2. \A x \in M : x \in Node /\ x # Null /\ x \in Pointer
  BY <1>1, NullFacts DEF Tree
<1>3. Coloured(h, M, r, {})
  BY DEF FixAt, Coloured
<1>4. h.black[r] /\ h.up[r] = Null
  BY <1>1, <1>3 DEF Coloured, Tree, LinkedUp
<1>5. rp \in M /\ rp # r
  <2>1. rp \in M /\ h.up[rp] \in sub[tg]
    BY <1>1, UpClosed
  <2> QED BY <2>1, <1>1, <1>2, <1>4, TreeFinite
<1>6. h.black[h.up[rp]] /\ h.black[tg]
  BY <1>1, <1>2, <1>4, <1>5 DEF FixAt
<1>7. Level(h, M, lv, Weight(h, rp, Null))
  <2>1. PICK w, w2 : w = Weight(h, rp, r) /\ w2 = Weight(h, rp, Null)
    OBVIOUS
  <2>2. w \in [Node -> Nat] /\ w2 \in [Node -> Nat]
    BY <2>1, WeightType
  <2>3. w2[r] = w[r] - 1 /\ w[r] >= 1 /\ \A x \in M : x # r => w2[x] = w[x]
    BY <2>1, <1>1, <1>2 DEF Weight
  <2>4. /\ ap \in [Pointer -> Nat] /\ ap[Null] = 0
        /\ \A x \in M, t \in Side : ap[x] = ap[h.kid[t][x]] + w[x]
    BY <2>1, <1>1 DEF Level
  <2>5. h \in Heap /\ "left" \in Side
    BY <1>1, Sides DEF Tree
  <2>6. ap[r] \in Nat /\ ap[r] >= 1
    <3>1. h.kid["left"][r] \in Pointer
      BY <2>5, <1>1, <1>2, HeapFields
    <3>2. ap[r] = ap[h.kid["left"][r]] + w[r]
      BY <2>4, <2>5, <1>1
    <3> QED BY <3>1, <3>2, <2>2, <2>3, <2>4, <1>1, <1>2
  <2>7. /\ lv \in [Pointer -> Nat] /\ lv[Null] = 0 /\ lv[r] = ap[r] - 1
        /\ \A x \in Pointer : x # r => lv[x] = ap[x]
    BY <2>4, <2>6, <1>1, <1>2, NullFacts
  <2> HIDE DEF lv
  <2>8. ASSUME NEW x \in M, NEW t \in Side PROVE lv[x] = lv[h.kid[t][x]] + w2[x]
    <3>1. PICK m \in Pointer : m = h.kid[t][x]
      BY <2>5, <1>2, HeapFields
    <3>2. ap[x] = ap[m] + w[x] /\ ap[x] \in Nat /\ ap[m] \in Nat /\ w[x] \in Nat /\ w2[x] \in Nat
      BY <2>2, <2>4, <3>1, <1>2
    <3>3. m # r
      BY <3>1, <1>1, <1>2, KidFacts
    <3> QED BY <3>1, <3>2, <3>3, <2>3, <2>7, <1>2
  <2>9. Level(h, M, lv, w2)
    BY <2>7, <2>8 DEF Level
  <2> QED BY <2>1, <2>9
<1> HIDE DEF lv
<1>8. SpliceAt(h, M, r, sub, lv, rp, tg, d)
  BY <1>1, <1>3, <1>6, <1>7 DEF SpliceAt
<1> QED BY <1>8

(* The fixer ends at a red node, which becomes black.                      *)
LEMMA FixedRed ==
  ASSUME NEW h, NEW M, NEW r, NEW sub, NEW ap, NEW fx, NEW rp, NEW tg, NEW d \in Side,
         FixAt(h, M, r, sub, ap, fx, rp, tg, d), fx # r, ~h.black[fx],
         NEW f, BlackIs(h, fx, TRUE, f)
  PROVE  SpliceAt(f, M, r, sub, ap, rp, tg, d)
<1>1. /\ Tree(h, M, r, sub) /\ Level(h, M, ap, Weight(h, rp, fx)) /\ fx \in M /\ fx # rp
      /\ Beside(h, M, sub, rp, tg, d) /\ tg \in M /\ rp \in sub[tg] /\ rp # tg
  BY DEF FixAt, Beside
<1>2. \A x \in M : x \in Node /\ x # Null /\ x \in Pointer
  BY <1>1, NullFacts DEF Tree
<1>3. /\ f \in Heap /\ f.up = h.up /\ f.kid = h.kid /\ f.black[fx]
      /\ \A x \in M : x # fx => f.black[x] = h.black[x]
  BY <1>1, <1>2 DEF BlackIs
<1>4. SameLinks(h, f, M)
  BY <1>3 DEF SameLinks
<1>5. Tree(f, M, r, sub)
  BY <1>1, <1>4, SameTree
<1>6. \A x \in M : Weight(f, rp, Null)[x] = Weight(h, rp, fx)[x]
  BY <1>1, <1>2, <1>3 DEF Weight
<1>7. Level(f, M, ap, Weight(f, rp, Null))
  BY <1>1, <1>4, <1>6, SameLevel
<1>8. \A x \in M : x # r => h.up[x] \in M
  BY <1>1, UpFacts
<1>9. Coloured(f, M, r, {})
  <2>1. f.black[r]
    BY <1>1, <1>3 DEF FixAt, Coloured, Tree
  <2>2. ASSUME NEW x \in M, x # r PROVE f.black[x] \/ f.black[f.up[x]]
    BY <2>2, <1>3, <1>8 DEF FixAt, Coloured
  <2> QED BY <2>1, <2>2 DEF Coloured
<1>10. Beside(f, M, sub, rp, tg, d)
  BY <1>1, <1>3 DEF Beside
<1>11. rp \in M /\ rp # r
  <2>1. rp \in M /\ h.up[rp] \in sub[tg]
    BY <1>1, UpClosed
  <2> QED BY <2>1, <1>1, <1>2, TreeFinite DEF Tree, LinkedUp
<1>12. f.black[f.up[rp]]
  BY <1>1, <1>3, <1>8, <1>11 DEF FixAt
<1>13. f.black[tg]
  <2>1. h.up[fx] # fx
    BY <1>1, <1>2, UpFacts, KidFacts
  <2>2. h.black[h.up[fx]]
    BY <2>1, <1>1 DEF FixAt, Coloured
  <2> QED BY <2>2, <1>1, <1>3 DEF FixAt
<1> QED BY <1>5, <1>7, <1>9, <1>10, <1>12, <1>13 DEF SpliceAt

Turned(h, top, s, g) == g = RotateUnder(h, top, s)

(* Case 4: the outer nephew is red.                                        *)
LEMMA FixCase4 ==
  ASSUME NEW h, NEW M, NEW r, NEW sub, NEW ap, NEW fx, NEW rp, NEW tg, NEW d \in Side,
         FixAt(h, M, r, sub, ap, fx, rp, tg, d), h.black[fx],
         NEW p, NEW b, NEW s, FixPlace(h, M, r, sub, fx, rp, tg, p, b, s), h.black[b],
         NEW i, NEW e, NEW y, Around(h, p, s, b, i, e, fx, y), ~IsBlack(h, e),
         NEW g, Turned(h, p, s, g), NEW f, BlackIs(g, e, TRUE, f)
  PROVE  /\ brother_node(g, g.up[fx]) = e
         /\ \E q, sb, lv : SpliceAt(f, M, q, sb, lv, rp, tg, d)
<1>1. /\ Tree(h, M, r, sub) /\ Level(h, M, ap, Weight(h, rp, fx))
      /\ Beside(h, M, sub, rp, tg, d) /\ tg \in M /\ fx \in M /\ rp \in sub[fx] /\ rp \in sub[tg]
  BY DEF FixAt, Beside
<1>2. /\ p \in M /\ b \in M /\ b # Null /\ s \in Side /\ b = h.kid[s][p] /\ fx = h.kid[Opposite(s)][p]
      /\ h.up[b] = p /\ h.up[fx] = p /\ p # b /\ b # r /\ fx # p /\ fx # b /\ rp # p /\ tg # b
      /\ b \in sub[b] /\ rp \notin sub[b] /\ rp # b /\ p \notin sub[fx] /\ b \notin sub[fx] /\ fx \notin sub[b]
      /\ rp \in M /\ rp # r
      /\ fx # rp => h.up[rp] \in sub[fx]
      /\ Coloured(h, M, r, {})
  BY DEF FixPlace, FixSpot
<1>3. \A x \in M : x \in Node /\ x # Null /\ x \in Pointer
  BY <1>1, NullFacts DEF Tree
<1>4. PICK q, sb : q = TurnRoot(h, r, p, s) /\ sb = TurnSub(h, sub, p, s)
  OBVIOUS
<1>5. Around(h, p, s, b, i, e, fx, y)
  OBVIOUS
<1>6. Neighbours(h, M, r, p, s, b, i, e, fx, y)
  BY <1>1, <1>2, <1>5, AroundFacts
<1>7. e # Null /\ ~h.black[e]
  BY DEF IsBlack
<1>8. /\ e \in M /\ e # r /\ e # p /\ e # b /\ e # fx /\ e # y /\ i # e
      /\ i # Null => i \in M /\ i # r /\ i # p /\ i # b /\ i # fx /\ i # y /\ h.up[i] = b
      /\ p # r => y \in M
      /\ y # p /\ y # b /\ i \in Pointer
      /\ Opposite(s) \in Side /\ Opposite(Opposite(s)) = s
  BY <1>6, <1>7 DEF Neighbours
<1>9. rp # e
  BY <1>1, <1>2, <1>5, <1>7, KidFacts, SMTT(30) DEF Around
<1>10. /\ RotateIs(h, p, s, b, i, y, g) /\ g.kid[s][b] = e /\ g.kid[Opposite(s)][b] = p
  BY <1>1, <1>2, <1>5, RotateKids, SMTT(30) DEF Turned
<1>11. Tree(g, M, q, sb)
  BY <1>1, <1>2, <1>4, RotateSorted DEF Turned
<1>12. /\ Beside(g, M, sb, rp, tg, d) /\ g.up[fx] = h.up[fx] /\ g.up[rp] = h.up[rp]
  BY <1>1, <1>2, <1>4, TurnBeside DEF Turned
<1>13. brother_node(g, g.up[fx]) = e
  <2>1. g.up[fx] = p
    BY <1>2, <1>12
  <2>2. SideOf(g, p) = Opposite(s) /\ g.up[p] = b
    <3>1. p # Null
      BY <1>2, <1>3
    <3> QED BY <3>1, <1>2, <1>8, <1>10, <1>11, KidFacts
  <2> QED BY <2>1, <2>2, <1>8, <1>10 DEF brother_node
<1>14. BlackIs(g, e, TRUE, f)
  OBVIOUS
<1>15. /\ f \in Heap /\ f.up = g.up /\ f.kid = g.kid
  BY <1>14 DEF BlackIs
<1>16. /\ f.black[e] /\ f.black[p] /\ (f.black[b] <=> h.black[p])
       /\ \A x \in M : x \notin {e, p, b} => (f.black[x] <=> h.black[x])
  <2>1. \A x \in M : g.black[x] = IF x = p THEN h.black[b] ELSE IF x = b THEN h.black[p] ELSE h.black[x]
    BY <1>3, <1>10 DEF RotateIs
  <2>2. \A x \in M : f.black[x] = IF x = e THEN TRUE ELSE g.black[x]
    BY <1>3, <1>14 DEF BlackIs
  <2> QED BY <2>1, <2>2, <1>2, <1>8, ZenonT(30)
<1>17. \A x \in M : f.up[x] = IF x = p THEN b ELSE IF x = b THEN y ELSE IF x = i THEN p ELSE h.up[x]
  <2>1. \A x \in M : g.up[x] = IF x = p THEN b ELSE IF x = b THEN y ELSE IF x = i THEN p ELSE h.up[x]
    BY <1>3, <1>10 DEF RotateIs
  <2> QED BY <2>1, <1>15
<1>18. SameLinks(g, f, M)
  BY <1>15 DEF SameLinks
<1>19. Tree(f, M, q, sb)
  BY <1>11, <1>18, SameTree
<1>20. PICK lv : Level(f, M, lv, Weight(f, rp, Null))
  <2> DEFINE lv == [x \in Pointer |-> IF x = b THEN ap[p] ELSE IF x = p THEN ap[b]
                      ELSE IF x = e THEN ap[x] + 1 ELSE IF x = fx THEN ap[x] - 1 ELSE ap[x]]
  <2>1. PICK w, w2 : w = Weight(h, rp, fx) /\ w2 = Weight(f, rp, Null)
    OBVIOUS
  <2>2. w \in [Node -> Nat] /\ w2 \in [Node -> Nat]
    BY <2>1, WeightType
  <2>3. /\ w[b] = 1 /\ w[e] = 0 /\ w2[e] = 1 /\ w2[p] = 1 /\ w2[b] = w[p] /\ w[fx] >= 1 /\ w2[fx] = w[fx] - 1
        /\ \A x \in M : x \notin {p, b, e, fx} => w2[x] = w[x]
    <3>1. \A x \in M : /\ w[x] = (IF h.black[x] /\ x # rp THEN 1 ELSE 0) + (IF x = fx THEN 1 ELSE 0)
                        /\ w2[x] = (IF f.black[x] /\ x # rp THEN 1 ELSE 0) + (IF x = Null THEN 1 ELSE 0)
      BY <2>1, <1>3 DEF Weight
    <3>2. w[b] = 1 /\ w[e] = 0
      BY <3>1, <1>2, <1>7, <1>8
    <3>3. w2[e] = 1 /\ w2[p] = 1
      BY <3>1, <1>2, <1>3, <1>8, <1>9, <1>16
    <3>4. w2[b] = w[p]
      BY <3>1, <1>2, <1>3, <1>16
    <3>5. fx \notin {e, p, b} /\ (f.black[fx] <=> h.black[fx])
      BY <1>1, <1>2, <1>8, <1>16
    <3>6. w[fx] >= 1 /\ w2[fx] = w[fx] - 1
      BY <3>1, <3>5, <1>1, <1>3
    <3>7. \A x \in M : x \notin {p, b, e, fx} => w2[x] = w[x]
      BY <3>1, <1>3, <1>16
    <3> QED BY <3>2, <3>3, <3>4, <3>6, <3>7
  <2>4. /\ ap \in [Pointer -> Nat] /\ ap[Null] = 0
        /\ \A x \in M, t \in Side : ap[x] = ap[h.kid[t][x]] + w[x]
    BY <2>1, <1>1 DEF Level
  <2>5. /\ ap[p] = ap[b] + w[p] /\ ap[p] = ap[fx] + w[p] /\ ap[b] = ap[e] + 1 /\ ap[b] = ap[i] + 1
        /\ ap[p] \in Nat /\ ap[b] \in Nat /\ ap[fx] \in Nat /\ ap[e] \in Nat /\ ap[i] \in Nat /\ w[p] \in Nat
    <3>1. h.kid[s][p] = b /\ h.kid[Opposite(s)][p] = fx /\ h.kid[s][b] = e /\ h.kid[Opposite(s)][b] = i
      BY DEF Around
    <3>2. p \in Pointer /\ b \in Pointer /\ fx \in Pointer /\ e \in Pointer /\ p \in Node
      BY <1>1, <1>2, <1>3, <1>8
    <3>3. ap[p] \in Nat /\ ap[b] \in Nat /\ ap[fx] \in Nat /\ ap[e] \in Nat /\ ap[i] \in Nat /\ w[p] \in Nat
      BY <3>2, <2>2, <2>4, <1>8
    <3>4. ap[p] = ap[b] + w[p] /\ ap[p] = ap[fx] + w[p] /\ ap[b] = ap[e] + w[b] /\ ap[b] = ap[i] + w[b]
      BY <3>1, <2>4, <1>2, <1>8
    <3> QED BY <3>3, <3>4, <2>3
  <2>6. ap[fx] = ap[b] /\ ap[fx] >= 1
    BY <2>5
  <2>7. /\ lv \in [Pointer -> Nat] /\ lv[Null] = 0 /\ lv[b] = ap[p] /\ lv[p] = ap[b]
        /\ lv[e] = ap[e] + 1 /\ lv[fx] = ap[fx] - 1 /\ lv[i] = ap[i]
        /\ \A x \in Pointer : x \notin {p, b, e, fx} => lv[x] = ap[x]
    <3>1. lv \in [Pointer -> Nat]
      <4>1. ap[fx] - 1 \in Nat /\ ap[e] + 1 \in Nat
        BY <2>5, <2>6
      <4>2. \A x \in Pointer : ap[x] \in Nat
        BY <2>4
      <4> QED BY <4>1, <4>2, <2>5
    <3>2. i \notin {p, b, e, fx} /\ Null \notin {p, b, e, fx} /\ Null \in Pointer
      BY <1>1, <1>2, <1>3, <1>8, NullFacts
    <3> QED BY <3>1, <3>2, <2>4, <1>1, <1>2, <1>3, <1>8
  <2> HIDE DEF lv
  <2>8. \A x \in M : x \in {e, fx} => lv[x] - w2[x] = ap[x] - w[x]
    BY <2>2, <2>3, <2>5, <2>7, <1>3
  <2>9. /\ lv[p] = lv[i] + w2[p] /\ lv[p] = lv[fx] + w2[p]
        /\ lv[b] = lv[p] + w2[b] /\ lv[b] = lv[e] + w2[b]
    BY <2>3, <2>5, <2>6, <2>7
  <2>10. LevelsFit(M, p, b, i, e, fx, ap, w, lv, w2)
    BY <2>2, <2>3, <2>7, <2>8, <2>9 DEF LevelsFit
  <2>11. Level(g, M, lv, w2)
    BY <2>1, <2>10, <1>1, <1>2, <1>4, <1>5, RotateLevel DEF Turned
  <2>12. Level(f, M, lv, w2)
    BY <2>11, <1>18, SameLevel
  <2> QED BY <2>1, <2>12
<1>21. Coloured(f, M, q, {})
  <2>1. q = IF p = r THEN b ELSE r
    BY <1>2, <1>4 DEF TurnRoot
  <2>2. f.black[q]
    BY <2>1, <1>1, <1>2, <1>8, <1>16 DEF Coloured, Tree
  <2>3. ASSUME NEW n \in M, n # q PROVE f.black[n] \/ f.black[f.up[n]]
    <3>1. CASE n \in {p, e}
      BY <3>1, <1>16
    <3>2. CASE n = i
      BY <3>2, <1>2, <1>8, <1>16, <1>17, <1>3
    <3>3. CASE n = b
      <4>1. p # r /\ y \in M /\ y \notin {p, b, e}
        BY <2>1, <2>3, <3>3, <1>8
      <4>2. h.black[p] \/ h.black[y]
        BY <4>1, <1>2 DEF Coloured, Around
      <4> QED BY <3>3, <4>1, <4>2, <1>2, <1>16, <1>17
    <3>4. CASE n \notin {p, e, i, b}
      <4>1. n # r /\ h.up[n] \in M /\ f.up[n] = h.up[n]
        BY <2>1, <2>3, <3>4, <1>1, <1>17, UpFacts
      <4>2. CASE h.up[n] \in {p, e}
        BY <4>1, <4>2, <1>16
      <4>3. CASE h.up[n] = b
        <5>1. n = i \/ n = e
          BY <4>1, <4>3, <1>1, <1>2, KidOf, SMTT(30) DEF Around
        <5> QED BY <5>1, <3>4
      <4>4. CASE h.up[n] \notin {p, e, b}
        BY <4>1, <4>4, <3>4, <1>2, <1>16 DEF Coloured
      <4> QED BY <4>2, <4>3, <4>4
    <3> QED BY <3>1, <3>2, <3>3, <3>4
  <2> QED BY <2>2, <2>3 DEF Coloured
<1>22. Beside(f, M, sb, rp, tg, d)
  BY <1>12, <1>15 DEF Beside
<1>23. f.black[f.up[rp]]
  <2>1. f.up[rp] = h.up[rp]
    BY <1>12, <1>15
  <2>2. CASE fx = rp
    BY <2>1, <2>2, <1>2, <1>16
  <2>3. CASE fx # rp
    <3>1. h.up[rp] \in M /\ h.up[rp] \notin {p, b}
      BY <2>3, <1>1, <1>2, UpFacts
    <3>2. h.black[h.up[rp]]
      BY <2>3 DEF FixAt
    <3> QED BY <2>1, <3>1, <3>2, <1>16
  <2> QED BY <2>2, <2>3
<1>24. f.black[tg]
  <2>1. CASE tg \in {p, e}
    BY <2>1, <1>16
  <2>2. CASE tg \notin {p, e}
    <3>1. h.black[tg]
      BY <2>2, <1>2 DEF FixAt
    <3> QED BY <2>2, <3>1, <1>1, <1>2, <1>16
  <2> QED BY <2>1, <2>2
<1>25. SpliceAt(f, M, q, sb, lv, rp, tg, d)
  BY <1>19, <1>20, <1>21, <1>22, <1>23, <1>24 DEF SpliceAt
<1> QED BY <1>13, <1>25

(* Case 4 finds the outer nephew again as the brother of what is above fx, *)
(* whatever the colours.                                                   *)
LEMMA OuterNephew ==
  ASSUME NEW h, NEW M, NEW r, NEW sub, Tree(h, M, r, sub), NEW p \in M, NEW s \in Side,
         NEW b, NEW i, NEW e, NEW fx, NEW y, Around(h, p, s, b, i, e, fx, y), e # Null, fx # Null,
         NEW g, Turned(h, p, s, g)
  PROVE  g \in Heap /\ e \in M /\ brother_node(g, g.up[fx]) = e
<1>1. p \in Node /\ p # Null /\ M \subseteq Node
  BY NullFacts DEF Tree
<1>2. Around(h, p, s, b, i, e, fx, y)
  OBVIOUS
<1>3. Neighbours(h, M, r, p, s, b, i, e, fx, y)
  BY <1>2, AroundFacts
<1>4. /\ e \in M /\ Opposite(s) \in Side /\ Opposite(Opposite(s)) = s /\ b \in M
      /\ fx \in M /\ fx # p /\ fx # b /\ h.up[fx] = p
      /\ i # Null => i # fx
  BY <1>3 DEF Neighbours
<1>5. RotateIs(h, p, s, b, i, y, g) /\ g.kid[s][b] = e /\ g.kid[Opposite(s)][b] = p
  BY <1>2, RotateKids, SMTT(30) DEF Turned
<1>6. Tree(g, M, TurnRoot(h, r, p, s), TurnSub(h, sub, p, s))
  BY <1>2, RotateSorted DEF Turned, Around
<1>7. g.up[fx] = p
  BY <1>1, <1>4, <1>5 DEF RotateIs
<1>8. SideOf(g, p) = Opposite(s) /\ g.up[p] = b
  BY <1>1, <1>4, <1>5, <1>6, KidFacts
<1> QED BY <1>4, <1>5, <1>7, <1>8 DEF brother_node, RotateIs

(* The replacement when "get the replacement" has found it.                *)
LEMMA Nearest ==
  ASSUME NEW h, NEW M, NEW r, NEW sub, Tree(h, M, r, sub), NEW d \in Side,
         NEW rp, rp \in sub[h.kid[Opposite(d)][r]], h.kid[d][rp] = Null,
         \A n \in M : ~(On(Opposite(d), n, r) /\ On(d, n, rp))
  PROVE  rp \in M /\ rp \in sub[r] /\ rp # r /\ rp \in sub[rp] /\ Beside(h, M, sub, rp, r, d)
<1>1. r \in M /\ \A x \in M : x \in Node /\ x # Null /\ x \in Pointer
  BY NullFacts DEF Tree
<1>2. Opposite(d) \in Side /\ Opposite(Opposite(d)) = d
  BY Sides
<1>3. h.kid[Opposite(d)][r] # Null
  BY DEF Tree
<1>4. rp \in sub[r] /\ rp # r
  BY <1>1, <1>2, <1>3, KidFacts
<1>5. rp \in M /\ rp \in sub[rp]
  BY <1>1, <1>4, TreeFinite
<1>6. On(Opposite(d), rp, r)
  BY <1>1, <1>2 DEF Tree, Sorted
<1>7. On(d, r, rp)
  BY <1>1, <1>2, <1>5, <1>6, Order
<1> QED BY <1>1, <1>4, <1>5, <1>7 DEF Beside

LEMMA FixBegins ==
  ASSUME NEW h, NEW M, NEW r, NEW sub, NEW ap, Settled(h, M, r, sub, ap), NEW d \in Side,
         NEW rp, rp \in sub[h.kid[Opposite(d)][r]], h.kid[d][rp] = Null,
         \A n \in M : ~(On(Opposite(d), n, r) /\ On(d, n, rp))
  PROVE  /\ rp \in M
         /\ h.black[rp] => FixAt(h, M, r, sub, ap, rp, rp, r, d)
         /\ ~h.black[rp] => SpliceAt(h, M, r, sub, ap, rp, r, d)
<1>1. /\ Tree(h, M, r, sub) /\ r \in M /\ Level(h, M, ap, Weight(h, Null, Null)) /\ Coloured(h, M, r, {})
      /\ h.black[r]
  BY DEF Settled, Tree, Coloured
<1>2. \A x \in M : x \in Node /\ x # Null /\ x \in Pointer
  BY <1>1, NullFacts DEF Tree
<1>5. rp \in sub[r] /\ rp # r
  BY <1>1, Nearest
<1>6. rp \in M
  BY <1>1, Nearest
<1>9. Beside(h, M, sub, rp, r, d)
  BY <1>1, Nearest
<1>10. SameLinks(h, h, M)
  BY <1>1 DEF SameLinks, Tree
<1>11. CASE h.black[rp]
  <2>1. \A x \in M : Weight(h, rp, rp)[x] = Weight(h, Null, Null)[x]
    BY <1>2, <1>6, <1>11 DEF Weight
  <2>2. Level(h, M, ap, Weight(h, rp, rp))
    BY <2>1, <1>1, <1>10, SameLevel
  <2>3. Coloured(h, M, r, {n \in M : h.up[n] = rp})
    BY <1>1 DEF Coloured
  <2>4. rp \in sub[rp]
    BY <1>1, <1>6, TreeFinite
  <2>5. FixAt(h, M, r, sub, ap, rp, rp, r, d)
    BY <2>2, <2>3, <2>4, <1>1, <1>6, <1>9, <1>11 DEF FixAt
  <2> QED BY <2>5, <1>6, <1>11
<1>12. CASE ~h.black[rp]
  <2>1. \A x \in M : Weight(h, rp, Null)[x] = Weight(h, Null, Null)[x]
    BY <1>2, <1>6, <1>12 DEF Weight
  <2>2. Level(h, M, ap, Weight(h, rp, Null))
    BY <2>1, <1>1, <1>10, SameLevel
  <2>3. h.black[h.up[rp]]
    BY <1>1, <1>5, <1>6, <1>12 DEF Coloured
  <2>4. SpliceAt(h, M, r, sub, ap, rp, r, d)
    BY <2>2, <2>3, <1>1, <1>9 DEF SpliceAt
  <2> QED BY <2>4, <1>6, <1>12
<1> QED BY <1>11, <1>12

-----------------------------------------------------------------------------
(* The exchange of the target for the replacement: the fields.             *)

(* What TakeOut and PutInPlace do to the fields.                           *)
TakenOut(h, tg, d, k, q, g) ==
    /\ g \in Heap /\ g.black = h.black
    /\ \A x \in Node : g.up[x] = IF q # tg /\ x = k THEN q ELSE h.up[x]
    /\ \A x \in Node, t \in Side :
         g.kid[t][x] = IF x = q /\ t = (IF q = tg THEN Opposite(d) ELSE d) THEN k ELSE h.kid[t][x]

LEMMA TakeOutFields ==
  ASSUME NEW h \in Heap, NEW rp \in Node, target \in Node, direction \in Side,
         NEW k \in Pointer, k = h.kid[Opposite(direction)][rp], NEW q \in Pointer, q = h.up[rp],
         q = target <=> h.kid[Opposite(direction)][target] = rp,
         h.kid[direction][target] # rp
  PROVE  TakenOut(h, target, direction, k, q, TakeOut(h, rp))
<1>1. target \in Pointer /\ rp \in Pointer
  BY NullFacts
<1>2. Opposite(direction) \in Side /\ Opposite(direction) # direction
  BY Sides
<1>3. CASE q = target
  <2>1. TakeOut(h, rp) = SetKid(h, target, Opposite(direction), k)
    <3>1. CASE direction = "left"
      BY <1>3, <3>1, Sides DEF TakeOut
    <3>2. CASE direction = "right"
      <4>1. Opposite(direction) = "left"
        BY <3>2, Sides
      <4>2. h.kid["right"][target] # rp /\ h.kid["left"][target] = rp
        BY <1>3, <3>2, <4>1
      <4> QED BY <3>2, <4>1, <4>2 DEF TakeOut
    <3> QED BY <3>1, <3>2 DEF Side
  <2>2. KidIs(h, target, Opposite(direction), k, SetKid(h, target, Opposite(direction), k))
    BY <1>1, <1>2, SetKidFields
  <2>3. PICK g : g = SetKid(h, target, Opposite(direction), k)
    OBVIOUS
  <2>4. KidIs(h, target, Opposite(direction), k, g)
    BY <2>2, <2>3
  <2>5. TakenOut(h, target, direction, k, q, g)
    BY <2>4, <1>3 DEF TakenOut, KidIs
  <2> QED BY <2>1, <2>3, <2>5
<1>4. CASE q # target
  <2>1. h.kid["left"][target] # rp /\ h.kid["right"][target] # rp
    BY <1>4, Sides DEF Side
  <2>2. PICK f : f = SetKid(h, q, direction, k)
    OBVIOUS
  <2>3. PICK g : g = SetUp(f, k, q)
    OBVIOUS
  <2>4. TakeOut(h, rp) = g
    BY <2>1, <2>2, <2>3 DEF TakeOut
  <2>5. KidIs(h, q, direction, k, f)
    BY <2>2, SetKidFields
  <2>6. f \in Heap
    BY <2>5 DEF KidIs
  <2>7. UpIs(f, k, q, g)
    BY <2>3, <2>6, SetUpFields
  <2>8. /\ g \in Heap /\ g.black = h.black /\ g.kid = f.kid /\ f.up = h.up
        /\ \A x \in Node : g.up[x] = IF x = k THEN q ELSE f.up[x]
    BY <2>5, <2>7 DEF KidIs, UpIs
  <2>9. \A x \in Node, t \in Side : f.kid[t][x] = IF x = q /\ t = direction THEN k ELSE h.kid[t][x]
    BY <2>5 DEF KidIs
  <2>10. TakenOut(h, target, direction, k, q, g)
    BY <2>8, <2>9, <1>4 DEF TakenOut
  <2> QED BY <2>4, <2>10
<1> QED BY <1>3, <1>4

PutIn(f, tg, rp, p, l, m, g) ==
    /\ g \in Heap /\ g.black = f.black
    /\ \A x \in Node : g.up[x] = IF x = rp THEN p ELSE IF x = l \/ x = m THEN rp ELSE f.up[x]
    /\ \A x \in Node, t \in Side :
         g.kid[t][x] = IF x = rp THEN f.kid[t][tg]
                       ELSE IF p # Null /\ x = p /\ t = SideOf(f, tg) THEN rp
                       ELSE f.kid[t][x]

LEMMA PutInPlaceFields ==
  ASSUME NEW f \in Heap, NEW rp \in Node, target \in Node, rp # target,
         NEW p \in Pointer, p = f.up[target], NEW l \in Pointer, l = f.kid["left"][target],
         NEW m \in Pointer, m = f.kid["right"][target],
         p # target, p # rp, l # target, m # target
  PROVE  PutIn(f, target, rp, p, l, m, PutInPlace(f, rp))
<1>1. rp \in Pointer /\ rp # Null /\ "left" \in Side /\ "right" \in Side
  BY NullFacts, Sides
<1>2. PICK f1 : f1 = SetUp(f, l, rp)
  OBVIOUS
<1>3. UpIs(f, l, rp, f1)
  BY <1>1, <1>2, SetUpFields
<1>4. PICK f2 : f2 = SetUp(f1, m, rp)
  OBVIOUS
<1>5. UpIs(f1, m, rp, f2)
  <2>1. f1 \in Heap
    BY <1>3 DEF UpIs
  <2> QED BY <2>1, <1>1, <1>4, SetUpFields
<1>6. /\ f2 \in Heap /\ f2.kid = f.kid /\ f2.black = f.black
      /\ \A x \in Node : f2.up[x] = IF x = l \/ x = m THEN rp ELSE f.up[x]
  <2>1. f2 \in Heap /\ f2.kid = f.kid /\ f2.black = f.black
    BY <1>3, <1>5 DEF UpIs
  <2>2. \A x \in Node : f1.up[x] = IF x = l THEN rp ELSE f.up[x]
    BY <1>3 DEF UpIs
  <2>3. \A x \in Node : f2.up[x] = IF x = m THEN rp ELSE f1.up[x]
    BY <1>5 DEF UpIs
  <2> QED BY <2>1, <2>2, <2>3
<1>7. f2.up[target] = p
  BY <1>6
<1>8. PICK side \in Side : side = SideOf(f, target) /\ side = SideOf(f2, target)
  BY <1>1, <1>6, <1>7 DEF SideOf
<1>9. PICK f3 : f3 = SetKid(f2, p, side, rp)
  OBVIOUS
<1>10. KidIs(f2, p, side, rp, f3)
  BY <1>1, <1>6, <1>9, SetKidFields
<1>11. /\ f3 \in Heap /\ f3.up = f2.up /\ f3.black = f2.black
       /\ \A x \in Node, t \in Side : f3.kid[t][x] = IF x = p /\ t = side THEN rp ELSE f.kid[t][x]
  <2>1. f3 \in Heap /\ f3.up = f2.up /\ f3.black = f2.black
    BY <1>10 DEF KidIs
  <2>2. \A x \in Node, t \in Side : f3.kid[t][x] = IF x = p /\ t = side THEN rp ELSE f2.kid[t][x]
    BY <1>10 DEF KidIs
  <2> QED BY <2>1, <2>2, <1>6
<1>12. f3.kid["left"][target] = l /\ f3.kid["right"][target] = m
  BY <1>1, <1>11
<1>13. PICK f4 : f4 = SetUp(f3, rp, p)
  OBVIOUS
<1>14. UpIs(f3, rp, p, f4)
  BY <1>1, <1>11, <1>13, SetUpFields
<1>15. /\ f4 \in Heap /\ f4.kid = f3.kid /\ f4.black = f3.black
       /\ \A x \in Node : f4.up[x] = IF x = rp THEN p ELSE f3.up[x]
  BY <1>14 DEF UpIs
<1>16. PICK f5 : f5 = SetKid(f4, rp, "left", l)
  OBVIOUS
<1>17. KidIs(f4, rp, "left", l, f5)
  BY <1>1, <1>15, <1>16, SetKidFields
<1>18. PICK g : g = SetKid(f5, rp, "right", m)
  OBVIOUS
<1>19. KidIs(f5, rp, "right", m, g)
  <2>1. f5 \in Heap
    BY <1>17 DEF KidIs
  <2> QED BY <2>1, <1>1, <1>18, SetKidFields
<1>20. PutInPlace(f, rp) = g
  <2>1. f3 = IF p = Null THEN f2 ELSE SetKid(f2, p, SideOf(f2, target), rp)
    BY <1>8, <1>9 DEF SetKid
  <2>2. PutInPlace(f, rp) = [f3 EXCEPT !.up[rp] = p, !.kid["left"][rp] = f3.kid["left"][target],
                                       !.kid["right"][rp] = f3.kid["right"][target]]
    BY <2>1, <1>2, <1>4 DEF PutInPlace
  <2>3. PutInPlace(f, rp) = [f3 EXCEPT !.up[rp] = p, !.kid["left"][rp] = l, !.kid["right"][rp] = m]
    BY <2>2, <1>12
  <2>4. g = [f3 EXCEPT !.up[rp] = p, !.kid["left"][rp] = l, !.kid["right"][rp] = m]
    BY <1>1, <1>13, <1>16, <1>18 DEF SetUp, SetKid
  <2> QED BY <2>3, <2>4
<1>21. /\ g \in Heap /\ g.up = f4.up /\ g.black = f4.black
       /\ \A x \in Node, t \in Side : g.kid[t][x] = IF x = rp THEN f.kid[t][target] ELSE f4.kid[t][x]
  <2>1. g \in Heap /\ g.up = f4.up /\ g.black = f4.black
    BY <1>17, <1>19 DEF KidIs
  <2>2. \A x \in Node, t \in Side : f5.kid[t][x] = IF x = rp /\ t = "left" THEN l ELSE f4.kid[t][x]
    BY <1>17 DEF KidIs
  <2>3. \A x \in Node, t \in Side : g.kid[t][x] = IF x = rp /\ t = "right" THEN m ELSE f5.kid[t][x]
    BY <1>19 DEF KidIs
  <2>4. \A t \in Side : t = "left" \/ t = "right"
    BY DEF Side
  <2> QED BY <2>1, <2>2, <2>3, <2>4
<1>22. PutIn(f, target, rp, p, l, m, g)
  <2>1. g \in Heap /\ g.black = f.black
    BY <1>6, <1>11, <1>15, <1>21
  <2>2. \A x \in Node : g.up[x] = IF x = rp THEN p ELSE IF x = l \/ x = m THEN rp ELSE f.up[x]
    BY <1>6, <1>11, <1>15, <1>21
  <2>3. \A x \in Node, t \in Side :
         g.kid[t][x] = IF x = rp THEN f.kid[t][target]
                       ELSE IF p # Null /\ x = p /\ t = SideOf(f, target) THEN rp
                       ELSE f.kid[t][x]
    BY <1>8, <1>11, <1>15, <1>21, NullFacts
  <2> QED BY <2>1, <2>2, <2>3 DEF PutIn
<1> QED BY <1>20, <1>22

-----------------------------------------------------------------------------
(* The exchange: where the nodes are.                                      *)

(* The nodes around the exchange: a and b are the children of the target   *)
(* tg, a the one above the replacement rp; k is rp's only child.           *)
SpliceAround(h, rp, tg, d, a, b, k, p, q) ==
    /\ a = h.kid[Opposite(d)][tg] /\ b = h.kid[d][tg] /\ k = h.kid[Opposite(d)][rp]
    /\ p = h.up[tg] /\ q = h.up[rp]

SplicePlace(h, M, r, sub, rp, tg, d, a, b, k, p, q) ==
    /\ Opposite(d) \in Side /\ Opposite(d) # d /\ Opposite(Opposite(d)) = d
    /\ tg \in M /\ rp \in M /\ rp # tg /\ rp # r /\ q \in M /\ q # rp /\ q # p
    /\ h.kid[d][rp] = Null
    /\ a \in M /\ rp \in sub[a] /\ sub[a] \subseteq sub[tg] /\ tg \notin sub[a] /\ a # tg /\ h.up[a] = tg /\ a # r
    /\ q = tg <=> a = rp
    /\ q # tg => h.kid[d][q] = rp /\ tg \notin sub[q] /\ rp \in sub[q]
    /\ b # rp /\ b # tg /\ b # a /\ tg \notin sub[b] /\ rp \notin sub[b] /\ b \in Pointer /\ b # r
    /\ b # Null => b \in M /\ h.up[b] = tg /\ b # p
    /\ k # rp /\ k # tg /\ tg \notin sub[k] /\ rp \notin sub[k] /\ k \in Pointer /\ k # r /\ k # q
    /\ k # Null => k \in M /\ h.up[k] = rp /\ k # a /\ k # b
    /\ sub[rp] = {rp} \cup sub[k]
    /\ p \in Pointer /\ p # tg /\ p # rp /\ p # a
    /\ p = Null <=> tg = r
    /\ tg # r => p \in M /\ SideOf(h, tg) \in Side /\ h.kid[SideOf(h, tg)][p] = tg

LEMMA SpliceSetting ==
  ASSUME NEW h, NEW M, NEW r, NEW sub, Tree(h, M, r, sub), NEW rp, NEW tg, NEW d \in Side,
         Beside(h, M, sub, rp, tg, d),
         NEW a, NEW b, NEW k, NEW p, NEW q, SpliceAround(h, rp, tg, d, a, b, k, p, q)
  PROVE  SplicePlace(h, M, r, sub, rp, tg, d, a, b, k, p, q)
<1>1. Opposite(d) \in Side /\ Opposite(d) # d /\ Opposite(Opposite(d)) = d
  BY Sides
<1>2. /\ tg \in M /\ rp \in sub[tg] /\ rp # tg /\ h.kid[d][rp] = Null /\ On(d, tg, rp)
      /\ \A n \in M : ~(On(Opposite(d), n, tg) /\ On(d, n, rp))
  BY DEF Beside
<1>3. /\ a = h.kid[Opposite(d)][tg] /\ b = h.kid[d][tg] /\ k = h.kid[Opposite(d)][rp]
      /\ p = h.up[tg] /\ q = h.up[rp]
  BY DEF SpliceAround
<1>4. \A x \in M : x \in Node /\ x # Null /\ x \in Pointer
  BY NullFacts DEF Tree
<1>5. h \in Heap /\ sub[Null] = {} /\ h.up[r] = Null /\ r \in M /\ sub[r] = M
  BY DEF Tree, LinkedUp
<1>6. rp \in M /\ q \in sub[tg] /\ sub[rp] \subseteq sub[tg]
  BY <1>2, <1>3, UpClosed, SubTrans
<1>7. q \in M /\ q # Null /\ sub[q] \subseteq sub[tg]
  BY <1>2, <1>4, <1>6, SubTrans
<1>8. rp # r
  BY <1>3, <1>5, <1>7
<1>9. h.kid[SideOf(h, rp)][q] = rp /\ SideOf(h, rp) \in Side
  BY <1>3, <1>6, <1>8, UpFacts
<1>10. q # rp /\ rp \in sub[rp] /\ sub[rp] \subseteq sub[q] /\ q \notin sub[rp]
  BY <1>4, <1>6, <1>7, <1>9, KidFacts
<1>11. b # Null => b \in M /\ h.up[b] = tg /\ b # tg /\ b # r /\ tg \notin sub[b] /\ b \in sub[b]
  BY <1>2, <1>3, KidFacts
<1>12. \A x \in sub[b] : On(d, x, tg) /\ x \in Node
  <2>1. b \in Pointer
    BY <1>2, <1>3, <1>4, <1>5, HeapFields
  <2>2. sub[b] \subseteq M
    BY <2>1 DEF Tree
  <2> QED BY <2>2, <1>2, <1>3, <1>4 DEF Tree, Sorted
<1>13. rp \notin sub[b]
  BY <1>2, <1>4, <1>6, <1>12, Order
<1>14. rp \in sub[a]
  <2>1. sub[tg] = {tg} \cup sub[b] \cup sub[a]
    BY <1>2, <1>3, SubOf
  <2> QED BY <2>1, <1>2, <1>13
<1>15. a # Null
  BY <1>5, <1>14
<1>16. /\ a \in M /\ h.up[a] = tg /\ a # tg /\ a # r /\ tg \notin sub[a] /\ sub[a] \subseteq sub[tg]
       /\ a \in sub[a] /\ h.kid[d][tg] # a
  <2>1. h.kid[Opposite(Opposite(d))][tg] # a
    BY <1>1, <1>2, <1>3, <1>15, KidFacts
  <2> QED BY <2>1, <1>1, <1>2, <1>3, <1>15, KidFacts
<1>17. b # rp /\ b # tg /\ b # a /\ tg \notin sub[b] /\ b \in Pointer /\ b # r
  <2>1. b \in Pointer
    BY <1>2, <1>3, <1>4, <1>5, HeapFields
  <2> QED BY <2>1, <1>2, <1>3, <1>4, <1>5, <1>6, <1>11, <1>13, <1>16
<1>18. /\ k # Null => k \in M /\ h.up[k] = rp /\ k \in sub[k] /\ k # rp /\ k # r
       /\ rp \notin sub[k]
  BY <1>1, <1>3, <1>5, <1>6, KidFacts
<1>19. sub[rp] = {rp} \cup sub[k]
  <2>1. sub[rp] = {rp} \cup sub[h.kid[d][rp]] \cup sub[k]
    BY <1>3, <1>6, SubOf
  <2> QED BY <2>1, <1>2, <1>5
<1>20. sub[rp] \subseteq sub[a]
  BY <1>14, <1>16, SubTrans
<1>21. k # rp /\ k # tg /\ tg \notin sub[k] /\ k \in Pointer /\ k # r /\ k # q
  <2>1. k \in Pointer
    BY <1>1, <1>3, <1>4, <1>5, <1>6, HeapFields
  <2> QED BY <2>1, <1>2, <1>4, <1>5, <1>6, <1>7, <1>10, <1>16, <1>18, <1>19, <1>20
<1>22. k # Null => k # b /\ k # a
  BY <1>2, <1>11, <1>16, <1>18
<1>23. q = tg <=> a = rp
  <2>1. CASE q = tg
    <3>1. SideOf(h, rp) = d \/ SideOf(h, rp) = Opposite(d)
      BY <1>9, Sides
    <3> QED BY <2>1, <3>1, <1>3, <1>9, <1>17
  <2>2. CASE a = rp
    BY <2>2, <1>3, <1>16
  <2> QED BY <2>1, <2>2
<1>24. ASSUME q # tg PROVE h.kid[d][q] = rp /\ tg \notin sub[q] /\ rp \in sub[q]
  <2>1. a # rp
    BY <1>23, <1>24
  <2>2. q \in sub[a]
    BY <2>1, <1>3, <1>14, <1>16, UpClosed
  <2>3. tg \notin sub[q]
    BY <2>2, <1>16, SubTrans
  <2>4. On(Opposite(d), q, tg)
    BY <2>2, <1>1, <1>2, <1>3 DEF Tree, Sorted
  <2>5. SideOf(h, rp) = d
    <3>1. SUFFICES ASSUME SideOf(h, rp) = Opposite(d) PROVE FALSE
      BY <1>9, Sides
    <3>2. On(Opposite(d), rp, q)
      BY <3>1, <1>1, <1>4, <1>6, <1>7, <1>9, KidFacts
    <3>3. On(d, q, rp)
      BY <3>2, <1>1, <1>4, <1>6, <1>7, Order
    <3> QED BY <2>4, <3>3, <1>2, <1>7
  <2> QED BY <2>3, <2>5, <1>9, <1>10
<1>25. /\ p = Null <=> tg = r
       /\ tg # r => p \in M /\ SideOf(h, tg) \in Side /\ h.kid[SideOf(h, tg)][p] = tg
  <2>1. tg # r => p \in M /\ SideOf(h, tg) \in Side /\ h.kid[SideOf(h, tg)][p] = tg
    BY <1>2, <1>3, UpFacts
  <2> QED BY <2>1, <1>3, <1>4, <1>5
<1>26. p \notin sub[tg]
  <2>1. CASE tg = r
    BY <2>1, <1>4, <1>5, <1>25
  <2>2. CASE tg # r
    BY <2>2, <1>2, <1>4, <1>25, KidFacts
  <2> QED BY <2>1, <2>2
<1>27. p \in Pointer /\ p # tg /\ p # rp /\ p # a /\ q # p /\ (b # Null => b # p)
  <2>1. tg \in sub[tg]
    BY <1>2, TreeFinite
  <2>2. b # Null => b \in sub[tg]
    BY <1>2, <1>3, KidFacts
  <2> QED BY <2>1, <2>2, <1>2, <1>4, <1>6, <1>16, <1>25, <1>26, NullFacts
<1> QED BY <1>1, <1>2, <1>6, <1>7, <1>8, <1>10, <1>11, <1>13, <1>14, <1>16, <1>17, <1>18, <1>19, <1>21,
           <1>22, <1>23, <1>24, <1>25, <1>27 DEF SplicePlace

(* The fields after the exchange, but for the target's own; c is the child *)
(* rp gets in the place of a, v its colour.                                *)
SpliceIs(h, rp, tg, d, b, c, k, p, q, v, g) ==
    /\ g \in Heap
    /\ \A x \in Node : x # tg =>
         /\ g.up[x] = IF x = rp THEN p ELSE IF x = c \/ x = b THEN rp ELSE IF x = k THEN q ELSE h.up[x]
         /\ g.black[x] = IF x = rp THEN v ELSE h.black[x]
    /\ \A x \in Node, t \in Side : x # tg =>
         g.kid[t][x] = IF x = rp THEN (IF t = d THEN b ELSE c)
                       ELSE IF p # Null /\ x = p /\ t = SideOf(h, tg) THEN rp
                       ELSE IF x = q /\ t = d THEN k
                       ELSE h.kid[t][x]

LEMMA SpliceFields ==
  ASSUME NEW h, NEW M, NEW r, NEW sub, Tree(h, M, r, sub), NEW rp, target \in M, direction \in Side,
         NEW a, NEW b, NEW k, NEW p, NEW q, SpliceAround(h, rp, target, direction, a, b, k, p, q),
         SplicePlace(h, M, r, sub, rp, target, direction, a, b, k, p, q),
         NEW c, c = (IF q = target THEN k ELSE a),
         NEW v \in BOOLEAN, NEW h0, BlackIs(h, rp, v, h0)
  PROVE  SpliceIs(h, rp, target, direction, b, c, k, p, q, v, PutInPlace(TakeOut(h0, rp), rp))
<1>1. /\ h \in Heap /\ rp \in Node /\ target \in Node /\ a \in Pointer /\ b \in Pointer /\ k \in Pointer
      /\ p \in Pointer /\ q \in Pointer /\ Null \notin M
  BY NullFacts DEF Tree, SplicePlace
<1>2. /\ a = h.kid[Opposite(direction)][target] /\ b = h.kid[direction][target]
      /\ k = h.kid[Opposite(direction)][rp] /\ p = h.up[target] /\ q = h.up[rp]
  BY DEF SpliceAround
<1>3. /\ h0 \in Heap /\ h0.kid = h.kid /\ h0.up = h.up
      /\ \A x \in Node : h0.black[x] = IF x = rp THEN v ELSE h.black[x]
  BY DEF BlackIs
<1>4. /\ q = target <=> a = rp
      /\ b # rp /\ rp # target /\ p # target /\ p # rp /\ a # target /\ b # target /\ k # target
      /\ q # p /\ (q # target => h.kid[direction][q] = rp)
      /\ Opposite(direction) \in Side /\ Opposite(direction) # direction
  BY DEF SplicePlace
<1>5. PICK f : f = TakeOut(h0, rp)
  OBVIOUS
<1>6. TakenOut(h0, target, direction, k, q, f)
  <2>1. k = h0.kid[Opposite(direction)][rp] /\ q = h0.up[rp]
    BY <1>2, <1>3
  <2>2. (q = target <=> h0.kid[Opposite(direction)][target] = rp) /\ h0.kid[direction][target] # rp
    BY <1>2, <1>3, <1>4
  <2> QED BY <2>1, <2>2, <1>1, <1>3, <1>5, TakeOutFields
<1>7. /\ f \in Heap /\ f.black = h0.black
      /\ \A x \in Node : f.up[x] = IF q # target /\ x = k THEN q ELSE h.up[x]
      /\ \A x \in Node, t \in Side :
           f.kid[t][x] = IF x = q /\ t = (IF q = target THEN Opposite(direction) ELSE direction)
                           THEN k ELSE h.kid[t][x]
  BY <1>3, <1>6 DEF TakenOut
<1>8. f.up[target] = p
  BY <1>1, <1>2, <1>4, <1>7
<1>9. f.kid[direction][target] = b /\ f.kid[Opposite(direction)][target] = c
  BY <1>1, <1>2, <1>4, <1>7
<1>10. c \in Pointer /\ c # target
  BY <1>1, <1>4
<1>11. PICK l \in Pointer, m \in Pointer : l = f.kid["left"][target] /\ m = f.kid["right"][target]
  BY <1>1, <1>7, HeapFields, Sides
<1>12. {l, m} = {b, c}
  BY <1>9, <1>11, Sides DEF Side
<1>13. l # target /\ m # target
  BY <1>4, <1>10, <1>12
<1>14. PICK g : g = PutInPlace(f, rp)
  OBVIOUS
<1>15. PutIn(f, target, rp, p, l, m, g)
  BY <1>1, <1>4, <1>7, <1>8, <1>11, <1>13, <1>14, PutInPlaceFields
<1>16. p # Null => SideOf(f, target) = SideOf(h, target)
  <2>1. p # Null => f.kid["left"][p] = h.kid["left"][p]
    BY <1>1, <1>4, <1>7, Sides, NullFacts
  <2> QED BY <2>1, <1>2, <1>8 DEF SideOf
<1>17. /\ g \in Heap /\ g.black = f.black
       /\ \A x \in Node : g.up[x] = IF x = rp THEN p ELSE IF x = l \/ x = m THEN rp ELSE f.up[x]
  BY <1>15 DEF PutIn
<1>18. \A x \in Node, t \in Side :
         g.kid[t][x] = IF x = rp THEN f.kid[t][target]
                       ELSE IF p # Null /\ x = p /\ t = SideOf(h, target) THEN rp
                       ELSE f.kid[t][x]
  BY <1>15, <1>16 DEF PutIn
<1>19. ASSUME NEW x \in Node, x # target
       PROVE  /\ g.up[x] = IF x = rp THEN p ELSE IF x = c \/ x = b THEN rp ELSE IF x = k THEN q ELSE h.up[x]
              /\ g.black[x] = IF x = rp THEN v ELSE h.black[x]
  <2>1. g.black[x] = IF x = rp THEN v ELSE h.black[x]
    <3>1. g.black = h0.black
      BY <1>7, <1>17
    <3>2. h0.black[x] = IF x = rp THEN v ELSE h.black[x]
      BY DEF BlackIs
    <3> QED BY <3>1, <3>2
  <2>2. (x = l \/ x = m) <=> (x = b \/ x = c)
    BY <1>12
  <2>3. f.up[x] = IF q # target /\ x = k THEN q ELSE h.up[x]
    BY <1>7
  <2>4. g.up[x] = IF x = rp THEN p ELSE IF x = b \/ x = c THEN rp ELSE f.up[x]
    BY <2>2, <1>17
  <2> QED BY <2>1, <2>3, <2>4
<1>20. ASSUME NEW x \in Node, NEW t \in Side, x # target
       PROVE  g.kid[t][x] = IF x = rp THEN (IF t = direction THEN b ELSE c)
                            ELSE IF p # Null /\ x = p /\ t = SideOf(h, target) THEN rp
                            ELSE IF x = q /\ t = direction THEN k
                            ELSE h.kid[t][x]
  <2>1. t = direction \/ t = Opposite(direction)
    BY Sides
  <2>2. f.kid[t][target] = IF t = direction THEN b ELSE c
    BY <2>1, <1>4, <1>9
  <2>3. f.kid[t][x] = IF x = q /\ t = direction THEN k ELSE h.kid[t][x]
    BY <1>7, <1>20
  <2> QED BY <2>2, <2>3, <1>18
<1>21. SpliceIs(h, rp, target, direction, b, c, k, p, q, v, g)
  BY <1>17, <1>19, <1>20 DEF SpliceIs
<1> QED BY <1>5, <1>14, <1>21

-----------------------------------------------------------------------------
(* The exchange: the links.                                                *)

(* What a child is in the new tree.                                        *)
SpliceKidsAre(h, M, r, rp, tg, d, b, c, k, p, q, g) ==
    /\ g.kid[d][rp] = b /\ g.kid[Opposite(d)][rp] = c
    /\ tg # r => g.kid[SideOf(h, tg)][p] = rp
    /\ q # tg => g.kid[d][q] = k
    /\ \A x \in M, t \in Side : x # tg /\ x # rp =>
         \/ x = p /\ t = SideOf(h, tg) /\ h.kid[t][x] = tg /\ g.kid[t][x] = rp
         \/ x = q /\ t = d /\ h.kid[t][x] = rp /\ g.kid[t][x] = k
         \/ g.kid[t][x] = h.kid[t][x] /\ h.kid[t][x] # tg /\ h.kid[t][x] # rp

LEMMA SpliceKids ==
  ASSUME NEW h, NEW M, NEW r, NEW sub, Tree(h, M, r, sub), NEW rp, NEW tg, NEW d \in Side,
         NEW a, NEW b, NEW k, NEW p, NEW q, SpliceAround(h, rp, tg, d, a, b, k, p, q),
         SplicePlace(h, M, r, sub, rp, tg, d, a, b, k, p, q),
         NEW c, q = tg => c = k, q # tg => c = a,
         NEW v, NEW g, SpliceIs(h, rp, tg, d, b, c, k, p, q, v, g)
  PROVE  SpliceKidsAre(h, M, r, rp, tg, d, b, c, k, p, q, g)
<1>1. M \subseteq Node /\ Null \notin M
  BY NullFacts DEF Tree
<1>2. /\ Opposite(d) \in Side /\ Opposite(d) # d
      /\ tg \in M /\ rp \in M /\ rp # tg /\ q \in M /\ q # rp /\ q # p /\ p # rp /\ p # tg
      /\ q = tg <=> a = rp
      /\ q # tg => h.kid[d][q] = rp
      /\ p = Null <=> tg = r
      /\ tg # r => p \in M /\ SideOf(h, tg) \in Side /\ h.kid[SideOf(h, tg)][p] = tg
  BY DEF SplicePlace
<1>3. \A x \in M, t \in Side : x # tg =>
         g.kid[t][x] = IF x = rp THEN (IF t = d THEN b ELSE c)
                       ELSE IF p # Null /\ x = p /\ t = SideOf(h, tg) THEN rp
                       ELSE IF x = q /\ t = d THEN k
                       ELSE h.kid[t][x]
  BY <1>1 DEF SpliceIs
<1>4. g.kid[d][rp] = b /\ g.kid[Opposite(d)][rp] = c
  BY <1>2, <1>3
<1>5. tg # r => g.kid[SideOf(h, tg)][p] = rp
  BY <1>2, <1>3
<1>6. q # tg => g.kid[d][q] = k
  BY <1>2, <1>3
<1>7. p = h.up[tg] /\ q = h.up[rp]
  BY DEF SpliceAround
<1>8. ASSUME NEW x \in M, NEW t \in Side, x # tg, x # rp
      PROVE  \/ x = p /\ t = SideOf(h, tg) /\ h.kid[t][x] = tg /\ g.kid[t][x] = rp
             \/ x = q /\ t = d /\ h.kid[t][x] = rp /\ g.kid[t][x] = k
             \/ g.kid[t][x] = h.kid[t][x] /\ h.kid[t][x] # tg /\ h.kid[t][x] # rp
  <2>1. CASE p # Null /\ x = p /\ t = SideOf(h, tg)
    BY <2>1, <1>2, <1>3, <1>8
  <2>2. CASE x = q /\ t = d
    BY <2>2, <1>2, <1>3, <1>8
  <2>3. CASE ~(p # Null /\ x = p /\ t = SideOf(h, tg)) /\ ~(x = q /\ t = d)
    <3>1. g.kid[t][x] = h.kid[t][x]
      BY <2>3, <1>3, <1>8
    <3>2. h.kid[t][x] # Null => h.up[h.kid[t][x]] = x /\ SideOf(h, h.kid[t][x]) = t
      BY KidFacts
    <3>3. tg # Null /\ rp # Null /\ x # Null
      BY <1>1, <1>2
    <3>4. h.kid[t][x] # tg
      BY <3>2, <3>3, <2>3, <1>7
    <3>5. h.kid[t][x] # rp
      <4>1. SUFFICES ASSUME h.kid[t][x] = rp PROVE FALSE
        OBVIOUS
      <4>2. x = q /\ q # tg /\ SideOf(h, rp) = t
        BY <4>1, <3>2, <3>3, <1>7, <1>8
      <4>3. SideOf(h, rp) = d
        BY <4>2, <3>3, <1>2, KidFacts
      <4> QED BY <4>2, <4>3, <2>3
    <3> QED BY <3>1, <3>4, <3>5
  <2> QED BY <2>1, <2>2, <2>3
<1> QED BY <1>4, <1>5, <1>6, <1>8 DEF SpliceKidsAre

SpliceRoot(r, rp, tg) == IF tg = r THEN rp ELSE r

(* What a parent is in the new tree.                                       *)
SpliceUpsAre(h, M, r, rp, tg, k, q, g) ==
    \A x \in M \ {tg} : x # SpliceRoot(r, rp, tg) =>
      g.up[x] = rp \/ x = rp \/ (x = k /\ g.up[x] = q) \/ (x # r /\ g.up[x] = h.up[x])

LEMMA SpliceLinks ==
  ASSUME NEW h, NEW M, NEW r, NEW sub, Tree(h, M, r, sub), NEW rp, NEW tg, NEW d \in Side,
         NEW a, NEW b, NEW k, NEW p, NEW q, SpliceAround(h, rp, tg, d, a, b, k, p, q),
         SplicePlace(h, M, r, sub, rp, tg, d, a, b, k, p, q),
         NEW c, q = tg => c = k, q # tg => c = a,
         NEW v, NEW g, SpliceIs(h, rp, tg, d, b, c, k, p, q, v, g)
  PROVE  /\ LinkedUp(g, M \ {tg}, SpliceRoot(r, rp, tg))
         /\ SpliceUpsAre(h, M, r, rp, tg, k, q, g)
<1>1. M \subseteq Node /\ Null \notin M /\ r \in M /\ h.up[r] = Null
  BY NullFacts DEF Tree, LinkedUp
<1>2. /\ Opposite(d) \in Side /\ Opposite(d) # d
      /\ tg \in M /\ rp \in M /\ rp # tg /\ rp # r /\ q \in M /\ q # rp /\ q # p /\ p # rp /\ p # tg
      /\ p = Null <=> tg = r
      /\ tg # r => p \in M /\ SideOf(h, tg) \in Side
      /\ b # rp /\ b # tg /\ b # a /\ b # r
      /\ b # Null => b \in M /\ h.up[b] = tg
      /\ k # rp /\ k # tg /\ k # r
      /\ k # Null => k \in M /\ h.up[k] = rp /\ k # a /\ k # b
      /\ a \in M /\ a # tg /\ h.up[a] = tg /\ a # r
      /\ q = tg <=> a = rp
  BY DEF SplicePlace
<1>3. /\ a = h.kid[Opposite(d)][tg] /\ b = h.kid[d][tg] /\ k = h.kid[Opposite(d)][rp]
  BY DEF SpliceAround
<1>4. /\ c # tg /\ c # rp /\ c # r
      /\ c # Null => c \in M
  BY <1>2
<1>5. \A x \in M : x # tg =>
         g.up[x] = IF x = rp THEN p ELSE IF x = c \/ x = b THEN rp ELSE IF x = k THEN q ELSE h.up[x]
  BY <1>1 DEF SpliceIs
<1>6. /\ g.kid[d][rp] = b /\ g.kid[Opposite(d)][rp] = c
      /\ tg # r => g.kid[SideOf(h, tg)][p] = rp
      /\ q # tg => g.kid[d][q] = k
      /\ \A x \in M, t \in Side : x # tg /\ x # rp =>
              \/ x = p /\ t = SideOf(h, tg) /\ h.kid[t][x] = tg /\ g.kid[t][x] = rp
              \/ x = q /\ t = d /\ h.kid[t][x] = rp /\ g.kid[t][x] = k
              \/ g.kid[t][x] = h.kid[t][x] /\ h.kid[t][x] # tg /\ h.kid[t][x] # rp
  <2>1. SpliceKidsAre(h, M, r, rp, tg, d, b, c, k, p, q, g)
    BY SpliceKids
  <2> QED BY <2>1 DEF SpliceKidsAre
<1>7. PICK z : z = SpliceRoot(r, rp, tg)
  OBVIOUS
<1>8. z = IF tg = r THEN rp ELSE r
  BY <1>7 DEF SpliceRoot
<1>9. g.up[z] = Null
  <2>1. CASE tg = r
    BY <2>1, <1>2, <1>5, <1>8
  <2>2. CASE tg # r
    BY <2>2, <1>1, <1>2, <1>4, <1>5, <1>8
  <2> QED BY <2>1, <2>2
<1>10. ASSUME NEW x \in M \ {tg}, x # z
       PROVE  /\ g.up[x] \in M \ {tg} /\ \E s \in Side : g.kid[s][g.up[x]] = x
              /\ g.up[x] = rp \/ x = rp \/ (x = k /\ g.up[x] = q) \/ (x # r /\ g.up[x] = h.up[x])
  <2>0. x # Null
    BY <1>1
  <2>1. CASE x = rp
    <3>1. tg # r /\ g.up[x] = p
      BY <2>1, <1>2, <1>5, <1>8, <1>10
    <3> QED BY <2>1, <3>1, <1>2, <1>6
  <2>2. CASE x # rp /\ (x = c \/ x = b)
    <3>1. g.up[x] = rp
      BY <2>2, <1>5
    <3> QED BY <2>2, <3>1, <1>2, <1>6
  <2>3. CASE x # rp /\ x # c /\ x # b /\ x = k
    <3>1. g.up[x] = q
      BY <2>3, <1>5
    <3>2. q # tg
      BY <2>3
    <3> QED BY <2>3, <3>1, <3>2, <1>2, <1>6
  <2>4. CASE x # rp /\ x # c /\ x # b /\ x # k
    <3>1. g.up[x] = h.up[x]
      BY <2>4, <1>5
    <3>2. x # r
      BY <2>4, <1>8, <1>10
    <3>3. h.up[x] \in M /\ SideOf(h, x) \in Side /\ h.kid[SideOf(h, x)][h.up[x]] = x
      BY <3>2, UpFacts
    <3>4. h.up[x] # tg
      <4>1. SUFFICES ASSUME h.up[x] = tg PROVE FALSE
        OBVIOUS
      <4>2. SideOf(h, x) = d \/ SideOf(h, x) = Opposite(d)
        BY <3>3, Sides
      <4>3. x = a
        BY <4>1, <4>2, <3>3, <2>4, <1>3
      <4> QED BY <4>3, <2>4, <1>2
    <3>5. h.up[x] # rp
      <4>1. SUFFICES ASSUME h.up[x] = rp PROVE FALSE
        OBVIOUS
      <4>2. SideOf(h, x) = d \/ SideOf(h, x) = Opposite(d)
        BY <3>3, Sides
      <4>3. h.kid[d][rp] = Null
        BY DEF SplicePlace
      <4> QED BY <4>1, <4>2, <4>3, <3>3, <2>0, <2>4, <1>3
    <3>6. g.kid[SideOf(h, x)][h.up[x]] = x
      BY <3>3, <3>4, <3>5, <2>4, <1>6, <1>10
    <3> QED BY <3>1, <3>2, <3>3, <3>4, <3>6
  <2> QED BY <2>1, <2>2, <2>3, <2>4
<1>11. ASSUME NEW x \in M \ {tg}, NEW s \in Side, g.kid[s][x] # Null
       PROVE  g.kid[s][x] \in M \ {tg} /\ g.up[g.kid[s][x]] = x
  <2>1. CASE x = rp
    <3>1. s = d \/ s = Opposite(d)
      BY Sides
    <3>2. g.kid[s][x] = b \/ g.kid[s][x] = c
      BY <3>1, <2>1, <1>6
    <3> QED BY <2>1, <3>2, <1>2, <1>4, <1>5, <1>11
  <2>2. CASE x # rp /\ x = p /\ s = SideOf(h, tg) /\ g.kid[s][x] = rp
    BY <2>2, <1>2, <1>5
  <2>3. CASE x # rp /\ x = q /\ s = d /\ g.kid[s][x] = k
    <3>1. k # b /\ k # c /\ k \in M
      BY <2>3, <1>2, <1>11
    <3> QED BY <2>3, <3>1, <1>2, <1>5
  <2>4. CASE x # rp /\ g.kid[s][x] = h.kid[s][x] /\ h.kid[s][x] # tg /\ h.kid[s][x] # rp
    <3>1. PICK y : y = h.kid[s][x]
      OBVIOUS
    <3>2. y \in M /\ h.up[y] = x /\ y # tg /\ y # rp
      BY <3>1, <2>4, <1>11, KidFacts
    <3>3. y # a /\ y # b /\ y # k
      BY <3>2, <2>4, <1>1, <1>2, <1>11
    <3>4. g.up[y] = x
      BY <3>2, <3>3, <1>5
    <3> QED BY <3>1, <3>2, <3>4, <2>4
  <2> QED BY <2>1, <2>2, <2>3, <2>4, <1>6
<1>12. LinkedUp(g, M \ {tg}, z)
  BY <1>9, <1>10, <1>11 DEF LinkedUp
<1>13. SpliceUpsAre(h, M, r, rp, tg, k, q, g)
  BY <1>7, <1>10 DEF SpliceUpsAre
<1> QED BY <1>7, <1>12, <1>13

-----------------------------------------------------------------------------
(* The exchange: the order.                                                *)

LEMMA Apart ==
  ASSUME NEW h, NEW M, NEW r, NEW sub, Tree(h, M, r, sub), NEW x \in M, NEW s \in Side
  PROVE  sub[h.kid[s][x]] \cap sub[h.kid[Opposite(s)][x]] = {}
<1> SUFFICES ASSUME NEW y \in sub[h.kid[s][x]], y \in sub[h.kid[Opposite(s)][x]] PROVE FALSE
  OBVIOUS
<1>1. h \in Heap /\ M \subseteq Node /\ Opposite(s) \in Side
  BY Sides DEF Tree
<1>2. h.kid[s][x] \in Pointer
  BY <1>1, HeapFields
<1>3. y \in M
  BY <1>2 DEF Tree
<1>4. On(s, y, x) /\ On(Opposite(s), y, x)
  BY <1>1 DEF Tree, Sorted
<1> QED BY <1>1, <1>3, <1>4, Order

(* The nodes below each node after the exchange.                           *)
SpliceSub(sub, rp, tg) ==
    [x \in Pointer |-> IF x = tg THEN {}
                       ELSE IF x = rp THEN sub[tg] \ {tg}
                       ELSE IF tg \in sub[x] THEN sub[x] \ {tg}
                       ELSE sub[x] \ {rp}]

LEMMA SpliceSorted ==
  ASSUME NEW h, NEW M, NEW r, NEW sub, Tree(h, M, r, sub), NEW rp, NEW tg, NEW d \in Side,
         Beside(h, M, sub, rp, tg, d),
         NEW a, NEW b, NEW k, NEW p, NEW q, SpliceAround(h, rp, tg, d, a, b, k, p, q),
         SplicePlace(h, M, r, sub, rp, tg, d, a, b, k, p, q),
         NEW c, q = tg => c = k, q # tg => c = a,
         NEW colour, NEW g, SpliceIs(h, rp, tg, d, b, c, k, p, q, colour, g)
  PROVE  Tree(g, M \ {tg}, SpliceRoot(r, rp, tg), SpliceSub(sub, rp, tg))
<1>1. /\ h \in Heap /\ M \subseteq Node /\ r \in M
      /\ sub \in [Pointer -> SUBSET M] /\ sub[Null] = {} /\ sub[r] = M
      /\ Null \notin M /\ Null \in Pointer /\ M \subseteq Pointer
  BY NullFacts DEF Tree
<1>2. /\ Opposite(d) \in Side /\ Opposite(d) # d
      /\ tg \in M /\ rp \in M /\ rp # tg /\ rp # r /\ q \in M /\ q # rp /\ q # p
      /\ a \in M /\ rp \in sub[a] /\ sub[a] \subseteq sub[tg] /\ tg \notin sub[a] /\ a # tg
      /\ q = tg <=> a = rp
      /\ q # tg => h.kid[d][q] = rp /\ tg \notin sub[q] /\ rp \in sub[q]
      /\ b # rp /\ b # tg /\ tg \notin sub[b] /\ rp \notin sub[b] /\ b \in Pointer
      /\ k # rp /\ k # tg /\ tg \notin sub[k] /\ rp \notin sub[k] /\ k \in Pointer
      /\ sub[rp] = {rp} \cup sub[k]
      /\ p # tg /\ p # rp
      /\ p = Null <=> tg = r
      /\ tg # r => p \in M /\ SideOf(h, tg) \in Side /\ h.kid[SideOf(h, tg)][p] = tg
  BY DEF SplicePlace
<1>3. a = h.kid[Opposite(d)][tg] /\ b = h.kid[d][tg]
  BY DEF SpliceAround
<1>4. /\ g.kid[d][rp] = b /\ g.kid[Opposite(d)][rp] = c
      /\ \A x \in M, t \in Side : x # tg /\ x # rp =>
              \/ x = p /\ t = SideOf(h, tg) /\ h.kid[t][x] = tg /\ g.kid[t][x] = rp
              \/ x = q /\ t = d /\ h.kid[t][x] = rp /\ g.kid[t][x] = k
              \/ g.kid[t][x] = h.kid[t][x] /\ h.kid[t][x] # tg /\ h.kid[t][x] # rp
  <2>1. SpliceKidsAre(h, M, r, rp, tg, d, b, c, k, p, q, g)
    BY SpliceKids
  <2> QED BY <2>1 DEF SpliceKidsAre
<1>5. PICK sb : sb = SpliceSub(sub, rp, tg)
  OBVIOUS
<1>6. /\ sb \in [Pointer -> SUBSET (M \ {tg})] /\ sb[rp] = sub[tg] \ {tg}
      /\ \A x \in Pointer : x # tg /\ x # rp =>
           sb[x] = IF tg \in sub[x] THEN sub[x] \ {tg} ELSE sub[x] \ {rp}
  <2>1. \A x \in Pointer : sub[x] \subseteq M
    BY <1>1
  <2> QED BY <2>1, <1>1, <1>2, <1>5 DEF SpliceSub
<1>7. sb[Null] = {}
  BY <1>1, <1>2, <1>6
<1>8. PICK z : z = SpliceRoot(r, rp, tg)
  OBVIOUS
<1>9. z \in M \ {tg} /\ sb[z] = M \ {tg}
  <2>1. CASE tg = r
    BY <2>1, <1>1, <1>2, <1>6, <1>8 DEF SpliceRoot
  <2>2. CASE tg # r
    BY <2>2, <1>1, <1>2, <1>6, <1>8 DEF SpliceRoot
  <2> QED BY <2>1, <2>2
<1>10. sb[b] = sub[b] /\ sb[k] = sub[k]
  <2>1. sb[b] = sub[b]
    <3>1. sb[b] = sub[b] \ {rp}
      BY <1>2, <1>6
    <3> QED BY <3>1, <1>2
  <2>2. sb[k] = sub[k]
    <3>1. sb[k] = sub[k] \ {rp}
      BY <1>2, <1>6
    <3> QED BY <3>1, <1>2
  <2> QED BY <2>1, <2>2
<1>11. {rp} \cup sb[c] = sub[a] /\ sb[c] \subseteq sub[a] /\ rp \notin sb[c]
  <2>1. CASE q = tg
    BY <2>1, <1>2, <1>10
  <2>2. CASE q # tg
    <3>1. sb[a] = sub[a] \ {rp}
      BY <2>2, <1>1, <1>2, <1>6
    <3> QED BY <2>2, <3>1, <1>2
  <2> QED BY <2>1, <2>2
<1>12. ASSUME NEW x \in M, NEW s \in Side
       PROVE  /\ h.kid[s][x] \in Pointer
              /\ sub[x] = {x} \cup sub[h.kid[s][x]] \cup sub[h.kid[Opposite(s)][x]]
              /\ sub[h.kid[s][x]] \cap sub[h.kid[Opposite(s)][x]] = {}
              /\ x \notin sub[h.kid[s][x]]
              /\ tg \in sub[x] => rp \in sub[x] /\ sub[tg] \subseteq sub[x]
  <2>1. h.kid[s][x] \in Pointer
    BY <1>1, HeapFields
  <2>2. sub[x] = {x} \cup sub[h.kid[s][x]] \cup sub[h.kid[Opposite(s)][x]]
    BY SubOf
  <2>3. sub[h.kid[s][x]] \cap sub[h.kid[Opposite(s)][x]] = {}
    BY Apart
  <2>4. x \notin sub[h.kid[s][x]]
    BY <1>1, KidFacts
  <2>5. tg \in sub[x] => sub[tg] \subseteq sub[x]
    BY SubTrans
  <2>6. rp \in sub[tg]
    BY <1>2
  <2> QED BY <2>1, <2>2, <2>3, <2>4, <2>5, <2>6
<1>13. \A x \in Pointer : tg \in sub[x] /\ (x = Null \/ x \in M) => rp \in sub[x]
  BY <1>1, <1>12, Sides
<1>14. ASSUME NEW x \in M, x # tg, NEW s \in Side
       PROVE  sb[x] = {x} \cup sb[g.kid[s][x]] \cup sb[g.kid[Opposite(s)][x]]
  <2>0. Opposite(s) \in Side /\ s # Opposite(s) /\ (d = s \/ d = Opposite(s)) /\ Opposite(Opposite(s)) = s
    BY Sides
  <2>1. CASE x = rp
    <3>1. sub[tg] = {tg} \cup sub[b] \cup sub[a]
      BY <1>2, <1>3, <1>12
    <3>2. sb[rp] = {rp} \cup sb[b] \cup sb[c]
      BY <3>1, <1>2, <1>6, <1>10, <1>11
    <3>3. CASE d = s
      BY <2>1, <3>2, <3>3, <1>4
    <3>4. CASE d = Opposite(s)
      <4>1. Opposite(d) = s
        BY <2>0, <3>4
      <4> QED BY <2>1, <3>2, <3>4, <4>1, <1>4
    <3> QED BY <2>0, <3>3, <3>4
  <2>2. CASE x # rp
    <3>1. PICK y, w : y = h.kid[s][x] /\ w = h.kid[Opposite(s)][x]
      OBVIOUS
    <3>2. /\ y \in Pointer /\ w \in Pointer
          /\ sub[x] = {x} \cup sub[y] \cup sub[w]
          /\ sub[y] \cap sub[w] = {} /\ x \notin sub[y] /\ x \notin sub[w]
      BY <2>0, <3>1, <1>12
    <3>3. /\ y = Null \/ y \in M
          /\ w = Null \/ w \in M
      BY <2>0, <3>1, KidFacts
    <3>4. /\ tg \in sub[y] => rp \in sub[y]
          /\ tg \in sub[w] => rp \in sub[w]
      BY <3>2, <3>3, <1>13
    <3>5. sb[x] = IF tg \in sub[x] THEN sub[x] \ {tg} ELSE sub[x] \ {rp}
      BY <2>2, <1>1, <1>6, <1>14
    <3>6. ASSUME NEW v, v = y \/ v = w, v # tg, v # rp
          PROVE  sb[v] = IF tg \in sub[v] THEN sub[v] \ {tg} ELSE sub[v] \ {rp}
      BY <3>2, <3>6, <1>6
    <3>7. y # w \/ (y = Null /\ w = Null)
      <4>1. y \in M => y \in sub[y]
        BY TreeFinite
      <4>2. w \in M => w \in sub[w]
        BY TreeFinite
      <4> QED BY <4>1, <4>2, <3>2, <3>3
    <3>8. ASSUME NEW t \in Side, NEW u, NEW v, u = h.kid[t][x], v = h.kid[Opposite(t)][x],
                 (u = y /\ v = w) \/ (u = w /\ v = y), u = tg, x = p, t = SideOf(h, tg), g.kid[t][x] = rp
          PROVE  sb[x] = {x} \cup sb[g.kid[t][x]] \cup sb[g.kid[Opposite(t)][x]]
      <4>1. v # tg /\ v # rp /\ tg \notin sub[v] /\ rp \notin sub[v]
        <5>1. tg \in sub[tg] /\ rp \in sub[tg] /\ rp \in sub[rp]
          BY <1>2, TreeFinite
        <5>2. rp \notin sub[v] /\ tg \notin sub[v]
          BY <5>1, <3>2, <3>8
        <5> QED BY <5>1, <5>2
      <4>2. sb[v] = sub[v]
        <5>1. v = y \/ v = w
          BY <3>8
        <5>2. sb[v] = sub[v] \ {rp}
          BY <4>1, <5>1, <3>6
        <5>3. sub[v] \ {rp} = sub[v]
          BY <4>1
        <5> QED BY <5>2, <5>3
      <4>3. Opposite(t) \in Side /\ Opposite(t) # t
        BY Sides
      <4>4. g.kid[Opposite(t)][x] = v
        BY <4>1, <4>3, <3>8, <2>2, <1>2, <1>4, <1>14
      <4>5. tg \in sub[x] /\ sb[x] = sub[x] \ {tg}
        <5>1. tg \in sub[tg]
          BY <1>2, TreeFinite
        <5> QED BY <5>1, <3>2, <3>5, <3>8
      <4> QED BY <4>1, <4>2, <4>4, <4>5, <3>2, <3>8, <1>6, <1>14
    <3>9. ASSUME NEW u, NEW v, u = h.kid[d][x], v = h.kid[Opposite(d)][x],
                 (u = y /\ v = w) \/ (u = w /\ v = y), u = rp, x = q, g.kid[d][x] = k
          PROVE  sb[x] = {x} \cup sb[g.kid[d][x]] \cup sb[g.kid[Opposite(d)][x]]
      <4>1. q # tg /\ tg \notin sub[x] /\ rp \in sub[x] /\ tg \notin sub[v]
        BY <3>2, <3>9, <1>2, <1>14
      <4>2. rp \in sub[rp] /\ rp \notin sub[v] /\ v # rp
        BY <3>2, <3>9, <1>2
      <4>3. v # tg
        <5>1. tg \in sub[tg]
          BY <1>2, TreeFinite
        <5> QED BY <5>1, <4>1
      <4>4. sb[v] = sub[v]
        BY <4>1, <4>2, <4>3, <3>6, <3>9, SMTT(30)
      <4>5. g.kid[Opposite(d)][x] = v
        BY <4>2, <4>3, <3>9, <2>2, <1>2, <1>4, <1>14
      <4>6. sb[x] = sub[x] \ {rp}
        BY <4>1, <3>5
      <4> QED BY <4>2, <4>4, <4>5, <4>6, <3>2, <3>9, <2>2, <1>2, <1>10
    <3>10. ASSUME g.kid[s][x] = y, g.kid[Opposite(s)][x] = w, y # tg, y # rp, w # tg, w # rp
           PROVE  sb[x] = {x} \cup sb[g.kid[s][x]] \cup sb[g.kid[Opposite(s)][x]]
      <4>1. /\ sb[y] = IF tg \in sub[y] THEN sub[y] \ {tg} ELSE sub[y] \ {rp}
            /\ sb[w] = IF tg \in sub[w] THEN sub[w] \ {tg} ELSE sub[w] \ {rp}
        BY <3>6, <3>10
      <4>2. CASE tg \in sub[y]
        <5>1. tg \notin sub[w] /\ rp \notin sub[w] /\ tg \in sub[x]
          BY <4>2, <3>2, <3>4
        <5> QED BY <4>1, <4>2, <5>1, <3>2, <3>5, <3>10, <1>14
      <4>3. CASE tg \in sub[w]
        <5>1. tg \notin sub[y] /\ rp \notin sub[y] /\ tg \in sub[x]
          BY <4>3, <3>2, <3>4
        <5> QED BY <4>1, <4>3, <5>1, <3>2, <3>5, <3>10, <1>14
      <4>4. CASE tg \notin sub[y] /\ tg \notin sub[w]
        <5>1. tg \notin sub[x]
          BY <4>4, <3>2, <1>14
        <5> QED BY <4>1, <4>4, <5>1, <3>2, <3>5, <3>10, <2>2
      <4> QED BY <4>2, <4>3, <4>4
    <3>11. CASE y = tg /\ x = p /\ s = SideOf(h, tg) /\ g.kid[s][x] = rp
      BY <3>1, <3>8, <3>11
    <3>12. CASE w = tg /\ x = p /\ Opposite(s) = SideOf(h, tg) /\ g.kid[Opposite(s)][x] = rp
      <4>1. sb[x] = {x} \cup sb[g.kid[Opposite(s)][x]] \cup sb[g.kid[s][x]]
        BY <2>0, <3>1, <3>8, <3>12
      <4> QED BY <4>1
    <3>13. CASE y = rp /\ x = q /\ s = d /\ g.kid[s][x] = k
      BY <3>1, <3>9, <3>13
    <3>14. CASE w = rp /\ x = q /\ Opposite(s) = d /\ g.kid[Opposite(s)][x] = k
      <4>1. sb[x] = {x} \cup sb[g.kid[Opposite(s)][x]] \cup sb[g.kid[s][x]]
        BY <2>0, <3>1, <3>9, <3>14
      <4> QED BY <4>1
    <3>15. /\ \/ x = p /\ s = SideOf(h, tg) /\ y = tg /\ g.kid[s][x] = rp
              \/ x = q /\ s = d /\ y = rp /\ g.kid[s][x] = k
              \/ g.kid[s][x] = y /\ y # tg /\ y # rp
           /\ \/ x = p /\ Opposite(s) = SideOf(h, tg) /\ w = tg /\ g.kid[Opposite(s)][x] = rp
              \/ x = q /\ Opposite(s) = d /\ w = rp /\ g.kid[Opposite(s)][x] = k
              \/ g.kid[Opposite(s)][x] = w /\ w # tg /\ w # rp
      BY <2>0, <2>2, <3>1, <1>4, <1>14
    <3> QED BY <3>10, <3>11, <3>12, <3>13, <3>14, <3>15
  <2> QED BY <2>1, <2>2
<1>15. \A x \in M, s \in Side : \A y \in sub[h.kid[s][x]] : On(s, y, x) /\ y \in M
  <2>1. ASSUME NEW x \in M, NEW s \in Side, NEW y \in sub[h.kid[s][x]] PROVE On(s, y, x) /\ y \in M
    <3>1. h.kid[s][x] \in Pointer
      BY <1>12
    <3> QED BY <3>1, <1>1 DEF Tree, Sorted
  <2> QED BY <2>1
<1>16. ASSUME NEW x \in M, x # tg, NEW s \in Side, NEW y \in sb[g.kid[s][x]]
       PROVE  On(s, y, x)
  <2>1. CASE x = rp /\ s = d
    <3>1. On(d, y, tg) /\ y \in M
      BY <2>1, <1>2, <1>3, <1>4, <1>10, <1>15, <1>16
    <3>2. On(d, tg, rp)
      BY DEF Beside
    <3>3. y \in Node /\ tg \in Node /\ rp \in Node
      BY <3>1, <1>1, <1>2
    <3>4. \A v \in Node : On(d, y, tg) /\ On(d, tg, v) => On(d, y, v)
      BY <3>3, Order
    <3> QED BY <2>1, <3>1, <3>2, <3>3, <3>4
  <2>2. CASE x = rp /\ s # d
    <3>1. s = Opposite(d)
      BY <2>2, Sides
    <3>2. y \in sub[a] /\ y # rp
      BY <2>2, <3>1, <1>4, <1>11, <1>16
    <3>3. On(Opposite(d), y, tg) /\ y \in M
      BY <3>2, <1>2, <1>3, <1>15
    <3>4. ~On(d, y, rp)
      BY <3>3 DEF Beside
    <3> QED BY <2>2, <3>1, <3>2, <3>3, <3>4, <1>1, <1>2, Order
  <2>3. CASE x # rp /\ x = p /\ h.kid[s][x] = tg /\ g.kid[s][x] = rp
    <3>1. y \in sub[tg]
      BY <2>3, <1>6, <1>16
    <3> QED BY <2>3, <3>1, <1>15
  <2>4. CASE x # rp /\ h.kid[s][x] = rp /\ g.kid[s][x] = k
    <3>1. y \in sub[rp]
      BY <2>4, <1>2, <1>10, <1>16
    <3> QED BY <2>4, <3>1, <1>15
  <2>5. CASE x # rp /\ g.kid[s][x] = h.kid[s][x] /\ h.kid[s][x] # tg /\ h.kid[s][x] # rp
    <3>1. y \in sub[h.kid[s][x]]
      BY <2>5, <1>6, <1>12, <1>16
    <3> QED BY <3>1, <1>15
  <2> QED BY <2>1, <2>2, <2>3, <2>4, <2>5, <1>4, <1>16
<1>17. Sorted(g, M \ {tg}, sb)
  <2>1. \A x \in M \ {tg} : sb[x] = {x} \cup sb[g.kid["left"][x]] \cup sb[g.kid["right"][x]]
    BY <1>14, Sides
  <2> QED BY <2>1, <1>16 DEF Sorted
<1>18. LinkedUp(g, M \ {tg}, z) /\ g \in Heap
  <2>1. LinkedUp(g, M \ {tg}, SpliceRoot(r, rp, tg))
    BY SpliceLinks
  <2>2. g \in Heap
    BY DEF SpliceIs
  <2> QED BY <2>1, <2>2, <1>8
<1>19. Tree(g, M \ {tg}, z, sb)
  BY <1>1, <1>6, <1>7, <1>9, <1>17, <1>18 DEF Tree
<1> QED BY <1>5, <1>8, <1>19

-----------------------------------------------------------------------------
(* The exchange: levels and colours.                                       *)

LEMMA SpliceLevel ==
  ASSUME NEW h, NEW M, NEW r, NEW sub, Tree(h, M, r, sub), NEW rp, NEW tg, NEW d \in Side,
         NEW a, NEW b, NEW k, NEW p, NEW q, SpliceAround(h, rp, tg, d, a, b, k, p, q),
         SplicePlace(h, M, r, sub, rp, tg, d, a, b, k, p, q),
         NEW c, q = tg => c = k, q # tg => c = a,
         NEW g, SpliceIs(h, rp, tg, d, b, c, k, p, q, TRUE, g),
         NEW ap, Level(h, M, ap, Weight(h, rp, Null)), h.black[tg]
  PROVE  Level(g, M \ {tg}, [ap EXCEPT ![rp] = ap[tg]], Weight(g, Null, Null))
<1>1. /\ h \in Heap /\ M \subseteq Node /\ Null \notin M /\ Null \in Pointer /\ M \subseteq Pointer
  BY NullFacts DEF Tree
<1>2. /\ Opposite(d) \in Side /\ h.kid[d][rp] = Null
      /\ tg \in M /\ rp \in M /\ rp # tg /\ q \in M
      /\ a \in M
      /\ q = tg <=> a = rp
      /\ b # rp /\ b \in Pointer /\ k # rp /\ k \in Pointer
  BY DEF SplicePlace
<1>3. /\ a = h.kid[Opposite(d)][tg] /\ b = h.kid[d][tg] /\ k = h.kid[Opposite(d)][rp]
  BY DEF SpliceAround
<1>4. /\ g.kid[d][rp] = b /\ g.kid[Opposite(d)][rp] = c
      /\ \A x \in M, t \in Side : x # tg /\ x # rp =>
              \/ x = p /\ t = SideOf(h, tg) /\ h.kid[t][x] = tg /\ g.kid[t][x] = rp
              \/ x = q /\ t = d /\ h.kid[t][x] = rp /\ g.kid[t][x] = k
              \/ g.kid[t][x] = h.kid[t][x] /\ h.kid[t][x] # tg /\ h.kid[t][x] # rp
  <2>1. SpliceKidsAre(h, M, r, rp, tg, d, b, c, k, p, q, g)
    BY SpliceKids
  <2> QED BY <2>1 DEF SpliceKidsAre
<1>5. PICK w, w2 : w = Weight(h, rp, Null) /\ w2 = Weight(g, Null, Null)
  OBVIOUS
<1>6. w \in [Node -> Nat] /\ w2 \in [Node -> Nat]
  BY <1>5, WeightType
<1>7. g.black[rp] /\ \A x \in M : x # tg /\ x # rp => (g.black[x] <=> h.black[x])
  <2>1. \A x \in M : x # tg => g.black[x] = IF x = rp THEN TRUE ELSE h.black[x]
    BY <1>1 DEF SpliceIs
  <2> QED BY <2>1, <1>2
<1>8. /\ w[tg] = 1 /\ w[rp] = 0 /\ w2[rp] = 1
      /\ \A x \in M : x # tg /\ x # rp => w2[x] = w[x]
  <2>1. \A x \in M : /\ w[x] = (IF h.black[x] /\ x # rp THEN 1 ELSE 0) + (IF x = Null THEN 1 ELSE 0)
                     /\ w2[x] = (IF g.black[x] /\ x # Null THEN 1 ELSE 0) + (IF x = Null THEN 1 ELSE 0)
    BY <1>1, <1>5 DEF Weight
  <2>2. w[tg] = 1 /\ w[rp] = 0 /\ w2[rp] = 1
    BY <2>1, <1>1, <1>2, <1>7
  <2>3. \A x \in M : x # tg /\ x # rp => w2[x] = w[x]
    BY <2>1, <1>1, <1>7
  <2> QED BY <2>2, <2>3
<1>9. /\ ap \in [Pointer -> Nat] /\ ap[Null] = 0
      /\ \A x \in M, s \in Side : ap[x] = ap[h.kid[s][x]] + w[x]
  BY <1>5 DEF Level
<1>10. /\ ap[rp] = 0 /\ ap[k] = 0 /\ ap[tg] = ap[a] + 1 /\ ap[tg] = ap[b] + 1
       /\ ap[a] \in Nat /\ ap[b] \in Nat /\ ap[tg] \in Nat /\ ap[k] \in Nat
  <2>1. /\ ap[a] \in Nat /\ ap[b] \in Nat /\ ap[tg] \in Nat /\ ap[k] \in Nat /\ ap[rp] \in Nat
    BY <1>1, <1>2, <1>9
  <2>2. /\ ap[rp] = ap[Null] + w[rp] /\ ap[rp] = ap[k] + w[rp]
        /\ ap[tg] = ap[a] + w[tg] /\ ap[tg] = ap[b] + w[tg]
    BY <1>2, <1>3, <1>9
  <2> QED BY <2>1, <2>2, <1>8, <1>9
<1>11. PICK lv : lv = [ap EXCEPT ![rp] = ap[tg]]
  OBVIOUS
<1>12. /\ lv \in [Pointer -> Nat] /\ lv[Null] = 0 /\ lv[rp] = ap[tg]
       /\ \A x \in Pointer : x # rp => lv[x] = ap[x]
  BY <1>1, <1>2, <1>9, <1>10, <1>11
<1>13. lv[b] = ap[b] /\ lv[c] = ap[a] /\ lv[k] = 0
  <2>1. lv[b] = ap[b] /\ lv[k] = 0
    BY <1>2, <1>10, <1>12
  <2>2. CASE q = tg
    BY <2>1, <2>2, <1>2, <1>10
  <2>3. CASE q # tg
    <3>1. c = a /\ a # rp /\ a \in Pointer
      BY <2>3, <1>1, <1>2
    <3> QED BY <2>1, <3>1, <1>12
  <2> QED BY <2>1, <2>2, <2>3
<1>14. ASSUME NEW x \in M \ {tg}, NEW s \in Side PROVE lv[x] = lv[g.kid[s][x]] + w2[x]
  <2>1. CASE x = rp
    <3>1. s = d \/ s = Opposite(d)
      BY Sides
    <3>2. g.kid[s][x] = b \/ g.kid[s][x] = c
      BY <3>1, <2>1, <1>4
    <3> QED BY <2>1, <3>2, <1>8, <1>10, <1>12, <1>13
  <2>2. CASE x # rp /\ h.kid[s][x] = tg /\ g.kid[s][x] = rp
    BY <2>2, <1>1, <1>8, <1>9, <1>12, <1>14
  <2>3. CASE x # rp /\ h.kid[s][x] = rp /\ g.kid[s][x] = k
    BY <2>3, <1>1, <1>8, <1>9, <1>10, <1>12, <1>13, <1>14
  <2>4. CASE x # rp /\ g.kid[s][x] = h.kid[s][x] /\ h.kid[s][x] # rp
    <3>1. h.kid[s][x] \in Pointer
      BY <1>1, HeapFields
    <3> QED BY <2>4, <3>1, <1>1, <1>8, <1>9, <1>12, <1>14
  <2> QED BY <2>1, <2>2, <2>3, <2>4, <1>4, <1>14
<1>15. Level(g, M \ {tg}, lv, w2)
  BY <1>12, <1>14 DEF Level
<1> QED BY <1>5, <1>11, <1>15

LEMMA SpliceColours ==
  ASSUME NEW h, NEW M, NEW r, NEW sub, Tree(h, M, r, sub), NEW rp, NEW tg, NEW d \in Side,
         NEW a, NEW b, NEW k, NEW p, NEW q, SpliceAround(h, rp, tg, d, a, b, k, p, q),
         SplicePlace(h, M, r, sub, rp, tg, d, a, b, k, p, q),
         NEW c, q = tg => c = k, q # tg => c = a,
         NEW g, SpliceIs(h, rp, tg, d, b, c, k, p, q, TRUE, g),
         Coloured(h, M, r, {}), h.black[q]
  PROVE  Coloured(g, M \ {tg}, SpliceRoot(r, rp, tg), {})
<1>1. M \subseteq Node /\ r \in M
  BY DEF Tree
<1>2. tg \in M /\ rp \in M /\ rp # tg /\ rp # r /\ q \in M /\ q # rp
  BY DEF SplicePlace
<1>3. g.black[rp] /\ \A x \in M : x # tg /\ x # rp => (g.black[x] <=> h.black[x])
  <2>1. \A x \in M : x # tg => g.black[x] = IF x = rp THEN TRUE ELSE h.black[x]
    BY <1>1 DEF SpliceIs
  <2> QED BY <2>1, <1>2
<1>4. PICK z : z = SpliceRoot(r, rp, tg)
  OBVIOUS
<1>5. SpliceUpsAre(h, M, r, rp, tg, k, q, g) /\ LinkedUp(g, M \ {tg}, SpliceRoot(r, rp, tg))
  BY SpliceLinks
<1>6. g.black[z]
  BY <1>1, <1>2, <1>3, <1>4 DEF SpliceRoot, Coloured
<1>7. ASSUME NEW x \in M \ {tg}, x # z PROVE g.black[x] \/ g.black[g.up[x]]
  <2>1. g.up[x] = rp \/ x = rp \/ (x = k /\ g.up[x] = q) \/ (x # r /\ g.up[x] = h.up[x])
    BY <1>4, <1>5, <1>7 DEF SpliceUpsAre
  <2>2. g.up[x] \in M \ {tg}
    BY <1>4, <1>5, <1>7 DEF LinkedUp
  <2>3. CASE g.up[x] = rp \/ x = rp
    BY <2>3, <1>3
  <2>4. CASE g.up[x] = q
    BY <2>2, <2>4, <1>2, <1>3
  <2>5. CASE x # rp /\ g.up[x] # rp /\ x # r /\ g.up[x] = h.up[x]
    <3>1. h.black[x] \/ h.black[h.up[x]]
      BY <2>5 DEF Coloured
    <3> QED BY <2>2, <2>5, <3>1, <1>3
  <2> QED BY <2>1, <2>3, <2>4, <2>5
<1>8. Coloured(g, M \ {tg}, z, {})
  BY <1>6, <1>7 DEF Coloured
<1> QED BY <1>4, <1>8

(* "remove it from the old position", "install it into the new position"   *)
(* The exchange keeps the tree, whatever colour the replacement is given.  *)
LEMMA SpliceKeeps ==
  ASSUME NEW h, NEW M, NEW r, NEW sub, Tree(h, M, r, sub), NEW rp, direction \in Side,
         Beside(h, M, sub, rp, target, direction), NEW v \in BOOLEAN, NEW h0, BlackIs(h, rp, v, h0)
  PROVE  /\ target \in M /\ rp \in M \ {target}
         /\ \E z, sb : Tree(PutInPlace(TakeOut(h0, rp), rp), M \ {target}, z, sb)
<1>1. PICK a, b, k, p, q : SpliceAround(h, rp, target, direction, a, b, k, p, q)
  BY DEF SpliceAround
<1>3. PICK c : c = IF q = target THEN k ELSE a
  OBVIOUS
<1>4. SplicePlace(h, M, r, sub, rp, target, direction, a, b, k, p, q)
  BY <1>1, SpliceSetting
<1>5. target \in M /\ rp \in M /\ rp # target
  BY <1>4 DEF SplicePlace
<1>6. PICK g : g = PutInPlace(TakeOut(h0, rp), rp)
  OBVIOUS
<1>7. SpliceIs(h, rp, target, direction, b, c, k, p, q, v, g)
  BY <1>1, <1>3, <1>4, <1>5, <1>6, SpliceFields
<1>8. Tree(g, M \ {target}, SpliceRoot(r, rp, target), SpliceSub(sub, rp, target))
  <2>1. (q = target => c = k) /\ (q # target => c = a)
    BY <1>3
  <2> QED BY <2>1, <1>1, <1>4, <1>7, SpliceSorted
<1> QED BY <1>5, <1>6, <1>8

(* The right colour for it keeps the red-black tree.                       *)
LEMMA SpliceDone ==
  ASSUME NEW h, NEW M, NEW r, NEW sub, NEW ap, NEW rp, direction \in Side,
         SpliceAt(h, M, r, sub, ap, rp, target, direction), NEW h0, BlackIs(h, rp, TRUE, h0)
  PROVE  /\ target \in M /\ rp \in M \ {target}
         /\ \E z, sb, lv : Settled(PutInPlace(TakeOut(h0, rp), rp), M \ {target}, z, sb, lv)
<1>1. /\ Tree(h, M, r, sub) /\ Level(h, M, ap, Weight(h, rp, Null)) /\ Coloured(h, M, r, {})
      /\ Beside(h, M, sub, rp, target, direction) /\ h.black[h.up[rp]] /\ h.black[target]
  BY DEF SpliceAt
<1>2. PICK a, b, k, p, q : SpliceAround(h, rp, target, direction, a, b, k, p, q)
  BY DEF SpliceAround
<1>3. PICK c : (q = target => c = k) /\ (q # target => c = a)
  <2>1. CASE q = target
    BY <2>1
  <2>2. CASE q # target
    BY <2>2
  <2> QED BY <2>1, <2>2
<1>4. SplicePlace(h, M, r, sub, rp, target, direction, a, b, k, p, q)
  BY <1>1, <1>2, SpliceSetting
<1>5. target \in M /\ rp \in M /\ rp # target
  BY <1>4 DEF SplicePlace
<1>6. PICK g : g = PutInPlace(TakeOut(h0, rp), rp)
  OBVIOUS
<1>7. SpliceIs(h, rp, target, direction, b, c, k, p, q, TRUE, g)
  <2>1. c = (IF q = target THEN k ELSE a)
    BY <1>3
  <2> QED BY <2>1, <1>1, <1>2, <1>4, <1>5, <1>6, SpliceFields
<1>8. Tree(g, M \ {target}, SpliceRoot(r, rp, target), SpliceSub(sub, rp, target))
  BY <1>1, <1>2, <1>3, <1>4, <1>7, SpliceSorted
<1>9. Level(g, M \ {target}, [ap EXCEPT ![rp] = ap[target]], Weight(g, Null, Null))
  BY <1>1, <1>2, <1>3, <1>4, <1>7, SpliceLevel
<1>10. Coloured(g, M \ {target}, SpliceRoot(r, rp, target), {})
  <2>1. h.black[q]
    BY <1>1, <1>2 DEF SpliceAround
  <2> QED BY <2>1, <1>1, <1>2, <1>3, <1>4, <1>7, SpliceColours
<1>11. \E z, sb, lv : Settled(g, M \ {target}, z, sb, lv)
  BY <1>8, <1>9, <1>10 DEF Settled
<1> QED BY <1>5, <1>6, <1>11

-----------------------------------------------------------------------------
(* The steps of tree_insert.                                               *)

LEMMA RootAbove ==
  ASSUME NEW h, NEW M, NEW r, NEW sub, Tree(h, M, r, sub), NEW x \in M, NEW s \in Side
  PROVE  r \notin sub[h.kid[s][x]]
<1> SUFFICES ASSUME r \in sub[h.kid[s][x]] PROVE FALSE
  OBVIOUS
<1>1. h.kid[s][x] # Null
  BY DEF Tree
<1>2. h.kid[s][x] \in M /\ h.kid[s][x] # r
  BY <1>1, KidFacts
<1>3. h.up[r] \in M
  BY <1>2, UpClosed, TreeFinite
<1> QED BY <1>3, NullFacts DEF Tree, LinkedUp

LEMMA RootUp ==
  ASSUME NEW h, NEW M, NEW r, NEW sub, Tree(h, M, r, sub), NEW x \in M
  PROVE  /\ x = r <=> h.up[x] = Null
         /\ h.up[x] # Null => h.up[x] \in M
BY UpFacts, NullFacts DEF Tree, LinkedUp

(* A node below x and on one side of it is below the child on that side.   *)
LEMMA SideBelow ==
  ASSUME NEW h, NEW M, NEW r, NEW sub, Tree(h, M, r, sub), NEW x \in M, NEW s \in Side,
         NEW y \in sub[x], On(s, y, x)
  PROVE  y \in sub[h.kid[s][x]]
<1>1. y \in M /\ y \in Node /\ x \in Node
  BY TreeFinite DEF Tree
<1>2. y # x /\ ~On(Opposite(s), y, x)
  BY <1>1, Order
<1>3. y \notin sub[h.kid[Opposite(s)][x]]
  BY <1>2, Sides DEF Tree, Sorted
<1> QED BY <1>2, <1>3, SubOf

LEMMA InitInv == Init => Inv
<1> SUFFICES ASSUME Init PROVE Inv
  OBVIOUS
<1>1. nodes \in Heap
  BY NullFacts DEF Init, Blank, Heap
<1>2. Typed
  BY <1>1, NullFacts, Sides DEF Init, Typed
<1>3. Phase
  BY DEF Init, Phase
<1> QED BY <1>2, <1>3 DEF Inv

LEMMA InsertFirstInv ==
  ASSUME Inv, NEW n \in Node \ members, InsertFirst(n)
  PROVE  Inv'
<1>1. /\ nodes \in Heap /\ pc = "idle" /\ tree = Null
      /\ nodes' = Leaf(nodes, n, Null, TRUE) /\ tree' = n /\ members' = members \cup {n}
      /\ pc' = pc /\ call' = call /\ miscoloured' = miscoloured
  BY DEF Inv, Typed, InsertFirst
<1>2. members = {}
  <2>1. \A sub, ap : Grown(miscoloured, nodes, members, tree, sub, ap) => FALSE
    BY <1>1, NullFacts DEF Grown, Tree
  <2> QED BY <2>1, <1>1 DEF Inv, Phase
<1>3. PICK g : g = Leaf(nodes, n, Null, TRUE)
  OBVIOUS
<1>4. LeafIs(nodes, n, Null, TRUE, g)
  BY <1>1, <1>3, NullFacts, LeafFields
<1>5. g \in Heap /\ nodes' = g
  BY <1>1, <1>3, <1>4 DEF LeafIs
<1>6. PICK sub, ap : Settled(g, {n}, n, sub, ap)
  BY <1>4, FirstNode
<1>7. Typed'
  <2>1. tree' \in Pointer /\ nodes' \in Heap /\ members' \subseteq Node
    BY <1>1, <1>2, <1>5, NullFacts
  <2> QED BY <2>1, <1>1 DEF Inv, Typed, call
<1>8. Grown(miscoloured', nodes', members', tree', sub, ap)
  BY <1>1, <1>2, <1>5, <1>6 DEF Grown, Settled
<1>9. Phase'
  BY <1>1, <1>8 DEF Phase
<1> QED BY <1>7, <1>9 DEF Inv

LEMMA InsertInv ==
  ASSUME Inv, NEW n \in Node \ members, Insert(n)
  PROVE  Inv'
<1>1. /\ pc = "idle" /\ tree # Null /\ in' = n /\ curr' = tree /\ pc' = "descend"
      /\ tree' = tree /\ nodes' = nodes /\ target' = target /\ fix' = fix
      /\ replacement' = replacement /\ direction' = direction /\ members' = members
      /\ miscoloured' = miscoloured
  BY DEF Insert
<1>2. PICK sub, ap : Grown(miscoloured, nodes, members, tree, sub, ap)
  BY <1>1 DEF Inv, Phase
<1>3. Tree(nodes, members, tree, sub) /\ tree \in members
  BY <1>2 DEF Grown, Tree
<1>4. \A a \in members, s \in Side : tree \notin sub[nodes.kid[s][a]]
  BY <1>3, RootAbove
<1>5. Descending(sub, ap)'
  BY <1>1, <1>2, <1>3, <1>4 DEF Descending
<1>6. Typed'
  <2>1. n \in Pointer /\ n # Null
    BY NullFacts
  <2> QED BY <2>1, <1>1 DEF Inv, Typed
<1>7. Phase'
  BY <1>1, <1>5 DEF Phase
<1> QED BY <1>6, <1>7 DEF Inv

LEMMA InsertSideOn ==
  ASSUME curr \in Node, in \in Node, curr # in
  PROVE  InsertSide \in Side /\ On(InsertSide, in, curr)
BY NodeAssumption, Sides DEF InsertSide, On

LEMMA DescendInv ==
  ASSUME Inv, Descend
  PROVE  Inv'
<1>1. /\ pc = "descend" /\ tree' = tree /\ in' = in /\ target' = target /\ fix' = fix
      /\ replacement' = replacement /\ direction' = direction /\ members' = members
      /\ miscoloured' = miscoloured
  BY DEF Descend
<1>2. PICK sub, ap : Descending(sub, ap)
  BY <1>1 DEF Inv, Phase
<1>3. /\ Grown(miscoloured, nodes, members, tree, sub, ap) /\ Tree(nodes, members, tree, sub)
      /\ in \in Node \ members /\ curr \in members /\ members \subseteq Node /\ nodes \in Heap
      /\ \A a \in members, s \in Side : curr \in sub[nodes.kid[s][a]] => On(s, in, a)
  BY <1>2 DEF Descending, Grown, Tree
<1>4. PICK t, k : t \in Side /\ t = InsertSide /\ k = nodes.kid[t][curr] /\ On(t, in, curr)
  BY <1>3, InsertSideOn
<1>5. CASE k # Null
  <2>1. curr' = k /\ nodes' = nodes /\ pc' = pc
    BY <1>4, <1>5 DEF Descend
  <2>2. k \in members /\ nodes.up[k] = curr /\ SideOf(nodes, k) = t
    BY <1>3, <1>4, <1>5, KidFacts
  <2>3. ASSUME NEW a \in members, NEW s \in Side, k \in sub[nodes.kid[s][a]]
        PROVE  On(s, in, a)
    <3>1. nodes.kid[s][a] # Null
      BY <2>3, <1>3 DEF Tree
    <3>2. nodes.kid[s][a] \in members /\ nodes.up[nodes.kid[s][a]] = a /\ SideOf(nodes, nodes.kid[s][a]) = s
      BY <3>1, <1>3, KidFacts
    <3>3. CASE k = nodes.kid[s][a]
      BY <2>2, <3>2, <3>3, <1>4
    <3>4. CASE k # nodes.kid[s][a]
      <4>1. curr \in sub[nodes.kid[s][a]]
        BY <2>2, <2>3, <3>2, <3>4, <1>3, UpClosed
      <4> QED BY <4>1, <1>3
    <3> QED BY <3>3, <3>4
  <2>4. Descending(sub, ap)'
    BY <2>1, <2>2, <2>3, <1>1, <1>3 DEF Descending
  <2>5. Phase'
    BY <2>1, <2>4, <1>1 DEF Phase
  <2>6. Typed'
    <3>1. k \in Pointer
      BY <2>2, <1>3, NullFacts
    <3> QED BY <2>1, <3>1, <1>1 DEF Inv, Typed
  <2> QED BY <2>5, <2>6 DEF Inv
<1>6. CASE k = Null
  <2>1. /\ nodes' = SetKid(Leaf(nodes, in, curr, FALSE), curr, t, in) /\ curr' = in /\ pc' = "heat"
    BY <1>4, <1>6 DEF Descend
  <2>2. PICK f : f = Leaf(nodes, in, curr, FALSE)
    OBVIOUS
  <2>3. PICK g : g = SetKid(f, curr, t, in)
    OBVIOUS
  <2>4. curr \in Pointer /\ in \in Pointer /\ in # Null
    BY <1>3, NullFacts
  <2>5. LeafIs(nodes, in, curr, FALSE, f)
    BY <2>2, <2>4, <1>3, LeafFields
  <2>6. f \in Heap
    BY <2>5 DEF LeafIs
  <2>7. KidIs(f, curr, t, in, g)
    BY <1>4, <2>3, <2>4, <2>6, SetKidFields
  <2>8. g \in Heap
    BY <2>7 DEF KidIs
  <2>9. nodes' = g
    BY <2>1, <2>2, <2>3
  <2>10. PICK sb, lv : /\ Tree(g, members \cup {in}, tree, sb)
                       /\ ~miscoloured => HeatAt(g, members \cup {in}, tree, lv, in)
    <3>1. nodes.kid[t][curr] = Null
      BY <1>4, <1>6
    <3>2. /\ \E sb : Tree(g, members \cup {in}, tree, sb)
          /\ ~g.black[in]
          /\ Coloured(nodes, members, tree, {}) => Coloured(g, members \cup {in}, tree, {in})
          /\ Level(nodes, members, ap, Weight(nodes, Null, Null))
                => \E lv : Level(g, members \cup {in}, lv, Weight(g, Null, Null))
      BY <2>5, <2>7, <3>1, <1>3, <1>4, NewNode
    <3>3. ~miscoloured => \E lv : HeatAt(g, members \cup {in}, tree, lv, in)
      BY <3>2, <1>3 DEF Grown, Settled, HeatAt
    <3> QED BY <3>2, <3>3
  <2>11. Heating(tree, sb, lv)'
    BY <2>1, <2>9, <2>10, <1>1, <1>3 DEF Heating
  <2>12. Phase'
    BY <2>1, <2>11, <1>1 DEF Phase
  <2>13. Typed'
    BY <2>1, <2>4, <2>8, <2>9, <1>1 DEF Inv, Typed
  <2> QED BY <2>12, <2>13 DEF Inv
<1> QED BY <1>5, <1>6

(* "transfer heat up the tree": the colours.                               *)
CoolIs(h, g, a, b, f0, f) ==
    /\ f0 = [h EXCEPT !.black[a] = TRUE, !.black[b] = TRUE]
    /\ f = IF h.up[g] # Null THEN [f0 EXCEPT !.black[g] = FALSE] ELSE f0

LEMMA CoolFields ==
  ASSUME NEW h \in Heap, NEW M, M \subseteq Node, NEW r, NEW g \in M, NEW a \in M, NEW b \in M,
         g = r <=> h.up[g] = Null, h.black[g], g # a, g # b,
         NEW f0, NEW f, CoolIs(h, g, a, b, f0, f)
  PROVE  Cooled(h, f, M, r, g, a, b)
<1>1. PICK f1 : f1 = [h EXCEPT !.black[a] = TRUE]
  OBVIOUS
<1>2. BlackIs(h, a, TRUE, f1)
  BY <1>1, SetBlackFields
<1>3. f1 \in Heap
  BY <1>2 DEF BlackIs
<1>4. f0 = [f1 EXCEPT !.black[b] = TRUE]
  BY <1>1 DEF CoolIs
<1>5. BlackIs(f1, b, TRUE, f0)
  BY <1>3, <1>4, SetBlackFields
<1>6. f0 \in Heap
  BY <1>5 DEF BlackIs
<1>7. CASE h.up[g] # Null
  <2>1. BlackIs(f0, g, FALSE, f)
    BY <1>6, <1>7, SetBlackFields DEF CoolIs
  <2>2. SameLinks(h, f, M)
    BY <2>1, <1>2, <1>5 DEF BlackIs, SameLinks
  <2>3. f1.black[a] /\ \A x \in M : x # a => f1.black[x] = h.black[x]
    BY <1>2 DEF BlackIs
  <2>4. f0.black[b] /\ \A x \in M : x # b => f0.black[x] = f1.black[x]
    BY <1>5 DEF BlackIs
  <2>5. ~f.black[g] /\ \A x \in M : x # g => f.black[x] = f0.black[x]
    BY <2>1 DEF BlackIs
  <2>6. f0.black[a] /\ f0.black[b] /\ \A x \in M : x # a /\ x # b => f0.black[x] = h.black[x]
    BY <2>3, <2>4
  <2>7. /\ f.black[a] /\ f.black[b]
        /\ \A x \in M : x \notin {a, b, g} => f.black[x] = h.black[x]
    BY <2>5, <2>6
  <2> QED BY <2>2, <2>5, <2>7, <1>7 DEF Cooled
<1>8. CASE h.up[g] = Null
  <2>1. BlackIs(f1, b, TRUE, f)
    BY <1>5, <1>8 DEF CoolIs
  <2>2. SameLinks(h, f, M)
    BY <2>1, <1>2 DEF BlackIs, SameLinks
  <2> QED BY <2>1, <2>2, <1>2, <1>8 DEF BlackIs, Cooled
<1> QED BY <1>7, <1>8

LEMMA CoolLinks ==
  ASSUME NEW h \in Heap, NEW M, M \subseteq Node, NEW g \in M, NEW a \in M, NEW b \in M,
         NEW f0, NEW f, CoolIs(h, g, a, b, f0, f)
  PROVE  SameLinks(h, f, M)
<1>1. PICK f1 : f1 = [h EXCEPT !.black[a] = TRUE]
  OBVIOUS
<1>2. BlackIs(h, a, TRUE, f1)
  BY <1>1, SetBlackFields
<1>3. f1 \in Heap /\ f0 = [f1 EXCEPT !.black[b] = TRUE]
  BY <1>1, <1>2 DEF BlackIs, CoolIs
<1>4. BlackIs(f1, b, TRUE, f0)
  BY <1>3, SetBlackFields
<1>5. f0 \in Heap
  BY <1>4 DEF BlackIs
<1>6. CASE h.up[g] # Null
  <2>1. BlackIs(f0, g, FALSE, f)
    BY <1>5, <1>6, SetBlackFields DEF CoolIs
  <2> QED BY <2>1, <1>2, <1>4 DEF BlackIs, SameLinks
<1>7. CASE h.up[g] = Null
  <2>1. f = f0
    BY <1>7 DEF CoolIs
  <2> QED BY <2>1, <1>2, <1>4 DEF BlackIs, SameLinks
<1> QED BY <1>6, <1>7

LEMMA HeatInv ==
  ASSUME Inv, Heat
  PROVE  Inv'
<1>1. /\ pc = "heat" /\ tree' = tree /\ in' = in /\ target' = target /\ fix' = fix
      /\ replacement' = replacement /\ direction' = direction /\ members' = members
      /\ miscoloured' = miscoloured
  BY DEF Heat
<1>2. PICK r, sub, ap : Heating(r, sub, ap)
  BY <1>1 DEF Inv, Phase
<1>3. PICK M : M = members \cup {in}
  OBVIOUS
<1>4. /\ in \in Node /\ curr \in M /\ Tree(nodes, M, r, sub)
      /\ ~miscoloured => HeatAt(nodes, M, r, ap, curr)
      /\ M \subseteq Node /\ nodes \in Heap
  BY <1>2, <1>3 DEF Heating, Tree
<1>5. Typed
  BY DEF Inv
<1>6. ASSUME NEW z, NEW sb, NEW lv, Grown(miscoloured, nodes', M, z, sb, lv), curr' \in M, pc' = "rise"
      PROVE  Inv'
  <2>1. Rising(z, sb, lv)'
    BY <1>1, <1>3, <1>4, <1>6 DEF Rising
  <2>2. Phase'
    BY <2>1, <1>6 DEF Phase
  <2>3. nodes' \in Heap /\ curr' \in Pointer /\ in # Null
    BY <1>4, <1>6, NullFacts DEF Grown, Tree
  <2>4. Typed'
    BY <2>3, <1>1, <1>5, <1>6 DEF Typed
  <2> QED BY <2>2, <2>4 DEF Inv
<1>7. CASE Cool
  <2>1. IsBlack(nodes, nodes.up[curr]) /\ pc' = "rise" /\ nodes' = nodes /\ curr' = curr
    BY <1>7 DEF Cool
  <2>2. curr # r => nodes.up[curr] # Null
    BY <1>4, RootUp
  <2>3. ~miscoloured => Coloured(nodes, M, r, {})
    BY <2>1, <2>2, <1>4 DEF Coloured, IsBlack, HeatAt
  <2>4. Grown(miscoloured, nodes', M, r, sub, ap)
    BY <2>1, <2>3, <1>4 DEF Grown, Settled, HeatAt
  <2> QED BY <2>1, <2>4, <1>4, <1>6
<1>8. ASSUME Hot, nodes.up[nodes.up[curr]] # Null, IsBlack(nodes, uncle_node(nodes, curr)), InsertRotate
      PROVE  Inv'
  <2>1. PICK p, g, s : p = nodes.up[curr] /\ g = nodes.up[p] /\ s = SideOf(nodes, p)
    OBVIOUS
  <2>2. PICK f : f = IF SideOf(nodes, curr) = s THEN nodes ELSE RotateUnder(nodes, p, Opposite(s))
    OBVIOUS
  <2>3. nodes' = RotateUnder(f, g, s) /\ curr' = f.kid[s][g] /\ pc' = "rise"
    BY <2>1, <2>2, <1>8 DEF InsertRotate
  <2>4. ~IsBlack(nodes, nodes.up[curr]) /\ p # Null /\ g # Null
    BY <2>1, <1>8 DEF Hot, IsBlack
  <2>5. /\ f.kid[s][g] \in M
        /\ \E q, sb : Tree(RotateUnder(f, g, s), M, q, sb)
    <3>1. Tree(nodes, M, r, sub) /\ curr \in M /\ p # Null /\ g # Null
      BY <2>4, <1>4
    <3>2. /\ SideOf(nodes, curr) = s => f = nodes
          /\ SideOf(nodes, curr) # s => f = RotateUnder(nodes, p, Opposite(s))
      BY <2>2
    <3> QED BY <2>1, <3>1, <3>2, InsertTurnTree
  <2>6. ASSUME ~miscoloured
        PROVE  \E q, sb, lv : Settled(RotateUnder(f, g, s), M, q, sb, lv)
    BY <2>1, <2>2, <2>4, <2>6, <1>4, <1>8, InsertTurn DEF HeatAt
  <2>7. \E q, sb, lv : Grown(miscoloured, RotateUnder(f, g, s), M, q, sb, lv)
    <3>1. CASE miscoloured
      BY <2>5, <3>1 DEF Grown
    <3>2. CASE ~miscoloured
      BY <2>6, <3>2 DEF Grown, Settled
    <3> QED BY <3>1, <3>2
  <2> QED BY <2>3, <2>5, <2>7, <1>6
<1>9. ASSUME Hot, nodes.up[nodes.up[curr]] # Null, ~IsBlack(nodes, uncle_node(nodes, curr)), TransferHeat
      PROVE  Inv'
  <2>1. PICK p, g, s : p = nodes.up[curr] /\ g = nodes.up[p] /\ s = SideOf(nodes, p)
    OBVIOUS
  <2>2. /\ p \in M /\ g \in M /\ s \in Side /\ nodes.kid[s][g] = p /\ p # Null /\ ~nodes.black[p]
        /\ ~IsBlack(nodes, nodes.up[curr])
    <3>1. ~IsBlack(nodes, nodes.up[curr]) /\ p # Null /\ g # Null /\ ~nodes.black[p]
      BY <2>1, <1>9 DEF Hot, IsBlack
    <3> QED BY <2>1, <3>1, <1>4, InsertTurnTree
  <2>3. PICK b : b = nodes.kid[Opposite(s)][g]
    OBVIOUS
  <2>4. b # Null /\ ~nodes.black[b]
    BY <2>1, <2>3, <1>9 DEF uncle_node, IsBlack
  <2>5. Opposite(s) \in Side
    BY <2>2, Sides
  <2>6. b \in M
    BY <2>2, <2>3, <2>4, <2>5, <1>4, KidFacts
  <2>7. PICK a, e : a = nodes.kid["left"][g] /\ e = nodes.kid["right"][g]
    OBVIOUS
  <2>8. (a = p /\ e = b) \/ (a = b /\ e = p)
    <3>1. s = "left" \/ s = "right"
      BY <2>2 DEF Side
    <3> QED BY <3>1, <2>2, <2>3, <2>7, Sides
  <2>9. a \in M /\ e \in M /\ ~nodes.black[a] /\ ~nodes.black[e] /\ a # Null /\ e # Null /\ p \in {a, e}
    BY <2>2, <2>4, <2>6, <2>8
  <2>10. PICK f0, f : CoolIs(nodes, g, a, e, f0, f)
    BY DEF CoolIs
  <2>11. Tree(f, M, r, sub)
    BY <2>2, <2>9, <2>10, <1>4, CoolLinks, SameTree
  <2>12. nodes' = f /\ curr' = g /\ pc' = pc
    BY <2>1, <2>7, <2>10, <1>9 DEF TransferHeat, CoolIs
  <2>13. ASSUME ~miscoloured PROVE \E lv : HeatAt(f, M, r, lv, g)
    <3>1. /\ Coloured(nodes, M, r, {curr}) /\ Level(nodes, M, ap, Weight(nodes, Null, Null))
      BY <2>13, <1>4 DEF HeatAt
    <3>2. nodes.black[g]
      BY <2>1, <2>2, <3>1, <1>4, RedParent
    <3>3. g = r <=> nodes.up[g] = Null
      BY <2>2, <1>4, RootUp
    <3>4. g # a /\ g # e
      BY <2>9, <3>2
    <3>5. Cooled(nodes, f, M, r, g, a, e)
      BY <2>2, <2>9, <2>10, <3>2, <3>3, <3>4, <1>4, CoolFields
    <3>6. "left" \in Side /\ Opposite("left") = "right"
      BY Sides
    <3>7. /\ Coloured(f, M, r, {g})
          /\ \E lv : Level(f, M, lv, Weight(f, Null, Null))
      BY <2>1, <2>2, <2>7, <2>9, <3>1, <3>2, <3>5, <3>6, <1>4, HeatUp, ZenonT(30)
    <3>8. g # r => ~f.black[g]
      BY <3>5 DEF Cooled
    <3> QED BY <3>7, <3>8 DEF HeatAt
  <2>14. PICK lv : ~miscoloured => HeatAt(f, M, r, lv, g)
    BY <2>13
  <2>15. Heating(r, sub, lv)'
    BY <2>2, <2>11, <2>12, <2>14, <1>1, <1>3, <1>4 DEF Heating
  <2>16. Phase'
    BY <2>12, <2>15, <1>1 DEF Phase
  <2>17. f \in Heap /\ g \in Pointer
    BY <2>2, <2>11, <1>4, NullFacts DEF Tree
  <2>18. Typed'
    BY <2>12, <2>17, <1>1, <1>5 DEF Typed
  <2> QED BY <2>16, <2>18 DEF Inv
<1> QED BY <1>7, <1>8, <1>9 DEF Heat

LEMMA RiseInv ==
  ASSUME Inv, Rise
  PROVE  Inv'
<1>1. /\ pc = "rise" /\ nodes' = nodes /\ target' = target /\ fix' = fix
      /\ replacement' = replacement /\ direction' = direction /\ miscoloured' = miscoloured
  BY DEF Rise
<1>2. PICK r, sub, ap : Rising(r, sub, ap)
  BY <1>1 DEF Inv, Phase
<1>3. PICK M : M = members \cup {in}
  OBVIOUS
<1>4. /\ in \in Node /\ curr \in M /\ Grown(miscoloured, nodes, M, r, sub, ap) /\ Tree(nodes, M, r, sub)
      /\ M \subseteq Node
  BY <1>2, <1>3 DEF Rising, Grown, Tree
<1>5. Typed
  BY DEF Inv
<1>6. /\ curr = r <=> nodes.up[curr] = Null
      /\ nodes.up[curr] # Null => nodes.up[curr] \in M
  BY <1>4, RootUp
<1>7. CASE nodes.up[curr] # Null
  <2>1. curr' = nodes.up[curr] /\ tree' = tree /\ pc' = pc /\ in' = in /\ members' = members
    BY <1>7 DEF Rise
  <2>2. Rising(r, sub, ap)'
    BY <2>1, <1>1, <1>3, <1>4, <1>6, <1>7 DEF Rising
  <2>3. Phase'
    BY <2>1, <2>2, <1>1 DEF Phase
  <2>4. curr' \in Pointer
    BY <2>1, <1>4, <1>6, <1>7, NullFacts
  <2>5. Typed'
    BY <2>1, <2>4, <1>1, <1>5 DEF Typed
  <2> QED BY <2>3, <2>5 DEF Inv
<1>8. CASE nodes.up[curr] = Null
  <2>1. tree' = curr /\ members' = members \cup {in} /\ pc' = "idle" /\ in' = Null /\ curr' = Null
    BY <1>8 DEF Rise
  <2>2. Grown(miscoloured', nodes', members', tree', sub, ap)
    BY <2>1, <1>1, <1>3, <1>4, <1>6, <1>8
  <2>3. Phase'
    BY <2>1, <2>2 DEF Phase
  <2>4. members' \subseteq Node
    BY <2>1, <1>3, <1>4
  <2>5. Typed'
    BY <2>1, <2>4, <1>1, <1>5, NullFacts DEF Typed
  <2> QED BY <2>3, <2>5 DEF Inv
<1> QED BY <1>7, <1>8

-----------------------------------------------------------------------------
(* The steps of tree_delete.                                               *)

LEMMA DeleteInv ==
  ASSUME Inv, NEW n \in members, Delete(n)
  PROVE  Inv'
<1>1. /\ pc = "idle" /\ in' = n /\ target' = tree /\ pc' = "search"
      /\ tree' = tree /\ nodes' = nodes /\ curr' = curr /\ fix' = fix
      /\ replacement' = replacement /\ direction' = direction /\ members' = members
      /\ miscoloured' = miscoloured
  BY DEF Delete
<1>2. PICK sub, ap : Grown(miscoloured, nodes, members, tree, sub, ap)
  BY <1>1 DEF Inv, Phase
<1>3. Typed
  BY DEF Inv
<1>4. Searching(sub, ap)'
  BY <1>1, <1>2 DEF Searching
<1>5. Phase'
  BY <1>1, <1>4 DEF Phase
<1>6. n \in Pointer /\ n # Null
  BY <1>3, NullFacts DEF Typed
<1>7. Typed'
  BY <1>1, <1>3, <1>6 DEF Typed
<1> QED BY <1>5, <1>7 DEF Inv

LEMMA SearchInv ==
  ASSUME Inv, Search
  PROVE  Inv'
<1>1. /\ pc = "search" /\ target # Null /\ target # in /\ target' = nodes.kid[SearchSide][target]
      /\ tree' = tree /\ nodes' = nodes /\ pc' = pc /\ in' = in /\ curr' = curr /\ fix' = fix
      /\ replacement' = replacement /\ direction' = direction /\ members' = members
      /\ miscoloured' = miscoloured
  BY DEF Search
<1>2. PICK sub, ap : Searching(sub, ap)
  BY <1>1 DEF Inv, Phase
<1>3. Typed
  BY DEF Inv
<1>4. /\ Grown(miscoloured, nodes, members, tree, sub, ap) /\ Tree(nodes, members, tree, sub) /\ in \in members
      /\ target \in members /\ members \subseteq Node /\ nodes \in Heap /\ sub[Null] = {}
      /\ target = tree \/ in \notin sub[target]
  BY <1>1, <1>2 DEF Searching, Grown, Tree
<1>5. SearchSide \in Side /\ ~On(SearchSide, in, target)
  BY <1>1, <1>4, NodeAssumption, Sides DEF SearchSide, On
<1>6. PICK k : k = nodes.kid[SearchSide][target]
  OBVIOUS
<1>7. k \in Pointer
  BY <1>4, <1>5, <1>6, HeapFields
<1>8. in \notin sub[k]
  BY <1>4, <1>5, <1>6 DEF Tree, Sorted
<1>9. k = Null \/ k \in members
  BY <1>4, <1>5, <1>6, KidFacts
<1>10. Searching(sub, ap)'
  BY <1>1, <1>4, <1>6, <1>8, <1>9 DEF Searching
<1>11. Phase'
  BY <1>1, <1>10 DEF Phase
<1>12. Typed'
  BY <1>1, <1>3, <1>6, <1>7 DEF Typed
<1> QED BY <1>11, <1>12 DEF Inv

LEMMA NotFoundInv ==
  ASSUME Inv, NotFound
  PROVE  Inv'
<1>1. /\ pc = "search" /\ target = Null /\ tree' = tree /\ nodes' = nodes /\ members' = members \ {Null}
      /\ pc' = "idle" /\ in' = Null /\ curr' = Null /\ target' = Null /\ fix' = Null
      /\ replacement' = Null /\ direction' = "left" /\ miscoloured' = miscoloured
  BY DEF NotFound, Return
<1>2. PICK sub, ap : Searching(sub, ap)
  BY <1>1 DEF Inv, Phase
<1>3. Typed
  BY DEF Inv
<1>4. members' = members
  BY <1>1, <1>3, NullFacts DEF Typed
<1>5. Grown(miscoloured', nodes', members', tree', sub, ap)
  BY <1>1, <1>2, <1>4 DEF Searching
<1>6. Phase'
  BY <1>1, <1>5 DEF Phase
<1>7. Typed'
  BY <1>1, <1>3, <1>4, NullFacts, Sides DEF Typed
<1> QED BY <1>6, <1>7 DEF Inv

LEMMA ForgetFields ==
  ASSUME NEW h \in Heap, NEW n \in Node
  PROVE  LeafIs(h, n, Null, FALSE, Forget(h, n)) /\ Forget(h, n) \in Heap
<1>1. LeafIs(h, n, Null, FALSE, Leaf(h, n, Null, FALSE))
  BY LeafFields, NullFacts
<1>2. LeafIs(h, n, Null, FALSE, Forget(h, n))
  BY <1>1 DEF Forget
<1> QED BY <1>2 DEF LeafIs

LEMMA DeleteLastInv ==
  ASSUME Inv, DeleteLast
  PROVE  Inv'
<1>1. /\ pc = "search" /\ target = in /\ Childless(target) /\ nodes.up[target] = Null
      /\ tree' = Null /\ nodes' = (IF target = Null THEN nodes ELSE Forget(nodes, target))
      /\ members' = members \ {target}
      /\ pc' = "idle" /\ in' = Null /\ curr' = Null /\ target' = Null /\ fix' = Null
      /\ replacement' = Null /\ direction' = "left" /\ miscoloured' = miscoloured
  BY DEF DeleteLast, Return
<1>2. PICK sub, ap : Searching(sub, ap)
  BY <1>1 DEF Inv, Phase
<1>3. /\ Tree(nodes, members, tree, sub) /\ target \in members /\ members \subseteq Node /\ nodes \in Heap
      /\ sub[Null] = {} /\ sub[tree] = members
  BY <1>1, <1>2 DEF Searching, Grown, Tree
<1>4. target = tree
  BY <1>1, <1>3, RootUp
<1>5. sub[target] = {target}
  <2>1. "left" \in Side /\ Opposite("left") \in Side
    BY Sides
  <2>2. nodes.kid["left"][target] = Null /\ nodes.kid[Opposite("left")][target] = Null
    BY <2>1, <1>1 DEF Childless
  <2>3. sub[target] = {target} \cup sub[nodes.kid["left"][target]] \cup sub[nodes.kid[Opposite("left")][target]]
    BY <2>1, <1>3, SubOf
  <2> QED BY <2>2, <2>3, <1>3
<1>6. members' = {}
  BY <1>1, <1>3, <1>4, <1>5
<1>7. nodes' \in Heap
  BY <1>1, <1>3, ForgetFields
<1>8. Phase'
  BY <1>1, <1>6 DEF Phase
<1>9. Typed'
  <2>1. miscoloured \in BOOLEAN
    BY DEF Inv, Typed
  <2> QED BY <2>1, <1>1, <1>6, <1>7, NullFacts, Sides DEF Typed
<1> QED BY <1>8, <1>9 DEF Inv

LEMMA FoundInv ==
  ASSUME Inv, Found
  PROVE  Inv'
<1>1. /\ pc = "search" /\ target = in /\ tree' = tree /\ nodes' = nodes /\ in' = in
      /\ target' = target /\ members' = members /\ miscoloured' = miscoloured
  BY DEF Found
<1>2. PICK sub, ap : Searching(sub, ap)
  BY <1>1 DEF Inv, Phase
<1>3. Typed
  BY DEF Inv
<1>4. /\ Grown(miscoloured, nodes, members, tree, sub, ap) /\ Tree(nodes, members, tree, sub)
      /\ target \in members /\ members \subseteq Node /\ nodes \in Heap
      /\ sub[Null] = {} /\ sub[tree] = members
      /\ target = tree \/ in \notin sub[target]
  BY <1>1, <1>2, NullFacts DEF Searching, Grown, Tree
<1>5. target = tree
  BY <1>1, <1>4, TreeFinite
<1>6. nodes.up[target] = Null
  BY <1>4, <1>5, RootUp
<1>7. /\ ~Childless(target)
      /\ direction' = (IF nodes.kid["left"][target] = Null THEN "left" ELSE "right")
      /\ curr' = nodes.kid[Opposite(direction')][target] /\ pc' = "extreme"
      /\ fix' = fix /\ replacement' = replacement
  BY <1>6 DEF Found
<1>8. PICK d, k : d \in Side /\ d = direction' /\ k = nodes.kid[Opposite(d)][target]
  BY <1>7, Sides
<1>9. Opposite(d) \in Side
  BY <1>8, Sides
<1>10. k # Null
  <2>1. CASE nodes.kid["left"][target] = Null
    <3>1. d = "left" /\ Opposite(d) = "right"
      BY <2>1, <1>7, <1>8, Sides
    <3>2. nodes.kid["right"][target] # Null
      BY <2>1, <1>7 DEF Childless, Side
    <3> QED BY <3>1, <3>2, <1>8
  <2>2. CASE nodes.kid["left"][target] # Null
    <3>1. d = "right" /\ Opposite(d) = "left"
      BY <2>2, <1>7, <1>8, Sides
    <3> QED BY <2>2, <3>1, <1>8
  <2> QED BY <2>1, <2>2
<1>11. k \in members /\ k \in sub[k]
  BY <1>4, <1>8, <1>9, <1>10, KidFacts
<1>12. ASSUME NEW n \in members, On(Opposite(d), n, target), On(d, n, k)
       PROVE  n \in sub[nodes.kid[d][k]]
  <2>1. n \in sub[target]
    BY <1>4, <1>5
  <2>2. n \in sub[k]
    BY <2>1, <1>4, <1>8, <1>9, <1>12, SideBelow
  <2> QED BY <2>2, <1>4, <1>8, <1>11, <1>12, SideBelow
<1>13. curr' = k
  BY <1>7, <1>8
<1>14. Approaching(sub, ap)'
  BY <1>1, <1>4, <1>5, <1>8, <1>11, <1>12, <1>13 DEF Approaching
<1>15. Phase'
  BY <1>7, <1>14 DEF Phase
<1>16. k \in Pointer /\ in # Null
  BY <1>1, <1>4, <1>11, NullFacts
<1>17. Typed'
  BY <1>1, <1>3, <1>7, <1>8, <1>13, <1>16 DEF Typed
<1> QED BY <1>15, <1>17 DEF Inv

LEMMA ExtremeInv ==
  ASSUME Inv, Extreme
  PROVE  Inv'
<1>1. /\ pc = "extreme" /\ tree' = tree /\ nodes' = nodes /\ in' = in /\ target' = target
      /\ direction' = direction /\ members' = members
      /\ miscoloured' = miscoloured
  BY DEF Extreme
<1>2. PICK sub, ap : Approaching(sub, ap)
  BY <1>1 DEF Inv, Phase
<1>3. Typed
  BY DEF Inv
<1>4. /\ Grown(miscoloured, nodes, members, tree, sub, ap) /\ Tree(nodes, members, tree, sub)
      /\ members \subseteq Node /\ nodes \in Heap /\ direction \in Side /\ in # Null
      /\ sub[Null] = {} /\ target = tree /\ tree \in members
      /\ curr \in sub[nodes.kid[Opposite(direction)][target]]
      /\ \A n \in members : On(Opposite(direction), n, target) /\ On(direction, n, curr)
                            => n \in sub[nodes.kid[direction][curr]]
  BY <1>1, <1>2, <1>3 DEF Approaching, Grown, Tree, Typed
<1>5. PICK a : a = nodes.kid[Opposite(direction)][target]
  OBVIOUS
<1>6. Opposite(direction) \in Side /\ a # Null
  BY <1>4, <1>5, Sides
<1>7. a \in members
  BY <1>4, <1>5, <1>6, KidFacts
<1>8. curr \in members /\ curr \in sub[a]
  BY <1>4, <1>5, <1>7, SubTrans
<1>9. PICK k : k = nodes.kid[direction][curr]
  OBVIOUS
<1>10. CASE k # Null
  <2>1. curr' = k /\ pc' = pc /\ fix' = fix /\ replacement' = replacement
    BY <1>9, <1>10 DEF Extreme
  <2>2. k \in members /\ k \in sub[k] /\ sub[k] \subseteq sub[curr] /\ On(direction, k, curr)
    BY <1>4, <1>8, <1>9, <1>10, KidFacts
  <2>3. k \in sub[a]
    BY <2>2, <1>4, <1>7, <1>8, SubTrans
  <2>4. ASSUME NEW n \in members, On(Opposite(direction), n, target), On(direction, n, k)
        PROVE  n \in sub[nodes.kid[direction][k]]
    <3>1. n \in Node /\ k \in Node /\ curr \in Node
      BY <2>2, <1>4, <1>8
    <3>2. \A z \in Node : On(direction, n, k) /\ On(direction, k, z) => On(direction, n, z)
      BY <3>1, <1>4, Order
    <3>3. On(direction, n, curr)
      BY <2>2, <2>4, <3>1, <3>2
    <3>4. n \in sub[k]
      BY <2>4, <3>3, <1>4, <1>9
    <3> QED BY <2>2, <2>4, <3>4, <1>4, SideBelow
  <2>5. Approaching(sub, ap)'
    BY <2>1, <2>3, <2>4, <1>1, <1>4, <1>5 DEF Approaching
  <2>6. Phase'
    BY <2>1, <2>5, <1>1 DEF Phase
  <2>7. k \in Pointer
    BY <2>2, <1>4, NullFacts
  <2>8. Typed'
    BY <2>1, <2>7, <1>1, <1>3 DEF Typed
  <2> QED BY <2>6, <2>8 DEF Inv
<1>11. CASE k = Null
  <2>1. /\ pc' = (IF nodes.black[curr] THEN "fix" ELSE "splice") /\ fix' = curr /\ replacement' = curr
        /\ curr' = curr
    BY <1>9, <1>11 DEF Extreme, FixFrom
  <2>2. \A n \in members : ~(On(Opposite(direction), n, tree) /\ On(direction, n, curr))
    BY <1>4, <1>9, <1>11
  <2>3. ASSUME ~miscoloured
        PROVE  /\ nodes.black[curr] => FixAt(nodes, members, tree, sub, ap, curr, curr, tree, direction)
               /\ ~nodes.black[curr] => SpliceAt(nodes, members, tree, sub, ap, curr, tree, direction)
    <3>1. Settled(nodes, members, tree, sub, ap)
      BY <2>3, <1>4 DEF Grown
    <3> QED BY <2>2, <3>1, <1>4, <1>9, <1>11, FixBegins
  <2>4. curr \in sub[curr] /\ Beside(nodes, members, sub, curr, tree, direction)
    <3>1. curr \in sub[nodes.kid[Opposite(direction)][tree]] /\ nodes.kid[direction][curr] = Null
      BY <1>4, <1>9, <1>11
    <3> QED BY <2>2, <3>1, <1>4, Nearest
  <2>5. curr \in Pointer
    BY <1>3 DEF Typed
  <2>6. Typed'
    BY <2>1, <2>5, <1>1, <1>3 DEF Typed
  <2>7. CASE nodes.black[curr]
    <3>1. Fixing(tree, sub, ap)'
      BY <2>1, <2>3, <2>7, <2>4, <1>1, <1>4, <1>8 DEF Fixing
    <3>2. Phase'
      BY <2>1, <2>7, <3>1 DEF Phase
    <3> QED BY <2>6, <3>2 DEF Inv
  <2>8. CASE ~nodes.black[curr]
    <3>1. Splicing(tree, sub, ap)'
      BY <2>1, <2>3, <2>8, <2>4, <1>1, <1>4 DEF Splicing
    <3>2. Phase'
      BY <2>1, <2>8, <3>1 DEF Phase
    <3> QED BY <2>6, <3>2 DEF Inv
  <2> QED BY <2>7, <2>8
<1> QED BY <1>10, <1>11

(* A colour does not matter to the tree, nor to where the replacement is.  *)
LEMMA Recoloured ==
  ASSUME NEW h, NEW M, NEW r, NEW sub, Tree(h, M, r, sub), NEW rp, NEW tg, NEW d,
         Beside(h, M, sub, rp, tg, d), NEW n, NEW v, NEW f, BlackIs(h, n, v, f)
  PROVE  Tree(f, M, r, sub) /\ Beside(f, M, sub, rp, tg, d)
<1>1. SameLinks(h, f, M)
  BY DEF BlackIs, SameLinks
<1>2. Tree(f, M, r, sub)
  BY <1>1, SameTree
<1>3. Beside(f, M, sub, rp, tg, d)
  BY DEF BlackIs, Beside
<1> QED BY <1>2, <1>3

LEMMA FixInv ==
  ASSUME Inv, Fix
  PROVE  Inv'
<1>1. /\ pc = "fix" /\ tree' = tree /\ in' = in /\ curr' = curr /\ target' = target
      /\ replacement' = replacement /\ direction' = direction /\ members' = members
      /\ miscoloured' = miscoloured
  BY DEF Fix
<1>2. PICK r, sub, ap : Fixing(r, sub, ap)
  BY <1>1 DEF Inv, Phase
<1>3. Typed
  BY DEF Inv
<1>4. direction \in Side /\ in # Null
  BY <1>1, <1>3 DEF Typed
<1>5. /\ ~miscoloured => FixAt(nodes, members, r, sub, ap, fix, replacement, target, direction)
      /\ Tree(nodes, members, r, sub) /\ fix \in members /\ members \subseteq Node /\ nodes \in Heap
      /\ Beside(nodes, members, sub, replacement, target, direction) /\ replacement \in sub[fix]
  BY <1>2 DEF Fixing, Tree
<1>6. fix = r <=> nodes.up[fix] = Null
  BY <1>5, RootUp
<1>7. ASSUME NEW z, NEW sb, pc' = "fix", fix' \in members, Tree(nodes', members, z, sb),
             Beside(nodes', members, sb, replacement, target, direction), replacement \in sb[fix'],
             ~miscoloured => \E q, s2, lv :
               FixAt(nodes', members, q, s2, lv, fix', replacement, target, direction)
      PROVE  Inv'
  <2>1. \E q, s2, lv : Fixing(q, s2, lv)'
    <3>1. CASE miscoloured
      BY <3>1, <1>1, <1>7 DEF Fixing
    <3>2. CASE ~miscoloured
      BY <3>2, <1>1, <1>7 DEF Fixing, FixAt
    <3> QED BY <3>1, <3>2
  <2>2. Phase'
    BY <2>1, <1>7 DEF Phase
  <2>3. nodes' \in Heap /\ fix' \in Pointer
    BY <1>5, <1>7, NullFacts DEF Tree
  <2>4. Typed'
    BY <2>3, <1>1, <1>3, <1>4, <1>7 DEF Typed
  <2> QED BY <2>2, <2>4 DEF Inv
<1>8. ASSUME NEW z, NEW sb, pc' = "splice", fix' = fix, Tree(nodes', members, z, sb),
             Beside(nodes', members, sb, replacement, target, direction),
             ~miscoloured => \E q, s2, lv :
               SpliceAt(nodes', members, q, s2, lv, replacement, target, direction)
      PROVE  Inv'
  <2>1. \E q, s2, lv : Splicing(q, s2, lv)'
    <3>1. CASE miscoloured
      BY <3>1, <1>1, <1>8 DEF Splicing
    <3>2. CASE ~miscoloured
      BY <3>2, <1>1, <1>8 DEF Splicing, SpliceAt
    <3> QED BY <3>1, <3>2
  <2>2. Phase'
    BY <2>1, <1>8 DEF Phase
  <2>3. nodes' \in Heap
    BY <1>8 DEF Tree
  <2>4. Typed'
    BY <2>3, <1>1, <1>3, <1>4, <1>8 DEF Typed
  <2> QED BY <2>2, <2>4 DEF Inv
<1>9. CASE FixEnd /\ nodes.up[fix] = Null
  <2>1. nodes' = nodes /\ pc' = "splice" /\ fix' = fix
    BY <1>9 DEF FixEnd
  <2>2. ASSUME ~miscoloured
        PROVE  \E lv : SpliceAt(nodes, members, r, sub, lv, replacement, target, direction)
    <3>1. FixAt(nodes, members, r, sub, ap, r, replacement, target, direction)
      BY <2>2, <1>5, <1>6, <1>9
    <3> QED BY <3>1, <1>4, FixedRoot
  <2> QED BY <2>1, <2>2, <1>5, <1>8
<1>10. CASE FixEnd /\ nodes.up[fix] # Null
  <2>1. nodes' = [nodes EXCEPT !.black[fix] = TRUE] /\ pc' = "splice" /\ fix' = fix /\ ~nodes.black[fix]
    BY <1>10 DEF FixEnd
  <2>2. PICK f : f = [nodes EXCEPT !.black[fix] = TRUE]
    OBVIOUS
  <2>3. BlackIs(nodes, fix, TRUE, f)
    BY <2>2, <1>5, SetBlackFields
  <2>4. Tree(f, members, r, sub) /\ Beside(f, members, sub, replacement, target, direction)
    BY <2>3, <1>5, Recoloured
  <2>5. ~miscoloured => SpliceAt(f, members, r, sub, ap, replacement, target, direction)
    BY <2>1, <2>3, <1>4, <1>5, <1>6, <1>10, FixedRed
  <2>6. nodes' = f
    BY <2>1, <2>2
  <2>7. Tree(nodes', members, r, sub) /\ Beside(nodes', members, sub, replacement, target, direction)
    BY <2>4, <2>6
  <2>8. ~miscoloured => \E q, s2, lv : SpliceAt(nodes', members, q, s2, lv, replacement, target, direction)
    BY <2>5, <2>6
  <2> QED BY <2>1, <2>7, <2>8, <1>8
<1>11. ASSUME nodes.up[fix] # Null, nodes.black[fix], NEW b, b = brother_node(nodes, fix), b # Null,
              NEW s, s = SideOf(nodes, b),
              FixRedBrother(b) \/ FixBlackNephews(b) \/ FixInnerNephew(b, s) \/ FixOuterNephew(b, s)
       PROVE  Inv'
  <2>1. PICK p : p = nodes.up[fix]
    OBVIOUS
  <2>2. FixSpot(nodes, members, r, sub, fix, replacement, target, p, b, s)
    BY <2>1, <1>5, <1>6, <1>11, FixSpotting
  <2>3. ~miscoloured => FixPlace(nodes, members, r, sub, fix, replacement, target, p, b, s)
    BY <2>1, <1>5, <1>6, <1>11, FixSetting
  <2>4. /\ p \in members /\ b \in members /\ s \in Side /\ nodes.up[b] = p /\ p = nodes.up[fix]
        /\ nodes.kid[Opposite(s)][p] = fix /\ Opposite(s) \in Side /\ fix # Null
    BY <2>1, <2>2, <1>5, NullFacts, Sides DEF FixSpot
  <2>5. /\ \E q, sb : /\ Tree(RotateUnder(nodes, p, s), members, q, sb)
                      /\ Beside(RotateUnder(nodes, p, s), members, sb, replacement, target, direction)
                      /\ replacement \in sb[fix]
        /\ nodes.kid[Opposite(s)][b] # Null =>
             \E q, sb : /\ Tree(RotateUnder(nodes, b, Opposite(s)), members, q, sb)
                       /\ Beside(RotateUnder(nodes, b, Opposite(s)), members, sb, replacement, target, direction)
                       /\ replacement \in sb[fix]
    BY <2>2, <1>4, <1>5, FixTurnTree
  <2>6. CASE FixRedBrother(b)
    <3>1. ~nodes.black[b] /\ nodes' = RotateUnder(nodes, p, s) /\ pc' = pc /\ fix' = fix
      BY <2>4, <2>6, <1>11 DEF FixRedBrother
    <3>2. ASSUME ~miscoloured
          PROVE  \E q, sb, lv : FixAt(RotateUnder(nodes, p, s), members, q, sb, lv, fix,
                                      replacement, target, direction)
      BY <2>3, <3>1, <3>2, <1>4, <1>5, <1>11, FixCase1
    <3> QED BY <2>5, <3>1, <3>2, <1>1, <1>5, <1>7
  <2>7. CASE FixBlackNephews(b)
    <3>1. /\ nodes.black[b] /\ \A t \in Side : IsBlack(nodes, nodes.kid[t][b])
          /\ nodes' = [nodes EXCEPT !.black[b] = FALSE] /\ fix' = p /\ pc' = pc
      BY <2>4, <2>7 DEF FixBlackNephews
    <3>2. PICK f : f = [nodes EXCEPT !.black[b] = FALSE]
      OBVIOUS
    <3>3. BlackIs(nodes, b, FALSE, f)
      BY <2>4, <3>2, <1>5, SetBlackFields
    <3>4. nodes' = f
      BY <3>1, <3>2
    <3>5. ASSUME ~miscoloured
          PROVE  \E lv : FixAt(f, members, r, sub, lv, p, replacement, target, direction)
      <4>1. \A t \in Side : IsBlack(nodes, nodes.kid[t][b])
        BY <3>1
      <4>2. nodes.black[b] /\ nodes.black[fix]
        BY <3>1, <1>11
      <4>3. FixAt(nodes, members, r, sub, ap, fix, replacement, target, direction)
        BY <3>5, <1>5
      <4>4. FixPlace(nodes, members, r, sub, fix, replacement, target, p, b, s)
        BY <2>3, <3>5
      <4> HIDE <1>11
      <4> QED BY <3>3, <4>1, <4>2, <4>3, <4>4, <1>4, FixCase2
    <3>6. Tree(f, members, r, sub) /\ Beside(f, members, sub, replacement, target, direction)
      BY <3>3, <1>5, Recoloured
    <3>7. replacement \in sub[p]
      <4>1. sub[fix] \subseteq sub[p]
        BY <2>4, <1>5, KidFacts
      <4> QED BY <4>1, <1>5
    <3>8. /\ Tree(nodes', members, r, sub) /\ Beside(nodes', members, sub, replacement, target, direction)
          /\ replacement \in sub[fix'] /\ fix' \in members /\ pc' = "fix"
      BY <2>4, <3>1, <3>4, <3>6, <3>7, <1>1
    <3>9. ~miscoloured => \E q, s2, lv : FixAt(nodes', members, q, s2, lv, fix', replacement, target, direction)
      BY <3>1, <3>4, <3>5
    <3> QED BY <3>8, <3>9, <1>7
  <2>8. CASE FixInnerNephew(b, s)
    <3>1. /\ nodes.black[b] /\ IsBlack(nodes, nodes.kid[s][b]) /\ ~IsBlack(nodes, nodes.kid[Opposite(s)][b])
          /\ nodes' = RotateUnder(nodes, b, Opposite(s)) /\ pc' = pc /\ fix' = fix
      BY <2>8 DEF FixInnerNephew
    <3>2. ASSUME ~miscoloured
          PROVE  \E q, sb, lv : FixAt(RotateUnder(nodes, b, Opposite(s)), members, q, sb, lv, fix,
                                      replacement, target, direction)
      BY <2>3, <3>1, <3>2, <1>4, <1>5, <1>11, FixCase3
    <3>3. nodes.kid[Opposite(s)][b] # Null
      BY <3>1 DEF IsBlack
    <3> QED BY <2>5, <3>1, <3>2, <3>3, <1>1, <1>5, <1>7
  <2>9. CASE FixOuterNephew(b, s)
    <3>1. PICK i, e, y : Around(nodes, p, s, b, i, e, fix, y)
      BY <2>2 DEF Around, FixSpot
    <3>2. e = nodes.kid[s][b]
      BY <3>1 DEF Around
    <3>3. PICK g : Turned(nodes, p, s, g)
      BY DEF Turned
    <3>4. g = RotateUnder(nodes, p, s)
      BY <3>3 DEF Turned
    <3>5. /\ nodes.black[b] /\ ~IsBlack(nodes, e) /\ e # Null /\ pc' = "splice" /\ fix' = fix
          /\ nodes' = [g EXCEPT !.black[brother_node(g, g.up[fix])] = TRUE]
      BY <2>4, <2>9, <3>2, <3>4 DEF FixOuterNephew, IsBlack
    <3>6. PICK f : f = [g EXCEPT !.black[e] = TRUE]
      OBVIOUS
    <3>7. g \in Heap /\ e \in members /\ brother_node(g, g.up[fix]) = e
      BY <2>4, <3>1, <3>3, <3>5, <1>5, OuterNephew
    <3>8. BlackIs(g, e, TRUE, f)
      BY <3>6, <3>7, <1>5, SetBlackFields
    <3>9. nodes' = f
      BY <3>5, <3>6, <3>7
    <3>10. PICK q, sb : Tree(f, members, q, sb) /\ Beside(f, members, sb, replacement, target, direction)
      <4>1. PICK q, sb : Tree(g, members, q, sb) /\ Beside(g, members, sb, replacement, target, direction)
        BY <2>5, <3>4
      <4> QED BY <3>8, <4>1, Recoloured
    <3>11. ASSUME ~miscoloured
           PROVE  \E z, s2, lv : SpliceAt(f, members, z, s2, lv, replacement, target, direction)
      <4>1. FixAt(nodes, members, r, sub, ap, fix, replacement, target, direction)
        BY <3>11, <1>5
      <4>2. FixPlace(nodes, members, r, sub, fix, replacement, target, p, b, s)
        BY <2>3, <3>11
      <4>3. nodes.black[b] /\ nodes.black[fix] /\ ~IsBlack(nodes, e)
        BY <3>5, <1>11
      <4> HIDE <1>11
      <4> QED BY <3>1, <3>3, <3>8, <4>1, <4>2, <4>3, <1>4, FixCase4, ZenonT(30)
    <3>12. Tree(nodes', members, q, sb) /\ Beside(nodes', members, sb, replacement, target, direction)
      BY <3>9, <3>10
    <3>13. ~miscoloured => \E z, s2, lv : SpliceAt(nodes', members, z, s2, lv, replacement, target, direction)
      BY <3>9, <3>11
    <3> QED BY <3>5, <3>12, <3>13, <1>8
  <2> QED BY <2>6, <2>7, <2>8, <2>9, <1>11
<1> QED BY <1>9, <1>10, <1>11 DEF Fix, Short

LEMMA SpliceInv ==
  ASSUME Inv, Splice
  PROVE  Inv'
<1>1. /\ pc = "splice" /\ pc' = "climb" /\ tree' = tree /\ in' = in /\ curr' = curr
      /\ target' = target /\ fix' = fix /\ direction' = direction /\ members' = members
  BY DEF Splice
<1>2. PICK r, sub, ap : Splicing(r, sub, ap)
  BY <1>1 DEF Inv, Phase
<1>3. Typed
  BY DEF Inv
<1>4. direction \in Side /\ in # Null /\ nodes \in Heap /\ members \subseteq Node /\ miscoloured \in BOOLEAN
  BY <1>1, <1>3 DEF Typed
<1>5. /\ Tree(nodes, members, r, sub)
      /\ Beside(nodes, members, sub, replacement, target, direction)
      /\ ~miscoloured => SpliceAt(nodes, members, r, sub, ap, replacement, target, direction)
  BY <1>2 DEF Splicing
<1>6. target \in members /\ replacement \in members
  <2>1. target \in members /\ replacement \in sub[target]
    BY <1>5 DEF Beside
  <2> QED BY <2>1, <1>5, SubTrans
<1>7. replacement # Null /\ replacement \in Node
  BY <1>4, <1>6, NullFacts
<1>8. PICK v : v = (target \in Readable)
  OBVIOUS
<1>9. v \in BOOLEAN
  BY <1>8
<1>10. PICK h0 : h0 = [nodes EXCEPT !.black[replacement] = v]
  OBVIOUS
<1>11. BlackIs(nodes, replacement, v, h0)
  BY <1>4, <1>7, <1>10, <1>9, SetBlackFields
<1>12. /\ nodes' = PutInPlace(TakeOut([nodes EXCEPT !.black[replacement] = target \in Readable],
                                      replacement), replacement)
       /\ miscoloured' = (miscoloured \/ (target \in Readable) # nodes.black[target])
       /\ replacement' = replacement
  BY <1>7 DEF Splice
<1>13. nodes' = PutInPlace(TakeOut(h0, replacement), replacement)
  <2>1. h0 = [nodes EXCEPT !.black[replacement] = target \in Readable]
    BY <1>8, <1>10
  <2> QED BY <2>1, <1>12
<1>14. PICK z, sb : Tree(nodes', members \ {target}, z, sb) /\ replacement \in members \ {target}
  <2>1. /\ replacement \in members \ {target}
        /\ \E z, sb : Tree(PutInPlace(TakeOut(h0, replacement), replacement), members \ {target}, z, sb)
    BY <1>4, <1>5, <1>11, <1>9, SpliceKeeps
  <2> QED BY <2>1, <1>13
<1>15. ASSUME ~miscoloured'
       PROVE  \E q, s2, lv : Settled(nodes', members \ {target}, q, s2, lv)
  <2>1. ~miscoloured /\ (target \in Readable) = nodes.black[target]
    BY <1>12, <1>15
  <2>2. SpliceAt(nodes, members, r, sub, ap, replacement, target, direction)
    BY <2>1, <1>5
  <2>3. v = TRUE
    BY <2>1, <2>2, <1>8 DEF SpliceAt
  <2>4. BlackIs(nodes, replacement, TRUE, h0)
    BY <2>3, <1>11
  <2>5. \E q, s2, lv : Settled(PutInPlace(TakeOut(h0, replacement), replacement), members \ {target}, q, s2, lv)
    BY <2>2, <2>4, <1>4, SpliceDone
  <2> QED BY <2>5, <1>13
<1>16. \E q, s2, lv : Grown(miscoloured', nodes', members \ {target}, q, s2, lv)
  <2>1. CASE miscoloured'
    BY <2>1, <1>14 DEF Grown
  <2>2. CASE ~miscoloured'
    BY <2>2, <1>15 DEF Grown, Settled
  <2> QED BY <2>1, <2>2
<1>17. \E q, s2, lv : Climbing(q, s2, lv)'
  BY <1>1, <1>6, <1>12, <1>14, <1>16 DEF Climbing
<1>18. Phase'
  BY <1>1, <1>17 DEF Phase
<1>19. nodes' \in Heap /\ miscoloured' \in BOOLEAN
  BY <1>12, <1>14 DEF Tree
<1>20. Typed'
  BY <1>1, <1>3, <1>4, <1>12, <1>19 DEF Typed
<1> QED BY <1>18, <1>20 DEF Inv

LEMMA ClimbInv ==
  ASSUME Inv, Climb
  PROVE  Inv'
<1>1. pc = "climb"
  BY DEF Climb
<1>2. PICK r, sub, ap : Climbing(r, sub, ap)
  BY <1>1 DEF Inv, Phase
<1>3. Typed
  BY DEF Inv
<1>4. PICK M : M = members \ {target}
  OBVIOUS
<1>5. /\ target \in members /\ replacement \in M /\ Grown(miscoloured, nodes, M, r, sub, ap)
      /\ Tree(nodes, M, r, sub) /\ M \subseteq Node /\ nodes \in Heap /\ target \in Node
  BY <1>2, <1>3, <1>4 DEF Climbing, Grown, Tree, Typed
<1>6. /\ replacement = r <=> nodes.up[replacement] = Null
      /\ nodes.up[replacement] # Null => nodes.up[replacement] \in M
  BY <1>5, RootUp
<1>7. CASE nodes.up[replacement] # Null
  <2>1. /\ replacement' = nodes.up[replacement] /\ tree' = tree /\ nodes' = nodes /\ pc' = pc /\ in' = in
        /\ curr' = curr /\ target' = target /\ fix' = fix /\ direction' = direction /\ members' = members
        /\ miscoloured' = miscoloured
    BY <1>7 DEF Climb
  <2>2. Climbing(r, sub, ap)'
    BY <2>1, <1>4, <1>5, <1>6, <1>7 DEF Climbing
  <2>3. Phase'
    BY <2>1, <2>2, <1>1 DEF Phase
  <2>4. replacement' \in Pointer
    BY <2>1, <1>5, <1>6, <1>7, NullFacts
  <2>5. Typed'
    BY <2>1, <2>4, <1>3 DEF Typed
  <2> QED BY <2>3, <2>5 DEF Inv
<1>8. CASE nodes.up[replacement] = Null
  <2>1. target # Null
    BY <1>5, NullFacts
  <2>2. /\ tree' = replacement /\ nodes' = Forget(nodes, target) /\ members' = members \ {target}
        /\ pc' = "idle" /\ in' = Null /\ curr' = Null /\ target' = Null /\ fix' = Null
        /\ replacement' = Null /\ direction' = "left" /\ miscoloured' = miscoloured
    BY <2>1, <1>8 DEF Climb, Return
  <2>3. PICK g : g = Forget(nodes, target)
    OBVIOUS
  <2>4. LeafIs(nodes, target, Null, FALSE, g)
    BY <2>3, <1>5, ForgetFields
  <2>5. \A x \in M : x \in Node /\ x # target
    BY <1>4, <1>5
  <2>6. /\ SameLinks(nodes, g, M)
        /\ \A x \in M : g.black[x] = nodes.black[x]
    BY <2>4, <2>5 DEF LeafIs, SameLinks
  <2>7. Grown(miscoloured, g, M, r, sub, ap)
    BY <2>6, <1>5, SameTree, SettledSame DEF Grown
  <2>8. Grown(miscoloured', nodes', members', tree', sub, ap)
    BY <2>2, <2>3, <2>7, <1>4, <1>6, <1>8
  <2>9. Phase'
    BY <2>2, <2>8 DEF Phase
  <2>10. nodes' \in Heap /\ tree' \in Pointer /\ members' \subseteq Node
    BY <2>2, <2>3, <2>4, <1>3 DEF LeafIs, Typed
  <2>11. Typed'
    BY <2>2, <2>10, <1>3, NullFacts, Sides DEF Typed
  <2> QED BY <2>9, <2>11 DEF Inv
<1> QED BY <1>7, <1>8

(* A NULL pointer is read only when a colour is wrong: with the right ones *)
(* a red parent is not the root, and a black node that is not the root has *)
(* a brother.                                                              *)
LEMMA FollowNullInv ==
  ASSUME Inv, FollowNull
  PROVE  Inv'
<1>1. /\ NullAhead /\ pc' = "fault" /\ tree' = tree /\ nodes' = nodes /\ members' = members
      /\ miscoloured' = miscoloured /\ in' = in /\ curr' = curr /\ target' = target /\ fix' = fix
      /\ replacement' = replacement /\ direction' = direction
  BY DEF FollowNull, call
<1>2. Typed /\ miscoloured \in BOOLEAN
  BY DEF Inv, Typed
<1>3. CASE pc = "heat" /\ Hot /\ nodes.up[nodes.up[curr]] = Null
  <2>1. PICK r, sub, ap : Heating(r, sub, ap)
    BY <1>3 DEF Inv, Phase
  <2>2. PICK M : M = members \cup {in}
    OBVIOUS
  <2>3. /\ curr \in M /\ Tree(nodes, M, r, sub) /\ M \subseteq Node
        /\ ~miscoloured => Coloured(nodes, M, r, {curr})
    BY <2>1, <2>2 DEF Heating, HeatAt, Tree
  <2>4. miscoloured
    <3> SUFFICES ASSUME ~miscoloured PROVE FALSE
      OBVIOUS
    <3>1. PICK p, g : p = nodes.up[curr] /\ g = nodes.up[p]
      OBVIOUS
    <3>2. ~IsBlack(nodes, p)
      BY <3>1, <1>3 DEF Hot
    <3>3. g \in M
      BY <2>3, <3>1, <3>2, RedParent
    <3> QED BY <2>3, <3>1, <3>3, <1>3, NullFacts
  <2>5. Faulty(M, r, sub)'
    BY <2>2, <2>3, <2>4, <1>1 DEF Faulty
  <2> QED BY <2>5, <1>1, <1>2, <1>3 DEF Inv, Typed, Phase
<1>4. CASE pc = "fix" /\ Short /\ brother_node(nodes, fix) = Null
  <2>1. PICK r, sub, ap : Fixing(r, sub, ap)
    BY <1>4 DEF Inv, Phase
  <2>2. /\ Tree(nodes, members, r, sub) /\ fix \in members
        /\ ~miscoloured => FixAt(nodes, members, r, sub, ap, fix, replacement, target, direction)
    BY <2>1 DEF Fixing
  <2>3. fix # r /\ nodes.black[fix]
    BY <2>2, <1>4, RootUp DEF Short
  <2>4. miscoloured
    <3> SUFFICES ASSUME ~miscoloured PROVE FALSE
      OBVIOUS
    <3>1. PICK p, b, s : p = nodes.up[fix] /\ b = brother_node(nodes, fix) /\ s = SideOf(nodes, b)
      OBVIOUS
    <3>2. FixPlace(nodes, members, r, sub, fix, replacement, target, p, b, s)
      BY <2>2, <2>3, <3>1, FixSetting
    <3> QED BY <3>1, <3>2, <1>4 DEF FixPlace, FixSpot
  <2>5. Faulty(members, r, sub)'
    BY <2>2, <2>4, <1>1 DEF Faulty
  <2> QED BY <2>5, <1>1, <1>2, <1>4 DEF Inv, Typed, Phase
<1> QED BY <1>1, <1>3, <1>4 DEF NullAhead

LEMMA StepInv ==
  ASSUME Inv, [Next]_vars
  PROVE  Inv'
<1>1. ASSUME UNCHANGED vars PROVE Inv'
  <2>1. /\ tree' = tree /\ nodes' = nodes /\ pc' = pc /\ members' = members /\ miscoloured' = miscoloured
        /\ in' = in /\ curr' = curr /\ target' = target /\ fix' = fix
        /\ replacement' = replacement /\ direction' = direction
    BY <1>1 DEF vars, call
  <2>2. Typed'
    BY <2>1 DEF Inv, Typed
  <2>3. Phase'
    BY <2>1 DEF Inv, Phase, Descending, Heating, Rising, Searching, Approaching, Fixing, Splicing, Climbing,
                     Faulty
  <2> QED BY <2>2, <2>3 DEF Inv
<1>2. ASSUME InsertStep PROVE Inv'
  BY <1>2, DescendInv, HeatInv, RiseInv DEF InsertStep
<1>3. ASSUME DeleteStep PROVE Inv'
  BY <1>3, SearchInv, NotFoundInv, DeleteLastInv, FoundInv, ExtremeInv, FixInv, SpliceInv, ClimbInv
     DEF DeleteStep
<1> QED BY <1>1, <1>2, <1>3, FollowNullInv, InsertFirstInv, InsertInv, DeleteInv DEF Next, Step

-----------------------------------------------------------------------------
(* The nodes that are reached, as Below computes them round by round, are  *)
(* those of sub.                                                           *)

(* Induction over the naturals, for a set in place of a predicate.         *)
LEMMA SetInduction ==
  ASSUME NEW S, 0 \in S, \A n \in Nat : n \in S => n + 1 \in S
  PROVE  Nat \subseteq S
<1> SUFFICES ASSUME Nat \ S # {} PROVE FALSE
  OBVIOUS
<1>1. PICK x \in Nat \ S : \A y \in Nat \ S : x <= y
  BY LeastNatural
<1>2. x # 0 /\ x - 1 \in Nat
  BY <1>1
<1> QED BY <1>1, <1>2

(* Induction from the root down.                                           *)
LEMMA TreeClosed ==
  ASSUME NEW h, NEW M, NEW r, NEW sub, Tree(h, M, r, sub), NEW S, NEW n \in M, n \in S,
         \A m \in S, s \in Side : m \in M /\ h.kid[s][m] # Null => h.kid[s][m] \in S
  PROVE  sub[n] \subseteq S
<1> DEFINE T == {x \in M : x \in S => sub[x] \subseteq S}
<1>1. ASSUME NEW x \in M, \A s \in Side : h.kid[s][x] # Null => h.kid[s][x] \in T
      PROVE  x \in T
  <2>1. ASSUME x \in S, NEW s \in Side PROVE sub[h.kid[s][x]] \subseteq S
    <3>1. CASE h.kid[s][x] = Null
      BY <3>1 DEF Tree
    <3>2. CASE h.kid[s][x] # Null
      BY <1>1, <2>1, <3>2
    <3> QED BY <3>1, <3>2
  <2>2. ASSUME x \in S PROVE sub[x] \subseteq S
    <3>1. "left" \in Side /\ Opposite("left") \in Side
      BY Sides
    <3>2. sub[x] = {x} \cup sub[h.kid["left"][x]] \cup sub[h.kid[Opposite("left")][x]]
      BY <3>1, SubOf
    <3> QED BY <2>1, <2>2, <3>1, <3>2
  <2> QED BY <2>2
<1>2. M \subseteq T
  <2> HIDE DEF T
  <2> QED BY <1>1, TreeInduction
<1> QED BY <1>2

(* Below is defined by a recursive function, which has to be shown to      *)
(* exist.                                                                  *)
IsReach(f, h, n, N) == f = [k \in 0 .. N |-> IF k = 0 THEN {n} ELSE Further(h, f[k - 1])]

LEMMA ReachExists ==
  ASSUME NEW h, NEW n, NEW R, n \in R, \A X \in SUBSET R : Further(h, X) \in SUBSET R, NEW N \in Nat
  PROVE  \E f : IsReach(f, h, n, N)
<1> DEFINE Reaches(j, f) == f[0] = {n} /\ \A k \in 1 .. j : f[k] = Further(h, f[k - 1])
           Long == {j \in Nat : \E f \in [0 .. j -> SUBSET R] : Reaches(j, f)}
<1>1. 0 \in Long
  <2>1. [k \in 0 .. 0 |-> {n}] \in [0 .. 0 -> SUBSET R] /\ Reaches(0, [k \in 0 .. 0 |-> {n}])
    OBVIOUS
  <2> QED BY <2>1
<1>2. ASSUME NEW j \in Nat, j \in Long PROVE j + 1 \in Long
  <2>1. PICK f \in [0 .. j -> SUBSET R] : Reaches(j, f)
    BY <1>2
  <2> DEFINE more == Further(h, f[j])
             g == [k \in 0 .. j + 1 |-> IF k = j + 1 THEN more ELSE f[k]]
  <2>2. more \in SUBSET R
    OBVIOUS
  <2>3. g[j + 1] = Further(h, f[j]) /\ \A k \in 0 .. j : g[k] = f[k]
    OBVIOUS
  <2>4. g \in [0 .. j + 1 -> SUBSET R]
    BY <2>2
  <2> HIDE DEF g, more
  <2>5. g[0] = {n}
    BY <2>1, <2>3
  <2>6. ASSUME NEW k \in 1 .. j + 1 PROVE g[k] = Further(h, g[k - 1])
    <3>1. CASE k = j + 1
      BY <2>3, <3>1
    <3>2. CASE k # j + 1
      <4>1. k \in 1 .. j /\ k - 1 \in 0 .. j /\ k \in 0 .. j
        BY <3>2
      <4> QED BY <2>1, <2>3, <4>1
    <3> QED BY <3>1, <3>2
  <2>7. Reaches(j + 1, g)
    BY <2>5, <2>6
  <2> QED BY <2>4, <2>7
<1>3. N \in Long
  <2> HIDE DEF Long
  <2> QED BY <1>1, <1>2, SetInduction
<1>4. PICK f \in [0 .. N -> SUBSET R] : Reaches(N, f)
  BY <1>3
<1>5. f = [k \in 0 .. N |-> IF k = 0 THEN {n} ELSE Further(h, f[k - 1])]
  BY <1>4
<1>6. IsReach(f, h, n, N)
  BY <1>5, Zenon DEF IsReach
<1> QED BY <1>6

LEMMA BelowIs ==
  ASSUME nodes \in Heap, NEW R, R \subseteq Node, NEW n, (n = Null /\ R = {}) \/ n \in R,
         \A m \in R, s \in Side : nodes.kid[s][m] \in R \cup {Null},
         \A S \in SUBSET R : n \in S /\ (\A m \in S, s \in Side : nodes.kid[s][m] \in S \cup {Null}) => S = R
  PROVE  Below(n) = R
<1> DEFINE N == Cardinality(Node)
           W == CHOOSE f : f = [k \in 0 .. N |->
                  IF k = 0 THEN {n} ELSE Further(nodes, f[k - 1])]
<1>1. Below(n) = W[N] \ {Null}
  BY DEF Below
<1>2. N \in Nat /\ IsFiniteSet(Node) /\ Null \notin Node
  BY NodeAssumption, NullFacts, FS_CardinalityType
<1>3. \A X \in SUBSET (R \cup {Null}) : Further(nodes, X) \in SUBSET (R \cup {Null})
  <2>1. ASSUME NEW X \in SUBSET (R \cup {Null}) PROVE Further(nodes, X) \in SUBSET (R \cup {Null})
    <3>1. \A m \in X \ {Null}, s \in Side : nodes.kid[s][m] \in R \cup {Null}
      OBVIOUS
    <3> QED BY <3>1 DEF Further
  <2> QED BY <2>1
<1>4. W = [k \in 0 .. N |->
             IF k = 0 THEN {n} ELSE Further(nodes, W[k - 1])]
  <2>1. \E f : f = [k \in 0 .. N |->
             IF k = 0 THEN {n} ELSE Further(nodes, f[k - 1])]
    <3> HIDE DEF N, W
    <3>1. n \in R \cup {Null}
      OBVIOUS
    <3>2. \E f : IsReach(f, nodes, n, N)
      BY <3>1, <1>2, <1>3, ReachExists
    <3> QED BY <3>2, Zenon DEF IsReach
  <2> HIDE DEF N
  <2> QED BY <2>1, Zenon
<1> HIDE DEF W
<1>5. W[0] = {n} /\ \A k \in 0 .. N : k + 1 \in 0 .. N => W[k + 1] = Further(nodes, W[k])
  <2> HIDE DEF N, W
  <2>1. \A k \in 0 .. N : W[k] = IF k = 0 THEN {n} ELSE Further(nodes, W[k - 1])
    BY <1>4, Zenon
  <2>2. 0 \in 0 .. N /\ \A k \in 0 .. N : k + 1 # 0 /\ k + 1 - 1 = k
    BY <1>2
  <2>3. W[0] = {n}
    BY <2>1, <2>2
  <2>4. ASSUME NEW k \in 0 .. N, k + 1 \in 0 .. N PROVE W[k + 1] = Further(nodes, W[k])
    <3>1. W[k + 1] = IF k + 1 = 0 THEN {n} ELSE Further(nodes, W[k + 1 - 1])
      BY <2>1, <2>4
    <3> QED BY <2>2, <3>1
  <2> QED BY <2>3, <2>4
<1> DEFINE Met == {k \in Nat : k \in 0 .. N =>
                     /\ W[k] \subseteq R \cup {Null} /\ n \in W[k]
                     /\ R \subseteq W[k] \/ Cardinality(W[k] \cap R) > k}
<1> HIDE DEF N
<1>6. 0 \in Met
  <2>1. CASE n = Null
    BY <2>1, <1>2, <1>5
  <2>2. CASE n \in R
    <3>1. W[0] \cap R = {n} /\ Cardinality({n}) = 1
      <4>1. W[0] = {n}
        BY <1>5
      <4>2. W[0] \cap R = {n}
        BY <2>2, <4>1
      <4>3. Cardinality({n}) = 1
        BY FS_Singleton
      <4> QED BY <4>2, <4>3
    <3>2. Cardinality(W[0] \cap R) > 0 /\ W[0] \subseteq R \cup {Null} /\ n \in W[0]
      <4>1. W[0] = {n}
        BY <1>5
      <4>2. Cardinality(W[0] \cap R) = 1
        BY <3>1
      <4> QED BY <2>2, <4>1, <4>2
    <3> QED BY <3>2
  <2> QED BY <2>1, <2>2
<1>7. ASSUME NEW k \in Nat, k \in Met PROVE k + 1 \in Met
  <2> SUFFICES ASSUME k + 1 \in 0 .. N
               PROVE  /\ W[k + 1] \subseteq R \cup {Null} /\ n \in W[k + 1]
                      /\ R \subseteq W[k + 1] \/ Cardinality(W[k + 1] \cap R) > k + 1
    OBVIOUS
  <2>1. k \in 0 .. N /\ W[k + 1] = Further(nodes, W[k])
    BY <1>2, <1>5
  <2>2. W[k] \subseteq R \cup {Null} /\ n \in W[k] /\ (R \subseteq W[k] \/ Cardinality(W[k] \cap R) > k)
    BY <1>7, <2>1
  <2>3. W[k] \subseteq W[k + 1]
    BY <2>1 DEF Further
  <2>4. W[k + 1] \subseteq R \cup {Null} /\ n \in W[k + 1]
    BY <2>1, <2>2, <2>3, <1>3
  <2>5. CASE R \subseteq W[k]
    BY <2>3, <2>4, <2>5
  <2>6. CASE ~(R \subseteq W[k])
    <3>1. n \in W[k] \cap R
      BY <2>2, <2>6
    <3>2. PICK m \in W[k] \cap R, s \in Side : nodes.kid[s][m] \notin (W[k] \cap R) \cup {Null}
      <4>1. PICK S : S = W[k] \cap R
        OBVIOUS
      <4>2. S \in SUBSET R /\ S # R /\ n \in S
        BY <2>6, <3>1, <4>1
      <4>3. ~\A m \in S, s \in Side : nodes.kid[s][m] \in S \cup {Null}
        BY <4>2
      <4> QED BY <4>1, <4>3
    <3>3. m # Null /\ m \in W[k]
      BY <3>2, <1>2
    <3>4. nodes.kid[s][m] \in W[k + 1]
      <4>1. nodes.kid[s][m] \in Pointer
        BY <3>2, HeapFields
      <4> QED BY <2>1, <3>2, <3>3, <4>1 DEF Further
    <3>5. nodes.kid[s][m] \in R
      BY <3>2
    <3>6. PICK y : y = nodes.kid[s][m]
      OBVIOUS
    <3>7. y \in W[k + 1] \cap R /\ y \notin W[k] \cap R
      BY <3>2, <3>4, <3>5, <3>6
    <3>8. IsFiniteSet(W[k] \cap R) /\ IsFiniteSet(W[k + 1] \cap R)
      BY <1>2, FS_Subset
    <3>9. Cardinality((W[k] \cap R) \cup {y}) = Cardinality(W[k] \cap R) + 1
      <4>1. PICK S : S = W[k] \cap R
        OBVIOUS
      <4>2. IsFiniteSet(S) /\ y \notin S
        BY <3>7, <3>8, <4>1
      <4>3. Cardinality(S \cup {y}) = Cardinality(S) + 1
        BY <4>2, FS_AddElement
      <4> QED BY <4>1, <4>3
    <3>10. Cardinality((W[k] \cap R) \cup {y}) <= Cardinality(W[k + 1] \cap R)
      <4>1. (W[k] \cap R) \cup {y} \in SUBSET (W[k + 1] \cap R)
        BY <2>3, <3>7
      <4> QED BY <3>8, <4>1, FS_Subset
    <3>11. Cardinality(W[k] \cap R) \in Nat /\ Cardinality(W[k + 1] \cap R) \in Nat
      BY <3>8, FS_CardinalityType
    <3>12. Cardinality(W[k + 1] \cap R) > k + 1
      BY <2>2, <2>6, <3>9, <3>10, <3>11
    <3> QED BY <2>4, <3>12
  <2> QED BY <2>5, <2>6
<1>8. N \in Met
  <2> HIDE DEF Met
  <2> QED BY <1>2, <1>6, <1>7, SetInduction
<1>9. W[N] \subseteq R \cup {Null} /\ (R \subseteq W[N] \/ Cardinality(W[N] \cap R) > N)
  BY <1>2, <1>8
<1>10. R \subseteq W[N]
  <2>1. W[N] \cap R \in SUBSET Node
    OBVIOUS
  <2>2. Cardinality(W[N] \cap R) <= N /\ Cardinality(W[N] \cap R) \in Nat
    BY <2>1, <1>2, FS_Subset, FS_CardinalityType DEF N
  <2> QED BY <2>2, <1>2, <1>9
<1> QED BY <1>1, <1>2, <1>9, <1>10

-----------------------------------------------------------------------------
(* What follows from the invariant.                                        *)

LEMMA InvType == ASSUME Inv PROVE TypeOK
<1>1. Typed
  BY DEF Inv
<1>2. members \subseteq Node /\ in \in Pointer
  BY <1>1 DEF Typed
<1>3. pc = "descend" => curr \in Node
  BY <1>2 DEF Inv, Phase, Descending
<1>4. pc = "heat" => curr \in Node
  BY <1>2 DEF Inv, Phase, Heating
<1>5. pc = "rise" => curr \in Node
  BY <1>2 DEF Inv, Phase, Rising
<1>6. ASSUME pc = "extreme" PROVE curr \in Node /\ target \in Node
  <2>1. PICK sub, ap : Approaching(sub, ap)
    BY <1>6 DEF Inv, Phase
  <2>2. /\ Tree(nodes, members, tree, sub) /\ target = tree /\ tree \in members
        /\ curr \in sub[nodes.kid[Opposite(direction)][target]] /\ nodes \in Heap
        /\ sub \in [Pointer -> SUBSET members]
    BY <2>1 DEF Approaching, Grown, Tree
  <2>3. Opposite(direction) \in Side
    BY <1>1, Sides DEF Typed
  <2>4. nodes.kid[Opposite(direction)][target] \in Pointer
    BY <2>2, <2>3, <1>2, HeapFields
  <2> QED BY <2>2, <2>4, <1>2
<1>7. pc = "fix" => target \in Node /\ fix \in Node
  BY <1>2 DEF Inv, Phase, Fixing, Beside
<1>8. pc = "splice" => target \in Node
  BY <1>2 DEF Inv, Phase, Splicing, Beside
<1>9. pc = "climb" => target \in Node /\ replacement \in Node
  BY <1>2 DEF Inv, Phase, Climbing
<1>10. nodes \in [kid: [Side -> [Node -> Pointer]], up: [Node -> Pointer], black: [Node -> BOOLEAN]]
  BY <1>1 DEF Typed, Heap
<1>11. pc = "fault" => miscoloured
  BY DEF Inv, Phase, Faulty
<1> QED BY <1>1, <1>3, <1>4, <1>5, <1>6, <1>7, <1>8, <1>9, <1>10, <1>11 DEF TypeOK, Typed

LEMMA InvLinked ==
  ASSUME Inv, pc # "climb"
  PROVE  Linked = {} \/ \E M, r, sub : Linked \subseteq M /\ Tree(nodes, M, r, sub)
<1>1. Typed /\ Phase
  BY DEF Inv
<1>2. pc \notin {"heat", "rise"} => Linked = members
  BY DEF Linked
<1>3. pc \in {"heat", "rise"} => Linked = members \cup {in}
  BY DEF Linked
<1>4. CASE pc = "idle"
  BY <1>1, <1>2, <1>4 DEF Phase, Grown
<1>5. CASE pc = "descend"
  BY <1>1, <1>2, <1>5 DEF Phase, Descending, Grown
<1>6. CASE pc = "heat"
  BY <1>1, <1>3, <1>6 DEF Phase, Heating
<1>7. CASE pc = "rise"
  BY <1>1, <1>3, <1>7 DEF Phase, Rising, Grown
<1>8. CASE pc = "search"
  BY <1>1, <1>2, <1>8 DEF Phase, Searching, Grown
<1>9. CASE pc = "extreme"
  BY <1>1, <1>2, <1>9 DEF Phase, Approaching, Grown
<1>10. CASE pc = "fix"
  BY <1>1, <1>2, <1>10 DEF Phase, Fixing
<1>11. CASE pc = "splice"
  BY <1>1, <1>2, <1>11 DEF Phase, Splicing
<1>12. CASE pc = "fault"
  BY <1>1, <1>2, <1>12 DEF Phase, Faulty
<1> QED BY <1>1, <1>4, <1>5, <1>6, <1>7, <1>8, <1>9, <1>10, <1>11, <1>12 DEF Typed

LEMMA InvLinks == ASSUME Inv PROVE LinksMutual
<1> SUFFICES ASSUME pc # "climb", NEW m \in Linked, NEW n \in Linked
             PROVE  nodes.up[n] = m <=> \E s \in Side : nodes.kid[s][m] = n
  BY DEF LinksMutual
<1>1. PICK M, r, sub : m \in M /\ n \in M /\ Tree(nodes, M, r, sub)
  BY InvLinked
<1>2. n # Null /\ m # Null
  BY <1>1, NullFacts DEF Tree
<1> QED BY <1>1, <1>2 DEF Tree, LinkedUp

(* Below finds the nodes of sub.                                           *)
LEMMA BelowSub ==
  ASSUME NEW M, NEW r, NEW sub, Tree(nodes, M, r, sub), NEW n, n = Null \/ n \in M
  PROVE  Below(n) = sub[n]
<1>1. nodes \in Heap /\ M \subseteq Node /\ sub[Null] = {} /\ Null \notin M
  BY NullFacts DEF Tree
<1>2. sub[n] \subseteq M
  BY <1>1, TreeFinite
<1>3. (n = Null /\ sub[n] = {}) \/ n \in sub[n]
  BY <1>1, TreeFinite
<1>4. ASSUME NEW m \in sub[n], NEW s \in Side PROVE nodes.kid[s][m] \in sub[n] \cup {Null}
  <2>1. n \in M /\ m \in M /\ sub[m] \subseteq sub[n]
    BY <1>1, <1>4, SubTrans
  <2>2. ASSUME nodes.kid[s][m] # Null PROVE nodes.kid[s][m] \in sub[m]
    BY <2>1, <2>2, KidFacts
  <2> QED BY <2>1, <2>2
<1>5. ASSUME NEW S \in SUBSET sub[n], n \in S,
             \A m \in S, s \in Side : nodes.kid[s][m] \in S \cup {Null}
      PROVE  S = sub[n]
  <2>1. n \in M
    BY <1>2, <1>5
  <2>2. \A m \in S, s \in Side : m \in M /\ nodes.kid[s][m] # Null => nodes.kid[s][m] \in S
    BY <1>5
  <2>3. sub[n] \subseteq S
    BY <2>1, <2>2, <1>5, TreeClosed
  <2> QED BY <2>3
<1>6. PICK R : R = sub[n]
  OBVIOUS
<1>7. R \subseteq Node
  BY <1>1, <1>2, <1>6
<1>8. \A m \in R, s \in Side : nodes.kid[s][m] \in R \cup {Null}
  BY <1>4, <1>6
<1>9. \A S \in SUBSET R : n \in S /\ (\A m \in S, s \in Side : nodes.kid[s][m] \in S \cup {Null}) => S = R
  BY <1>5, <1>6
<1>10. (n = Null /\ R = {}) \/ n \in R
  BY <1>3, <1>6
<1>11. Below(n) = R
  BY <1>1, <1>7, <1>8, <1>9, <1>10, BelowIs
<1> QED BY <1>6, <1>11

LEMMA BelowNull == ASSUME nodes \in Heap PROVE Below(Null) = {}
<1>1. PICK R, n : R = {} /\ n = Null
  OBVIOUS
<1>2. /\ R \subseteq Node /\ n = Null /\ R = {}
      /\ \A m \in R, s \in Side : nodes.kid[s][m] \in R \cup {Null}
      /\ \A S \in SUBSET R : n \in S /\ (\A m \in S, s \in Side : nodes.kid[s][m] \in S \cup {Null}) => S = R
  BY <1>1
<1>3. Below(n) = R
  BY <1>2, BelowIs
<1> QED BY <1>1, <1>3

LEMMA InvSearchTree == ASSUME Inv PROVE SearchTree
<1> SUFFICES ASSUME pc = "idle"
             PROVE  /\ Below(tree) = members
                    /\ \A n \in members :
                         /\ \A m \in Below(nodes.kid["left"][n]) : m < n
                         /\ \A m \in Below(nodes.kid["right"][n]) : m > n
  BY DEF SearchTree
<1>1. nodes \in Heap
  BY DEF Inv, Typed
<1>2. CASE tree = Null /\ members = {}
  BY <1>1, <1>2, BelowNull
<1>3. ASSUME NEW sub, NEW ap, Grown(miscoloured, nodes, members, tree, sub, ap)
      PROVE  /\ Below(tree) = members
             /\ \A n \in members :
                  /\ \A m \in Below(nodes.kid["left"][n]) : m < n
                  /\ \A m \in Below(nodes.kid["right"][n]) : m > n
  <2>1. Tree(nodes, members, tree, sub) /\ tree \in members /\ sub[tree] = members
    BY <1>3 DEF Grown, Tree
  <2>2. Below(tree) = members
    BY <2>1, BelowSub
  <2>3. ASSUME NEW n \in members, NEW s \in Side, NEW m \in Below(nodes.kid[s][n]) PROVE On(s, m, n)
    <3>1. nodes.kid[s][n] = Null \/ nodes.kid[s][n] \in members
      BY <2>1, KidFacts
    <3>2. Below(nodes.kid[s][n]) = sub[nodes.kid[s][n]]
      BY <2>1, <3>1, BelowSub
    <3> QED BY <2>1, <2>3, <3>2 DEF Tree, Sorted
  <2>4. ASSUME NEW n \in members
        PROVE  /\ \A m \in Below(nodes.kid["left"][n]) : m < n
               /\ \A m \in Below(nodes.kid["right"][n]) : m > n
    BY <2>3, Sides DEF On
  <2> QED BY <2>2, <2>4
<1> QED BY <1>2, <1>3 DEF Inv, Phase

-----------------------------------------------------------------------------
(* The balance: the black nodes above a node and the level below it add up *)
(* to the level of the root.                                               *)

(* The black nodes from the root down to n.                                *)
Overhead(h, M, sub, n) == {m \in M : h.black[m] /\ n \in sub[m]}

LEMMA OverheadKid ==
  ASSUME NEW h, NEW M, NEW r, NEW sub, Tree(h, M, r, sub), NEW n \in M, NEW s \in Side,
         NEW k, k = h.kid[s][n], k # Null
  PROVE  Cardinality(Overhead(h, M, sub, k)) =
           Cardinality(Overhead(h, M, sub, n)) + (IF h.black[k] THEN 1 ELSE 0)
<1>1. /\ k \in M /\ h.up[k] = n /\ k \in sub[k] /\ sub[k] \subseteq sub[n] /\ n \notin sub[k]
  BY KidFacts
<1>2. ASSUME NEW m \in M PROVE k \in sub[m] <=> m = k \/ n \in sub[m]
  <2>1. CASE m = k
    BY <2>1, <1>1
  <2>2. CASE m # k
    <3>1. k \in sub[m] => n \in sub[m]
      BY <2>2, <1>1, UpClosed
    <3>2. n \in sub[m] => sub[n] \subseteq sub[m]
      BY SubTrans
    <3> QED BY <2>2, <3>1, <3>2, <1>1
  <2> QED BY <2>1, <2>2
<1>3. PICK A, B : A = Overhead(h, M, sub, n) /\ B = Overhead(h, M, sub, k)
  OBVIOUS
<1>4. k \notin A
  BY <1>1, <1>3 DEF Overhead
<1>5. B = IF h.black[k] THEN A \cup {k} ELSE A
  <2>1. CASE h.black[k]
    BY <2>1, <1>1, <1>2, <1>3 DEF Overhead
  <2>2. CASE ~h.black[k]
    BY <2>2, <1>1, <1>2, <1>3 DEF Overhead
  <2> QED BY <2>1, <2>2
<1>6. IsFiniteSet(A)
  <2>1. IsFiniteSet(M) /\ A \subseteq M
    BY <1>3, TreeFinite DEF Overhead
  <2> QED BY <2>1, FS_Subset
<1>7. Cardinality(A) \in Nat
  BY <1>6, FS_CardinalityType
<1>8. Cardinality(A \cup {k}) = Cardinality(A) + 1
  BY <1>4, <1>6, FS_AddElement
<1>9. CASE h.black[k]
  BY <1>3, <1>5, <1>8, <1>9
<1>10. CASE ~h.black[k]
  <2>1. B = A
    BY <1>5, <1>10
  <2> QED BY <2>1, <1>3, <1>7, <1>10
<1> QED BY <1>9, <1>10

LEMMA OverheadRoot ==
  ASSUME NEW h, NEW M, NEW r, NEW sub, Tree(h, M, r, sub), h.black[r]
  PROVE  Cardinality(Overhead(h, M, sub, r)) = 1
<1>1. r \in M /\ sub[r] = M
  BY DEF Tree
<1>2. ASSUME NEW m \in M, m # r PROVE r \notin sub[m]
  <2>1. SideOf(h, m) \in Side /\ h.up[m] \in M /\ h.kid[SideOf(h, m)][h.up[m]] = m
    BY <1>2, UpFacts
  <2>2. r \notin sub[h.kid[SideOf(h, m)][h.up[m]]]
    BY <2>1, RootAbove
  <2> QED BY <2>1, <2>2
<1>3. Overhead(h, M, sub, r) = {r}
  BY <1>1, <1>2 DEF Overhead
<1> QED BY <1>3, FS_Singleton

(* What is above a node and what is below it make up what is below the     *)
(* root.                                                                   *)
LEMMA OverheadLevel ==
  ASSUME NEW h, NEW M, NEW r, NEW sub, NEW ap, Settled(h, M, r, sub, ap), NEW w, w = Weight(h, Null, Null)
  PROVE  \A n \in M : Cardinality(Overhead(h, M, sub, n)) + ap[n] = ap[r] + w[n]
<1>1. /\ Tree(h, M, r, sub) /\ r \in M /\ sub[r] = M /\ h.black[r] /\ M \subseteq Node /\ h \in Heap
      /\ Level(h, M, ap, w)
  BY DEF Settled, Tree, Coloured
<1>2. \A n \in M : n \in Node /\ n # Null /\ n \in Pointer
  BY <1>1, NullFacts
<1>3. \A n \in M : w[n] = IF h.black[n] THEN 1 ELSE 0
  BY <1>2 DEF Weight
<1>4. \A n \in M : ap[n] \in Nat /\ w[n] \in Nat /\ Cardinality(Overhead(h, M, sub, n)) \in Nat
  <2>1. ASSUME NEW n \in M PROVE Cardinality(Overhead(h, M, sub, n)) \in Nat
    <3>1. IsFiniteSet(M) /\ Overhead(h, M, sub, n) \subseteq M
      BY <1>1, TreeFinite DEF Overhead
    <3> QED BY <3>1, FS_Subset, FS_CardinalityType
  <2>2. \A n \in M : ap[n] \in Nat
    BY <1>1, <1>2 DEF Level
  <2> QED BY <2>1, <2>2, <1>3
<1> DEFINE S == {n \in M : Cardinality(Overhead(h, M, sub, n)) + ap[n] = ap[r] + w[n]}
<1>5. r \in S
  <2>1. Cardinality(Overhead(h, M, sub, r)) = 1 /\ w[r] = 1
    BY <1>1, <1>3, OverheadRoot
  <2> QED BY <2>1, <1>1, <1>4
<1>6. ASSUME NEW n \in S, NEW s \in Side, n \in M, h.kid[s][n] # Null PROVE h.kid[s][n] \in S
  <2>1. PICK k : k = h.kid[s][n]
    OBVIOUS
  <2>2. k \in M /\ k # Null
    BY <2>1, <1>1, <1>6, KidFacts
  <2>3. Cardinality(Overhead(h, M, sub, k)) = Cardinality(Overhead(h, M, sub, n)) + w[k]
    <3>1. Cardinality(Overhead(h, M, sub, k)) =
            Cardinality(Overhead(h, M, sub, n)) + (IF h.black[k] THEN 1 ELSE 0)
      BY <2>1, <2>2, <1>1, <1>6, OverheadKid
    <3> QED BY <2>2, <3>1, <1>3
  <2>4. ap[n] = ap[k] + w[n]
    BY <2>1, <1>1, <1>6 DEF Level
  <2>5. Cardinality(Overhead(h, M, sub, k)) + ap[k] = ap[r] + w[k]
    <3>1. Cardinality(Overhead(h, M, sub, n)) + ap[n] = ap[r] + w[n]
      BY <1>6
    <3>2. PICK x, y : x = Cardinality(Overhead(h, M, sub, k)) /\ y = Cardinality(Overhead(h, M, sub, n))
      OBVIOUS
    <3>3. /\ x \in Nat /\ y \in Nat /\ ap[k] \in Nat /\ ap[n] \in Nat /\ ap[r] \in Nat /\ w[n] \in Nat
          /\ w[k] \in Nat
      BY <2>2, <3>2, <1>1, <1>4, <1>6
    <3>4. x = y + w[k] /\ y + ap[n] = ap[r] + w[n]
      BY <2>3, <3>1, <3>2
    <3>5. x + ap[k] = ap[r] + w[k]
      <4>1. PICK i, j, l, u, v : i = ap[k] /\ j = ap[n] /\ l = ap[r] /\ u = w[n] /\ v = w[k]
        OBVIOUS
      <4>2. i \in Nat /\ j \in Nat /\ l \in Nat /\ u \in Nat /\ v \in Nat
        BY <3>3, <4>1
      <4>3. j = i + u /\ x = y + v /\ y + j = l + u
        BY <2>4, <3>4, <4>1
      <4>4. x + i = l + v
        BY <3>3, <4>2, <4>3
      <4> QED BY <4>1, <4>4
    <3> QED BY <3>2, <3>5
  <2> QED BY <2>1, <2>2, <2>5
<1>7. sub[r] \subseteq S
  <2> HIDE DEF S
  <2> QED BY <1>1, <1>5, <1>6, TreeClosed
<1> QED BY <1>1, <1>7

LEMMA InvBalanced == ASSUME Inv PROVE Balanced
<1>1. CASE pc = "idle" /\ tree = Null /\ members = {}
  BY <1>1 DEF Balanced, IsBlack
<1>2. ASSUME NEW sub, NEW ap, Settled(nodes, members, tree, sub, ap)
      PROVE  Balanced
  <2>1. /\ Tree(nodes, members, tree, sub) /\ Coloured(nodes, members, tree, {}) /\ tree \in members
        /\ Level(nodes, members, ap, Weight(nodes, Null, Null)) /\ members \subseteq Node
    BY <1>2 DEF Settled, Tree
  <2>2. IsBlack(nodes, tree) /\ \A n \in members \ {tree} : nodes.black[n] \/ nodes.black[nodes.up[n]]
    BY <2>1 DEF Coloured, IsBlack
  <2>3. ASSUME NEW n \in members PROVE BlackDepth(n) = Cardinality(Overhead(nodes, members, sub, n))
    <3>1. \A m \in members : Below(m) = sub[m]
      BY <2>1, BelowSub
    <3>2. {m \in members : nodes.black[m] /\ n \in Below(m)} = Overhead(nodes, members, sub, n)
      BY <3>1 DEF Overhead
    <3> QED BY <3>2 DEF BlackDepth
  <2>4. PICK w : w = Weight(nodes, Null, Null)
    OBVIOUS
  <2>5. \A n \in members : Cardinality(Overhead(nodes, members, sub, n)) + ap[n] = ap[tree] + w[n]
    BY <2>4, <1>2, OverheadLevel
  <2>6. ASSUME NEW n \in members, NEW s \in Side, nodes.kid[s][n] = Null PROVE BlackDepth(n) = ap[tree]
    <3>1. ap[n] = ap[Null] + w[n] /\ ap[Null] = 0
      BY <2>1, <2>4, <2>6 DEF Level
    <3>2. w \in [Node -> Nat] /\ n \in Node /\ tree \in Pointer
      BY <2>1, <2>4, WeightType, NullFacts
    <3>3. w[n] \in Nat /\ ap[tree] \in Nat
      BY <2>1, <3>2 DEF Level
    <3>4. PICK x : x = Cardinality(Overhead(nodes, members, sub, n))
      OBVIOUS
    <3>5. x \in Nat
      <4>1. IsFiniteSet(members) /\ Overhead(nodes, members, sub, n) \subseteq members
        BY <2>1, TreeFinite DEF Overhead
      <4> QED BY <3>4, <4>1, FS_Subset, FS_CardinalityType
    <3>6. x + ap[n] = ap[tree] + w[n]
      BY <2>5, <3>4
    <3>7. x = ap[tree]
      BY <3>1, <3>3, <3>5, <3>6
    <3> QED BY <2>3, <3>4, <3>7
  <2>7. \A m, n \in members :
           (\E s \in Side : nodes.kid[s][m] = Null) /\ (\E s \in Side : nodes.kid[s][n] = Null)
             => BlackDepth(m) = BlackDepth(n)
    BY <2>6
  <2> QED BY <2>2, <2>7 DEF Balanced
<1>3. CASE pc # "idle" \/ miscoloured
  BY <1>3 DEF Balanced
<1> QED BY <1>1, <1>2, <1>3 DEF Inv, Phase, Grown

(* The inductive invariant holds between any two rounds of the loops of    *)
(* tree_insert and tree_delete, for any set of nodes, in whatever order    *)
(* nodes are inserted and deleted, whatever their flags are.               *)
THEOREM InvKept == Spec => []Inv
<1>1. Inv /\ [Next]_vars => Inv'
  BY StepInv
<1> QED BY InitInv, <1>1, PTL DEF Spec

(* No loop of tree_insert or tree_delete reads through a NULL pointer (pc  *)
(* "fault") unless tree_delete has taken a wrong colour from the flags     *)
(* before: the descent stops at the last node, a red parent has a parent,  *)
(* and the fixer, which takes brothers and nephews as they come, never     *)
(* leaves the tree.                                                        *)
THEOREM TypesKept == Spec => []TypeOK
BY InvKept, InvType, PTL

(* Parent and child agree about each other between any two rounds of the   *)
(* loops, whatever was rotated, whatever the colours have come to, and     *)
(* again when tree_delete has exchanged the target for its replacement and *)
(* returns.                                                                *)
THEOREM LinksKept == Spec => []LinksMutual
BY InvKept, InvLinks, PTL

(* Between calls the tree is a search tree of just the nodes that were     *)
(* inserted and not given back by tree_delete: no rotation, no exchange    *)
(* loses a subtree or puts a node on the wrong side, and no colour taken   *)
(* from the flags makes it.                                                *)
THEOREM SearchTreeKept == Spec => []SearchTree
BY InvKept, InvSearchTree, PTL

(* Between calls the root is black, no red node has a red parent and all   *)
(* ways down pass as many black nodes, so that "a maximum depth of 2 *     *)
(* log(n+1)" is kept by "transfer heat up the tree", by the rotations and  *)
(* by the fixer, until tree_delete takes a colour from the flags that is   *)
(* not the target's.                                                       *)
THEOREM BalanceKept == Spec => []Balanced
BY InvKept, InvBalanced, PTL
===============================================================================
