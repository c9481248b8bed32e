---------------------------- MODULE RedBlackTree ----------------------------
(***************************************************************************)
(* The red-black tree that RED_BLACK_TREE (include/data_structures.h)      *)
(* generates, as virt_mem.c instantiates it for the mappings of an address *)
(* space: comp compares the pointers to the nodes, so a node is its own    *)
(* key, and the colour is one bit.                                         *)
(*                                                                         *)
(* A step is one round of a loop of the macro, or the code between two     *)
(* loops.  The left and the right halves of the code are one definition    *)
(* with the side as parameter.  The callers hold the lock of the address   *)
(* space, so there is one call at a time; they insert a node that is not   *)
(* in the tree and delete one that is, and free a node that was deleted.   *)
(*                                                                         *)
(* tree_delete takes the colour for the replacement from the flags of the  *)
(* target, where virt_mem.c keeps VMOBJ_READ, and not from its colour.     *)
(* miscoloured is a history variable: the two were different.  A loop that *)
(* comes to a NULL pointer and reads through it is the end ("fault").      *)
(***************************************************************************)
EXTENDS Integers, FiniteSets

CONSTANTS
    Node,               \* addresses of nodes
    Readable            \* nodes with bit 0 set in flags (VMOBJ_READ), which
                        \* tree_delete reads in place of the colour

ASSUME NodeAssumption == Node \subseteq Nat \ {0} /\ IsFiniteSet(Node)
ASSUME ReadableAssumption == Readable \subseteq Node

Null == 0
Side == {"left", "right"}

VARIABLES
    tree,               \* the root
    nodes,              \* the fields of the nodes: kid[side], up, black
    pc,                 \* the loop the call is in
    in,                 \* the argument
    curr,               \* curr of tree_insert, node_ptr of tree_delete
    target,             \* the node tree_delete found
    fix,                \* fix_ptr
    replacement,
    direction,          \* the side the replacement hangs on
    members,            \* what the callers have put in and got back
    miscoloured

call == <<in, curr, target, fix, replacement, direction>>
vars == <<tree, nodes, pc, call, members, miscoloured>>

Pointer == Node \cup {Null}

Blank == [kid |-> [s \in Side |-> [n \in Node |-> Null]],
          up |-> [n \in Node |-> Null],
          black |-> [n \in Node |-> FALSE]]

Init ==
    /\ tree = Null /\ nodes = Blank /\ members = {}
    /\ pc = "idle"
    /\ in = Null /\ curr = Null /\ target = Null /\ fix = Null /\ replacement = Null
    /\ direction = "left"
    /\ miscoloured = FALSE

-----------------------------------------------------------------------------
Opposite(s) == IF s = "left" THEN "right" ELSE "left"

(* The side of its parent a node is on.                                    *)
SideOf(h, n) == IF n = h.kid["left"][h.up[n]] THEN "left" ELSE "right"

uncle_node(h, n) == h.kid[Opposite(SideOf(h, h.up[n]))][h.up[h.up[n]]]

brother_node(h, n) == h.kid[Opposite(SideOf(h, n))][h.up[n]]

IsBlack(h, n) == n # Null => h.black[n]

SetUp(h, n, p) == IF n = Null THEN h ELSE [h EXCEPT !.up[n] = p]

SetKid(h, p, s, n) == IF p = Null THEN h ELSE [h EXCEPT !.kid[s][p] = n]

(* s_right_rotate (s = "left") and s_left_rotate (s = "right"): the child  *)
(* on side s takes the place and the colour of top.                        *)
Rotate(h, top, s) ==
    LET o == Opposite(s)
        child == h.kid[s][top]
        inner == h.kid[o][child]
        moved == SetUp([h EXCEPT !.kid[s][top] = inner], inner, top)
    IN  [moved EXCEPT !.up[child] = h.up[top],
                      !.kid[o][child] = top,
                      !.up[top] = child,
                      !.black[top] = h.black[child],
                      !.black[child] = h.black[top]]

(* A rotation, and the link of the parent to the new top: the pointer the  *)
(* rotation is given, or the assignment by child_direction that follows.   *)
RotateUnder(h, top, s) ==
    SetKid(Rotate(h, top, s), h.up[top],
           IF h.up[top] = Null THEN s ELSE SideOf(h, top), h.kid[s][top])

-----------------------------------------------------------------------------
(* tree_insert.                                                            *)
Leaf(h, n, p, colour) ==
    [h EXCEPT !.up[n] = p, !.kid["left"][n] = Null, !.kid["right"][n] = Null,
              !.black[n] = colour]

InsertFirst(n) ==
    /\ pc = "idle" /\ tree = Null
    /\ nodes' = Leaf(nodes, n, Null, TRUE)
    /\ tree' = n
    /\ members' = members \cup {n}
    /\ UNCHANGED <<pc, call, miscoloured>>

Insert(n) ==
    /\ pc = "idle" /\ tree # Null
    /\ in' = n /\ curr' = tree
    /\ pc' = "descend"
    /\ UNCHANGED <<tree, nodes, target, fix, replacement, direction, members, miscoloured>>

InsertSide_bug == IF curr < in THEN "left" ELSE "right"

InsertSide == IF curr > in THEN "left" ELSE "right"

Descend_bug ==          \* the loop goes on past the last node
    /\ pc = "descend"
    /\ curr' = nodes.kid[InsertSide][curr]
    /\ UNCHANGED <<tree, nodes, pc, in, target, fix, replacement, direction, members, miscoloured>>

Descend ==
    /\ pc = "descend"
    /\ LET next == nodes.kid[InsertSide][curr]
       IN  IF next # Null
             THEN curr' = next /\ UNCHANGED <<nodes, pc>>
             ELSE /\ nodes' = SetKid(Leaf(nodes, in, curr, FALSE), curr, InsertSide, in)
                  /\ curr' = in
                  /\ pc' = "heat"
    /\ UNCHANGED <<tree, in, target, fix, replacement, direction, members, miscoloured>>

(* "easy end condition"                                                    *)
Cool ==
    /\ IsBlack(nodes, nodes.up[curr])
    /\ pc' = "rise"
    /\ UNCHANGED <<nodes, curr>>

(* "transfer heat up the tree"                                             *)
TransferHeat ==
    LET g == nodes.up[nodes.up[curr]]
        cooled == [nodes EXCEPT !.black[nodes.kid["left"][g]] = TRUE,
                                !.black[nodes.kid["right"][g]] = TRUE]
    IN  /\ nodes' = IF nodes.up[g] # Null THEN [cooled EXCEPT !.black[g] = FALSE] ELSE cooled
        /\ curr' = g
        /\ UNCHANGED pc

(* "rotation cases"; the double rotations lift curr over its parent first. *)
InsertRotate ==
    LET p == nodes.up[curr]
        g == nodes.up[p]
        s == SideOf(nodes, p)
        straight == IF SideOf(nodes, curr) = s THEN nodes
                                               ELSE RotateUnder(nodes, p, Opposite(s))
    IN  /\ nodes' = RotateUnder(straight, g, s)
        /\ curr' = straight.kid[s][g]
        /\ pc' = "rise"

Hot == ~IsBlack(nodes, nodes.up[curr])

Heat ==
    /\ pc = "heat"
    /\ \/ Cool
       \/ /\ Hot /\ nodes.up[nodes.up[curr]] # Null
          /\ IF IsBlack(nodes, uncle_node(nodes, curr)) THEN InsertRotate ELSE TransferHeat
    /\ UNCHANGED <<tree, in, target, fix, replacement, direction, members, miscoloured>>

(* "get back to the top": the end of tree_insert.                          *)
Rise ==
    /\ pc = "rise"
    /\ IF nodes.up[curr] # Null
         THEN curr' = nodes.up[curr] /\ UNCHANGED <<tree, pc, in, members>>
         ELSE /\ tree' = curr /\ members' = members \cup {in}
              /\ pc' = "idle" /\ in' = Null /\ curr' = Null
    /\ UNCHANGED <<nodes, target, fix, replacement, direction, miscoloured>>

-----------------------------------------------------------------------------
(* tree_delete.                                                            *)
Delete(n) ==
    /\ pc = "idle"
    /\ in' = n /\ target' = tree
    /\ pc' = "search"
    /\ UNCHANGED <<tree, nodes, curr, fix, replacement, direction, members, miscoloured>>

(* "find the target": comp(target, in) = -1, the target is less, is        *)
(* answered by going to the left.                                          *)
SearchSide == IF target < in THEN "left" ELSE "right"

Search ==
    /\ pc = "search"
    /\ target # Null /\ target # in
    /\ target' = nodes.kid[SearchSide][target]
    /\ UNCHANGED <<tree, nodes, pc, in, curr, fix, replacement, direction, members, miscoloured>>

(* What the fields of a node that is not in the tree hold is nobody's      *)
(* business: the caller frees it.                                          *)
Forget(h, n) == Leaf(h, n, Null, FALSE)

Return(h, root, got) ==
    /\ tree' = root
    /\ nodes' = IF got = Null THEN h ELSE Forget(h, got)
    /\ members' = members \ {got}
    /\ pc' = "idle"
    /\ in' = Null /\ curr' = Null /\ target' = Null /\ fix' = Null /\ replacement' = Null
    /\ direction' = "left"
    /\ UNCHANGED miscoloured

NotFound == pc = "search" /\ target = Null /\ Return(nodes, tree, Null)

Childless(n) == \A s \in Side : nodes.kid[s][n] = Null

DeleteLast ==
    /\ pc = "search" /\ target = in
    /\ Childless(target) /\ nodes.up[target] = Null
    /\ Return(nodes, Null, target)

(* "set up info for the fixer": whether the node that goes away is black.  *)
FixFrom(n) == pc' = (IF nodes.black[n] THEN "fix" ELSE "splice") /\ fix' = n

(* "get the replacement": the nearest node on the left, or the child on    *)
(* the right if there is nothing on the left.  direction is the side on    *)
(* which it hangs, left in the code's direction = 1.                       *)
Found ==
    /\ pc = "search" /\ target = in
    /\ IF Childless(target)
         THEN /\ nodes.up[target] # Null
              /\ FixFrom(target)
              /\ UNCHANGED <<curr, replacement, direction>>
         ELSE /\ direction' = IF nodes.kid["left"][target] = Null THEN "left" ELSE "right"
              /\ curr' = nodes.kid[Opposite(direction')][target]
              /\ pc' = "extreme"
              /\ UNCHANGED <<fix, replacement>>
    /\ UNCHANGED <<tree, nodes, in, target, members, miscoloured>>

Extreme ==
    /\ pc = "extreme"
    /\ IF nodes.kid[direction][curr] # Null
         THEN curr' = nodes.kid[direction][curr] /\ UNCHANGED <<pc, fix, replacement>>
         ELSE FixFrom(curr) /\ replacement' = curr /\ UNCHANGED curr
    /\ UNCHANGED <<tree, nodes, in, target, direction, members, miscoloured>>

(* The rounds of "run the fixer": the tree below fix has a black node too  *)
(* few once the node that goes away is gone.                               *)
FixEnd ==
    /\ nodes.up[fix] = Null \/ ~nodes.black[fix]
    /\ nodes' = IF nodes.up[fix] = Null THEN nodes ELSE [nodes EXCEPT !.black[fix] = TRUE]
    /\ pc' = "splice"
    /\ UNCHANGED fix

FixRedBrother_bug(b) == \* on to the next round with nothing done
    /\ ~nodes.black[b]
    /\ UNCHANGED <<nodes, pc, fix>>

FixRedBrother(b) ==     \* case 1
    /\ ~nodes.black[b]
    /\ nodes' = RotateUnder(nodes, nodes.up[b], SideOf(nodes, b))
    /\ UNCHANGED <<pc, fix>>

FixBlackNephews(b) ==   \* case 2
    /\ nodes.black[b] /\ \A s \in Side : IsBlack(nodes, nodes.kid[s][b])
    /\ nodes' = [nodes EXCEPT !.black[b] = FALSE]
    /\ fix' = nodes.up[fix]
    /\ UNCHANGED pc

FixInnerNephew(b, s) == \* case 3
    /\ nodes.black[b]
    /\ IsBlack(nodes, nodes.kid[s][b]) /\ ~IsBlack(nodes, nodes.kid[Opposite(s)][b])
    /\ nodes' = RotateUnder(nodes, b, Opposite(s))
    /\ UNCHANGED <<pc, fix>>

FixOuterNephew_bug(b, s) ==     \* the nephew keeps its colour
    /\ nodes.black[b] /\ ~IsBlack(nodes, nodes.kid[s][b])
    /\ nodes' = RotateUnder(nodes, nodes.up[b], s)
    /\ pc' = "splice"
    /\ UNCHANGED fix

FixOuterNephew(b, s) == \* case 4
    /\ nodes.black[b] /\ ~IsBlack(nodes, nodes.kid[s][b])
    /\ LET h == RotateUnder(nodes, nodes.up[b], s)
       IN  nodes' = [h EXCEPT !.black[brother_node(h, h.up[fix])] = TRUE]
    /\ pc' = "splice"
    /\ UNCHANGED fix

Short == nodes.up[fix] # Null /\ nodes.black[fix]

Fix ==
    /\ pc = "fix"
    /\ \/ FixEnd
       \/ /\ Short /\ brother_node(nodes, fix) # Null
          /\ LET b == brother_node(nodes, fix)
                 s == SideOf(nodes, b)
             IN  \/ FixRedBrother(b)
                 \/ FixBlackNephews(b)
                 \/ FixInnerNephew(b, s)
                 \/ FixOuterNephew(b, s)
    /\ UNCHANGED <<tree, in, curr, target, replacement, direction, members, miscoloured>>

(* tree_insert looks for the uncle of a child of the root, or tree_delete  *)
(* for the colour of a brother that is not there.                          *)
NullAhead ==
    \/ pc = "heat" /\ Hot /\ nodes.up[nodes.up[curr]] = Null
    \/ pc = "fix" /\ Short /\ brother_node(nodes, fix) = Null

FollowNull ==
    /\ NullAhead
    /\ pc' = "fault"
    /\ UNCHANGED <<tree, nodes, call, members, miscoloured>>

(* "remove it from the old position"                                       *)
TakeOut(h, r) ==
    LET o == Opposite(direction)
    IN  CASE h.kid["right"][target] = r -> SetKid(h, target, "right", h.kid["right"][r])
          [] h.kid["left"][target] = r -> SetKid(h, target, "left", h.kid["left"][r])
          [] OTHER -> SetUp(SetKid(h, h.up[r], direction, h.kid[o][r]), h.kid[o][r], h.up[r])

(* "install it into the new position", "set up its references": the target *)
(* is no parent of r any more.                                             *)
PutInPlace_bug(h, r) ==     \* the children not told of their new parent
    LET p == h.up[target]
        linked == IF p = Null THEN h ELSE SetKid(h, p, SideOf(h, target), r)
    IN  [linked EXCEPT !.up[r] = p,
                       !.kid["left"][r] = linked.kid["left"][target],
                       !.kid["right"][r] = linked.kid["right"][target]]

PutInPlace(h, r) ==
    LET p == h.up[target]
        adopted == SetUp(SetUp(h, h.kid["left"][target], r), h.kid["right"][target], r)
        linked == IF p = Null THEN adopted ELSE SetKid(adopted, p, SideOf(adopted, target), r)
    IN  [linked EXCEPT !.up[r] = p,
                       !.kid["left"][r] = linked.kid["left"][target],
                       !.kid["right"][r] = linked.kid["right"][target]]

Splice ==
    /\ pc = "splice"
    /\ IF replacement # Null
         THEN /\ nodes' = PutInPlace(TakeOut([nodes EXCEPT !.black[replacement] = target \in Readable],
                                             replacement), replacement)
              /\ miscoloured' = (miscoloured \/ (target \in Readable) # nodes.black[target])
              /\ UNCHANGED replacement
         ELSE /\ nodes' = SetKid(nodes, nodes.up[target], SideOf(nodes, target), Null)
              /\ replacement' = nodes.up[target]
              /\ UNCHANGED miscoloured
    /\ pc' = "climb"
    /\ UNCHANGED <<tree, in, curr, target, fix, direction, members>>

Climb ==
    /\ pc = "climb"
    /\ IF nodes.up[replacement] # Null
         THEN /\ replacement' = nodes.up[replacement]
              /\ UNCHANGED <<tree, nodes, pc, in, curr, target, fix, direction, members, miscoloured>>
         ELSE Return(nodes, replacement, target)

-----------------------------------------------------------------------------
InsertStep == Descend \/ Heat \/ Rise

DeleteStep ==
    Search \/ NotFound \/ DeleteLast \/ Found \/ Extreme \/ Fix \/ Splice \/ Climb

Step == InsertStep \/ DeleteStep \/ FollowNull

Next ==
    \/ Step
    \/ \E n \in Node \ members : InsertFirst(n) \/ Insert(n)
    \/ \E n \in members : Delete(n)

Spec == Init /\ [][Next]_vars

(* A call that has begun goes on: nothing in it waits for anybody.         *)
FairSpec == Spec /\ WF_vars(Step)

-----------------------------------------------------------------------------
(* Types: as long as no colour was taken from the flags by mistake, no     *)
(* loop has read through a NULL pointer.                                   *)
TypeOK ==
    /\ tree \in Pointer
    /\ nodes \in [kid: [Side -> [Node -> Pointer]], up: [Node -> Pointer],
                  black: [Node -> BOOLEAN]]
    /\ pc \in {"idle", "descend", "heat", "rise",
               "search", "extreme", "fix", "splice", "climb", "fault"}
    /\ pc = "fault" => miscoloured
    /\ in \in Pointer /\ (in = Null <=> pc = "idle")
    /\ curr \in Pointer /\ target \in Pointer /\ fix \in Pointer /\ replacement \in Pointer
    /\ pc \in {"descend", "heat", "rise", "extreme"} => curr \in Node
    /\ pc \in {"extreme", "fix", "splice", "climb"} => target \in Node
    /\ pc = "fix" => fix \in Node
    /\ pc = "climb" => replacement \in Node
    /\ direction \in Side
    /\ members \subseteq Node
    /\ miscoloured \in BOOLEAN

(* Parent and child agree about each other between any two rounds of any   *)
(* loop, whatever the colours have come to: neither a rotation nor the     *)
(* exchange of the target for its replacement leaves a link behind that    *)
(* points to the old place.                                                *)
Linked == members \cup (IF pc \in {"heat", "rise"} THEN {in} ELSE {})

LinksMutual ==
    pc # "climb" =>
      \A m, n \in Linked :
        nodes.up[n] = m <=> \E s \in Side : nodes.kid[s][m] = n

(* The nodes X and their children.                                         *)
Further(h, X) == X \cup {x \in Pointer : \E s \in Side, m \in X \ {Null} : h.kid[s][m] = x}

(* The nodes that are reached from n.                                      *)
Below(n) ==
    LET reach[k \in 0 .. Cardinality(Node)] ==
          IF k = 0 THEN {n} ELSE Further(nodes, reach[k - 1])
    IN  reach[Cardinality(Node)] \ {Null}

(* Between calls the tree is a search tree of just the nodes that were put *)
(* in and not given back: no rotation or exchange loses a subtree, and a   *)
(* delete that returns NULL has changed nothing.  No colour, right or      *)
(* wrong, matters to this.                                                 *)
SearchTree ==
    pc = "idle" =>
      /\ Below(tree) = members
      /\ \A n \in members :
           /\ \A m \in Below(nodes.kid["left"][n]) : m < n
           /\ \A m \in Below(nodes.kid["right"][n]) : m > n

(* "They tolerate a maximum depth of 2 * log(n+1)": between calls, as long *)
(* as no colour was taken from the flags by mistake, the root is black, no *)
(* red node has a red parent, and every way down from the root passes as   *)
(* many black nodes.  With the first replacement of a root that is not     *)
(* readable "root cannot be red" (data_structures.h) becomes false, and    *)
(* the next insertion can read through NULL.                               *)
BlackDepth(n) == Cardinality({m \in members : nodes.black[m] /\ n \in Below(m)})

Balanced ==
    ~miscoloured /\ pc = "idle" =>
      /\ IsBlack(nodes, tree)
      /\ \A n \in members \ {tree} : nodes.black[n] \/ nodes.black[nodes.up[n]]
      /\ \A m, n \in members :
           (\E s \in Side : nodes.kid[s][m] = Null) /\ (\E s \in Side : nodes.kid[s][n] = Null)
             => BlackDepth(m) = BlackDepth(n)

(* The loops end, whatever the colours have come to, unless one reads      *)
(* through NULL: heat and missing black nodes go up the tree and up only.  *)
EveryCallReturns == []<>(pc \in {"idle", "fault"})
=============================================================================
