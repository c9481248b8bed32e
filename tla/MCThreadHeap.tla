---------------------------- MODULE MCThreadHeap ----------------------------
(* Model-checking instance.                                                *)
EXTENDS ThreadHeap, TLC

CONSTANTS t1, t2, t3, t4, t5, t6

(* Six threads are the fewest for which a delete can send the thread it    *)
(* moves up.                                                               *)
SixThreads == {t1, t2, t3, t4, t5, t6}

(* Three keys are the fewest for which of two children that are better     *)
(* than the thread in the hole one is the best; one is below zero, and     *)
(* set_key takes it for a very large one.                                  *)
ThreeKeys == -1 .. 1

(* Bound: few threads have another key than 0. A delete that sends a       *)
(* thread up needs two with the worst key (the deleted one and its         *)
(* parent); a choice between two unequal children, both better than the    *)
(* thread in the hole, one with the worst key and two with the best (the   *)
(* root that is deleted and one of its children).                          *)
HaveKey(v) == Cardinality({t \in Threads : key[t] = v})

FewUnlike ==
    LET best == IF kind = "priority" THEN 1 ELSE -1
    IN  \/ HaveKey(-best) <= 2 /\ HaveKey(best) = 0
        \/ HaveKey(-best) <= 1 /\ HaveKey(best) <= 2

Sym == Permutations(Threads)
=============================================================================
