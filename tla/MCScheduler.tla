---------------------------- MODULE MCScheduler ----------------------------
(* Model-checking instance: three threads of two priorities.               *)
EXTENDS Scheduler, TLC

CONSTANTS a, b, c

MCSoftTwo == [t \in Thread |-> IF t = a THEN 1 ELSE 2]

(* Bound: at most one thread at a time is asleep, pinned or in a sleep     *)
(* queue.                                                                  *)
OneAway ==
    \E t \in Thread :
        /\ waiting \subseteq {t}
        /\ \A u \in Thread \ {t} : status[u] = "runnable"
=============================================================================
