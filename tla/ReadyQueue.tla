----------------------------- MODULE ReadyQueue -----------------------------
(***************************************************************************)
(* What the scheduler expects of each of its thread heaps: a set of        *)
(* threads, each with a key, in which a thread can be entered, taken out   *)
(* by name, and given another key.  How the threads are arranged, and how  *)
(* many steps an operation takes, is not part of the promise.              *)
(***************************************************************************)
CONSTANTS Threads, Keys

VARIABLES members, key

vars == <<members, key>>

Init == members = {} /\ key \in [Threads -> Keys]

Enter(t, v) ==
  /\ t \notin members
  /\ members' = members \cup {t}
  /\ key' = [key EXCEPT ![t] = v]

Remove(t) ==
  /\ t \in members
  /\ members' = members \ {t}
  /\ UNCHANGED key

ChangeKey(t, v) ==
  /\ t \in members
  /\ key' = [key EXCEPT ![t] = v]
  /\ UNCHANGED members

Next == \E t \in Threads :
          \/ Remove(t)
          \/ \E v \in Keys : Enter(t, v) \/ ChangeKey(t, v)

Spec == Init /\ [][Next]_vars
=============================================================================
