--------------------------- MODULE RendezvousPair ---------------------------
(***************************************************************************)
(* Two rendezvous points used in succession, the use that rendezvous.c     *)
(* says its code is written for: every processor joins first, second,      *)
(* first, second, ...                                                      *)
(***************************************************************************)
EXTENDS Rendezvous

CONSTANT MaxJoins       \* how often each processor joins

ASSUME MaxJoinsAssumption == MaxJoins \in Nat

(* All processors take part, and there are at least two of them: alone, a  *)
(* processor that finds reset set waits for a flag nobody is left to raise. *)
ASSUME MaxAssumption == max = Cardinality(Cpu) /\ max > 1

VARIABLES
    joined,     \* how many times each processor entered rendezvous_join
    left        \* how many times it returned

vars == <<count, reset, cond, at, pc, joined, left>>

(* The point of the k-th join.                                             *)
PointOf_bug(k) == "first"       \* one point used over and over again

PointOf(k) == IF k % 2 = 1 THEN "first" ELSE "second"

Init ==
    /\ RendezvousInit
    /\ joined = [c \in Cpu |-> 0]
    /\ left = [c \in Cpu |-> 0]

Join(c) ==
    /\ joined[c] < MaxJoins
    /\ Arrive(c, PointOf(joined[c] + 1))
    /\ joined' = [joined EXCEPT ![c] = @ + 1]
    /\ UNCHANGED left

Return(c) ==
    /\ Depart(c)
    /\ left' = [left EXCEPT ![c] = @ + 1]
    /\ UNCHANGED joined

Done == \A c \in Cpu : left[c] = MaxJoins

(* The calls come to an end only because MaxJoins bounds them.             *)
Finished == Done /\ UNCHANGED vars

Next == Finished \/ \E c \in Cpu : Join(c) \/ Return(c)

Spec == Init /\ [][Next]_vars

(* Every processor runs.                                                   *)
FairSpec == Spec /\ \A c \in Cpu : WF_vars(Join(c)) /\ WF_vars(Return(c))

-----------------------------------------------------------------------------
(* Types, and how the counters of joins follow the program counter.        *)
TypeOK ==
    /\ RendezvousTypeOK
    /\ joined \in [Cpu -> 0 .. MaxJoins]
    /\ left \in [Cpu -> 0 .. MaxJoins]
    /\ \A c \in Cpu : joined[c] = left[c] + (IF pc[c] = "free" THEN 0 ELSE 1)
    /\ \A c \in Cpu : pc[c] # "free" => at[c] = PointOf(joined[c])

(* A flag that is up was raised for everybody who spins on it: no          *)
(* processor lowers the flag of a point while another has still to see it  *)
(* up (CLEAR_COND against the while loops of rendezvous_join).             *)
NobodyLeftBehind ==
    \A c, d \in Cpu : joined[d] > joined[c] /\ pc[c] = "spin" => cond[at[c]] = 1

(* Nobody leaves a rendezvous before everybody has joined it.              *)
Barrier == INSTANCE CpuBarrier

ImplementsCpuBarrier == Barrier!Spec

(* Every call of rendezvous_join returns.                                  *)
EveryJoinReturns == <>[]Done
=============================================================================
