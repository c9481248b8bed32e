----------------------------- MODULE Rendezvous -----------------------------
(***************************************************************************)
(* A rendezvous point of the scheduler (src/sched/rendezvous.c): a counter *)
(* under a spin lock and a flag that the processors spin on.  This module  *)
(* has the points' state and the steps of rendezvous_join; RendezvousPair  *)
(* and Exclusion say who joins which point when.                           *)
(*                                                                         *)
(* The code between spin_lock and spin_unlock is one step: count and reset *)
(* are touched nowhere else, and it contains at most one access to cond,   *)
(* which is where the step takes place for the processors that spin.       *)
(***************************************************************************)
EXTENDS Integers, FiniteSets

CONSTANTS
    Cpu,        \* the processors
    max         \* rend->max, the argument of rendezvous_init

ASSUME CpuAssumption == IsFiniteSet(Cpu) /\ max \in Nat

VARIABLES
    count,      \* count[r]: rend->count
    reset,      \* reset[r]: rend->reset
    cond,       \* cond[r]: rend->cond, the flag that is spun on
    at,         \* at[c]: the point that c joined last
    pc          \* pc[c]: "free" outside of rendezvous_join, "set" before
                \* SET_COND, "spin" in one of the two while loops

rvars == <<count, reset, cond, at, pc>>

Points == {"first", "second"}

(* rendezvous_init: memset and the assignment of max.                      *)
RendezvousInit ==
    /\ count = [r \in Points |-> 0]
    /\ reset = [r \in Points |-> 0]
    /\ cond = [r \in Points |-> 0]
    /\ at = [c \in Cpu |-> "first"]
    /\ pc = [c \in Cpu |-> "free"]

(* A processor in rendezvous_join works on the point it was given.         *)
Enter_bug(c, r, there) ==   \* spins on the point of the call before
    /\ pc' = [pc EXCEPT ![c] = there]
    /\ UNCHANGED at

Enter(c, r, there) ==
    /\ at' = [at EXCEPT ![c] = r]
    /\ pc' = [pc EXCEPT ![c] = there]

(* Not yet reset: the last of the max processors resets the point and will *)
(* raise the flag.                                                         *)
JoinCount_bug(c, r) ==      \* one processor too early
    /\ reset[r] = 0
    /\ count' = [count EXCEPT ![r] = @ + 1]
    /\ reset' = [reset EXCEPT ![r] = IF max - 1 = count'[r] THEN 1 ELSE 0]
    /\ Enter(c, r, IF max - 1 = count'[r] THEN "set" ELSE "spin")
    /\ UNCHANGED cond

JoinCount(c, r) ==
    /\ reset[r] = 0
    /\ count' = [count EXCEPT ![r] = @ + 1]
    /\ reset' = [reset EXCEPT ![r] = IF max = count'[r] THEN 1 ELSE 0]
    /\ Enter(c, r, IF max = count'[r] THEN "set" ELSE "spin")
    /\ UNCHANGED cond

(* The first processor of the next use lowers the flag and counts itself.  *)
JoinReset_bug(c, r) ==      \* the flag of the last use stays up
    /\ reset[r] = 1
    /\ reset' = [reset EXCEPT ![r] = 0]
    /\ count' = [count EXCEPT ![r] = 1]
    /\ Enter(c, r, "spin")
    /\ UNCHANGED cond

JoinReset(c, r) ==
    /\ reset[r] = 1
    /\ reset' = [reset EXCEPT ![r] = 0]
    /\ cond' = [cond EXCEPT ![r] = 0]
    /\ count' = [count EXCEPT ![r] = 1]
    /\ Enter(c, r, "spin")

(* rendezvous_join up to spin_unlock.                                      *)
Arrive(c, r) == pc[c] = "free" /\ (JoinCount(c, r) \/ JoinReset(c, r))

(* SET_COND, after the spin lock was released.                             *)
SetCond(c) ==
    /\ pc[c] = "set"
    /\ cond' = [cond EXCEPT ![at[c]] = 1]
    /\ pc' = [pc EXCEPT ![c] = "free"]
    /\ UNCHANGED <<count, reset, at>>

(* The end of while(!CHECK_COND(rend->cond)).                              *)
SpinEnd(c) ==
    /\ pc[c] = "spin"
    /\ cond[at[c]] = 1
    /\ pc' = [pc EXCEPT ![c] = "free"]
    /\ UNCHANGED <<count, reset, cond, at>>

Depart(c) == SetCond(c) \/ SpinEnd(c)

RendezvousTypeOK ==
    /\ count \in [Points -> Nat]
    /\ reset \in [Points -> {0, 1}]
    /\ cond \in [Points -> {0, 1}]
    /\ at \in [Cpu -> Points]
    /\ pc \in [Cpu -> {"free", "set", "spin"}]
=============================================================================
