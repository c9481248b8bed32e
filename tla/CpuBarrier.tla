----------------------------- MODULE CpuBarrier -----------------------------
(***************************************************************************)
(* What a sequence of rendezvous promises: nobody leaves the k-th one      *)
(* before everybody has joined it.  RendezvousPair implements this.        *)
(***************************************************************************)
EXTENDS Naturals

CONSTANTS
    Cpu,
    MaxJoins    \* how often each processor may join

VARIABLES
    joined,     \* how many rendezvous each processor has joined
    left        \* and how many it has left again

vars == <<joined, left>>

Init ==
    /\ joined = [c \in Cpu |-> 0]
    /\ left = [c \in Cpu |-> 0]

Join(c) ==
    /\ left[c] = joined[c]
    /\ joined[c] < MaxJoins
    /\ joined' = [joined EXCEPT ![c] = @ + 1]
    /\ UNCHANGED left

Leave(c) ==
    /\ left[c] < joined[c]
    /\ \A d \in Cpu : left[c] < joined[d]
    /\ left' = [left EXCEPT ![c] = @ + 1]
    /\ UNCHANGED joined

Next == \E c \in Cpu : Join(c) \/ Leave(c)

Spec == Init /\ [][Next]_vars
=============================================================================
