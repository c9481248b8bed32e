----------------------------- MODULE SharedLock -----------------------------
(***************************************************************************)
(* What a reader/writer lock promises its users, without saying how: any   *)
(* number of threads share it, or one has it to itself.  A thread that     *)
(* upgrades gives its share back first, a thread that downgrades keeps     *)
(* everybody else out until its exclusive hold has become a share.         *)
(* RwLock implements this specification.                                   *)
(***************************************************************************)
CONSTANT Proc

VARIABLE mode   \* what each thread has of the lock

Init == mode = [p \in Proc |-> "none"]

(* A share is granted while nobody has the lock to itself.                 *)
AcquireShared(p) ==
    /\ mode[p] = "none"
    /\ \A q \in Proc : mode[q] # "exclusive"
    /\ mode' = [mode EXCEPT ![p] = "shared"]

(* The exclusive hold is granted while nobody has anything.                *)
AcquireExclusive(p) ==
    /\ \A q \in Proc : mode[q] = "none"
    /\ mode' = [mode EXCEPT ![p] = "exclusive"]

Release(p) ==
    /\ mode[p] # "none"
    /\ mode' = [mode EXCEPT ![p] = "none"]

Downgrade(p) ==
    /\ mode[p] = "exclusive"
    /\ mode' = [mode EXCEPT ![p] = "shared"]

Next ==
    \E p \in Proc :
        AcquireShared(p) \/ AcquireExclusive(p) \/ Release(p) \/ Downgrade(p)

Spec == Init /\ [][Next]_mode
=============================================================================
