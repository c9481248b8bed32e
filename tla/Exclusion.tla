------------------------------ MODULE Exclusion ------------------------------
(***************************************************************************)
(* The special scheduling modes: do_exclusion of src/sched/scheduler.c,    *)
(* which every processor runs from its timer interrupt, and the functions  *)
(* of src/sched/exclusion.c, on top of the two rendezvous points.          *)
(*                                                                         *)
(* The points start as rendezvous_init leaves them with max = the number   *)
(* of processors, and exclusion as the static variable it is; nothing in   *)
(* the repository calls rendezvous_init yet.  A tick on which both queues  *)
(* of the processor are empty returns before do_exclusion and changes      *)
(* nothing here.  Cpu is a set of processor numbers, and max their number. *)
(***************************************************************************)
EXTENDS Rendezvous

VARIABLES
    exclusion,  \* the processor that excludes the others, -1 for none
    holding,    \* the processors whose flags have HOLDING_EXCLUSION
    status,     \* the status of each processor's current thread
    running,    \* whether do_exclusion let the processor run it
    ppc         \* where each processor is in do_exclusion

vars == <<count, reset, cond, at, pc, exclusion, holding, status, running, ppc>>

Status == {"RUNNABLE", "EXCLUSIVE", "ATOMIC"}
None == -1

Init ==
    /\ RendezvousInit
    /\ exclusion = 0
    /\ holding = {}
    /\ status = [c \in Cpu |-> "RUNNABLE"]
    /\ running = [c \in Cpu |-> FALSE]
    /\ ppc = [c \in Cpu |-> "user"]

Goto(c, there) == ppc' = [ppc EXCEPT ![c] = there]

(* do_exclusion is called with a current thread of some status; where it   *)
(* goes from there.  A thread in ATOMIC mode on a processor that holds no  *)
(* exclusion runs at once.                                                 *)
DoExclusion(c) ==
    /\ ppc[c] = "user"
    /\ \E s \in Status :
         /\ status' = [status EXCEPT ![c] = s]
         /\ \/ /\ s = "ATOMIC" /\ c \notin holding
               /\ running' = [running EXCEPT ![c] = TRUE]
               /\ Goto(c, "user")
            \/ /\ ~ (s = "ATOMIC" /\ c \notin holding)
               /\ running' = [running EXCEPT ![c] = FALSE]
               /\ Goto(c, IF c \notin holding THEN "set"
                          ELSE IF s = "ATOMIC" THEN "check" ELSE "clear")
    /\ UNCHANGED <<rvars, exclusion, holding>>

(* clear_exclusion.                                                        *)
ClearExclusion(c) ==
    /\ ppc[c] = "clear"
    /\ exclusion' = None
    /\ Goto(c, "join_first")
    /\ UNCHANGED <<rvars, holding, status, running>>

(* set_exclusion: -1 for a thread in neither special mode.                 *)
SetExclusion(c) ==
    /\ ppc[c] = "set"
    /\ exclusion' = IF status[c] # "RUNNABLE" /\ exclusion = None THEN c ELSE exclusion
    /\ Goto(c, "join_second")
    /\ UNCHANGED <<rvars, holding, status, running>>

(* Their calls of rendezvous_join, and its return.                         *)
JoinPoint(c) ==
    /\ \/ ppc[c] = "join_first" /\ Arrive(c, "first")
       \/ ppc[c] = "join_second" /\ Arrive(c, "second")
    /\ Goto(c, "joined")
    /\ UNCHANGED <<exclusion, holding, status, running>>

LeavePoint(c) ==
    /\ ppc[c] = "joined"
    /\ Depart(c)
    /\ Goto(c, "check")
    /\ UNCHANGED <<exclusion, holding, status, running>>

(* check_exclusion and the end of do_exclusion.                            *)
CheckExclusion(c) ==
    /\ ppc[c] = "check"
    /\ \/ /\ exclusion \in {c, None}
          /\ running' = [running EXCEPT ![c] = TRUE]
          /\ holding' = IF status[c] # "RUNNABLE" THEN holding \cup {c} ELSE holding
       \/ /\ exclusion \notin {c, None}
          /\ UNCHANGED <<running, holding>>
    /\ Goto(c, "user")
    /\ UNCHANGED <<rvars, exclusion, status>>

Step(c) ==
    \/ DoExclusion(c) \/ ClearExclusion(c) \/ SetExclusion(c)
    \/ JoinPoint(c) \/ LeavePoint(c) \/ CheckExclusion(c)

Next == \E c \in Cpu : Step(c)

(* Every processor goes on taking timer interrupts with a thread to run.   *)
Spec == Init /\ [][Next]_vars /\ \A c \in Cpu : WF_vars(Step(c))

-----------------------------------------------------------------------------
(* "IT ONLY WORKS BECAUSE TWO RENDEZVOUS POINTS ARE USED IN SUCCESSION"    *)
(* (rendezvous.c): as do_exclusion uses the points, the processors never   *)
(* all wait for flags that none of them is left to raise.                  *)
RendezvousWorks == \E c \in Cpu : pc[c] = "spin" => cond[at[c]] = 1
=============================================================================
