------------------------------- MODULE RwLock -------------------------------
(***************************************************************************)
(* The kernel's reader/writer lock (src/sync/rw_lock.c): a count protected *)
(* by a mutex, and one condition variable that every blocked thread waits  *)
(* on.  The mutex and the condition variable are used at the contract that *)
(* sync.h gives them (one holder; cond_wait releases the mutex and joins   *)
(* the waiters in one step, and locks the mutex again before it returns;   *)
(* cond_broadcast wakes every waiter).  What sync.c makes of the mutex is  *)
(* the subject of module KernMutex.                                        *)
(***************************************************************************)
EXTENDS Integers, FiniteSets

CONSTANTS
    Proc,       \* the threads that use the lock
    NoProc,     \* "nobody" as holder of the mutex
    CountMod    \* the range of the unsigned int rw->count (2^32 in the build)

ASSUME ProcAssumption == IsFiniteSet(Proc) /\ NoProc \notin Proc

(* The number of threads stays below UINT_MAX, the value -1 has as an      *)
(* unsigned int: otherwise the last reader would look like a writer.       *)
ASSUME CountModAssumption == CountMod \in Nat /\ Cardinality(Proc) < CountMod - 1

VARIABLES
    count,      \* rw->count
    mutex,      \* the thread that holds rw->mutex
    waiters,    \* the threads asleep in cond_wait on rw->cond
    pc          \* where each thread is

vars == <<count, mutex, waiters, pc>>

(***************************************************************************)
(* Program points.  A thread outside the functions is "out", or holds the  *)
(* lock and is "read" or "write".  xx_lock is the mutex_lock that opens    *)
(* function xx, xx_body the code that follows it, xx_wait the cond_wait    *)
(* in its loop and xx_unlock the mutex_unlock at its end, where xx is      *)
(* rl/ru (read_lock, read_unlock), wl/wu (write_lock, write_unlock), ug    *)
(* and dg (upgrade, downgrade); ug_loop is the loop of rw_upgrade_lock.    *)
(***************************************************************************)
AfterLock ==
    [rl_lock |-> "rl_body", rl_wait |-> "rl_body", ru_lock |-> "ru_body",
     wl_lock |-> "wl_body", wl_wait |-> "wl_body", wu_lock |-> "wu_body",
     ug_lock |-> "ug_body", ug_wait |-> "ug_loop", dg_lock |-> "dg_body"]

AfterUnlock ==
    [rl_unlock |-> "read",  ru_unlock |-> "out", wl_unlock |-> "write",
     wu_unlock |-> "out",   ug_unlock |-> "write", dg_unlock |-> "read"]

Body == {"rl_body", "ru_body", "wl_body", "wu_body", "ug_body", "ug_loop", "dg_body"}

Waiting == {"rl_wait", "wl_wait", "ug_wait"}

Point == DOMAIN AfterLock \cup DOMAIN AfterUnlock \cup Body
         \cup {"out", "read", "write"}

(* -1 stored in an unsigned int, and the wrapping ++ and --.               *)
Writer == CountMod - 1
Inc(n) == IF n = CountMod - 1 THEN 0 ELSE n + 1
Dec(n) == IF n = 0 THEN CountMod - 1 ELSE n - 1

Init ==
    /\ count = 0
    /\ mutex = NoProc
    /\ waiters = {}
    /\ pc = [p \in Proc |-> "out"]

Goto(p, there) == pc' = [pc EXCEPT ![p] = there]

(***************************************************************************)
(* Clients call the functions in the order the lock is meant for.          *)
(***************************************************************************)
Call(p, from, to) ==
    /\ pc[p] = from
    /\ Goto(p, to)
    /\ UNCHANGED <<count, mutex, waiters>>

Acquire(p) ==
    \/ Call(p, "out", "rl_lock")
    \/ Call(p, "out", "wl_lock")
    \/ Call(p, "read", "ug_lock")

Relinquish(p) ==
    \/ Call(p, "read", "ru_lock")
    \/ Call(p, "write", "wu_lock")

Downgrade(p) == Call(p, "write", "dg_lock")

(***************************************************************************)
(* The mutex and the condition variable as rw_lock.c calls them.           *)
(***************************************************************************)
MutexLock(p) ==
    /\ pc[p] \in DOMAIN AfterLock
    /\ p \notin waiters
    /\ mutex = NoProc
    /\ mutex' = p
    /\ Goto(p, AfterLock[pc[p]])
    /\ UNCHANGED <<count, waiters>>

MutexUnlock(p) ==
    /\ pc[p] \in DOMAIN AfterUnlock
    /\ mutex' = NoProc
    /\ Goto(p, AfterUnlock[pc[p]])
    /\ UNCHANGED <<count, waiters>>

CondWait_bug(p, there) ==   \* goes to sleep with the mutex
    /\ waiters' = waiters \cup {p}
    /\ Goto(p, there)
    /\ UNCHANGED <<count, mutex>>

CondWait(p, there) ==
    /\ waiters' = waiters \cup {p}
    /\ mutex' = NoProc
    /\ Goto(p, there)
    /\ UNCHANGED count

(***************************************************************************)
(* The code between mutex_lock and mutex_unlock of each function, and      *)
(* under the names that end in _bug the mistakes that the properties are   *)
(* tested with.                                                            *)
(***************************************************************************)
ReadLock_bug(p) ==      \* the loop's condition is lost
    /\ pc[p] = "rl_body"
    /\ count' = Inc(count)
    /\ Goto(p, "rl_unlock")
    /\ UNCHANGED <<mutex, waiters>>

ReadLock(p) ==
    /\ pc[p] = "rl_body"
    /\ \/ count = Writer /\ CondWait(p, "rl_wait")
       \/ /\ count # Writer
          /\ count' = Inc(count)
          /\ Goto(p, "rl_unlock")
          /\ UNCHANGED <<mutex, waiters>>

ReadUnlock_bug(p) ==    \* the last reader wakes nobody
    /\ pc[p] = "ru_body"
    /\ count' = Dec(count)
    /\ Goto(p, "ru_unlock")
    /\ UNCHANGED <<mutex, waiters>>

ReadUnlock(p) ==
    /\ pc[p] = "ru_body"
    /\ count' = Dec(count)
    /\ waiters' = IF count' = 0 THEN {} ELSE waiters
    /\ Goto(p, "ru_unlock")
    /\ UNCHANGED mutex

(* The loop that rw_write_lock and rw_upgrade_lock share.                  *)
TakeExclusive(p, wait, unlock) ==
    \/ count # 0 /\ CondWait(p, wait)
    \/ /\ count = 0
       /\ count' = Writer
       /\ Goto(p, unlock)
       /\ UNCHANGED <<mutex, waiters>>

WriteLock(p) ==
    /\ pc[p] = "wl_body"
    /\ TakeExclusive(p, "wl_wait", "wl_unlock")

WriteUnlock(p) ==
    /\ pc[p] = "wu_body"
    /\ count' = 0
    /\ waiters' = {}
    /\ Goto(p, "wu_unlock")
    /\ UNCHANGED mutex

(* rw_upgrade_lock gives the share back ...                                *)
UpgradeLock_bug(p) ==   \* keeps its share while it waits for the others
    /\ pc[p] = "ug_body"
    /\ Goto(p, "ug_loop")
    /\ UNCHANGED <<count, mutex, waiters>>

UpgradeLock(p) ==
    /\ pc[p] = "ug_body"
    /\ count' = Dec(count)
    /\ Goto(p, "ug_loop")
    /\ UNCHANGED <<mutex, waiters>>

(* ... and queues up like a writer.                                        *)
UpgradeLoop(p) ==
    /\ pc[p] = "ug_loop"
    /\ TakeExclusive(p, "ug_wait", "ug_unlock")

DowngradeLock_bug(p) == \* forgets the readers that may now enter
    /\ pc[p] = "dg_body"
    /\ count' = 1
    /\ Goto(p, "dg_unlock")
    /\ UNCHANGED <<mutex, waiters>>

DowngradeLock(p) ==
    /\ pc[p] = "dg_body"
    /\ count' = 1
    /\ waiters' = {}
    /\ Goto(p, "dg_unlock")
    /\ UNCHANGED mutex

(* What a thread does inside the functions, without its client's choices.  *)
Step(p) ==
    \/ MutexLock(p) \/ MutexUnlock(p)
    \/ ReadLock(p) \/ ReadUnlock(p) \/ WriteLock(p) \/ WriteUnlock(p)
    \/ UpgradeLock(p) \/ UpgradeLoop(p) \/ DowngradeLock(p)

Next == \E p \in Proc : Step(p) \/ Acquire(p) \/ Relinquish(p) \/ Downgrade(p)

(* The scheduler runs every thread, and whoever holds the lock releases it *)
(* in the end.  No fairness is assumed between threads that compete for    *)
(* the mutex: weak fairness lets one lose the race for ever.               *)
Fairness ==
    \A p \in Proc : WF_vars(Step(p)) /\ WF_vars(Relinquish(p))

Spec == Init /\ [][Next]_vars

FairSpec == Spec /\ Fairness

-----------------------------------------------------------------------------
(***************************************************************************)
(* Who has the lock: from the moment the count says so until the moment it *)
(* no longer does.                                                         *)
(***************************************************************************)
SharedPoint == {"rl_unlock", "read", "ru_lock", "ru_body", "ug_lock", "ug_body", "dg_unlock"}
ExclusivePoint == {"wl_unlock", "ug_unlock", "write", "wu_lock", "wu_body", "dg_lock", "dg_body"}

Readers == {p \in Proc : pc[p] \in SharedPoint}
Writers == {p \in Proc : pc[p] \in ExclusivePoint}

(* Types; and the mutex belongs to exactly the thread that is between      *)
(* mutex_lock and mutex_unlock, the waiters are exactly asleep.            *)
TypeOK ==
    /\ count \in 0 .. CountMod - 1
    /\ mutex \in Proc \cup {NoProc}
    /\ waiters \subseteq Proc
    /\ pc \in [Proc -> Point]
    /\ \A p \in Proc : pc[p] \in Body \cup DOMAIN AfterUnlock <=> mutex = p
    /\ \A p \in waiters : pc[p] \in Waiting

(* The count is the number of threads that may read, and "minus one" if    *)
(* and only if one thread may write and nobody else may do anything: the   *)
(* unlocks, upgrades and downgrades of several threads, in any order,      *)
(* never leave it off by one (rw_lock.c changes it in six places).         *)
CountExact ==
    \/ Writers = {} /\ count = Cardinality(Readers)
    \/ Readers = {} /\ count = Writer /\ \E p \in Proc : Writers = {p}

(* No wakeup is lost: whenever the mutex is free, a reader asleep in       *)
(* cond_wait has a writer to wait for, and a writer or upgrader asleep     *)
(* there has somebody to wait for, who will broadcast when it leaves.      *)
NoLostWakeup ==
    mutex = NoProc =>
        /\ \A p \in waiters : pc[p] = "rl_wait" => Writers # {}
        /\ waiters # {} => Readers \cup Writers # {}

(* Once clients stop asking for the lock anew, everyone who has asked gets *)
(* it: no thread is left in the loops of rw_read_lock, rw_write_lock and   *)
(* rw_upgrade_lock.  (While new readers keep arriving a writer can starve: *)
(* the count never reaches 0.)                                             *)
EveryRequestServed ==
    <>[][\A p \in Proc : ~ Acquire(p)]_vars =>
        \A p \in Proc :
            pc[p] \in {"rl_lock", "wl_lock", "ug_lock"} ~> pc[p] \in {"read", "write"}

(* RwLock implements SharedLock.                                           *)
Mode ==
    [p \in Proc |-> IF p \in Readers THEN "shared"
                    ELSE IF p \in Writers THEN "exclusive" ELSE "none"]

Abstract == INSTANCE SharedLock WITH mode <- Mode

ImplementsSharedLock == Abstract!Spec
=============================================================================
