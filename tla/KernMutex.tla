----------------------------- MODULE KernMutex ------------------------------
(***************************************************************************)
(* The kernel mutex (src/sync/sync.c).  A thread that finds it taken spins *)
(* on it; the timer interrupt finds the thread spinning and puts it to     *)
(* sleep in the mutex's queue (sync_check, lock_sleep); whoever unlocks    *)
(* leaves the mutex to the spinners if there are any and otherwise hands   *)
(* it, still locked, to a sleeper.  While a thread takes or gives up the   *)
(* mutex the timer is switched off.                                        *)
(*                                                                         *)
(* One mutex, a set of threads each on a processor of its own while it is  *)
(* not asleep, and an interrupt handler that uses the async functions.     *)
(* Left out: priorities (they change nothing in sync.c but which thread    *)
(* the scheduler prefers), and async_mutex_lock on a taken mutex, which    *)
(* needs the missing int_thread_create.                                    *)
(*                                                                         *)
(* A section under data_mutex is one step, since all that is shared in it  *)
(* is read and written under data_mutex.  The ++ and -- on num_spin are a  *)
(* read and a write, for the two -- are done without num_mutex.            *)
(***************************************************************************)
EXTENDS Integers, Sequences, SequencesExt

CONSTANTS
    Thread,     \* the threads that use the mutex
    Irq,        \* an interrupt handler that uses it
    Nobody,     \* NULL
    NumMod,     \* the range of the unsigned int num_spin (2^32)
    TimerMod    \* the range of the word timer_count (2^16)

ASSUME ThreadAssumption ==
    Irq \notin Thread /\ Nobody \notin Thread /\ Nobody # Irq

ASSUME WidthAssumption == NumMod \in Nat \ {0} /\ TimerMod \in Nat \ {0}

VARIABLES
    bit,        \* mutex->mutex, the spin lock that is the mutex
    numLock,    \* who holds mutex->num_mutex
    numSpin,    \* mutex->num_spin
    queue,      \* mutex->queue, from the head along queue_next
    holder,     \* mutex->holder
    timer,      \* timer_count
    ticking,    \* whether the timer interrupts
    waitType,   \* the threads with wait_type = WAIT_MUTEX
    waitObj,    \* the threads with wait_obj = the mutex
    asleep,     \* the threads with status SCHED_INT_SLEEP
    reg,        \* a local of each actor: the num_spin it read, or wakeup_thread
    pc          \* where each actor is

mem == <<bit, numLock, numSpin, queue, holder>>
clock == <<timer, ticking>>
wait == <<waitType, waitObj, asleep>>
vars == <<mem, clock, wait, reg, pc>>

Actor == Thread \cup {Irq}

Init ==
    /\ bit = 0 /\ numLock = Nobody /\ numSpin = 0 /\ queue = <<>> /\ holder = Nobody
    /\ timer = 0 /\ ticking = TRUE
    /\ waitType = {} /\ waitObj = {} /\ asleep = {}
    /\ reg = [a \in Actor |-> Nobody]
    /\ pc = [a \in Actor |-> "out"]

At(a, here) == pc[a] = here
Goto(a, there) == pc' = [pc EXCEPT ![a] = there]

(***************************************************************************)
(* timer_disable and timer_restore.  What switches the timer is not in the *)
(* repository: ia_32_timer.s has comments in the places.                   *)
(***************************************************************************)
TimerDisable ==
    /\ timer' = (timer + 1) % TimerMod
    /\ ticking' = FALSE

TimerRestore ==
    /\ timer' = (timer - 1) % TimerMod
    /\ ticking' = (ticking \/ timer' = 0)

(***************************************************************************)
(* mutex_lock                                                              *)
(***************************************************************************)
LockCall(t) ==
    /\ At(t, "out")
    /\ Goto(t, "l_try")
    /\ UNCHANGED <<mem, clock, wait, reg>>

(* spin_trylock, and where the caller goes when it has or has not got it.  *)
SpinTrylock(a, got, failed) ==
    \/ /\ bit = 0
       /\ bit' = 1
       /\ Goto(a, got)
    \/ /\ bit = 1
       /\ bit' = 1
       /\ Goto(a, failed)

LockTry(t) ==
    /\ At(t, "l_try")
    /\ SpinTrylock(t, "l_fast", "l_slow")
    /\ UNCHANGED <<numLock, numSpin, queue, holder, clock, wait, reg>>

(* get_priority_boost: the holder is recorded, and wait_obj (not           *)
(* wait_type) reset.                                                       *)
GetPriorityBoost(current) ==
    /\ holder' = current
    /\ waitObj' = waitObj \ {current}

(* The fast path passes a local that was never assigned: whichever thread  *)
(* pointer its storage was left with.                                      *)
LockFast(t) ==
    /\ At(t, "l_fast")
    /\ \E current \in Thread : GetPriorityBoost(current)
    /\ Goto(t, "cs")
    /\ UNCHANGED <<bit, numLock, numSpin, queue, clock, waitType, asleep, reg>>

LockSlow(t) ==
    /\ At(t, "l_slow")
    /\ waitObj' = waitObj \cup {t}
    /\ waitType' = waitType \cup {t}
    /\ TimerDisable
    /\ Goto(t, "l_num")
    /\ UNCHANGED <<mem, asleep, reg>>

NumLock(t) ==
    /\ At(t, "l_num")
    /\ numLock = Nobody
    /\ numLock' = t
    /\ reg' = [reg EXCEPT ![t] = numSpin]
    /\ Goto(t, "l_inc")
    /\ UNCHANGED <<bit, numSpin, queue, holder, clock, wait>>

NumInc(t) ==
    /\ At(t, "l_inc")
    /\ numSpin' = (reg[t] + 1) % NumMod
    /\ numLock' = Nobody
    /\ reg' = [reg EXCEPT ![t] = Nobody]
    /\ Goto(t, "l_again")
    /\ UNCHANGED <<bit, queue, holder, clock, wait>>

(* "try once without spinning"; if that fails the timer is back on while   *)
(* the thread spins.                                                       *)
LockAgain(t) ==
    /\ At(t, "l_again")
    /\ SpinTrylock(t, "l_boost", "l_spin")
    /\ IF bit = 1 THEN TimerRestore ELSE UNCHANGED clock
    /\ UNCHANGED <<numLock, numSpin, queue, holder, wait, reg>>

LockSpin_bug(t) ==          \* spin_lock gives up waiting
    /\ At(t, "l_spin")
    /\ bit' = 1
    /\ Goto(t, "l_boost")
    /\ UNCHANGED <<numLock, numSpin, queue, holder, clock, wait, reg>>

LockSpin(t) ==
    /\ At(t, "l_spin")
    /\ bit = 0
    /\ bit' = 1
    /\ Goto(t, "l_boost")
    /\ UNCHANGED <<numLock, numSpin, queue, holder, clock, wait, reg>>

LockBoost(t) ==
    /\ At(t, "l_boost")
    /\ GetPriorityBoost(t)
    /\ Goto(t, "l_dec")
    /\ UNCHANGED <<bit, numLock, numSpin, queue, clock, waitType, asleep, reg>>

(* num_spin-- without num_mutex, in mutex_lock and in lock_sleep.          *)
NumRead(t, here, there) ==
    /\ At(t, here)
    /\ reg' = [reg EXCEPT ![t] = numSpin]
    /\ Goto(t, there)
    /\ UNCHANGED <<mem, clock, wait>>

NumDec(t) ==
    /\ numSpin' = (reg[t] - 1) % NumMod
    /\ reg' = [reg EXCEPT ![t] = Nobody]

LockDone(t) ==
    /\ At(t, "l_decw")
    /\ NumDec(t)
    /\ TimerRestore
    /\ Goto(t, "cs")
    /\ UNCHANGED <<bit, numLock, queue, holder, wait>>

(***************************************************************************)
(* mutex_trylock, and async_mutex_trylock (or async_mutex_lock on a free   *)
(* mutex) for the interrupt handler.                                       *)
(***************************************************************************)
TrylockCall(t) ==
    /\ At(t, "out")
    /\ TimerDisable
    /\ Goto(t, "t_try")
    /\ UNCHANGED <<mem, wait, reg>>

Trylock(t) ==
    /\ At(t, "t_try")
    /\ SpinTrylock(t, "t_got", "t_failed")
    /\ UNCHANGED <<numLock, numSpin, queue, holder, clock, wait, reg>>

TrylockEnd(t) ==
    /\ \/ At(t, "t_got") /\ holder' = t /\ Goto(t, "cs")
       \/ At(t, "t_failed") /\ UNCHANGED holder /\ Goto(t, "out")
    /\ TimerRestore
    /\ UNCHANGED <<bit, numLock, numSpin, queue, wait, reg>>

AsyncTrylock ==
    /\ At(Irq, "out")
    /\ bit = 0
    /\ bit' = 1
    /\ Goto(Irq, "t_got")
    /\ UNCHANGED <<numLock, numSpin, queue, holder, clock, wait, reg>>

AsyncTrylockEnd ==
    /\ At(Irq, "t_got")
    /\ holder' = Nobody
    /\ Goto(Irq, "cs")
    /\ UNCHANGED <<bit, numLock, numSpin, queue, clock, wait, reg>>

(***************************************************************************)
(* mutex_unlock and async_mutex_unlock.  A thread switches the timer off   *)
(* first; the interrupt handler does so only to leave the mutex to a       *)
(* spinner.                                                                *)
(***************************************************************************)
UnlockCall(a) ==
    /\ At(a, "cs")
    /\ IF a = Irq THEN UNCHANGED clock ELSE TimerDisable
    /\ Goto(a, "u_num")
    /\ UNCHANGED <<mem, wait, reg>>

UnlockDecide(a) ==
    /\ At(a, "u_num")
    /\ numLock = Nobody
    /\ \/ /\ numSpin # 0
          /\ Goto(a, "u_spin")
          /\ IF a = Irq THEN TimerDisable ELSE UNCHANGED clock
       \/ /\ numSpin = 0
          /\ Goto(a, "u_data")
          /\ UNCHANGED clock
    /\ UNCHANGED <<mem, wait, reg>>

(* Spinners: the mutex is free, the timer stays off.                       *)
UnlockToSpinners(a) ==
    /\ At(a, "u_spin")
    /\ bit' = 0
    /\ Goto(a, "out")
    /\ UNCHANGED <<numLock, numSpin, queue, holder, clock, wait, reg>>

(* Sleepers: the head of the queue gets the mutex.  thread_queue_remove    *)
(* deletes the element before the head of the circular list, which is the  *)
(* last one of the sequence.                                               *)
HandOver_bug(a) ==          \* wakeup_thread is not assigned
    /\ At(a, "u_data")
    /\ queue # <<>>
    /\ queue' = Front(queue)
    /\ waitObj' = waitObj \ {Head(queue)}
    /\ holder' = Head(queue)
    /\ Goto(a, "u_wake")
    /\ UNCHANGED <<bit, numLock, numSpin, clock, waitType, asleep, reg>>

HandOver(a) ==
    /\ At(a, "u_data")
    /\ queue # <<>>
    /\ queue' = Front(queue)
    /\ waitObj' = waitObj \ {Head(queue)}
    /\ holder' = Head(queue)
    /\ reg' = [reg EXCEPT ![a] = Head(queue)]
    /\ Goto(a, "u_wake")
    /\ UNCHANGED <<bit, numLock, numSpin, clock, waitType, asleep>>

(* thread_restart.                                                         *)
Restart_bug(a) ==           \* frees the mutex it has just handed over
    /\ At(a, "u_wake")
    /\ asleep' = asleep \ {reg[a]}
    /\ reg' = [reg EXCEPT ![a] = Nobody]
    /\ bit' = 0
    /\ IF a = Irq THEN UNCHANGED clock ELSE TimerRestore
    /\ Goto(a, "out")
    /\ UNCHANGED <<numLock, numSpin, queue, holder, waitType, waitObj>>

Restart(a) ==
    /\ At(a, "u_wake")
    /\ asleep' = asleep \ {reg[a]}
    /\ reg' = [reg EXCEPT ![a] = Nobody]
    /\ IF a = Irq THEN UNCHANGED clock ELSE TimerRestore
    /\ Goto(a, "out")
    /\ UNCHANGED <<mem, waitType, waitObj>>

(* Nobody: async_mutex_unlock leaves the holder, which is NULL, alone.     *)
NobodyWaits(a) ==
    /\ At(a, "u_data")
    /\ queue = <<>>
    /\ holder' = IF a = Irq THEN holder ELSE Nobody
    /\ Goto(a, "u_free")
    /\ UNCHANGED <<bit, numLock, numSpin, queue, clock, wait, reg>>

UnlockFree(a) ==
    /\ At(a, "u_free")
    /\ bit' = 0
    /\ IF a = Irq THEN UNCHANGED clock ELSE TimerRestore
    /\ Goto(a, "out")
    /\ UNCHANGED <<numLock, numSpin, queue, holder, wait, reg>>

Unlock(a) ==
    \/ UnlockCall(a) \/ UnlockDecide(a) \/ UnlockToSpinners(a)
    \/ HandOver(a) \/ Restart(a) \/ NobodyWaits(a) \/ UnlockFree(a)

(***************************************************************************)
(* The timer interrupt: sync_check, detect_deadlock and lock_sleep.  It    *)
(* concerns threads whose wait_type is WAIT_MUTEX.  One whose wait_obj is  *)
(* NULL is lost with its processor (detect_deadlock follows the pointer),  *)
(* and so is one that is not in spin_lock (lock_reentry returns from the   *)
(* frame it expects there).                                                *)
(***************************************************************************)
OnCpu(t) == pc[t] \notin {"halt", "asleep", "d_detect", "s_dec", "s_decw", "s_queue", "s_sleep"}

SyncCheck(t) ==
    /\ ticking
    /\ t \in waitType
    /\ OnCpu(t)
    /\ Goto(t, IF t \in waitObj /\ pc[t] = "l_spin" THEN "d_detect" ELSE "halt")
    /\ UNCHANGED <<mem, clock, wait, reg>>

InQueue(t) == t \in ToSet(queue)

(* The chain of waiting holders ends at a thread that runs: sleep.  It     *)
(* comes back to the caller: a deadlock, for which nothing is done.  It    *)
(* runs into a null pointer, or round and round on the same mutex until    *)
(* the stack is full.                                                      *)
DetectDeadlock_bug(t) ==    \* the queue is not searched
    /\ At(t, "d_detect")
    /\ \/ holder = t /\ Goto(t, "l_spin")
       \/ /\ holder # t
          /\ \/ holder # Nobody /\ holder \notin waitType /\ Goto(t, "s_dec")
             \/ (holder = Nobody \/ holder \in waitType) /\ Goto(t, "halt")
    /\ UNCHANGED <<mem, clock, wait, reg>>

DetectDeadlock(t) ==
    /\ At(t, "d_detect")
    /\ \/ (InQueue(t) \/ holder = t) /\ Goto(t, "l_spin")
       \/ /\ ~ InQueue(t) /\ holder # t
          /\ \/ holder # Nobody /\ holder \notin waitType /\ Goto(t, "s_dec")
             \/ (holder = Nobody \/ holder \in waitType) /\ Goto(t, "halt")
    /\ UNCHANGED <<mem, clock, wait, reg>>

SleepDec(t) ==
    /\ At(t, "s_decw")
    /\ NumDec(t)
    /\ Goto(t, "s_queue")
    /\ UNCHANGED <<bit, numLock, queue, holder, clock, wait>>

SleepQueue(t) ==
    /\ At(t, "s_queue")
    /\ queue' = <<t>> \o queue
    /\ Goto(t, "s_sleep")
    /\ UNCHANGED <<bit, numLock, numSpin, holder, clock, wait, reg>>

SleepStatus(t) ==
    /\ At(t, "s_sleep")
    /\ asleep' = asleep \cup {t}
    /\ Goto(t, "asleep")
    /\ UNCHANGED <<mem, clock, waitType, waitObj, reg>>

(* A restarted thread goes on where spin_lock would have returned to.      *)
Reentry(t) ==
    /\ At(t, "asleep")
    /\ t \notin asleep
    /\ Goto(t, "l_boost")
    /\ UNCHANGED <<mem, clock, wait, reg>>

Lock(t) ==
    \/ LockCall(t) \/ LockTry(t) \/ LockFast(t) \/ LockSlow(t) \/ NumLock(t)
    \/ NumInc(t) \/ LockAgain(t) \/ LockSpin(t) \/ LockBoost(t)
    \/ NumRead(t, "l_dec", "l_decw") \/ LockDone(t)
    \/ TrylockCall(t) \/ Trylock(t) \/ TrylockEnd(t)

Tick(t) ==
    \/ SyncCheck(t) \/ DetectDeadlock(t) \/ NumRead(t, "s_dec", "s_decw")
    \/ SleepDec(t) \/ SleepQueue(t) \/ SleepStatus(t) \/ Reentry(t)

Next ==
    \/ \E t \in Thread : Lock(t) \/ Unlock(t) \/ Tick(t)
    \/ AsyncTrylock \/ AsyncTrylockEnd \/ Unlock(Irq)

Spec == Init /\ [][Next]_vars

-----------------------------------------------------------------------------
Point ==
    {"out", "cs", "halt", "asleep", "l_try", "l_fast", "l_slow", "l_num", "l_inc",
     "l_again", "l_spin", "l_boost", "l_dec", "l_decw", "t_try", "t_got", "t_failed",
     "u_num", "u_spin", "u_data", "u_wake", "u_free",
     "d_detect", "s_dec", "s_decw", "s_queue", "s_sleep"}

(* Where an actor has the mutex, from the moment the bit is its own.       *)
OwnerPoint ==
    {"l_fast", "l_boost", "l_dec", "l_decw", "t_got", "cs", "u_num", "u_spin", "u_data", "u_free"}

(* Types, and what each actor's local holds where it is used.              *)
TypeOK ==
    /\ bit \in {0, 1}
    /\ numLock \in Thread \cup {Nobody}
    /\ numSpin \in 0 .. NumMod - 1
    /\ queue \in Seq(Thread)
    /\ holder \in Thread \cup {Nobody}
    /\ timer \in 0 .. TimerMod - 1
    /\ ticking \in BOOLEAN
    /\ waitType \subseteq Thread /\ waitObj \subseteq Thread /\ asleep \subseteq Thread
    /\ reg \in [Actor -> (0 .. NumMod - 1) \cup Thread \cup {Nobody}]
    /\ pc \in [Actor -> Point]
    /\ \A a \in Actor :
         /\ pc[a] \in {"l_inc", "l_decw", "s_decw"} => reg[a] \in 0 .. NumMod - 1
         /\ pc[a] = "u_wake" => reg[a] \in Thread

(* An actor that has the mutex: at such a point, about to restart the      *)
(* thread it handed the mutex to, or restarted but not yet running.        *)
Owns(a) ==
    \/ pc[a] \in OwnerPoint \cup {"u_wake"}
    \/ pc[a] = "asleep" /\ a \notin asleep

(* Mutual exclusion.  However spinners, sleepers, trylocks and interrupt   *)
(* handlers mix, and although hand-over keeps the bit set across two       *)
(* threads and a sleep, at most one of them has the mutex, and the bit     *)
(* says so.                                                                *)
MutualExclusion ==
    \A a, b \in Actor : Owns(a) => bit = 1 /\ (Owns(b) => a = b)

(* A thread is linked into the circular queue at most once, although       *)
(* thread_queue_remove leaves the thread it wakes in the queue when there  *)
(* are several: detect_deadlock keeps a thread that is still in the queue  *)
(* from sleeping, and inserting it twice would cut the list in two.        *)
QueuedOnce == IsInjective(queue)

(* "Not a race condition.  The only one that makes a decision on num_spin  *)
(* is unlock, which works atomically" (lock_sleep): a thread is never left *)
(* asleep for a free mutex that nobody is using.                           *)
NobodySleepsForFreeMutex ==
    bit = 0 /\ (\A a \in Actor : pc[a] \in {"out", "asleep"}) => asleep = {}
=============================================================================
