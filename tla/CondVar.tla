------------------------------- MODULE CondVar ------------------------------
(***************************************************************************)
(* Condition variables (src/sync/sync.c).  A waiter registers in num_spin, *)
(* gives up the caller's mutex and spins on cond->mutex, which a signal or *)
(* a broadcast unlocks for it; type_mutex, locked by whoever signals and   *)
(* unlocked by whoever wakes up, is to keep a second unlock waiting for    *)
(* the first to be used.  The timer interrupt puts a spinning waiter into  *)
(* cond->queue (sync_check, wait_sleep), from which a signal restarts it.  *)
(*                                                                         *)
(* One condition variable with the mutex its callers hold, as rw_lock.c    *)
(* does, and an interrupt handler that uses the async functions.  The      *)
(* mutex is KernMutex's; here it has an owner and no more.  Left out:      *)
(* async_cond_wait, which needs the missing int_thread_create.             *)
(*                                                                         *)
(* cond_init clears the structure, and 0 is a free spin lock: cond->mutex  *)
(* is free to begin with.                                                  *)
(***************************************************************************)
EXTENDS Integers, CircularList

CONSTANTS
    Thread,     \* addresses of the threads: numbers, not 0
    Irq,        \* an interrupt handler: another number
    NumMod,     \* the range of the unsigned int num_spin (2^32)
    TimerMod    \* the range of the word timer_count (2^16)

Nobody == 0

VARIABLES
    owner,              \* who has the caller's mutex
    bit,                \* cond->mutex
    numLock,            \* who holds cond->num_mutex
    queueLock,          \* cond->queue_mutex
    typeLock,           \* cond->type_mutex
    numSpin, broadcast, queue,
    links,              \* queue_next and queue_last of the threads
    timer, ticking,     \* timer_count, and whether the timer interrupts
    waitType,           \* the threads with wait_type = WAIT_COND
    waitObj,            \* the threads with wait_obj = the condition variable
    asleep,             \* the threads with status SCHED_INT_SLEEP
    reg,                \* a local of each actor: num_spin as read, i, or wakeup_thread
    back,               \* where a sleeping thread goes on
    pc

cond == <<bit, numLock, queueLock, typeLock, numSpin, broadcast, queue, links>>
clock == <<timer, ticking>>
wait == <<waitType, waitObj, asleep, back>>
vars == <<owner, cond, clock, wait, reg, pc>>

Actor == Thread \cup {Irq}

Init ==
    /\ owner = Nobody
    /\ bit = 0 /\ numLock = Nobody /\ queueLock = 0 /\ typeLock = 0
    /\ numSpin = 0 /\ broadcast = 0 /\ queue = NoNode
    /\ links = [next |-> [t \in Thread |-> NoNode], last |-> [t \in Thread |-> NoNode]]
    /\ timer = 0 /\ ticking = TRUE
    /\ waitType = {} /\ waitObj = {} /\ asleep = {}
    /\ reg = [a \in Actor |-> 0]
    /\ back = [t \in Thread |-> "halt"]
    /\ pc = [a \in Actor |-> "out"]

At(a, here) == pc[a] = here
Goto(a, there) == pc' = [pc EXCEPT ![a] = there]
SetReg(a, value) == reg' = [reg EXCEPT ![a] = value]

TimerDisable(a) ==      \* the async functions leave the timer alone
    IF a = Irq THEN UNCHANGED clock
    ELSE timer' = (timer + 1) % TimerMod /\ ticking' = FALSE

TimerRestore(a) ==
    IF a = Irq THEN UNCHANGED clock
    ELSE /\ timer' = (timer - 1) % TimerMod
         /\ ticking' = (ticking \/ timer' = 0)

(***************************************************************************)
(* The caller's mutex.  mutex_lock on a taken mutex sets wait_type to      *)
(* WAIT_MUTEX on its way.                                                  *)
(***************************************************************************)
MutexLock(a, here) ==
    /\ At(a, here)
    /\ owner = Nobody
    /\ owner' = a
    /\ waitType' \in {waitType, waitType \ {a}}
    /\ Goto(a, "in")
    /\ UNCHANGED <<cond, clock, waitObj, asleep, back, reg>>

MutexUnlock(a, here, there) ==
    /\ At(a, here)
    /\ owner' = Nobody
    /\ Goto(a, there)
    /\ UNCHANGED <<cond, clock, wait, reg>>

(***************************************************************************)
(* cond_wait and do_wait                                                   *)
(***************************************************************************)
WaitCall(t) ==
    /\ At(t, "in")
    /\ waitObj' = waitObj \cup {t}
    /\ waitType' = waitType \cup {t}
    /\ Goto(t, "w_reg")
    /\ UNCHANGED <<owner, cond, clock, asleep, back, reg>>

WaitRegister(t) ==
    /\ At(t, "w_reg")
    /\ TimerDisable(t)
    /\ Goto(t, "w_num")
    /\ UNCHANGED <<owner, cond, wait, reg>>

(* num_spin++ and num_spin-- are a read and a write, for wait_sleep does   *)
(* its own without num_mutex.                                              *)
WaitNum(t) ==
    /\ At(t, "w_num")
    /\ numLock = Nobody
    /\ numLock' = t
    /\ SetReg(t, numSpin)
    /\ Goto(t, "w_inc")
    /\ UNCHANGED <<owner, bit, queueLock, typeLock, numSpin, broadcast, queue, links, clock, wait>>

WaitInc(t) ==
    /\ At(t, "w_inc")
    /\ numSpin' = (reg[t] + 1) % NumMod
    /\ numLock' = Nobody
    /\ TimerRestore(t)
    /\ SetReg(t, 0)
    /\ Goto(t, "w_unlock")
    /\ UNCHANGED <<owner, bit, queueLock, typeLock, broadcast, queue, links, wait>>

WaitSpin(t) ==
    /\ At(t, "w_spin")
    /\ bit = 0
    /\ bit' = 1
    /\ Goto(t, "w_got")
    /\ UNCHANGED <<owner, numLock, queueLock, typeLock, numSpin, broadcast, queue, links, clock, wait, reg>>

(* "If I was awakened by a broadcast, I don't reset the timer".            *)
WaitGot(t) ==
    /\ At(t, "w_got")
    /\ waitObj' = waitObj \ {t}
    /\ IF broadcast = 0 THEN TimerRestore(t) ELSE UNCHANGED clock
    /\ Goto(t, "w_type")
    /\ UNCHANGED <<owner, cond, waitType, asleep, back, reg>>

WaitType(t) ==
    /\ At(t, "w_type")
    /\ typeLock' = 0
    /\ Goto(t, "w_lock")
    /\ UNCHANGED <<owner, bit, numLock, queueLock, numSpin, broadcast, queue, links, clock, wait, reg>>

(***************************************************************************)
(* cond_signal and async_cond_signal                                       *)
(***************************************************************************)
SignalCall(a) ==
    /\ At(a, "in")
    /\ TimerDisable(a)
    /\ Goto(a, "g_num")
    /\ UNCHANGED <<owner, cond, wait, reg>>

SignalDecide(a) ==
    /\ At(a, "g_num")
    /\ numLock = Nobody
    /\ IF numSpin # 0 THEN numLock' = a /\ Goto(a, "g_dec")
                      ELSE UNCHANGED numLock /\ Goto(a, "g_queue")
    /\ UNCHANGED <<owner, bit, queueLock, typeLock, numSpin, broadcast, queue, links, clock, wait, reg>>

NumRead(a, here, there) ==
    /\ At(a, here)
    /\ SetReg(a, numSpin)
    /\ Goto(a, there)
    /\ UNCHANGED <<owner, cond, clock, wait>>

SignalDec(a) ==
    /\ At(a, "g_decw")
    /\ numSpin' = (reg[a] - 1) % NumMod
    /\ numLock' = Nobody
    /\ SetReg(a, 0)
    /\ Goto(a, "g_type")
    /\ UNCHANGED <<owner, bit, queueLock, typeLock, broadcast, queue, links, clock, wait>>

(* spin_lock(cond->type_mutex), with what the waiter is to be told.        *)
TypeTake(a, here, kind, there) ==
    /\ At(a, here)
    /\ typeLock = 0
    /\ typeLock' = 1
    /\ broadcast' = kind
    /\ Goto(a, there)
    /\ UNCHANGED <<owner, bit, numLock, queueLock, numSpin, queue, links, clock, wait, reg>>

(* "leave the timer disabled"                                              *)
SignalFree(a) ==
    /\ At(a, "g_free")
    /\ bit' = 0
    /\ Goto(a, "in")
    /\ UNCHANGED <<owner, numLock, queueLock, typeLock, numSpin, broadcast, queue, links, clock, wait, reg>>

(* thread_queue_remove, which deletes the thread before the head.          *)
Dequeue ==
    LET rest == ClistDelete(links, links.last[queue])
    IN  links' = rest.links /\ queue' = rest.list

(* With an empty queue wakeup_thread is what its storage was left with.    *)
SignalQueue(a) ==
    /\ At(a, "g_queue")
    /\ queueLock = 0
    /\ IF queue # NoNode THEN SetReg(a, queue) /\ Dequeue
       ELSE UNCHANGED <<queue, links>> /\ \E t \in Thread : SetReg(a, t)
    /\ Goto(a, "g_wake")
    /\ UNCHANGED <<owner, bit, numLock, queueLock, typeLock, numSpin, broadcast, clock, wait>>

awaken_thread(t) ==
    /\ waitType' = waitType \ {t}
    /\ asleep' = asleep \ {t}

SignalWake(a) ==
    /\ At(a, "g_wake")
    /\ awaken_thread(reg[a])
    /\ TimerRestore(a)
    /\ SetReg(a, 0)
    /\ Goto(a, "in")
    /\ UNCHANGED <<owner, cond, waitObj, back>>

(***************************************************************************)
(* cond_broadcast and async_cond_broadcast                                 *)
(***************************************************************************)
BroadcastCall(a) ==
    /\ At(a, "in")
    /\ TimerDisable(a)
    /\ Goto(a, "b_num")
    /\ UNCHANGED <<owner, cond, wait, reg>>

BroadcastNum(a) ==
    /\ At(a, "b_num")
    /\ numLock = Nobody
    /\ numLock' = a
    /\ SetReg(a, 0)
    /\ Goto(a, "b_loop")
    /\ UNCHANGED <<owner, bit, queueLock, typeLock, numSpin, broadcast, queue, links, clock, wait>>

BroadcastRound(a) ==
    /\ At(a, "b_loop")
    /\ IF reg[a] < numSpin
         THEN Goto(a, "b_type") /\ UNCHANGED <<numSpin, numLock, reg>>
         ELSE numSpin' = 0 /\ numLock' = Nobody /\ SetReg(a, 0) /\ Goto(a, "b_queue")
    /\ UNCHANGED <<owner, bit, queueLock, typeLock, broadcast, queue, links, clock, wait>>

BroadcastFree(a) ==
    /\ At(a, "b_free")
    /\ bit' = 0
    /\ SetReg(a, reg[a] + 1)
    /\ Goto(a, "b_loop")
    /\ UNCHANGED <<owner, numLock, queueLock, typeLock, numSpin, broadcast, queue, links, clock, wait>>

(* With an empty queue cond_broadcast returns with queue_mutex locked.     *)
BroadcastQueue(a) ==
    /\ At(a, "b_queue")
    /\ queueLock = 0
    /\ queueLock' = 1
    /\ IF queue # NoNode THEN Goto(a, "b_wake") /\ UNCHANGED clock
                         ELSE Goto(a, "in") /\ TimerRestore(a)
    /\ UNCHANGED <<owner, bit, numLock, typeLock, numSpin, broadcast, queue, links, wait, reg>>

(* "release all sleepers", one round of the loop.                          *)
BroadcastWake(a) ==
    /\ At(a, "b_wake")
    /\ awaken_thread(queue)
    /\ Dequeue
    /\ IF queue' # NoNode
         THEN UNCHANGED <<queueLock, clock, pc>>
         ELSE queueLock' = 0 /\ TimerRestore(a) /\ Goto(a, "in")
    /\ UNCHANGED <<owner, bit, numLock, typeLock, numSpin, broadcast, waitObj, back, reg>>

(***************************************************************************)
(* The timer interrupt: sync_check and wait_sleep.  It concerns threads    *)
(* with wait_type WAIT_COND, which cond_wait does not reset.  One whose    *)
(* wait_obj is NULL is lost with its processor, since wait_sleep follows   *)
(* the pointer; one that is not in spin_lock is lost when it is restarted, *)
(* since wait_reentry returns from the frame it expects there.             *)
(***************************************************************************)
OnCpu(t) == pc[t] \notin {"halt", "asleep", "s_dec", "s_decw", "s_queue"}

SyncCheck(t) ==
    /\ ticking
    /\ t \in waitType
    /\ OnCpu(t)
    /\ IF t \in waitObj
         THEN /\ asleep' = asleep \cup {t}
              /\ back' = [back EXCEPT ![t] = IF At(t, "w_spin") THEN "w_got" ELSE "halt"]
              /\ Goto(t, "s_dec")
         ELSE Goto(t, "halt") /\ UNCHANGED <<asleep, back>>
    /\ UNCHANGED <<owner, cond, clock, waitType, waitObj, reg>>

SleepDec(t) ==
    /\ At(t, "s_decw")
    /\ numSpin' = (reg[t] - 1) % NumMod
    /\ SetReg(t, 0)
    /\ Goto(t, "s_queue")
    /\ UNCHANGED <<owner, bit, numLock, queueLock, typeLock, broadcast, queue, links, clock, wait>>

SleepQueue(t) ==
    /\ At(t, "s_queue")
    /\ queueLock = 0
    /\ links' = ClistInsert(links, queue, t)
    /\ queue' = t
    /\ Goto(t, "asleep")
    /\ UNCHANGED <<owner, bit, numLock, queueLock, typeLock, numSpin, broadcast, clock, wait, reg>>

Reentry(t) ==
    /\ At(t, "asleep")
    /\ t \notin asleep
    /\ Goto(t, back[t])
    /\ UNCHANGED <<owner, cond, clock, wait, reg>>

-----------------------------------------------------------------------------
cond_wait(t) ==
    \/ WaitCall(t) \/ WaitRegister(t) \/ WaitNum(t) \/ WaitInc(t)
    \/ MutexUnlock(t, "w_unlock", "w_spin")
    \/ WaitSpin(t) \/ WaitGot(t) \/ WaitType(t)
    \/ MutexLock(t, "w_lock")

cond_signal(a) ==
    \/ SignalCall(a) \/ SignalDecide(a) \/ NumRead(a, "g_dec", "g_decw") \/ SignalDec(a)
    \/ TypeTake(a, "g_type", 0, "g_free") \/ SignalFree(a)
    \/ SignalQueue(a) \/ SignalWake(a)

cond_broadcast(a) ==
    \/ BroadcastCall(a) \/ BroadcastNum(a) \/ BroadcastRound(a)
    \/ TypeTake(a, "b_type", 1, "b_free") \/ BroadcastFree(a)
    \/ BroadcastQueue(a) \/ BroadcastWake(a)

wait_sleep(t) ==
    SyncCheck(t) \/ NumRead(t, "s_dec", "s_decw") \/ SleepDec(t) \/ SleepQueue(t) \/ Reentry(t)

Next ==
    \/ \E t \in Thread : cond_wait(t) \/ wait_sleep(t)
    \/ \E a \in Actor :
         \/ MutexLock(a, "out") \/ MutexUnlock(a, "in", "out")
         \/ cond_signal(a) \/ cond_broadcast(a)

Spec == Init /\ [][Next]_vars

-----------------------------------------------------------------------------
(* "The fact that the awakened thread unlocks this mutex also causes us to *)
(* wait until it is awake.  This prevents a potential race condition that  *)
(* could arise from unlocking the core mutex twice before any thread gets  *)
(* it." (cond_broadcast): from the second round on, the broadcaster finds  *)
(* cond->mutex taken by the thread it released in the round before.        *)
AwakeBetweenReleases ==
    \A a \in Actor : At(a, "b_free") /\ reg[a] > 0 => bit = 1
=============================================================================
