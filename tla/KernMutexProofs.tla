-------------------------- MODULE KernMutexProofs ---------------------------
(***************************************************************************)
(* Mutual exclusion of the kernel mutex, and the integrity of its queue,   *)
(* for any number of threads and any width of the counters.                *)
(***************************************************************************)
EXTENDS KernMutex, SequenceTheorems, TLAPS

(* The counters stay in their ranges.                                      *)
LEMMA ModRange ==
    /\ \A n \in 0 .. NumMod - 1 : (n + 1) % NumMod \in 0 .. NumMod - 1
    /\ \A n \in 0 .. NumMod - 1 : (n - 1) % NumMod \in 0 .. NumMod - 1
    /\ \A n \in 0 .. TimerMod - 1 : (n + 1) % TimerMod \in 0 .. TimerMod - 1
    /\ \A n \in 0 .. TimerMod - 1 : (n - 1) % TimerMod \in 0 .. TimerMod - 1
    /\ 0 \in 0 .. NumMod - 1
    /\ 0 \in 0 .. TimerMod - 1
BY WidthAssumption

(* The timer functions keep the timer's types.                             *)
LEMMA TimerTypes ==
    ASSUME timer \in 0 .. TimerMod - 1, ticking \in BOOLEAN
    PROVE  /\ TimerDisable => timer' \in 0 .. TimerMod - 1 /\ ticking' \in BOOLEAN
           /\ TimerRestore => timer' \in 0 .. TimerMod - 1 /\ ticking' \in BOOLEAN
<1>2. TimerDisable => timer' \in 0 .. TimerMod - 1
  BY ModRange DEF TimerDisable
<1>3. TimerRestore => timer' \in 0 .. TimerMod - 1
  BY ModRange DEF TimerRestore
<1>4. TimerDisable => ticking' \in BOOLEAN
  BY DEF TimerDisable
<1>5. TimerRestore => ticking' \in BOOLEAN
  BY DEF TimerRestore
<1> QED
  BY <1>2, <1>3, <1>4, <1>5

(* The elements of the queue when one is taken out or put in.              *)
LEMMA QueueOps ==
    ASSUME queue \in Seq(Thread)
    PROVE  /\ queue # <<>> => Head(queue) \in Thread /\ Front(queue) \in Seq(Thread)
           /\ \A t \in Thread : <<t>> \o queue \in Seq(Thread)
<1>1. ASSUME queue # <<>> PROVE Head(queue) \in Thread /\ Front(queue) \in Seq(Thread)
  <2>1. Len(queue) \in Nat /\ Len(queue) > 0
    BY <1>1, EmptySeq, LenProperties
  <2>2. SubSeq(queue, 1, Len(queue) - 1) \in Seq(Thread)
    BY <2>1, SubSeqProperties
  <2> QED
    BY <1>1, <2>2, HeadTailProperties DEF Front
<1>2. ASSUME NEW t \in Thread PROVE <<t>> \o queue \in Seq(Thread)
  BY ConcatProperties
<1> QED
  BY <1>1, <1>2

(* The interrupt handler is an actor, and no thread.                       *)
LEMMA ActorSets == Thread \subseteq Actor /\ Irq \in Actor /\ Irq \notin Thread
BY ThreadAssumption DEF Actor

(* Every step keeps the types.                                             *)
LEMMA TypeStep == TypeOK /\ [Next]_vars => TypeOK'
<1> SUFFICES ASSUME TypeOK, [Next]_vars PROVE TypeOK'
  OBVIOUS
<1> USE ActorSets, ModRange, TimerTypes, QueueOps, WidthAssumption
    DEF TypeOK, Point, At, Goto, mem, clock, wait
<1>1. CASE UNCHANGED vars
  BY <1>1 DEF vars
<1>2. ASSUME NEW t \in Thread, LockCall(t) PROVE TypeOK'
  BY <1>2 DEF LockCall
<1>3. ASSUME NEW t \in Thread, LockTry(t) PROVE TypeOK'
  BY <1>3 DEF LockTry, SpinTrylock
<1>4. ASSUME NEW t \in Thread, LockFast(t) PROVE TypeOK'
  BY <1>4 DEF LockFast, GetPriorityBoost
<1>5. ASSUME NEW t \in Thread, LockSlow(t) PROVE TypeOK'
  BY <1>5 DEF LockSlow
<1>6. ASSUME NEW t \in Thread, NumLock(t) PROVE TypeOK'
  BY <1>6 DEF NumLock
<1>7. ASSUME NEW t \in Thread, NumInc(t) PROVE TypeOK'
  <2>1. reg[t] \in 0 .. NumMod - 1
    BY <1>7 DEF NumInc
  <2>2. numSpin' \in 0 .. NumMod - 1
    BY <1>7, <2>1 DEF NumInc
  <2> QED
    BY <1>7, <2>2 DEF NumInc
<1>8. ASSUME NEW t \in Thread, LockAgain(t) PROVE TypeOK'
  BY <1>8 DEF LockAgain, SpinTrylock
<1>9. ASSUME NEW t \in Thread, LockSpin(t) PROVE TypeOK'
  BY <1>9 DEF LockSpin
<1>10. ASSUME NEW t \in Thread, LockBoost(t) PROVE TypeOK'
  BY <1>10 DEF LockBoost, GetPriorityBoost
<1>11. ASSUME NEW t \in Thread, LockDone(t) PROVE TypeOK'
  <2>1. reg[t] \in 0 .. NumMod - 1
    BY <1>11 DEF LockDone
  <2>2. numSpin' \in 0 .. NumMod - 1
    BY <1>11, <2>1 DEF LockDone, NumDec
  <2> QED
    BY <1>11, <2>2 DEF LockDone, NumDec
<1>12. ASSUME NEW t \in Thread, TrylockCall(t) PROVE TypeOK'
  BY <1>12 DEF TrylockCall
<1>13. ASSUME NEW t \in Thread, Trylock(t) PROVE TypeOK'
  BY <1>13 DEF Trylock, SpinTrylock
<1>14. ASSUME NEW t \in Thread, TrylockEnd(t) PROVE TypeOK'
  BY <1>14 DEF TrylockEnd
<1>15. ASSUME NEW t \in Thread, NumRead(t, "l_dec", "l_decw") PROVE TypeOK'
  BY <1>15 DEF NumRead
<1>16. ASSUME NEW t \in Thread, NumRead(t, "s_dec", "s_decw") PROVE TypeOK'
  BY <1>16 DEF NumRead
<1>17. ASSUME NEW t \in Thread, SyncCheck(t) PROVE TypeOK'
  BY <1>17 DEF SyncCheck
<1>18. ASSUME NEW t \in Thread, DetectDeadlock(t) PROVE TypeOK'
  BY <1>18 DEF DetectDeadlock
<1>19. ASSUME NEW t \in Thread, SleepDec(t) PROVE TypeOK'
  <2>1. reg[t] \in 0 .. NumMod - 1
    BY <1>19 DEF SleepDec
  <2>2. numSpin' \in 0 .. NumMod - 1
    BY <1>19, <2>1 DEF SleepDec, NumDec
  <2> QED
    BY <1>19, <2>2 DEF SleepDec, NumDec
<1>20. ASSUME NEW t \in Thread, SleepQueue(t) PROVE TypeOK'
  BY <1>20 DEF SleepQueue
<1>21. ASSUME NEW t \in Thread, SleepStatus(t) PROVE TypeOK'
  BY <1>21 DEF SleepStatus
<1>22. ASSUME NEW t \in Thread, Reentry(t) PROVE TypeOK'
  BY <1>22 DEF Reentry
<1>23. ASSUME NEW a \in Actor, UnlockCall(a) PROVE TypeOK'
  BY <1>23 DEF UnlockCall
<1>24. ASSUME NEW a \in Actor, UnlockDecide(a) PROVE TypeOK'
  BY <1>24 DEF UnlockDecide
<1>25. ASSUME NEW a \in Actor, UnlockToSpinners(a) PROVE TypeOK'
  BY <1>25 DEF UnlockToSpinners
<1>26. ASSUME NEW a \in Actor, HandOver(a) PROVE TypeOK'
  BY <1>26 DEF HandOver
<1>27. ASSUME NEW a \in Actor, Restart(a) PROVE TypeOK'
  BY <1>27 DEF Restart
<1>28. ASSUME NEW a \in Actor, NobodyWaits(a) PROVE TypeOK'
  BY <1>28 DEF NobodyWaits
<1>29. ASSUME NEW a \in Actor, UnlockFree(a) PROVE TypeOK'
  BY <1>29 DEF UnlockFree
<1>30. ASSUME AsyncTrylock PROVE TypeOK'
  BY <1>30 DEF AsyncTrylock
<1>31. ASSUME AsyncTrylockEnd PROVE TypeOK'
  BY <1>31 DEF AsyncTrylockEnd
<1> QED
  BY <1>1, <1>2, <1>3, <1>4, <1>5, <1>6, <1>7, <1>8, <1>9, <1>10, <1>11,
     <1>12, <1>13, <1>14, <1>15, <1>16, <1>17, <1>18, <1>19, <1>20, <1>21,
     <1>22, <1>23, <1>24, <1>25, <1>26, <1>27, <1>28, <1>29, <1>30, <1>31,
     ActorSets DEF Next, Lock, Unlock, Tick

(* Types hold in every reachable state.                                    *)
THEOREM TypeCorrect == Spec => []TypeOK
<1>1. Init => TypeOK
  BY ModRange, EmptySeq DEF Init, TypeOK, Point
<1> QED
  BY <1>1, TypeStep, PTL DEF Spec

-----------------------------------------------------------------------------
(***************************************************************************)
(* Mutual exclusion.  The right to the mutex is a token: it appears with   *)
(* the bit, stays with one actor while the bit is set, moves from the one  *)
(* who hands over to the sleeper it restarts, and disappears with the bit  *)
(* or with a processor that is lost.                                       *)
(***************************************************************************)
LEMMA ExclusionStep ==
    TypeOK /\ MutualExclusion /\ [Next]_vars => MutualExclusion'
<1> SUFFICES ASSUME TypeOK, MutualExclusion, [Next]_vars PROVE MutualExclusion'
  OBVIOUS
<1> USE ActorSets DEF TypeOK, MutualExclusion, Owns, OwnerPoint, At, Goto, mem, clock, wait
<1>1. CASE UNCHANGED vars
  BY <1>1 DEF vars
<1>2. ASSUME NEW t \in Thread, LockCall(t) PROVE MutualExclusion'
  BY <1>2 DEF LockCall
<1>3. ASSUME NEW t \in Thread, LockTry(t) PROVE MutualExclusion'
  BY <1>3 DEF LockTry, SpinTrylock
<1>4. ASSUME NEW t \in Thread, LockFast(t) PROVE MutualExclusion'
  BY <1>4 DEF LockFast, GetPriorityBoost
<1>5. ASSUME NEW t \in Thread, LockSlow(t) PROVE MutualExclusion'
  BY <1>5 DEF LockSlow
<1>6. ASSUME NEW t \in Thread, NumLock(t) PROVE MutualExclusion'
  BY <1>6 DEF NumLock
<1>7. ASSUME NEW t \in Thread, NumInc(t) PROVE MutualExclusion'
  BY <1>7 DEF NumInc
<1>8. ASSUME NEW t \in Thread, LockAgain(t) PROVE MutualExclusion'
  BY <1>8 DEF LockAgain, SpinTrylock
<1>9. ASSUME NEW t \in Thread, LockSpin(t) PROVE MutualExclusion'
  BY <1>9 DEF LockSpin
<1>10. ASSUME NEW t \in Thread, LockBoost(t) PROVE MutualExclusion'
  BY <1>10 DEF LockBoost, GetPriorityBoost
<1>11. ASSUME NEW t \in Thread, LockDone(t) PROVE MutualExclusion'
  BY <1>11 DEF LockDone, NumDec
<1>12. ASSUME NEW t \in Thread, TrylockCall(t) PROVE MutualExclusion'
  BY <1>12 DEF TrylockCall
<1>13. ASSUME NEW t \in Thread, Trylock(t) PROVE MutualExclusion'
  BY <1>13 DEF Trylock, SpinTrylock
<1>14. ASSUME NEW t \in Thread, TrylockEnd(t) PROVE MutualExclusion'
  BY <1>14 DEF TrylockEnd
<1>15. ASSUME NEW t \in Thread, NumRead(t, "l_dec", "l_decw") PROVE MutualExclusion'
  BY <1>15 DEF NumRead
<1>16. ASSUME NEW t \in Thread, NumRead(t, "s_dec", "s_decw") PROVE MutualExclusion'
  BY <1>16 DEF NumRead
<1>17. ASSUME NEW t \in Thread, SyncCheck(t) PROVE MutualExclusion'
  BY <1>17 DEF SyncCheck
<1>18. ASSUME NEW t \in Thread, DetectDeadlock(t) PROVE MutualExclusion'
  BY <1>18 DEF DetectDeadlock
<1>19. ASSUME NEW t \in Thread, SleepDec(t) PROVE MutualExclusion'
  BY <1>19 DEF SleepDec, NumDec
<1>20. ASSUME NEW t \in Thread, SleepQueue(t) PROVE MutualExclusion'
  BY <1>20 DEF SleepQueue
<1>21. ASSUME NEW t \in Thread, SleepStatus(t) PROVE MutualExclusion'
  BY <1>21 DEF SleepStatus
<1>22. ASSUME NEW t \in Thread, Reentry(t) PROVE MutualExclusion'
  BY <1>22 DEF Reentry
<1>23. ASSUME NEW a \in Actor, UnlockCall(a) PROVE MutualExclusion'
  BY <1>23 DEF UnlockCall
<1>24. ASSUME NEW a \in Actor, UnlockDecide(a) PROVE MutualExclusion'
  BY <1>24 DEF UnlockDecide
<1>25. ASSUME NEW a \in Actor, UnlockToSpinners(a) PROVE MutualExclusion'
  BY <1>25 DEF UnlockToSpinners
<1>26. ASSUME NEW a \in Actor, HandOver(a) PROVE MutualExclusion'
  BY <1>26 DEF HandOver
<1>27. ASSUME NEW a \in Actor, Restart(a) PROVE MutualExclusion'
  BY <1>27 DEF Restart
<1>28. ASSUME NEW a \in Actor, NobodyWaits(a) PROVE MutualExclusion'
  BY <1>28 DEF NobodyWaits
<1>29. ASSUME NEW a \in Actor, UnlockFree(a) PROVE MutualExclusion'
  BY <1>29 DEF UnlockFree
<1>30. ASSUME AsyncTrylock PROVE MutualExclusion'
  BY <1>30 DEF AsyncTrylock
<1>31. ASSUME AsyncTrylockEnd PROVE MutualExclusion'
  BY <1>31 DEF AsyncTrylockEnd
<1> QED
  BY <1>1, <1>2, <1>3, <1>4, <1>5, <1>6, <1>7, <1>8, <1>9, <1>10, <1>11,
     <1>12, <1>13, <1>14, <1>15, <1>16, <1>17, <1>18, <1>19, <1>20, <1>21,
     <1>22, <1>23, <1>24, <1>25, <1>26, <1>27, <1>28, <1>29, <1>30, <1>31,
     ActorSets DEF Next, Lock, Unlock, Tick

(* At most one actor has the mutex, and the bit is set while one does.     *)
THEOREM Exclusion == Spec => []MutualExclusion
<1>1. Init => MutualExclusion
  BY DEF Init, MutualExclusion, Owns, OwnerPoint
<1> QED
  BY <1>1, TypeCorrect, ExclusionStep, PTL DEF Spec

-----------------------------------------------------------------------------
(***************************************************************************)
(* The queue.  A thread on its way into lock_sleep's insertion is not in   *)
(* the queue: detect_deadlock looked, and nobody else inserts it.          *)
(***************************************************************************)
QueueInv ==
    /\ QueuedOnce
    /\ \A t \in Thread : pc[t] \in {"s_dec", "s_decw", "s_queue"} => ~ InQueue(t)

(* Taking out the last element, and putting in a new first one.            *)
LEMMA QueueElements ==
    ASSUME queue \in Seq(Thread)
    PROVE  /\ queue # <<>> /\ IsInjective(queue) => IsInjective(Front(queue))
           /\ queue # <<>> => ToSet(Front(queue)) \subseteq ToSet(queue)
           /\ \A t \in Thread : ToSet(<<t>> \o queue) = {t} \cup ToSet(queue)
           /\ \A t \in Thread : t \notin ToSet(queue) /\ IsInjective(queue)
                                 => IsInjective(<<t>> \o queue)
<1>0. Len(queue) \in Nat /\ DOMAIN queue = 1 .. Len(queue)
  BY LenProperties
<1>1. ASSUME queue # <<>>
      PROVE  /\ DOMAIN Front(queue) = 1 .. Len(queue) - 1
             /\ \A i \in 1 .. Len(queue) - 1 : Front(queue)[i] = queue[i]
  <2>1. Len(queue) > 0
    BY <1>0, <1>1, EmptySeq
  <2> QED
    BY <1>0, <2>1, SubSeqProperties DEF Front
<1>2. ASSUME NEW t \in Thread
      PROVE  /\ DOMAIN (<<t>> \o queue) = 1 .. Len(queue) + 1
             /\ (<<t>> \o queue)[1] = t
             /\ \A i \in 1 .. Len(queue) : (<<t>> \o queue)[i + 1] = queue[i]
             /\ \A i \in 2 .. Len(queue) + 1 : (<<t>> \o queue)[i] = queue[i - 1]
  BY <1>0
<1>3. queue # <<>> /\ IsInjective(queue) => IsInjective(Front(queue))
  BY <1>0, <1>1 DEF IsInjective
<1>4. queue # <<>> => ToSet(Front(queue)) \subseteq ToSet(queue)
  BY <1>0, <1>1 DEF ToSet
<1>5. ASSUME NEW t \in Thread PROVE ToSet(<<t>> \o queue) = {t} \cup ToSet(queue)
  <2>1. ASSUME NEW x \in ToSet(<<t>> \o queue) PROVE x \in {t} \cup ToSet(queue)
    <3>1. PICK i \in 1 .. Len(queue) + 1 : x = (<<t>> \o queue)[i]
      BY <1>2 DEF ToSet
    <3>2. CASE i = 1
      BY <1>2, <3>1, <3>2
    <3>3. CASE i # 1
      <4>1. i \in 2 .. Len(queue) + 1 /\ i - 1 \in 1 .. Len(queue)
        BY <1>0, <3>3
      <4> QED
        BY <1>0, <1>2, <3>1, <4>1 DEF ToSet
    <3> QED
      BY <3>2, <3>3
  <2>2. ASSUME NEW x \in {t} \cup ToSet(queue) PROVE x \in ToSet(<<t>> \o queue)
    <3>1. CASE x = t
      BY <1>0, <1>2, <3>1 DEF ToSet
    <3>2. CASE x \in ToSet(queue)
      <4>1. PICK i \in 1 .. Len(queue) : x = queue[i]
        BY <1>0, <3>2 DEF ToSet
      <4>2. i + 1 \in 1 .. Len(queue) + 1
        BY <1>0
      <4> QED
        BY <1>2, <4>1, <4>2 DEF ToSet
    <3> QED
      BY <2>2, <3>1, <3>2
  <2> QED
    BY <2>1, <2>2
<1>6. ASSUME NEW t \in Thread, t \notin ToSet(queue), IsInjective(queue)
      PROVE  IsInjective(<<t>> \o queue)
  <2>1. \A i \in 1 .. Len(queue) : queue[i] # t
    BY <1>0, <1>6 DEF ToSet
  <2> SUFFICES ASSUME NEW i \in 1 .. Len(queue) + 1, NEW j \in 1 .. Len(queue) + 1,
                      (<<t>> \o queue)[i] = (<<t>> \o queue)[j]
               PROVE  i = j
    BY <1>2 DEF IsInjective
  <2>2. i # 1 => i \in 2 .. Len(queue) + 1 /\ i - 1 \in 1 .. Len(queue)
    BY <1>0
  <2>3. j # 1 => j \in 2 .. Len(queue) + 1 /\ j - 1 \in 1 .. Len(queue)
    BY <1>0
  <2>4. i # 1 /\ j # 1 => i - 1 = j - 1
    BY <1>0, <1>2, <1>6, <2>2, <2>3 DEF IsInjective
  <2> QED
    BY <1>0, <1>2, <2>1, <2>2, <2>3, <2>4
<1> QED
  BY <1>3, <1>4, <1>5, <1>6

LEMMA QueueStep ==
    TypeOK /\ QueueInv /\ [Next]_vars => QueueInv'
<1> SUFFICES ASSUME TypeOK, QueueInv, [Next]_vars PROVE QueueInv'
  OBVIOUS
<1> USE ActorSets, QueueElements
    DEF TypeOK, QueueInv, QueuedOnce, InQueue, At, Goto, mem, clock, wait
<1>1. CASE UNCHANGED vars
  BY <1>1 DEF vars
<1>2. ASSUME NEW t \in Thread, LockCall(t) PROVE QueueInv'
  BY <1>2 DEF LockCall
<1>3. ASSUME NEW t \in Thread, LockTry(t) PROVE QueueInv'
  BY <1>3 DEF LockTry, SpinTrylock
<1>4. ASSUME NEW t \in Thread, LockFast(t) PROVE QueueInv'
  BY <1>4 DEF LockFast, GetPriorityBoost
<1>5. ASSUME NEW t \in Thread, LockSlow(t) PROVE QueueInv'
  BY <1>5 DEF LockSlow
<1>6. ASSUME NEW t \in Thread, NumLock(t) PROVE QueueInv'
  BY <1>6 DEF NumLock
<1>7. ASSUME NEW t \in Thread, NumInc(t) PROVE QueueInv'
  BY <1>7 DEF NumInc
<1>8. ASSUME NEW t \in Thread, LockAgain(t) PROVE QueueInv'
  BY <1>8 DEF LockAgain, SpinTrylock
<1>9. ASSUME NEW t \in Thread, LockSpin(t) PROVE QueueInv'
  BY <1>9 DEF LockSpin
<1>10. ASSUME NEW t \in Thread, LockBoost(t) PROVE QueueInv'
  BY <1>10 DEF LockBoost, GetPriorityBoost
<1>11. ASSUME NEW t \in Thread, LockDone(t) PROVE QueueInv'
  BY <1>11 DEF LockDone, NumDec
<1>12. ASSUME NEW t \in Thread, TrylockCall(t) PROVE QueueInv'
  BY <1>12 DEF TrylockCall
<1>13. ASSUME NEW t \in Thread, Trylock(t) PROVE QueueInv'
  BY <1>13 DEF Trylock, SpinTrylock
<1>14. ASSUME NEW t \in Thread, TrylockEnd(t) PROVE QueueInv'
  BY <1>14 DEF TrylockEnd
<1>15. ASSUME NEW t \in Thread, NumRead(t, "l_dec", "l_decw") PROVE QueueInv'
  BY <1>15 DEF NumRead
<1>16. ASSUME NEW t \in Thread, NumRead(t, "s_dec", "s_decw") PROVE QueueInv'
  BY <1>16 DEF NumRead
<1>17. ASSUME NEW t \in Thread, SyncCheck(t) PROVE QueueInv'
  BY <1>17 DEF SyncCheck
<1>18. ASSUME NEW t \in Thread, DetectDeadlock(t) PROVE QueueInv'
  BY <1>18 DEF DetectDeadlock
<1>19. ASSUME NEW t \in Thread, SleepDec(t) PROVE QueueInv'
  BY <1>19 DEF SleepDec, NumDec
<1>20. ASSUME NEW t \in Thread, SleepQueue(t) PROVE QueueInv'
  BY <1>20 DEF SleepQueue
<1>21. ASSUME NEW t \in Thread, SleepStatus(t) PROVE QueueInv'
  BY <1>21 DEF SleepStatus
<1>22. ASSUME NEW t \in Thread, Reentry(t) PROVE QueueInv'
  BY <1>22 DEF Reentry
<1>23. ASSUME NEW a \in Actor, UnlockCall(a) PROVE QueueInv'
  BY <1>23 DEF UnlockCall
<1>24. ASSUME NEW a \in Actor, UnlockDecide(a) PROVE QueueInv'
  BY <1>24 DEF UnlockDecide
<1>25. ASSUME NEW a \in Actor, UnlockToSpinners(a) PROVE QueueInv'
  BY <1>25 DEF UnlockToSpinners
<1>26. ASSUME NEW a \in Actor, HandOver(a) PROVE QueueInv'
  BY <1>26 DEF HandOver
<1>27. ASSUME NEW a \in Actor, Restart(a) PROVE QueueInv'
  BY <1>27 DEF Restart
<1>28. ASSUME NEW a \in Actor, NobodyWaits(a) PROVE QueueInv'
  BY <1>28 DEF NobodyWaits
<1>29. ASSUME NEW a \in Actor, UnlockFree(a) PROVE QueueInv'
  BY <1>29 DEF UnlockFree
<1>30. ASSUME AsyncTrylock PROVE QueueInv'
  BY <1>30 DEF AsyncTrylock
<1>31. ASSUME AsyncTrylockEnd PROVE QueueInv'
  BY <1>31 DEF AsyncTrylockEnd
<1> QED
  BY <1>1, <1>2, <1>3, <1>4, <1>5, <1>6, <1>7, <1>8, <1>9, <1>10, <1>11,
     <1>12, <1>13, <1>14, <1>15, <1>16, <1>17, <1>18, <1>19, <1>20, <1>21,
     <1>22, <1>23, <1>24, <1>25, <1>26, <1>27, <1>28, <1>29, <1>30, <1>31,
     ActorSets DEF Next, Lock, Unlock, Tick

(* No thread is ever linked into the queue twice.                          *)
THEOREM QueueIntact == Spec => []QueuedOnce
<1>1. Init => QueueInv
  BY DEF Init, QueueInv, QueuedOnce, InQueue, IsInjective, ToSet
<1>2. QueueInv => QueuedOnce
  BY DEF QueueInv
<1> QED
  BY <1>1, <1>2, TypeCorrect, QueueStep, PTL DEF Spec
=============================================================================
