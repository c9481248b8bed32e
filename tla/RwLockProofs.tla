---------------------------- MODULE RwLockProofs ----------------------------
(***************************************************************************)
(* RwLock is correct for any number of threads below UINT_MAX.             *)
(***************************************************************************)
EXTENDS RwLock, FiniteSetTheorems, TLAPS

(* The program points where the mutex is asked for, and where it is given  *)
(* back, as sets.                                                          *)
LEMMA Points ==
    /\ DOMAIN AfterLock = {"rl_lock", "rl_wait", "ru_lock", "wl_lock", "wl_wait",
                           "wu_lock", "ug_lock", "ug_wait", "dg_lock"}
    /\ DOMAIN AfterUnlock = {"rl_unlock", "ru_unlock", "wl_unlock",
                             "wu_unlock", "ug_unlock", "dg_unlock"}
    /\ \A x \in DOMAIN AfterLock : AfterLock[x] \in Body
    /\ \A x \in DOMAIN AfterUnlock : AfterUnlock[x] \in {"out", "read", "write"}
BY DEF AfterLock, AfterUnlock, Body

(* The counter stays an unsigned int.                                      *)
LEMMA CounterTypes ==
    /\ 0 \in 0 .. CountMod - 1
    /\ 1 \in 0 .. CountMod - 1
    /\ Writer \in 0 .. CountMod - 1
    /\ \A n \in 0 .. CountMod - 1 : Inc(n) \in 0 .. CountMod - 1
    /\ \A n \in 0 .. CountMod - 1 : Dec(n) \in 0 .. CountMod - 1
<1>1. CountMod \in Nat /\ 1 < CountMod
  BY ProcAssumption, CountModAssumption, FS_CardinalityType
<1> QED
  BY <1>1 DEF Writer, Inc, Dec

(* Every step keeps the types and the mutex discipline.                    *)
LEMMA TypeStep == TypeOK /\ [Next]_vars => TypeOK'
<1> SUFFICES ASSUME TypeOK, [Next]_vars PROVE TypeOK'
  OBVIOUS
<1> USE ProcAssumption, Points, CounterTypes DEF TypeOK, Point, Body, Waiting
<1>1. CASE UNCHANGED vars
  BY <1>1 DEF vars
<1>2. ASSUME NEW p \in Proc, MutexLock(p) PROVE TypeOK'
  BY <1>2 DEF MutexLock, Goto
<1>3. ASSUME NEW p \in Proc, MutexUnlock(p) PROVE TypeOK'
  BY <1>3 DEF MutexUnlock, Goto
<1>4. ASSUME NEW p \in Proc, ReadLock(p) PROVE TypeOK'
  BY <1>4 DEF ReadLock, CondWait, Goto
<1>5. ASSUME NEW p \in Proc, ReadUnlock(p) PROVE TypeOK'
  BY <1>5 DEF ReadUnlock, Goto
<1>6. ASSUME NEW p \in Proc, WriteLock(p) PROVE TypeOK'
  BY <1>6 DEF WriteLock, TakeExclusive, CondWait, Goto
<1>7. ASSUME NEW p \in Proc, WriteUnlock(p) PROVE TypeOK'
  BY <1>7 DEF WriteUnlock, Goto
<1>8. ASSUME NEW p \in Proc, UpgradeLock(p) PROVE TypeOK'
  BY <1>8 DEF UpgradeLock, Goto
<1>9. ASSUME NEW p \in Proc, UpgradeLoop(p) PROVE TypeOK'
  BY <1>9 DEF UpgradeLoop, TakeExclusive, CondWait, Goto
<1>10. ASSUME NEW p \in Proc, DowngradeLock(p) PROVE TypeOK'
  BY <1>10 DEF DowngradeLock, Goto
<1>11. ASSUME NEW p \in Proc, Acquire(p) \/ Relinquish(p) \/ Downgrade(p) PROVE TypeOK'
  BY <1>11 DEF Acquire, Relinquish, Downgrade, Call, Goto
<1> QED
  BY <1>1, <1>2, <1>3, <1>4, <1>5, <1>6, <1>7, <1>8, <1>9, <1>10, <1>11 DEF Next, Step

(* Types hold in every reachable state, and the mutex is held by exactly   *)
(* the thread that is between mutex_lock and mutex_unlock.                 *)
THEOREM TypeCorrect == Spec => []TypeOK
<1>1. Init => TypeOK
  BY ProcAssumption, Points, CounterTypes DEF Init, TypeOK, Point, Body, Waiting
<1> QED
  BY <1>1, TypeStep, PTL DEF Spec

-----------------------------------------------------------------------------
(***************************************************************************)
(* The count.  CountExact is inductive together with the types: what each  *)
(* step does to the two sets of holders is all that matters.               *)
(***************************************************************************)

(* The readers are finite, and the counter has room for one more.          *)
LEMMA ReadersFinite ==
    /\ IsFiniteSet(Readers)
    /\ Cardinality(Readers) \in Nat
    /\ Cardinality(Readers) < Writer
    /\ Cardinality(Readers) = 0 <=> Readers = {}
<1>1. Readers \subseteq Proc
  BY DEF Readers
<1>2. IsFiniteSet(Readers) /\ Cardinality(Readers) <= Cardinality(Proc)
  BY <1>1, ProcAssumption, FS_Subset
<1>3. Cardinality(Readers) \in Nat /\ Cardinality(Proc) \in Nat
  BY <1>2, ProcAssumption, FS_CardinalityType
<1> QED
  BY <1>2, <1>3, FS_EmptySet, CountModAssumption DEF Writer

(* One reader more: the count goes up by one without wrapping.             *)
LEMMA OneReaderMore ==
    ASSUME NEW p, p \notin Readers, Readers' = Readers \cup {p}, Writers = {},
           Writers' = {}, count = Cardinality(Readers), count' = Inc(count)
    PROVE  CountExact'
<1>1. Cardinality(Readers \cup {p}) = Cardinality(Readers) + 1
  BY ReadersFinite, FS_AddElement
<1> QED
  BY <1>1, ReadersFinite DEF CountExact, Inc, Writer

(* One reader less: the count goes down by one, and reaches 0 exactly when *)
(* nobody is left.                                                         *)
LEMMA OneReaderLess ==
    ASSUME NEW p \in Readers, Readers' = Readers \ {p}, Writers' = Writers,
           CountExact, count' = Dec(count)
    PROVE  CountExact' /\ Writers = {} /\ (count' = 0 <=> Readers' = {})
<1>1. Writers = {} /\ count = Cardinality(Readers)
  BY DEF CountExact
<1>2. /\ IsFiniteSet(Readers \ {p})
      /\ Cardinality(Readers \ {p}) = Cardinality(Readers) - 1
  BY ReadersFinite, FS_RemoveElement
<1>3. Cardinality(Readers \ {p}) = 0 <=> Readers \ {p} = {}
  BY <1>2, FS_EmptySet
<1>4. count' = Cardinality(Readers \ {p})
  BY <1>1, <1>2, ReadersFinite DEF Dec
<1> QED
  BY <1>1, <1>3, <1>4 DEF CountExact

(* What a step of rw_lock.c does to the holders: the vocabulary in which   *)
(* the remaining theorems are argued.                                      *)
Same == Readers' = Readers /\ Writers' = Writers /\ count' = count
Joins(p) ==
    /\ p \notin Readers /\ Readers' = Readers \cup {p} /\ Writers' = Writers
    /\ count # Writer /\ count' = Inc(count)
Leaves(p) ==
    /\ p \in Readers /\ Readers' = Readers \ {p} /\ Writers' = Writers
    /\ count' = Dec(count)
Takes(p) ==
    /\ p \notin Readers /\ p \notin Writers /\ Readers' = Readers
    /\ Writers' = Writers \cup {p} /\ count = 0 /\ count' = Writer
Yields(p) ==
    /\ p \in Writers /\ Readers' = Readers /\ Writers' = Writers \ {p}
    /\ count' = 0
Demotes(p) ==
    /\ p \in Writers /\ Readers' = Readers \cup {p} /\ Writers' = Writers \ {p}
    /\ count' = 1

(* Each action is one of those.                                            *)
LEMMA Effects ==
    ASSUME TypeOK, NEW p \in Proc
    PROVE  /\ MutexLock(p) => Same
           /\ MutexUnlock(p) => Same
           /\ ReadLock(p) => Same \/ Joins(p)
           /\ ReadUnlock(p) => Leaves(p)
           /\ WriteLock(p) => Same \/ Takes(p)
           /\ WriteUnlock(p) => Yields(p)
           /\ UpgradeLock(p) => Leaves(p)
           /\ UpgradeLoop(p) => Same \/ Takes(p)
           /\ DowngradeLock(p) => Demotes(p)
           /\ Acquire(p) \/ Relinquish(p) \/ Downgrade(p) => Same
<1> USE DEF TypeOK, Readers, Writers, SharedPoint, ExclusivePoint, Goto
<1>1. MutexLock(p) => Same
  BY DEF MutexLock, AfterLock, Same
<1>2. MutexUnlock(p) => Same
  BY DEF MutexUnlock, AfterUnlock, Same
<1>3. ReadLock(p) => Same \/ Joins(p)
  BY DEF ReadLock, CondWait, Same, Joins
<1>4. ReadUnlock(p) => Leaves(p)
  BY DEF ReadUnlock, Leaves
<1>5. WriteLock(p) => Same \/ Takes(p)
  BY DEF WriteLock, TakeExclusive, CondWait, Same, Takes
<1>6. WriteUnlock(p) => Yields(p)
  BY DEF WriteUnlock, Yields
<1>7. UpgradeLock(p) => Leaves(p)
  BY DEF UpgradeLock, Leaves
<1>8. UpgradeLoop(p) => Same \/ Takes(p)
  BY DEF UpgradeLoop, TakeExclusive, CondWait, Same, Takes
<1>9. DowngradeLock(p) => Demotes(p)
  BY DEF DowngradeLock, Demotes
<1>10. Acquire(p) \/ Relinquish(p) \/ Downgrade(p) => Same
  BY DEF Acquire, Relinquish, Downgrade, Call, Same
<1> QED
  BY <1>1, <1>2, <1>3, <1>4, <1>5, <1>6, <1>7, <1>8, <1>9, <1>10

(* So a step of the specification is one of those.                         *)
LEMMA StepEffect ==
    ASSUME TypeOK, [Next]_vars
    PROVE  Same \/ \E p \in Proc : Joins(p) \/ Leaves(p) \/ Takes(p) \/ Yields(p) \/ Demotes(p)
<1>1. CASE UNCHANGED vars
  BY <1>1 DEF vars, Same, Readers, Writers
<1>2. CASE Next
  BY <1>2, Effects DEF Next, Step
<1> QED
  BY <1>1, <1>2

LEMMA CountStep == TypeOK /\ CountExact /\ [Next]_vars => CountExact'
<1> SUFFICES ASSUME TypeOK, CountExact, [Next]_vars PROVE CountExact'
  OBVIOUS
<1>1. CASE Same
  BY <1>1 DEF Same, CountExact
<1>2. ASSUME NEW p \in Proc, Joins(p) PROVE CountExact'
  BY <1>2, OneReaderMore DEF Joins, CountExact
<1>3. ASSUME NEW p \in Proc, Leaves(p) PROVE CountExact'
  BY <1>3, OneReaderLess DEF Leaves
<1>4. ASSUME NEW p \in Proc, Takes(p) PROVE CountExact'
  <2>1. Writers = {} /\ Readers = {}
    BY <1>4, ReadersFinite DEF Takes, CountExact
  <2> QED
    BY <1>4, <2>1 DEF Takes, CountExact
<1>5. ASSUME NEW p \in Proc, Yields(p) PROVE CountExact'
  BY <1>5, FS_EmptySet DEF Yields, CountExact
<1>6. ASSUME NEW p \in Proc, Demotes(p) PROVE CountExact'
  <2>1. Readers' = {p} /\ Writers' = {}
    BY <1>6 DEF Demotes, CountExact
  <2>2. Cardinality({p}) = 1
    BY FS_Singleton
  <2> QED
    BY <1>6, <2>1, <2>2 DEF Demotes, CountExact
<1> QED
  BY <1>1, <1>2, <1>3, <1>4, <1>5, <1>6, StepEffect

(* rw->count is exact in every reachable state: readers and a writer never *)
(* coexist, and the count never drifts.                                    *)
THEOREM CountCorrect == Spec => []CountExact
<1>1. Init => CountExact
  <2> SUFFICES ASSUME Init PROVE CountExact
    OBVIOUS
  <2>1. Readers = {} /\ Writers = {}
    BY DEF Init, Readers, Writers, SharedPoint, ExclusivePoint
  <2> QED
    BY <2>1, FS_EmptySet DEF Init, CountExact
<1> QED
  BY <1>1, TypeCorrect, CountStep, PTL DEF Spec

-----------------------------------------------------------------------------
(***************************************************************************)
(* No lost wakeup.  NoLostWakeup speaks of the moments when the mutex is   *)
(* free; to carry it through the critical sections one must know that the  *)
(* only thread that can empty the lock without a broadcast is an upgrader  *)
(* that gave back the last share, and that it takes the lock itself.       *)
(***************************************************************************)
WakeupInv ==
    /\ \A p \in waiters : pc[p] = "rl_wait" => Writers # {}
    /\ waiters # {} =>
          Readers \cup Writers # {} \/ \E p \in Proc : pc[p] = "ug_loop" /\ count = 0

LEMMA WakeupStep ==
    TypeOK /\ CountExact /\ WakeupInv /\ [Next]_vars => WakeupInv'
<1> SUFFICES ASSUME TypeOK, CountExact, WakeupInv, [Next]_vars PROVE WakeupInv'
  OBVIOUS
<1> USE DEF WakeupInv
<1>0. ASSUME NEW p \in Proc, pc[p] = "ug_loop", NEW q \in Proc, q # p
      PROVE  pc[q] \notin Body \cup DOMAIN AfterUnlock /\ mutex # NoProc
  BY <1>0, ProcAssumption DEF TypeOK, Body
<1>1. CASE UNCHANGED vars
  BY <1>1 DEF vars, Readers, Writers
<1>2. ASSUME NEW p \in Proc, MutexLock(p) PROVE WakeupInv'
  <2>1. Same
    BY <1>2, Effects
  <2> QED
    BY <1>2, <2>1, Points DEF MutexLock, Goto, Same, TypeOK
<1>3. ASSUME NEW p \in Proc, MutexUnlock(p) PROVE WakeupInv'
  <2>1. Same
    BY <1>3, Effects
  <2> QED
    BY <1>3, <2>1, Points DEF MutexUnlock, Goto, Same, TypeOK, Waiting
<1>4. ASSUME NEW p \in Proc, ReadLock(p) PROVE WakeupInv'
  <2>1. CASE CondWait(p, "rl_wait") /\ count = Writer
    <3>1. Same
      BY <1>4, <2>1, Effects DEF Joins
    <3>2. Writers # {}
      BY <2>1, ReadersFinite DEF CountExact
    <3> QED
      BY <2>1, <3>1, <3>2 DEF CondWait, Goto, Same, TypeOK
  <2>2. CASE count # Writer
    <3>1. Joins(p)
      BY <1>4, <2>2, Effects DEF Joins, ReadLock, Same, Readers, SharedPoint, Goto, TypeOK
    <3> QED
      BY <1>4, <2>2, <3>1 DEF ReadLock, Goto, Joins, TypeOK
  <2> QED
    BY <1>4, <2>1, <2>2 DEF ReadLock
<1>5. ASSUME NEW p \in Proc, ReadUnlock(p) PROVE WakeupInv'
  <2>1. Leaves(p)
    BY <1>5, Effects
  <2>2. count' = 0 <=> Readers' = {}
    BY <2>1, OneReaderLess DEF Leaves
  <2> QED
    BY <1>5, <2>1, <2>2 DEF ReadUnlock, Goto, Leaves, TypeOK
<1>6. ASSUME NEW p \in Proc, WriteLock(p) \/ UpgradeLoop(p) PROVE WakeupInv'
  <2>1. CASE count # 0
    <3>1. Same
      BY <1>6, <2>1, Effects DEF Takes
    <3>2. Readers \cup Writers # {}
      BY <2>1, ReadersFinite DEF CountExact
    <3> QED
      BY <1>6, <2>1, <3>1, <3>2
      DEF WriteLock, UpgradeLoop, TakeExclusive, CondWait, Goto, Same, TypeOK
  <2>2. CASE count = 0
    <3>1. Writers' # {}
      BY <1>6, <2>2 DEF WriteLock, UpgradeLoop, TakeExclusive, Goto, TypeOK, Writers, ExclusivePoint
    <3> QED
      BY <1>6, <2>2, <3>1 DEF WriteLock, UpgradeLoop, TakeExclusive, Goto, TypeOK
  <2> QED
    BY <1>6, <2>1, <2>2
<1>7. ASSUME NEW p \in Proc, WriteUnlock(p) \/ DowngradeLock(p) PROVE WakeupInv'
  BY <1>7 DEF WriteUnlock, DowngradeLock
<1>8. ASSUME NEW p \in Proc, UpgradeLock(p) PROVE WakeupInv'
  <2>1. Leaves(p)
    BY <1>8, Effects
  <2>2. (count' = 0 <=> Readers' = {}) /\ Writers' = {}
    BY <2>1, OneReaderLess DEF Leaves
  <2>3. pc'[p] = "ug_loop" /\ \A q \in waiters : pc'[q] = pc[q]
    BY <1>8 DEF UpgradeLock, Goto, TypeOK, Waiting
  <2> QED
    BY <1>8, <2>1, <2>2, <2>3 DEF UpgradeLock, Leaves
<1>9. ASSUME NEW p \in Proc, Acquire(p) \/ Relinquish(p) \/ Downgrade(p) PROVE WakeupInv'
  <2>1. Same
    BY <1>9, Effects
  <2> QED
    BY <1>9, <2>1 DEF Acquire, Relinquish, Downgrade, Call, Goto, Same, TypeOK, Waiting
<1> QED
  BY <1>1, <1>2, <1>3, <1>4, <1>5, <1>6, <1>7, <1>8, <1>9 DEF Next, Step

(* No thread sleeps in cond_wait without somebody who will wake it.        *)
THEOREM WakeupCorrect == Spec => []NoLostWakeup
<1>1. Init => WakeupInv
  BY DEF Init, WakeupInv
<1>2. TypeOK /\ WakeupInv => NoLostWakeup
  BY ProcAssumption DEF TypeOK, WakeupInv, NoLostWakeup, Body
<1> QED
  BY <1>1, <1>2, TypeCorrect, CountCorrect, WakeupStep, PTL DEF Spec

-----------------------------------------------------------------------------
(***************************************************************************)
(* RwLock implements SharedLock: a step that changes the holders is a step *)
(* of the abstract lock, every other one is a stutter.                     *)
(***************************************************************************)
LEMMA RefinementStep ==
    TypeOK /\ CountExact /\ [Next]_vars => [Abstract!Next]_Mode
<1> SUFFICES ASSUME TypeOK, CountExact, [Next]_vars PROVE [Abstract!Next]_Mode
  OBVIOUS
<1> USE DEF Mode
<1>1. CASE Same
  BY <1>1 DEF Same
<1>2. ASSUME NEW p \in Proc, Joins(p) PROVE Abstract!AcquireShared(p)
  <2>1. Writers = {}
    BY <1>2 DEF Joins, CountExact
  <2> QED
    BY <1>2, <2>1 DEF Joins, Abstract!AcquireShared
<1>3. ASSUME NEW p \in Proc, Leaves(p) PROVE Abstract!Release(p)
  <2>1. Writers = {}
    BY <1>3 DEF Leaves, CountExact
  <2> QED
    BY <1>3, <2>1 DEF Leaves, Abstract!Release
<1>4. ASSUME NEW p \in Proc, Takes(p) PROVE Abstract!AcquireExclusive(p)
  <2>1. Writers = {} /\ Readers = {}
    BY <1>4, ReadersFinite DEF Takes, CountExact
  <2> QED
    BY <1>4, <2>1 DEF Takes, Abstract!AcquireExclusive
<1>5. ASSUME NEW p \in Proc, Yields(p) PROVE Abstract!Release(p)
  <2>1. Writers = {p} /\ Readers = {}
    BY <1>5 DEF Yields, CountExact
  <2> QED
    BY <1>5, <2>1 DEF Yields, Abstract!Release
<1>6. ASSUME NEW p \in Proc, Demotes(p) PROVE Abstract!Downgrade(p)
  <2>1. Writers = {p} /\ Readers = {}
    BY <1>6 DEF Demotes, CountExact
  <2> QED
    BY <1>6, <2>1 DEF Demotes, Abstract!Downgrade
<1> QED
  BY <1>1, <1>2, <1>3, <1>4, <1>5, <1>6, StepEffect DEF Abstract!Next

(* The reader/writer lock of rw_lock.c implements the abstract one.        *)
THEOREM Refinement == Spec => ImplementsSharedLock
<1>1. Init => Abstract!Init
  BY DEF Init, Abstract!Init, Mode, Readers, Writers, SharedPoint, ExclusivePoint
<1> QED
  BY <1>1, TypeCorrect, CountCorrect, RefinementStep, PTL
  DEF Spec, ImplementsSharedLock, Abstract!Spec
=============================================================================
