--------------------------- MODULE SchedulerProofs ---------------------------
(***************************************************************************)
(* The queues of a scheduler agree and the running thread is in them, for  *)
(* any threads, priorities and bounds, and whatever other processors do    *)
(* between the steps of a tick, until one of them takes the thread that    *)
(* the tick has chosen or wakes one that is in the queues.  The invariants *)
(* are inductive together: a position that is the thread's own is what     *)
(* keeps the queues in step, and the queues in step are what makes the     *)
(* position its own.                                                       *)
(***************************************************************************)
EXTENDS Scheduler, TLAPS

SchedInv == TypeOK /\ QueuesAgree /\ CurrentQueued

LEMMA AddType ==
  ASSUME NEW count \in Int, NEW n \in Int
  PROVE  Add(count, n) \in 0 .. LoadRange - 1
BY BoundAssumption DEF Add

LEMMA LoadBounds ==
  /\ 0 \in 0 .. LoadRange - 1
  /\ \A n \in 0 .. LoadRange - 1 : n \in Int
BY BoundAssumption

LEMMA InitInv == Init => SchedInv
BY LoadBounds, BoundAssumption
   DEF Init, SchedInv, TypeOK, QueuesAgree, CurrentQueued, Status, Runnable, Moving

(* A thread that is in the heap is the one that is taken out of it.        *)
LEMMA WithoutMember ==
  ASSUME NEW queue, NEW t \in queue, NEW rest \in Without(queue, t)
  PROVE  rest = queue \ {t}
BY DEF Without

LEMMA WithoutType ==
  ASSUME NEW queue \in SUBSET Thread, NEW t, NEW rest \in Without(queue, t)
  PROVE  rest \subseteq Thread
BY DEF Without

LEMMA DispatchKeeps ==
  ASSUME NEW t \in Thread, NEW left \in Int, NEW slices \in [Thread -> Int],
         NEW granted \in BOOLEAN, Dispatch(t, left, slices, granted)
  PROVE  /\ current' \in {t, Nobody}
         /\ currentRemaining' \in Int
         /\ remaining' \in [Thread -> Int]
         /\ pc' = "thread"
BY DEF Dispatch

LEMMA SliceType ==
  ASSUME TypeOK, NEW t \in Thread
  PROVE  NextSlice(t) \in Int
<1>1. (remaining[t] + Soft[t]) % UintRange \in Int
  BY SoftAssumption, BoundAssumption DEF TypeOK
<1> QED BY <1>1 DEF NextSlice

LEMMA EpochKeeps ==
  ASSUME NEW run \in SUBSET Thread, NEW fin \in SUBSET Thread,
         NEW sum \in 0 .. LoadRange - 1, NEW out \in 0 .. LoadRange - 1,
         Epoch(run, fin, sum, out)
  PROVE  /\ running' \in SUBSET Thread /\ finished' \in SUBSET Thread
         /\ running' \cup finished' = run \cup fin
         /\ running' \cap finished' = run \cap fin
         /\ total' \in 0 .. LoadRange - 1 /\ retired' \in 0 .. LoadRange - 1
BY LoadBounds DEF Epoch

-----------------------------------------------------------------------------
(* The steps of a tick.                                                    *)
LEMMA SyncKeeps ==
  ASSUME SchedInv, SyncCheck
  PROVE  SchedInv'
<1>1. UNCHANGED <<running, finished, affinity, current, currentRemaining, remaining, total, retired,
                  mutex, chosen, balancing, trouble>>
  BY DEF SyncCheck, queues, load
<1>2. /\ pc \in {"thread", "queued", "dozing"} /\ pc' \in {"queued", "dozing", "resched"}
      /\ pc' # "resched" => current # Nobody
  BY DEF SyncCheck, LockSleep, WaitSleep, Waits
<1>3. waiting' \subseteq Thread /\ status' \in [Thread -> Status]
  BY DEF SyncCheck, LockSleep, WaitSleep, Waits, SchedInv, TypeOK, Status
<1>4. TypeOK'
  BY <1>1, <1>2, <1>3 DEF SchedInv, TypeOK
<1> QED BY <1>1, <1>2, <1>4 DEF SchedInv, QueuesAgree, CurrentQueued, Moving

LEMMA RetireKeeps ==
  ASSUME SchedInv, pc = "resched", current # Nobody, Retire,
         UNCHANGED <<finished, affinity, status, total, mutex, waiting, balancing, trouble>>
  PROVE  SchedInv'
<1>1. current \in Thread /\ currentRemaining - 1 \in Int
  BY DEF SchedInv, TypeOK
<1>2. NextSlice(current) \in Int /\ retired \in Int
  BY <1>1, SliceType, LoadBounds DEF SchedInv, TypeOK
<1>3. retired' \in 0 .. LoadRange - 1
  BY <1>2, AddType DEF Retire
<1>4. running' \subseteq Thread
  BY WithoutType DEF Retire, SchedInv, TypeOK
<1>5. TypeOK'
  BY <1>1, <1>2, <1>3, <1>4 DEF Retire, SchedInv, TypeOK
<1>6. CASE trouble = "none"
  <2>1. current \in running /\ current \notin finished
    BY <1>6 DEF SchedInv, CurrentQueued, QueuesAgree
  <2>2. running' = running \ {current}
    BY <2>1, WithoutMember DEF Retire
  <2> QED BY <1>5, <1>6, <2>1, <2>2 DEF Retire, SchedInv, QueuesAgree, CurrentQueued, Moving
<1> QED BY <1>5, <1>6 DEF SchedInv, QueuesAgree, CurrentQueued

(* Where a tick ends with the thread it began with.                        *)
LEMMA SameThreadKeeps ==
  ASSUME SchedInv, pc = "resched", current # Nobody, NEW granted \in BOOLEAN,
         Dispatch(current, currentRemaining - 1, remaining, granted),
         UNCHANGED <<running, finished, affinity, status, total, retired, mutex, chosen,
                     waiting, balancing, trouble>>
  PROVE  SchedInv'
<1>1. current \in Thread /\ currentRemaining - 1 \in Int /\ remaining \in [Thread -> Int]
  BY DEF SchedInv, TypeOK
<1>2. /\ current' \in {current, Nobody} /\ currentRemaining' \in Int
      /\ remaining' \in [Thread -> Int] /\ pc' = "thread"
  BY <1>1, DispatchKeeps
<1>3. TypeOK'
  BY <1>1, <1>2 DEF SchedInv, TypeOK
<1> QED BY <1>2, <1>3 DEF SchedInv, QueuesAgree, CurrentQueued, Moving

LEMMA KeepKeeps ==
  ASSUME SchedInv, pc = "resched", current # Nobody, NEW granted \in BOOLEAN, Keep(granted),
         UNCHANGED <<finished, affinity, status, total, mutex, waiting, balancing, trouble>>
  PROVE  SchedInv'
<1>1. current \in Thread /\ currentRemaining - 1 \in Int
  BY DEF SchedInv, TypeOK
<1>2. CASE Dispatch(current, currentRemaining - 1, remaining, granted) /\ UNCHANGED chosen
  BY <1>2, SameThreadKeeps DEF Keep
<1>3. ASSUME NEW head \in running,
             remaining' = [remaining EXCEPT ![current] = currentRemaining - 1],
             currentRemaining' = currentRemaining - 1,
             chosen' = head, pc' = "head", UNCHANGED <<current, running, retired>>
      PROVE  SchedInv'
  <2>1. head \in Thread /\ head # Nobody
    BY ThreadAssumption DEF SchedInv, TypeOK
  <2>2. TypeOK'
    BY <1>1, <1>3, <2>1 DEF SchedInv, TypeOK
  <2> QED BY <1>3, <2>2 DEF SchedInv, QueuesAgree, CurrentQueued, Moving
<1> QED BY <1>2, <1>3 DEF Keep

LEMMA ReschedKeeps ==
  ASSUME SchedInv, NEW granted \in BOOLEAN, Resched(granted)
  PROVE  SchedInv'
<1>1. /\ pc = "resched"
      /\ UNCHANGED <<finished, affinity, status, total, mutex, waiting, balancing, trouble>>
  BY DEF Resched
<1>2. CASE Awake /\ Charge(granted)
  BY <1>1, <1>2, RetireKeeps, KeepKeeps, SameThreadKeeps DEF Charge, Awake
<1>3. CASE /\ pc' \in {"thread", "retired"} /\ (pc' = "retired" => current = Nobody)
           /\ UNCHANGED <<running, current, currentRemaining, remaining, retired, chosen>>
  <2>1. TypeOK'
    BY <1>1, <1>3 DEF SchedInv, TypeOK
  <2> QED BY <1>1, <1>3, <2>1 DEF SchedInv, QueuesAgree, CurrentQueued, Moving
<1> QED BY <1>2, <1>3 DEF Resched

LEMMA ChooseKeeps ==
  ASSUME SchedInv, ChooseHead
  PROVE  SchedInv'
<1>1. Requeue \in SUBSET Thread /\ Requeue = finished \cup Moving
  BY DEF Requeue, Moving, ChooseHead, SchedInv, TypeOK
<1>2. /\ pc = "retired" /\ Epoch(running, Requeue, total, retired)
      /\ UNCHANGED <<affinity, current, currentRemaining, remaining, status, mutex, waiting, balancing>>
  BY DEF ChooseHead
<1>3. running \in SUBSET Thread /\ total \in 0 .. LoadRange - 1 /\ retired \in 0 .. LoadRange - 1
  BY DEF SchedInv, TypeOK
<1>4. /\ running' \in SUBSET Thread /\ finished' \in SUBSET Thread
      /\ running' \cup finished' = running \cup Requeue
      /\ running' \cap finished' = running \cap Requeue
      /\ total' \in 0 .. LoadRange - 1 /\ retired' \in 0 .. LoadRange - 1
  BY <1>1, <1>2, <1>3, EpochKeeps
<1>5. CASE trouble' = "null" /\ UNCHANGED <<pc, chosen>>
  <2>1. TypeOK'
    BY <1>2, <1>4, <1>5 DEF SchedInv, TypeOK
  <2> QED BY <1>5, <2>1 DEF SchedInv, QueuesAgree, CurrentQueued
<1>6. CASE chosen' \in running' /\ pc' = "head" /\ UNCHANGED trouble
  <2>1. chosen' \in Thread /\ chosen' # Nobody
    BY <1>4, <1>6, ThreadAssumption
  <2>2. TypeOK'
    BY <1>2, <1>4, <1>6, <2>1 DEF SchedInv, TypeOK
  <2>3. Moving' = {}
    BY <1>6 DEF Moving
  <2>4. QueuesAgree'
    BY <1>1, <1>2, <1>4, <1>6, <2>3 DEF SchedInv, QueuesAgree
  <2> QED BY <1>6, <2>2, <2>4 DEF SchedInv, CurrentQueued
<1> QED BY <1>5, <1>6 DEF ChooseHead, local

LEMMA TakeKeeps ==
  ASSUME SchedInv, NEW granted \in BOOLEAN, TakeHead(granted)
  PROVE  SchedInv'
<1>1. pc = "head" /\ chosen \in Thread /\ remaining[chosen] \in Int /\ remaining \in [Thread -> Int]
  BY DEF TakeHead, SchedInv, TypeOK
<1>2. /\ current' \in {chosen, Nobody} /\ currentRemaining' \in Int
      /\ remaining' \in [Thread -> Int] /\ pc' = "thread"
  BY <1>1, DispatchKeeps DEF TakeHead
<1>3. chosen' = Nobody /\ UNCHANGED <<running, finished, affinity, status, total, retired, mutex,
                                      waiting, balancing, trouble>>
  BY DEF TakeHead, queues, load
<1>4. TypeOK'
  BY <1>1, <1>2, <1>3 DEF SchedInv, TypeOK
<1> QED BY <1>1, <1>2, <1>3, <1>4 DEF SchedInv, QueuesAgree, CurrentQueued, Moving

(* The current thread leaves the running and the affinity queue, both by   *)
(* positions of its own.                                                   *)
LEMMA RemoveCurrentKeeps ==
  ASSUME SchedInv, ReschedAsleep \/ RemoveThreadCurrent
  PROVE  SchedInv'
<1>1. /\ pc \in {"resched", "locking"} /\ current # Nobody /\ pc' \in {"rebalance", "removing"}
      /\ affinity' \in Without(affinity, current) /\ running' \in Without(running, current)
      /\ remaining' = [remaining EXCEPT ![current] = currentRemaining]
      /\ mutex' = "free"
      /\ UNCHANGED <<finished, current, currentRemaining, status, retired, chosen, waiting, balancing,
                     trouble>>
  BY ThreadAssumption DEF ReschedAsleep, RemoveThreadCurrent, RemoveCurrent, SchedInv, TypeOK
<1>2. current \in Thread /\ -remaining[current] \in Int /\ total \in Int
  BY <1>1, LoadBounds DEF SchedInv, TypeOK
<1>3. Add(total, -remaining[current]) \in Int
  BY <1>2, AddType, LoadBounds
<1>4. /\ Add(total, -remaining[current]) \in 0 .. LoadRange - 1
      /\ Add(Add(total, -remaining[current]), -remaining[current]) \in 0 .. LoadRange - 1
  BY <1>2, <1>3, AddType
<1>5. total' \in 0 .. LoadRange - 1
  BY <1>4 DEF ReschedAsleep, RemoveThreadCurrent, RemoveCurrent
<1>6. running' \subseteq Thread /\ affinity' \subseteq Thread
  BY <1>1, WithoutType DEF SchedInv, TypeOK
<1>7. TypeOK'
  BY <1>1, <1>2, <1>5, <1>6 DEF SchedInv, TypeOK
<1>8. CASE trouble = "none"
  <2>1. Moving = {} /\ Moving' = {}
    BY <1>1 DEF Moving
  <2>2. /\ current \in running /\ current \in affinity /\ current \notin finished
    BY <1>1, <1>8 DEF SchedInv, CurrentQueued, QueuesAgree
  <2>3. affinity' = affinity \ {current} /\ running' = running \ {current}
    BY <1>1, <2>2, WithoutMember
  <2> QED BY <1>1, <1>7, <1>8, <2>1, <2>2, <2>3 DEF SchedInv, QueuesAgree, CurrentQueued
<1> QED BY <1>1, <1>7, <1>8 DEF SchedInv, QueuesAgree, CurrentQueued

(* What a rebalance brings in is in no queue yet.                          *)
LEMMA Stealing ==
  ASSUME SchedInv, NEW t \in Stolen, NEW slice \in Slices
  PROVE  /\ Reassigned(running, t) \in SUBSET Thread /\ Reassigned(affinity, t) \in SUBSET Thread
         /\ trouble = "none" =>
              /\ Reassigned(running, t) \cap finished = {}
              /\ Moving \cap (Reassigned(running, t) \cup finished) = {}
              /\ Reassigned(running, t) \cup finished \cup Moving = Reassigned(affinity, t)
         /\ SlicesWith(t, slice) \in [Thread -> Int]
         /\ LoadWith(t, slice) \in 0 .. LoadRange - 1
<1>1. slice \in Int /\ total \in Int
  BY SoftAssumption, LoadBounds DEF SchedInv, TypeOK
<1>2. Add(total, slice) \in 0 .. LoadRange - 1
  BY <1>1, AddType
<1>3. t = Nobody \/ t \in Thread \ affinity
  BY DEF Stolen
<1>4. /\ Reassigned(running, t) \in SUBSET Thread /\ Reassigned(affinity, t) \in SUBSET Thread
      /\ SlicesWith(t, slice) \in [Thread -> Int]
      /\ LoadWith(t, slice) \in 0 .. LoadRange - 1
  BY <1>1, <1>2, <1>3 DEF Reassigned, SlicesWith, LoadWith, SchedInv, TypeOK
<1>5. ASSUME trouble = "none"
      PROVE  /\ Reassigned(running, t) \cap finished = {}
             /\ Moving \cap (Reassigned(running, t) \cup finished) = {}
             /\ Reassigned(running, t) \cup finished \cup Moving = Reassigned(affinity, t)
  BY <1>3, <1>5 DEF Reassigned, SchedInv, QueuesAgree
<1> QED BY <1>4, <1>5

LEMMA ReschedResumeKeeps ==
  ASSUME SchedInv, NEW t \in Stolen, NEW slice \in Slices, ReschedResume(t, slice)
  PROVE  SchedInv'
<1>1. /\ pc = "rebalance" /\ mutex' = "held" /\ current' = Nobody
      /\ running' = Reassigned(running, t) /\ affinity' = Reassigned(affinity, t)
      /\ remaining' = SlicesWith(t, slice) /\ total' = LoadWith(t, slice)
      /\ pc' \in {"thread", "retired"}
      /\ UNCHANGED <<finished, currentRemaining, status, retired, chosen, waiting, balancing, trouble>>
  BY DEF ReschedResume, Reassign
<1>2. TypeOK'
  BY <1>1, Stealing DEF SchedInv, TypeOK
<1>3. Moving = {} /\ Moving' = {}
  BY <1>1 DEF Moving
<1> QED BY <1>1, <1>2, <1>3, Stealing DEF SchedInv, QueuesAgree, CurrentQueued

LEMMA RemoveResumeKeeps ==
  ASSUME SchedInv, NEW granted \in BOOLEAN, NEW t \in Stolen, NEW slice \in Slices,
         RemoveResume(granted, t, slice)
  PROVE  SchedInv'
<1> DEFINE run == Reassigned(running, t)
           slices == SlicesWith(t, slice)
<1>1. /\ run \in SUBSET Thread /\ slices \in [Thread -> Int]
      /\ LoadWith(t, slice) \in 0 .. LoadRange - 1
      /\ Reassigned(affinity, t) \in SUBSET Thread
      /\ finished \in SUBSET Thread /\ retired \in 0 .. LoadRange - 1
  BY Stealing DEF SchedInv, TypeOK
<1>2. Moving = {}
  BY DEF RemoveResume, Moving
<1>3. trouble = "none" => run \cap finished = {} /\ run \cup finished = Reassigned(affinity, t)
  BY <1>2, Stealing
<1>4. /\ affinity' = Reassigned(affinity, t) /\ pc = "removing"
      /\ UNCHANGED <<status, mutex, chosen, waiting, balancing>>
  BY DEF RemoveResume
<1>5. CASE run \cup finished = {}
  <2>1. /\ current' = Nobody /\ total' = 0 /\ retired' = 0 /\ pc' = "thread"
        /\ trouble' \in {trouble, "null"}
        /\ UNCHANGED <<running, finished, currentRemaining, remaining>>
    BY <1>5 DEF RemoveResume
  <2>2. running = {} /\ finished = {} /\ Moving' = {}
    BY <1>5, <2>1 DEF Reassigned, Moving
  <2>3. TypeOK'
    BY <1>1, <1>4, <2>1, LoadBounds DEF SchedInv, TypeOK
  <2> QED BY <1>3, <1>4, <1>5, <2>1, <2>2, <2>3 DEF SchedInv, QueuesAgree, CurrentQueued
<1>6. CASE run \cup finished # {}
  <2>1. Epoch(run, finished, LoadWith(t, slice), retired) /\ trouble' = trouble
    BY <1>6 DEF RemoveResume
  <2>2. PICK head \in running' : Dispatch(head, slices[head], slices, granted)
    BY <1>6 DEF RemoveResume
  <2> HIDE DEF slices, run
  <2>3. /\ running' \in SUBSET Thread /\ finished' \in SUBSET Thread
        /\ running' \cup finished' = run \cup finished
        /\ running' \cap finished' = run \cap finished
        /\ total' \in 0 .. LoadRange - 1 /\ retired' \in 0 .. LoadRange - 1
    BY <1>1, <2>1, EpochKeeps
  <2>4. head \in Thread /\ slices[head] \in Int
    BY <1>1, <2>3
  <2>5. /\ current' \in {head, Nobody} /\ currentRemaining' \in Int
        /\ remaining' \in [Thread -> Int] /\ pc' = "thread"
    BY <1>1, <2>2, <2>4, DispatchKeeps
  <2>6. TypeOK'
    BY <1>1, <1>4, <2>1, <2>3, <2>4, <2>5 DEF SchedInv, TypeOK
  <2>7. Moving' = {}
    BY <2>5 DEF Moving
  <2> QED BY <1>3, <1>4, <2>1, <2>3, <2>5, <2>6, <2>7 DEF SchedInv, QueuesAgree, CurrentQueued
<1> QED BY <1>5, <1>6

LEMMA BeginKeeps ==
  ASSUME SchedInv, RemoveBegin
  PROVE  SchedInv'
<1>1. /\ pc = "thread" /\ pc' = "locking" /\ current # Nobody
      /\ UNCHANGED <<running, finished, affinity, current, currentRemaining, remaining, status, total,
                     retired, mutex, chosen, waiting, balancing, trouble>>
  BY DEF RemoveBegin, queues, load
<1>2. TypeOK'
  BY <1>1 DEF SchedInv, TypeOK
<1> QED BY <1>1, <1>2 DEF SchedInv, QueuesAgree, CurrentQueued, Moving

-----------------------------------------------------------------------------
(* The calls of other processors.  delete_from_queue takes the thread out  *)
(* of the one queue it is in.                                              *)
LEMMA DeleteKeeps ==
  ASSUME SchedInv, trouble = "none", NEW t \in affinity, t # current, DeleteFromQueue(t)
  PROVE  /\ running' = running \ {t} /\ finished' = finished \ {t}
         /\ affinity' = affinity \ {t}
<1>1. affinity' = affinity \ {t}
  BY WithoutMember DEF DeleteFromQueue
<1>2. CASE t \in running
  BY <1>1, <1>2 DEF DeleteFromQueue, SchedInv, QueuesAgree
<1>3. CASE t \notin running
  <2>1. t \in finished
    BY <1>3 DEF SchedInv, QueuesAgree, Moving
  <2>2. finished' = finished \ {t}
    BY <1>3, <2>1, WithoutMember DEF DeleteFromQueue
  <2> QED BY <1>1, <1>3, <2>2 DEF DeleteFromQueue
<1> QED BY <1>2, <1>3

LEMMA DeleteType ==
  ASSUME SchedInv, NEW t \in Thread, DeleteFromQueue(t)
  PROVE  /\ running' \subseteq Thread /\ finished' \subseteq Thread /\ affinity' \subseteq Thread
         /\ total' \in 0 .. LoadRange - 1
         /\ trouble' = IF pc = "head" /\ t = chosen THEN "stolen" ELSE trouble
<1>1. running' \subseteq Thread /\ finished' \subseteq Thread /\ affinity' \subseteq Thread
  BY WithoutType DEF DeleteFromQueue, SchedInv, TypeOK
<1>2. total \in Int /\ -remaining[t] \in Int
  BY LoadBounds DEF SchedInv, TypeOK
<1>3. Add(total, -remaining[t]) \in 0 .. LoadRange - 1
  BY <1>2, AddType
<1> QED BY <1>1, <1>3 DEF DeleteFromQueue

LEMMA OthersKeep ==
  ASSUME SchedInv, NEW t \in Thread, RemoveThreadOther(t) \/ EschewThread(t)
  PROVE  SchedInv'
<1>1. /\ t \in affinity /\ t # current /\ DeleteFromQueue(t)
      /\ UNCHANGED <<current, currentRemaining, remaining, status, retired, mutex, pc, chosen, waiting>>
  BY DEF RemoveThreadOther, EschewThread, local
<1>2. balancing' \in 0 .. MaxBalancing
  BY BoundAssumption DEF RemoveThreadOther, EschewThread, SchedInv, TypeOK
<1>3. TypeOK'
  BY <1>1, <1>2, DeleteType DEF SchedInv, TypeOK
<1>4. CASE trouble' = "none"
  <2>1. trouble = "none" /\ ~(pc = "head" /\ t = chosen)
    BY <1>1, <1>4, DeleteType
  <2>2. /\ running' = running \ {t} /\ finished' = finished \ {t} /\ affinity' = affinity \ {t}
    BY <1>1, <2>1, DeleteKeeps
  <2>3. Moving' = Moving /\ t \notin Moving
    BY <1>1 DEF Moving
  <2> QED BY <1>1, <1>3, <2>1, <2>2, <2>3 DEF SchedInv, QueuesAgree, CurrentQueued
<1> QED BY <1>3, <1>4 DEF SchedInv, QueuesAgree, CurrentQueued

LEMMA OtherResumeKeeps ==
  ASSUME SchedInv, NEW t \in Stolen, NEW slice \in Slices, OtherResume(t, slice)
  PROVE  SchedInv'
<1>1. balancing' \in 0 .. MaxBalancing
  BY BoundAssumption DEF OtherResume, SchedInv, TypeOK
<1>2. /\ running' = Reassigned(running, t) /\ affinity' = Reassigned(affinity, t)
      /\ remaining' = SlicesWith(t, slice) /\ total' = LoadWith(t, slice)
      /\ UNCHANGED <<finished, current, currentRemaining, status, retired, mutex, pc, chosen, waiting,
                     trouble>>
  BY DEF OtherResume, Reassign, local
<1>3. running \subseteq running'
  BY <1>2 DEF Reassigned
<1>4. TypeOK'
  BY <1>1, <1>2, Stealing DEF SchedInv, TypeOK
<1>5. Moving' = Moving
  BY <1>2 DEF Moving
<1> QED BY <1>2, <1>3, <1>4, <1>5, Stealing DEF SchedInv, QueuesAgree, CurrentQueued

LEMMA IncreaseType ==
  ASSUME TypeOK, NEW t \in Thread, NEW pow \in 0 .. MaxPow
  PROVE  Increase(t, pow) \in Int
<1> DEFINE diff == IF Soft[t] < remaining[t] THEN 0 ELSE Soft[t] - remaining[t]
<1>1. diff \in Int
  BY SoftAssumption DEF TypeOK
<1>2. 2 ^ (pow + 1) \in Int /\ 2 ^ (pow + 1) > 0
  BY ShiftAssumption, BoundAssumption
<1> HIDE DEF diff
<1>3. diff \div (2 ^ (pow + 1)) \in Int
  <2>1. \A d, k \in Int : k > 0 => d \div k \in Int
    OBVIOUS
  <2> QED BY <1>1, <1>2, <2>1, Zenon
<1>4. (IF pow = 0 THEN 0 ELSE diff - (diff \div 2 ^ (pow + 1))) \in Int
  BY <1>1, <1>3
<1> QED BY <1>4 DEF Increase, diff

(* Where a thread comes to the queues that was in none, or trouble says so.*)
LEMMA ArrivalsKeep ==
  ASSUME SchedInv, NEW t \in Thread,
         \/ InsertThread(t)
         \/ \E pow \in 0 .. MaxPow, s \in Runnable : RestartThread(t, pow, s)
  PROVE  SchedInv'
<1>1. /\ affinity' = affinity \cup {t} /\ running' = running \cup {t}
      /\ total' = Add(total, Soft[t])
      /\ trouble' \in {trouble, "twice"} /\ (trouble' = "none" => t \notin affinity)
      /\ UNCHANGED <<finished, current, currentRemaining, retired, mutex, pc, chosen, balancing>>
  BY DEF InsertThread, RestartThread, Wake, local
<1>2. total' \in 0 .. LoadRange - 1
  BY <1>1, AddType, LoadBounds, SoftAssumption DEF SchedInv, TypeOK
<1>3. status' \in [Thread -> Status] /\ waiting' \subseteq Thread
  BY DEF InsertThread, RestartThread, Wake, SchedInv, TypeOK, Status, Runnable
<1>4. remaining' \in [Thread -> Int]
  <2>1. CASE InsertThread(t)
    <3>1. Soft[t] \div 2 \in Int
      BY SoftAssumption
    <3> QED BY <2>1, <3>1 DEF InsertThread, SchedInv, TypeOK
  <2>2. CASE \E pow \in 0 .. MaxPow, s \in Runnable : RestartThread(t, pow, s)
    <3>1. PICK pow \in 0 .. MaxPow : remaining' = [remaining EXCEPT ![t] = @ + Increase(t, pow)]
      BY <2>2 DEF RestartThread
    <3>2. Increase(t, pow) \in Int
      BY IncreaseType DEF SchedInv
    <3> QED BY <3>1, <3>2 DEF SchedInv, TypeOK
  <2> QED BY <2>1, <2>2
<1>5. TypeOK'
  BY <1>1, <1>2, <1>3, <1>4 DEF SchedInv, TypeOK
<1>6. Moving' = Moving
  BY <1>1 DEF Moving
<1> QED BY <1>1, <1>5, <1>6 DEF SchedInv, QueuesAgree, CurrentQueued

LEMMA ElsewhereKeeps ==
  ASSUME SchedInv, NEW t \in Thread, NEW s \in Runnable, RestartElsewhere(t, s)
  PROVE  SchedInv'
<1>1. /\ trouble' \in {trouble, "twice"}
      /\ UNCHANGED <<running, finished, affinity, current, currentRemaining, remaining, total, retired,
                     mutex, pc, chosen, balancing>>
  BY DEF RestartElsewhere, Wake, queues, load, local
<1>2. status' \in [Thread -> Status] /\ waiting' \subseteq Thread
  BY DEF RestartElsewhere, Wake, SchedInv, TypeOK, Status
<1>3. TypeOK'
  BY <1>1, <1>2 DEF SchedInv, TypeOK
<1> QED BY <1>1, <1>3 DEF SchedInv, QueuesAgree, CurrentQueued, Moving

LEMMA ChangesKeep ==
  ASSUME SchedInv, NEW t \in Thread,
         (\E v \in Slices : ChangeRemaining(t, v)) \/ (\E s \in Status : SetStatus(t, s))
  PROVE  SchedInv'
<1>1. UNCHANGED <<running, finished, affinity, current, retired, mutex, pc, chosen, waiting,
                  balancing, trouble>>
  BY DEF ChangeRemaining, SetStatus, queues, load, local
<1>2. ASSUME NEW v \in Slices, ChangeRemaining(t, v) PROVE TypeOK'
  <2>1. v \in Int /\ total \in Int
        /\ v - remaining[t] \in Int /\ currentRemaining - remaining[t] \in Int
    BY SoftAssumption, LoadBounds DEF SchedInv, TypeOK
  <2>2. /\ Add(total, v - remaining[t]) \in 0 .. LoadRange - 1
        /\ Add(total, currentRemaining - remaining[t]) \in 0 .. LoadRange - 1
    BY <2>1, AddType
  <2> QED BY <1>1, <1>2, <2>1, <2>2 DEF ChangeRemaining, SchedInv, TypeOK
<1>3. ASSUME NEW s \in Status, SetStatus(t, s) PROVE TypeOK'
  BY <1>1, <1>3 DEF SetStatus, load, SchedInv, TypeOK
<1> QED BY <1>1, <1>2, <1>3 DEF SchedInv, QueuesAgree, CurrentQueued, Moving

-----------------------------------------------------------------------------
LEMMA NextKeeps == SchedInv /\ [Next]_vars => SchedInv'
<1> SUFFICES ASSUME SchedInv, [Next]_vars PROVE SchedInv'
  OBVIOUS
<1>1. CASE UNCHANGED vars
  BY <1>1 DEF vars, queues, load, local, SchedInv, TypeOK, QueuesAgree, CurrentQueued, Moving
<1>2. ASSUME NEW granted \in BOOLEAN, Tick(granted) PROVE SchedInv'
  BY <1>2, SyncKeeps, ReschedKeeps, ChooseKeeps, TakeKeeps, RemoveCurrentKeeps, ReschedResumeKeeps
     DEF Tick
<1>3. CASE Remove
  BY <1>3, RemoveCurrentKeeps, RemoveResumeKeeps DEF Remove
<1>4. CASE Call
  BY <1>4, BeginKeeps, OtherResumeKeeps, ArrivalsKeep, ElsewhereKeeps, OthersKeep, ChangesKeep
     DEF Call
<1> QED BY <1>1, <1>2, <1>3, <1>4 DEF Next

THEOREM SchedInvariant == Spec => []SchedInv
BY InitInv, NextKeeps, PTL DEF Spec

(* Type correctness of a scheduler for any threads and priorities.         *)
THEOREM TypeCorrect == Spec => []TypeOK
<1>1. SchedInv => TypeOK
  BY DEF SchedInv
<1> QED BY <1>1, SchedInvariant, PTL

(* The affinity queue holds the threads of the other two queues and the    *)
(* one a tick is moving between them, and no thread is in both, whatever   *)
(* calls come between the steps of the unlocked tick and of a removal that *)
(* has given up the lock, until a chosen thread is stolen or a queued one  *)
(* woken.                                                                  *)
THEOREM QueuesCorrect == Spec => []QueuesAgree
<1>1. SchedInv => QueuesAgree
  BY DEF SchedInv
<1> QED BY <1>1, SchedInvariant, PTL

(* Until then the running thread is in the running queue of its scheduler: *)
(* it is not given to another processor, retired twice or left out.        *)
THEOREM CurrentCorrect == Spec => []CurrentQueued
<1>1. SchedInv => CurrentQueued
  BY DEF SchedInv
<1> QED BY <1>1, SchedInvariant, PTL
=============================================================================
