------------------------------ MODULE Scheduler ------------------------------
(***************************************************************************)
(* The scheduler of one processor (src/sched/scheduler.c) and what         *)
(* thread_sched.c does with it.  A thread that may run is in the running   *)
(* queue until it has used up its time, then in the finished queue; when   *)
(* the running queue is empty the two change places, which is an epoch.    *)
(* The affinity queue holds all of them.                                   *)
(*                                                                         *)
(* The calls of thread_sched.c hold the scheduler's mutex and are one step *)
(* each, but for rebalance_load, which gives it up in the middle of a      *)
(* removal.  timer_interrupt does not take the mutex: sched_resched is     *)
(* several steps, and calls from other processors come in between.  The    *)
(* heap operations themselves are whole.                                   *)
(*                                                                         *)
(* The queues are sets.  ThreadHeap says what the heaps behind them do;    *)
(* here the head of a queue is any of its threads, since the code writes   *)
(* stat.remaining of queued threads in place (sched_resched) and the order *)
(* is lost with that.  Affinities, which only order the affinity queue,    *)
(* and epoch numbers, which only say how much time sched_restart_thread    *)
(* gives back, are choices.                                                *)
(*                                                                         *)
(* trouble tells what has gone wrong: a thread was taken away that the     *)
(* tick had chosen ("stolen"), a thread was queued that is in the queues   *)
(* already ("twice"), a null thread was written to ("null").  Then the     *)
(* model ends, with "stolen" where the thread is the current one.          *)
(***************************************************************************)
EXTENDS Integers

CONSTANTS
    Thread,
    Nobody,             \* NULL
    Soft,               \* soft_priority of each thread
    PriorityBoost,      \* PRIORITY_BOOST, 5 in the code
    MaxPow,             \* how many epochs away are told apart, 30 in the code
    UintRange,          \* number of values of an unsigned int
    Slices,             \* the times threads come with from elsewhere or are given
    LoadRange,          \* number of values of total_count and running_count
    MaxOverrun,         \* bound: how far a thread that is not rescheduled overruns
    MaxBalancing        \* bound: removals by other processors in rebalance_load

ASSUME ThreadAssumption == Nobody \notin Thread
ASSUME SoftAssumption == Soft \in [Thread -> Nat] /\ Slices \subseteq Int
ASSUME BoundAssumption ==
    /\ PriorityBoost \in Nat /\ MaxPow \in Nat
    /\ UintRange \in Nat \ {0} /\ LoadRange \in Nat \ {0}
    /\ MaxOverrun \in Nat /\ MaxBalancing \in Nat
ASSUME ShiftAssumption == \A pow \in 0 .. MaxPow : 2 ^ (pow + 1) > 0     \* 2 << pow

VARIABLES
    running,            \* running_queue
    finished,           \* finished_queue
    affinity,           \* affinity_queue
    current,            \* current_thread
    currentRemaining,   \* current_remaining
    remaining,          \* stat.remaining of each thread
    status,             \* stat.status of each thread
    total,              \* total_count
    retired,            \* running_count
    mutex,              \* the spin lock of the scheduler: "free" or "held"
    pc,                 \* where this processor is
    chosen,             \* the head that the tick has read
    waiting,            \* threads in a sleep queue of sync.c
    balancing,          \* other processors in rebalance_load for this one
    trouble

queues == <<running, finished, affinity>>
load == <<total, retired>>
local == <<pc, chosen>>
vars == <<queues, current, currentRemaining, remaining, status, load,
          mutex, local, waiting, balancing, trouble>>

(* The states RUNNABLE_STATE accepts: pinned stands for SCHED_NO_RESCHED   *)
(* and SCHED_ATOMIC, asleep for every state it does not accept.            *)
Runnable == {"runnable", "pinned"}
Status == Runnable \cup {"asleep"}

Add(count, n) == (count + n) % LoadRange

Init ==
    /\ running = {} /\ finished = {} /\ affinity = {}
    /\ current = Nobody /\ currentRemaining = 0
    /\ remaining = [t \in Thread |-> 0]
    /\ status = [t \in Thread |-> "runnable"]
    /\ total = 0 /\ retired = 0
    /\ mutex = "free" /\ pc = "thread" /\ chosen = Nobody
    /\ waiting = {} /\ balancing = 0 /\ trouble = "none"

-----------------------------------------------------------------------------
(* heap_delete by the position the thread remembers.  The position of a    *)
(* thread that is not in the heap is an old one: whoever has moved there   *)
(* is taken out in its place, or nobody.                                   *)
Without(queue, t) ==
    IF t \in queue THEN {queue \ {t}} ELSE {queue} \cup {queue \ {u} : u \in queue}

(* The end of sched_resched: do_exclusion lets the processor run the       *)
(* thread that was chosen, or the processor idles.                         *)
Dispatch(t, left, slices, granted) ==
    /\ current' = IF granted THEN t ELSE Nobody
    /\ currentRemaining' = left
    /\ remaining' = IF granted THEN slices ELSE [slices EXCEPT ![t] = left]
    /\ pc' = "thread"

(* check_for_epoch and do_epoch.                                           *)
Epoch(run, fin, sum, out) ==
    LET epoch == run = {}
    IN  /\ running' = IF epoch THEN fin ELSE run
        /\ finished' = IF epoch THEN run ELSE fin
        /\ total' = IF epoch THEN out ELSE sum
        /\ retired' = IF epoch THEN 0 ELSE out

(***************************************************************************)
(* timer_interrupt.  First sync_check: a thread that waits for a mutex or  *)
(* a condition puts itself to sleep.                                       *)
(***************************************************************************)
Waits == pc = "thread" /\ current # Nobody /\ current \notin waiting

(* lock_sleep enters the queue of the mutex and then sets its status,      *)
(* wait_sleep the other way round.                                         *)
LockSleep ==
    \/ /\ Waits
       /\ waiting' = waiting \cup {current} /\ pc' = "queued"
       /\ UNCHANGED status
    \/ /\ pc = "queued"
       /\ status' = [status EXCEPT ![current] = "asleep"] /\ pc' = "resched"
       /\ UNCHANGED waiting

WaitSleep ==
    \/ /\ Waits
       /\ status' = [status EXCEPT ![current] = "asleep"] /\ pc' = "dozing"
       /\ UNCHANGED waiting
    \/ /\ pc = "dozing"
       /\ waiting' = waiting \cup {current} /\ pc' = "resched"
       /\ UNCHANGED status

SyncCheck ==
    /\ \/ LockSleep
       \/ WaitSleep
       \/ pc = "thread" /\ pc' = "resched" /\ UNCHANGED <<waiting, status>>
    /\ UNCHANGED <<queues, current, currentRemaining, remaining, load, mutex, chosen,
                   balancing, trouble>>

(* retire_current_thread, up to the deletion.  The sum is an unsigned one. *)
NextSlice(t) == ((remaining[t] + Soft[t]) % UintRange) \div 2

Retire_bug ==           \* finished with, and still in the running queue
    /\ currentRemaining' = currentRemaining - 1
    /\ remaining' = [remaining EXCEPT ![current] = NextSlice(current)]
    /\ retired' = Add(retired, NextSlice(current))
    /\ pc' = "retired"
    /\ UNCHANGED <<running, current, chosen>>

Retire ==
    /\ currentRemaining' = currentRemaining - 1
    /\ remaining' = [remaining EXCEPT ![current] = NextSlice(current)]
    /\ retired' = Add(retired, NextSlice(current))
    /\ running' \in Without(running, current)
    /\ pc' = "retired"
    /\ UNCHANGED <<current, chosen>>

(* keep_current_thread.                                                    *)
Keep(granted) ==
    /\ \E head \in running :
         IF head # current /\ currentRemaining - 1 + PriorityBoost < remaining[head]
           THEN /\ remaining' = [remaining EXCEPT ![current] = currentRemaining - 1]
                /\ currentRemaining' = currentRemaining - 1
                /\ chosen' = head /\ pc' = "head"
                /\ UNCHANGED current
           ELSE Dispatch(current, currentRemaining - 1, remaining, granted) /\ UNCHANGED chosen
    /\ UNCHANGED <<running, retired>>

(* check_current_thread while there is a thread that may go on.            *)
Awake == current # Nobody /\ status[current] \in Runnable

Charge(granted) ==
    \/ /\ status[current] = "pinned"
       /\ currentRemaining > -MaxOverrun
       /\ Dispatch(current, currentRemaining - 1, remaining, granted)
       /\ UNCHANGED <<running, retired, chosen>>
    \/ status[current] = "runnable" /\ currentRemaining - 1 <= 0 /\ Retire
    \/ status[current] = "runnable" /\ currentRemaining - 1 > 0 /\ Keep(granted)

Resched(granted) ==
    /\ pc = "resched"
    /\ \/ Awake /\ running \cup finished # {} /\ Charge(granted)
       \/ /\ Awake /\ running \cup finished = {} /\ pc' = "thread"
          /\ UNCHANGED <<running, current, currentRemaining, remaining, retired, chosen>>
       \/ /\ current = Nobody
          /\ pc' = IF running \cup finished = {} THEN "thread" ELSE "retired"
          /\ UNCHANGED <<running, current, currentRemaining, remaining, retired, chosen>>
    /\ UNCHANGED <<finished, affinity, status, total, mutex, waiting, balancing, trouble>>

(* The rest of retire_current_thread, the epoch, and the head that is to   *)
(* be the current thread.                                                  *)
Requeue_bug == finished

Requeue == IF current = Nobody THEN finished ELSE finished \cup {current}

ChooseHead ==
    /\ pc = "retired"
    /\ Epoch(running, Requeue, total, retired)
    /\ IF running' = {}
         THEN trouble' = "null" /\ UNCHANGED local
         ELSE chosen' \in running' /\ pc' = "head" /\ UNCHANGED trouble
    /\ UNCHANGED <<affinity, current, currentRemaining, remaining, status, mutex, waiting, balancing>>

TakeHead(granted) ==
    /\ pc = "head"
    /\ Dispatch(chosen, remaining[chosen], remaining, granted)
    /\ chosen' = Nobody
    /\ UNCHANGED <<queues, status, load, mutex, waiting, balancing, trouble>>

(* remove_current, up to the point where rebalance_load gives up the lock, *)
(* whoever has it.                                                         *)
RemoveCurrent(sum) ==
    /\ total' = Add(sum, -remaining[current])
    /\ remaining' = [remaining EXCEPT ![current] = currentRemaining]
    /\ affinity' \in Without(affinity, current)
    /\ running' \in Without(running, current)
    /\ mutex' = "free"
    /\ UNCHANGED <<finished, current, currentRemaining, status, retired, chosen, waiting,
                   balancing, trouble>>

(* test_runnable: the current thread has gone to sleep.                    *)
ReschedAsleep ==
    /\ pc = "resched"
    /\ current # Nobody /\ status[current] \notin Runnable
    /\ RemoveCurrent(total)
    /\ pc' = "rebalance"

(* The end of rebalance_load: sched_reassign_thread if a thread could be   *)
(* stolen from another processor, whose slice is what it was there.        *)
Stolen == {Nobody} \cup (Thread \ (affinity \cup waiting))

Reassigned(queue, t) == IF t = Nobody THEN queue ELSE queue \cup {t}

SlicesWith(t, slice) == IF t = Nobody THEN remaining ELSE [remaining EXCEPT ![t] = slice]

LoadWith(t, slice) == IF t = Nobody THEN total ELSE Add(total, slice)

Reassign(t, slice) ==
    /\ running' = Reassigned(running, t)
    /\ affinity' = Reassigned(affinity, t)
    /\ remaining' = SlicesWith(t, slice)
    /\ total' = LoadWith(t, slice)

(* The rest of test_runnable and what follows it up to check_current_-     *)
(* thread.  Nobody will release the lock that rebalance_load has taken.    *)
ReschedResume(t, slice) ==
    /\ pc = "rebalance" /\ mutex = "free"
    /\ mutex' = "held"
    /\ Reassign(t, slice)
    /\ current' = Nobody
    /\ pc' = IF running' \cup finished = {} THEN "thread" ELSE "retired"
    /\ UNCHANGED <<finished, currentRemaining, status, retired, chosen, waiting, balancing, trouble>>

(***************************************************************************)
(* thread_remove.  The current thread is removed by its own processor:     *)
(* "XXX NEED TO STOP THE CPU IF IT IS NOT US".  The timer is off from the  *)
(* beginning to the end.                                                   *)
(***************************************************************************)
RemoveBegin ==
    /\ pc = "thread" /\ current # Nobody
    /\ pc' = "locking"
    /\ UNCHANGED <<queues, current, currentRemaining, remaining, status, load, mutex, chosen,
                   waiting, balancing, trouble>>

RemoveThreadCurrent ==
    /\ pc = "locking" /\ mutex = "free"
    /\ RemoveCurrent(Add(total, -remaining[current]))
    /\ pc' = "removing"

(* The rest of sched_remove_resched.  check_exclusion_specific lets the    *)
(* processor go on only if it has the exclusion.                           *)
RemoveResume(granted, t, slice) ==
    /\ pc = "removing" /\ mutex = "free"
    /\ LET run == Reassigned(running, t)
           slices == SlicesWith(t, slice)
       IN  \/ /\ run \cup finished = {}
              /\ current' = Nobody /\ total' = 0 /\ retired' = 0
              /\ pc' = "thread"
              /\ trouble' = IF granted THEN trouble ELSE "null"
              /\ UNCHANGED <<running, finished, currentRemaining, remaining>>
           \/ /\ run \cup finished # {}
              /\ Epoch(run, finished, LoadWith(t, slice), retired)
              /\ \E head \in running' : Dispatch(head, slices[head], slices, granted)
              /\ UNCHANGED trouble
    /\ affinity' = Reassigned(affinity, t)
    /\ UNCHANGED <<status, mutex, chosen, waiting, balancing>>

(* delete_from_queue: the queue the thread's position finds it in, or else *)
(* the finished one.                                                       *)
DeleteFromQueue(t) ==
    /\ IF t \in running
         THEN running' = running \ {t} /\ UNCHANGED finished
         ELSE finished' \in Without(finished, t) /\ UNCHANGED running
    /\ affinity' \in Without(affinity, t)
    /\ total' = Add(total, -remaining[t])
    /\ trouble' = IF pc = "head" /\ t = chosen THEN "stolen" ELSE trouble

RemoveThreadOther(t) ==
    /\ mutex = "free"
    /\ t \in affinity /\ t # current
    /\ balancing < MaxBalancing
    /\ DeleteFromQueue(t)
    /\ balancing' = balancing + 1
    /\ UNCHANGED <<current, currentRemaining, remaining, status, retired, mutex, local, waiting>>

OtherResume_bug(t, slice) ==    \* steals without having removed a thread
    /\ mutex = "free"
    /\ balancing' = balancing - 1
    /\ Reassign(t, slice)
    /\ UNCHANGED <<finished, current, currentRemaining, status, retired, mutex, local, waiting, trouble>>

OtherResume(t, slice) ==
    /\ mutex = "free"
    /\ balancing > 0
    /\ balancing' = balancing - 1
    /\ Reassign(t, slice)
    /\ UNCHANGED <<finished, current, currentRemaining, status, retired, mutex, local, waiting, trouble>>

-----------------------------------------------------------------------------
(* thread_insert: a new thread.                                            *)
InsertThread(t) ==
    /\ mutex = "free"
    /\ t \notin affinity \cup waiting
    /\ status' = [status EXCEPT ![t] = "runnable"]
    /\ total' = Add(total, Soft[t])
    /\ remaining' = [remaining EXCEPT ![t] = Soft[t] \div 2]
    /\ affinity' = affinity \cup {t}
    /\ running' = running \cup {t}
    /\ UNCHANGED <<finished, current, currentRemaining, retired, mutex, local, waiting, balancing,
                   trouble>>

(* thread_restart, on this processor: a thread that slept comes back, with *)
(* more time if epochs have passed.  pow = 0: none has.                    *)
Increase(t, pow) ==
    LET diff == IF Soft[t] < remaining[t] THEN 0 ELSE Soft[t] - remaining[t]
    IN  IF pow = 0 THEN 0 ELSE diff - (diff \div 2 ^ (pow + 1))

(* A thread is woken as soon as it is in a sleep queue.                    *)
Wake(t, s) ==
    /\ t \in waiting
    /\ waiting' = waiting \ {t}
    /\ status' = [status EXCEPT ![t] = s]
    /\ trouble' = IF t \in affinity THEN "twice" ELSE trouble

RestartThread(t, pow, s) ==
    /\ mutex = "free"
    /\ Wake(t, s)
    /\ remaining' = [remaining EXCEPT ![t] = @ + Increase(t, pow)]
    /\ affinity' = affinity \cup {t}
    /\ total' = Add(total, Soft[t])
    /\ running' = running \cup {t}
    /\ UNCHANGED <<finished, current, currentRemaining, retired, mutex, local, balancing>>

(* thread_restart, on another processor whose load is lower.               *)
RestartElsewhere(t, s) ==
    /\ Wake(t, s)
    /\ UNCHANGED <<queues, current, currentRemaining, remaining, load, mutex, local, balancing>>

(* sched_eschew_thread: get_lowest_affinity gives another processor the    *)
(* head of the affinity queue, or if that is current one of the next two.  *)
EschewThread_bug(t) ==      \* the head of the affinity queue, whoever it is
    /\ mutex = "free"
    /\ t \in affinity
    /\ DeleteFromQueue(t)
    /\ UNCHANGED <<current, currentRemaining, remaining, status, retired, mutex, local, waiting,
                   balancing>>

EschewThread(t) ==
    /\ mutex = "free"
    /\ t \in affinity \ {current}
    /\ DeleteFromQueue(t)
    /\ UNCHANGED <<current, currentRemaining, remaining, status, retired, mutex, local, waiting,
                   balancing>>

(* sched_change_remaining, for thread_set_priority and its like.           *)
ChangeRemaining(t, v) ==
    /\ mutex = "free"
    /\ t \in affinity
    /\ \/ /\ t # current
          /\ total' = Add(total, v - remaining[t])
          /\ remaining' = [remaining EXCEPT ![t] = v]
          /\ UNCHANGED currentRemaining
       \/ /\ t = current
          /\ total' = Add(total, currentRemaining - remaining[t])
          /\ currentRemaining' = v
          /\ UNCHANGED remaining
    /\ UNCHANGED <<queues, current, status, retired, mutex, local, waiting, balancing, trouble>>

(* thread_set_status writes the status without the scheduler.              *)
SetStatus(t, s) ==
    /\ t \in affinity
    /\ status' = [status EXCEPT ![t] = s]
    /\ UNCHANGED <<queues, current, currentRemaining, remaining, load, mutex, local, waiting,
                   balancing, trouble>>

-----------------------------------------------------------------------------
(* The model ends where a null thread is written to, where a thread is in  *)
(* a heap twice and its one position no longer says where, and where the   *)
(* current thread is one that another processor has.                       *)
Lost == trouble \in {"twice", "null"} \/ (trouble = "stolen" /\ pc # "head")

(* The timer interrupt on this processor.                                  *)
Tick(granted) ==
    /\ ~Lost
    /\ \/ SyncCheck \/ Resched(granted) \/ ChooseHead \/ TakeHead(granted)
       \/ ReschedAsleep
       \/ \E t \in Stolen, slice \in Slices : ReschedResume(t, slice)

(* The current thread removes itself.                                      *)
Remove ==
    /\ ~Lost
    /\ \/ RemoveThreadCurrent
       \/ \E t \in Stolen, slice \in Slices, granted \in BOOLEAN : RemoveResume(granted, t, slice)

(* The calls that threads of this and of other processors make.            *)
Call ==
    /\ ~Lost
    /\ \/ RemoveBegin
       \/ \E t \in Stolen, slice \in Slices : OtherResume(t, slice)
       \/ \E t \in Thread :
            \/ InsertThread(t) \/ EschewThread(t) \/ RemoveThreadOther(t)
            \/ \E v \in Slices : ChangeRemaining(t, v)
            \/ \E s \in Status : SetStatus(t, s)
            \/ \E pow \in 0 .. MaxPow, s \in Runnable : RestartThread(t, pow, s)
            \/ \E s \in Runnable : RestartElsewhere(t, s)

Next == Call \/ Remove \/ \E granted \in BOOLEAN : Tick(granted)

Spec == Init /\ [][Next]_vars

(* The timer goes on interrupting, and a removal comes to its end.         *)
FairSpec ==
    /\ Spec
    /\ WF_vars(\E granted \in BOOLEAN : Tick(granted))
    /\ WF_vars(Remove)

-----------------------------------------------------------------------------
(* Types, and the room there is for the values of the bounded counters.    *)
TypeOK ==
    /\ running \subseteq Thread /\ finished \subseteq Thread /\ affinity \subseteq Thread
    /\ current \in Thread \cup {Nobody}
    /\ currentRemaining \in Int
    /\ remaining \in [Thread -> Int]
    /\ status \in [Thread -> Status]
    /\ total \in 0 .. LoadRange - 1 /\ retired \in 0 .. LoadRange - 1
    /\ mutex \in {"free", "held"}
    /\ pc \in {"thread", "queued", "dozing", "resched", "retired", "head",
               "rebalance", "locking", "removing"}
    /\ pc \in {"queued", "dozing", "locking", "rebalance", "removing"} => current \in Thread
    /\ chosen \in Thread \cup {Nobody} /\ (pc = "head" <=> chosen # Nobody)
    /\ waiting \subseteq Thread
    /\ balancing \in 0 .. MaxBalancing
    /\ trouble \in {"none", "stolen", "twice", "null"}

(* "the affinity queue holds every thread in a scheduler" (scheduler.c),   *)
(* each of them in one of the two other queues, but for the thread that    *)
(* the tick is moving from one to the other.  Calls of other processors    *)
(* that change the queues between the steps of a tick or of a removal lose *)
(* no thread, unless they take the very thread that the tick has read and  *)
(* not yet noted as current, or insert one that is in the queues.  Both    *)
(* happen, since timer_interrupt takes no lock and a thread is woken as    *)
(* soon as it is in a sleep queue; these are all the ways to go wrong.     *)
Moving == IF pc = "retired" /\ current # Nobody THEN {current} ELSE {}

QueuesAgree ==
    trouble = "none" =>
      /\ affinity = running \cup finished \cup Moving
      /\ running \cap finished = {} /\ Moving \cap (running \cup finished) = {}

(* The thread on the processor is in the running queue, so that the        *)
(* positions by which retire_current_thread, keep_current_thread and       *)
(* remove_current reach into the heaps are its own, and so is the head a   *)
(* tick has read, when it comes to note it: "guaranteed not to return the  *)
(* currently running thread" (scheduler.c) is true under the same          *)
(* conditions and not without them.                                        *)
CurrentQueued ==
    trouble = "none" =>
      /\ pc \in {"thread", "queued", "dozing", "resched", "locking"} /\ current # Nobody
           => current \in running
      /\ pc = "head" => chosen \in running

(* No thread starves: once threads stop coming, going and changing state,  *)
(* and the processor is not excluded, each of them gets the processor over *)
(* and over again, whatever the order of the queues.                       *)
Settled ==
    /\ <>[][Tick(TRUE)]_vars
    /\ <>[](\A t \in affinity : status[t] = "runnable")
    /\ [](trouble = "none") /\ <>[](pc # "locking")

EveryThreadRuns == Settled => \A t \in Thread : []<>(t \in affinity => current = t)
=============================================================================
