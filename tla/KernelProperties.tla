-------------------------- MODULE KernelProperties --------------------------
(***************************************************************************)
(* What the threads, the synchronization objects and the scheduler of the  *)
(* emulated kernel keep.  TypeOK and MutexOK are with the specification.   *)
(***************************************************************************)
EXTENDS Kernel

\* The list has the elements of the set, each of them once.
Enumerates(list, S) == IsInjective(list) /\ Range(list) = S

\* The threads that are ready to run on a core, at a level of priority.
ReadyAt(c, p) ==
    {t \in Threads : status[t] = "Ready" /\ CoreOf[t] = c /\ current_priority[t] = p}

(* A thread is in the ready queue of its core exactly when it is Ready,    *)
(* once, at the level of its current priority: priority inheritance,       *)
(* SetThreadPriority, wakeups and context switches, in every order, keep   *)
(* the queues and the priorities in step (pop_first and remove rely on it).*)
ReadyQueueOK == \A c \in Cores, p \in Prio : Enumerates(ready_queue[c][p], ReadyAt(c, p))

(* A Running thread is the current thread of its own core, and a core      *)
(* executes only a thread that is Running (until it halts).                *)
RunningOK ==
    /\ \A t \in Threads : status[t] = "Running" => current_thread[CoreOf[t]] = t
    /\ InTask("run") /\ ~halted /\ current_thread[Head(agenda).core] # None
          => status[current_thread[Head(agenda).core]] = "Running"

(* No mutex stays locked by a thread that has exited: a thread that waits  *)
(* for it would wait forever.                                              *)
NoDeadHolder ==
    todo = <<>> => \A m \in Mutexes :
        holding_thread[m] # None => status[holding_thread[m]] # "Dead"

(* The status of a thread agrees with the ready queues and with the        *)
(* threads that the cores run, and a dead thread holds no mutex.           *)
StatusOK == ReadyQueueOK /\ RunningOK /\ NoDeadHolder

(* Between kernel calls, waiting_threads, wait_objects and pending_mutexes *)
(* agree: a thread is in the list of exactly the objects it waits for, and *)
(* only a thread that sleeps in WaitSynchronization waits for any.         *)
WaitListsOK ==
    todo = <<>> =>
        /\ \A o \in Objects :
              Enumerates(waiting_threads[o], {t \in Threads : o \in Range(wait_objects[t])})
        /\ \A t \in Threads :
              /\ pending_mutexes[t] = Range(wait_objects[t]) \cap Mutexes
              /\ wait_objects[t] # <<>> => status[t] \in WaitSynch

(* The assertion of GetHighestPriorityReadyThread: while an object wakes   *)
(* its waiters, every thread in its list is asleep in WaitSynchronization. *)
WaitersAsleep ==
    NextCall("wake") => \A t \in Range(waiting_threads[CallObject]) : status[t] \in WaitSynch

(* No lost wakeup: between kernel calls no thread sleeps in                *)
(* WaitSynchronization although the objects it waits for are available.    *)
NoLostWakeup ==
    todo = <<>> =>
        \A o \in Objects : \A t \in Range(waiting_threads[o]) : ~ReadyToRun(o, t)

(* The assertion "object unavailable!" of Mutex, Event and Thread::Acquire:*)
(* what WaitSynchronization or WakeupAllWaitingThreads found available is  *)
(* still available when it is acquired.                                    *)
AcquireAvailable ==
    NextCall("acquire") /\ CallObject \notin Semaphores => ~ShouldWait(CallObject, CallThread)

(* A thread sleeps exactly as long as the objects it waits for are not     *)
(* available: it is woken when they are, and finds them so.                *)
WokenWhenAvailable == NoLostWakeup /\ AcquireAvailable

(* A thread runs at the best of its nominal priority and the priorities of *)
(* the mutexes it holds, whatever order mutexes are taken and released in. *)
InheritedPriorityOK ==
    \A t \in Threads : status[t] # "Dead" =>
        current_priority[t] = BestPriority(nominal_priority[t],
                                           {priority[m] : m \in held_mutexes[t]})

(* Between two iterations of the run loop, no core runs or idles while a   *)
(* thread of better priority is ready for it and may be scheduled: no      *)
(* change of priority or status goes without PrepareReschedule.            *)
BestThreadRuns ==
    agenda = <<>> =>
        \A t \in Threads : status[t] = "Ready" /\ can_schedule[t] =>
            LET cur == current_thread[CoreOf[t]]
            IN  cur # None /\ current_priority[cur] <= current_priority[t]

(* A scheduled wakeup never hits a thread that runs or is dead: it is      *)
(* cancelled when the thread is switched to and when it is stopped.        *)
NoStaleWakeup == \A t \in Threads : armed[t] => status[t] \in Waits \cup {"Ready"}

(* What a thread waits for, the lists of the objects it waits for and its  *)
(* scheduled wakeup agree with its status.                                 *)
WaitsOK == WaitListsOK /\ WaitersAsleep /\ NoStaleWakeup

(* A thread that was woken by a signal finds RESULT_SUCCESS in r0 when it  *)
(* runs again (comment in SVC::WaitSynchronization1).                      *)
WaitResultDelivered ==
    \A c \in Cores : InTask("run") /\ Head(agenda).core = c /\ current_thread[c] # None
        => (signalled_wake[current_thread[c]] /\ ~halted => r0[c] # "Timeout")

(* No priority inversion ("This prevents priority inversion via priority   *)
(* inheritance", Thread::UpdatePriority): the holder of a mutex is at      *)
(* least as urgent as every thread that sleeps until it gets that mutex.   *)
NoPriorityInversion ==
    todo = <<>> =>
        \A m \in Mutexes : \A w \in Range(waiting_threads[m]) :
            status[w] = "WaitSynchAny" => current_priority[holding_thread[m]] <= current_priority[w]

(* A mutex has the best priority of its waiting threads                    *)
(* (Mutex::UpdatePriority), so a thread none of whose mutexes is waited    *)
(* for runs at its nominal priority.                                       *)
NoStaleBoost ==
    todo = <<>> =>
        \A t \in Threads :
            (\A m \in held_mutexes[t] : waiting_threads[m] = <<>>)
                => current_priority[t] = nominal_priority[t]


(* A thread that waits or sleeps with a timeout does not wait forever,     *)
(* whatever the other threads do.                                          *)
TimeoutsEnd ==
    \A t \in Threads : (status[t] \in Waits /\ armed[t]) ~> (status[t] \notin Waits)
=============================================================================
