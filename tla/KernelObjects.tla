---------------------------- MODULE KernelObjects ---------------------------
(***************************************************************************)
(* Threads and synchronization objects of the emulated kernel              *)
(* (core/hle/kernel): their state, and the calls that the kernel makes on  *)
(* them.  The loops and nested calls of a system call or a timer callback  *)
(* are the calls still to be made, todo; nothing else happens until they   *)
(* are done.                                                               *)
(*                                                                         *)
(* A ready queue is a sequence of threads for each priority; the module    *)
(* ThreadQueueList shows that the linked structure of the code is one.     *)
(***************************************************************************)
EXTENDS Lists

CONSTANTS
    Threads, Mutexes, Events, Semaphores,  \* the kernel objects
    None,          \* nullptr
    NumCores,      \* number of emulated cores
    CoreOf,        \* the core of each thread (processor_id)
    PrioLowest,    \* ThreadPrioLowest (63); 0 is the best priority
    CreatePrio,    \* the priority each thread is created with
    Started,       \* the threads that exist when the system starts
    ResetType,     \* reset type of each event
    MaxCount,      \* max_count of each semaphore
    InitialCount,  \* initial available_count of each semaphore
    Magic,         \* threads with the TLS magic, exempt from unscheduling
    Calls,         \* the system calls that the emulated program makes
    WaitLists,     \* bound: the objects given to WaitSynchronization1/N
    Timeouts,      \* bound: the delays, among "zero", "finite" and "forever"
    ReleaseCounts, \* bound: the counts given to ReleaseSemaphore
    NewPriorities, \* bound: the priorities given to SetThreadPriority
    MaxLock        \* bound: how deep a mutex is locked recursively

Cores   == 0 .. NumCores - 1
Prio    == 0 .. PrioLowest
Objects == Threads \cup Mutexes \cup Events \cup Semaphores

ASSUME ConstantsAssumption ==
    /\ IsFiniteSet(Threads) /\ IsFiniteSet(Mutexes)
    /\ Threads \cap (Mutexes \cup Events \cup Semaphores) = {}
    /\ Mutexes \cap (Events \cup Semaphores) = {}
    /\ Events \cap Semaphores = {}
    /\ None \notin Objects
    /\ NumCores \in Nat \ {0}
    /\ CoreOf \in [Threads -> Cores]
    /\ PrioLowest \in Nat
    /\ CreatePrio \in [Threads -> Prio]
    /\ Started \subseteq Threads
    /\ ResetType \in [Events -> {"OneShot", "Sticky", "Pulse"}]
    /\ MaxCount \in [Semaphores -> Nat]
    /\ InitialCount \in [Semaphores -> Nat]
    /\ \A s \in Semaphores : InitialCount[s] <= MaxCount[s]
    /\ Magic \subseteq Threads
    /\ WaitLists \subseteq Seq(Objects)
    /\ Timeouts \subseteq {"zero", "finite", "forever"}
    /\ ReleaseCounts \subseteq Nat
    /\ NewPriorities \subseteq Prio
    /\ MaxLock \in Nat \ {0}

VARIABLES
    \* Thread
    status, nominal_priority, current_priority, wait_objects, held_mutexes,
    pending_mutexes, wakeup_callback, can_schedule,
    context,             \* the saved r0, the result register
    armed,               \* a ThreadWakeup event is scheduled
    \* WaitObject, Mutex, Event, Semaphore
    waiting_threads, lock_count, holding_thread, priority, signaled, available_count,
    \* ThreadManager and CPU, for each core
    ready_queue, current_thread, r0,
    \* System
    reschedule_pending,
    halted,              \* PrepareReschedule stopped the core that executes
    agenda, todo,
    signalled_wake       \* history: woken by a signal, no system call since

threadVars == <<status, nominal_priority, current_priority, wait_objects, held_mutexes,
                pending_mutexes, wakeup_callback, can_schedule, context, armed>>
objectVars == <<waiting_threads, lock_count, holding_thread, priority, signaled,
                available_count>>
coreVars   == <<ready_queue, current_thread, r0>>
vars == <<threadVars, objectVars, coreVars, reschedule_pending, halted, agenda, todo,
          signalled_wake>>

WaitSynch == {"WaitSynchAny", "WaitSynchAll"}
Waits     == WaitSynch \cup {"WaitSleep"}
Status    == Waits \cup {"Dormant", "Ready", "Running", "Dead"}
Results   == {"Timeout", "Other"}    \* RESULT_TIMEOUT and everything else
-----------------------------------------------------------------------------
(* Calls still to be made, and tasks of the run loop.                      *)
Call(op, t, o)  == [op |-> op, thread |-> t, object |-> o]
CallsOn(op, t, os) == [i \in 1 .. Len(os) |-> Call(op, t, os[i])]
CallSet ==
    [op : {"acquire", "add", "remove"}, thread : Threads, object : Objects]
    \cup [op : {"resume", "release", "stop"}, thread : Threads, object : {None}]
    \cup [op : {"wake"}, thread : {None}, object : Objects]
    \cup [op : {"update"}, thread : {None}, object : Mutexes]

Task(stage, c) == [stage |-> stage, core |-> c]
Tasks(stage, cs) == [i \in 1 .. Len(cs) |-> Task(stage, cs[i])]
AllCores == [i \in 1 .. NumCores |-> i - 1]
LateCores == UNION {{cs \in [1 .. n -> Cores] : \A i, j \in 1 .. n : i < j => cs[i] < cs[j]} :
                    n \in 0 .. NumCores - 1}
TaskSet == [stage : {"sched", "run", "end", "switch"}, core : Cores]


\* System::PrepareReschedule; it stops the core only while the core executes.
PrepareReschedule == halted' = (Head(agenda).stage = "run") /\ reschedule_pending' = TRUE
-----------------------------------------------------------------------------
(* Ready queues and priorities.  A thread is in a queue at most once       *)
(* (ReadyQueueOK), so to remove it is to remove its first occurrence.      *)
QueueMove(q, t, old, new) ==
    LET r == [q EXCEPT ![old] = RemoveFirst(@, t)] IN [r EXCEPT ![new] = Append(@, t)]

\* A mutant: a ready thread stays at its old level.
BoostPriority_NoMove(t, prio) ==
    current_priority' = [current_priority EXCEPT ![t] = prio] /\ UNCHANGED ready_queue

\* Thread::BoostPriority
BoostPriority(t, prio) ==
    /\ current_priority' = [current_priority EXCEPT ![t] = prio]
    /\ ready_queue' = IF status[t] = "Ready"
                      THEN [ready_queue EXCEPT ![CoreOf[t]] =
                                QueueMove(@, t, current_priority[t], prio)]
                      ELSE ready_queue

\* The priority Thread::UpdatePriority gives to a thread.
BestPriority(nominal, mutexPriorities) == Min({nominal} \cup mutexPriorities)

UpdatePriority(t, held, mprio) ==
    BoostPriority(t, BestPriority(nominal_priority[t], {mprio[m] : m \in held}))

\* A mutant: the holder is not told of the new priority.
MutexUpdatePriority_NoInherit(m, waiters) ==
    /\ priority' = IF holding_thread[m] = None THEN priority
                   ELSE [priority EXCEPT ![m] =
                       Min({PrioLowest} \cup {current_priority[w] : w \in Range(waiters)})]
    /\ UNCHANGED <<current_priority, ready_queue>>

\* Mutex::UpdatePriority, with the waiters of m as they are after the call.
MutexUpdatePriority(m, waiters) ==
    LET holder == holding_thread[m]
        best   == Min({PrioLowest} \cup {current_priority[w] : w \in Range(waiters)})
    IN  IF holder = None \/ best = priority[m]
        THEN UNCHANGED <<priority, current_priority, ready_queue>>
        ELSE /\ priority' = [priority EXCEPT ![m] = best]
             /\ UpdatePriority(holder, held_mutexes[holder], priority')
-----------------------------------------------------------------------------
(* Wait objects.                                                           *)
MutexShouldWait(m, t) == lock_count[m] > 0 /\ holding_thread[m] # t
EventShouldWait(e) == ~signaled[e]
SemaphoreShouldWait(s) == available_count[s] <= 0
ThreadShouldWait(t) == status[t] # "Dead"

ShouldWait(o, t) ==
    \/ o \in Mutexes /\ MutexShouldWait(o, t)
    \/ o \in Events /\ EventShouldWait(o)
    \/ o \in Semaphores /\ SemaphoreShouldWait(o)
    \/ o \in Threads /\ ThreadShouldWait(o)

ReadyToRun(o, t) ==
    /\ ~ShouldWait(o, t)
    /\ status[t] = "WaitSynchAll" => \A p \in Range(wait_objects[t]) : ~ShouldWait(p, t)

\* WaitObject::GetHighestPriorityReadyThread: the first of the best ones.
GetHighestPriorityReadyThread(o) ==
    LET list == waiting_threads[o]
        prio(i) == current_priority[list[i]]
        candidates == {i \in DOMAIN list : ReadyToRun(o, list[i])}
    IN  IF candidates = {} THEN None
        ELSE list[CHOOSE i \in candidates :
                    \A j \in candidates : prio(i) < prio(j) \/ (prio(i) = prio(j) /\ i <= j)]

NextCall(op) == todo # <<>> /\ Head(todo).op = op
CallThread == Head(todo).thread
CallObject == Head(todo).object

\* Mutex::Acquire
AcquireMutex ==
    LET t == CallThread  m == CallObject IN
    /\ NextCall("acquire") /\ m \in Mutexes /\ ~ShouldWait(m, t)
    /\ lock_count' = [lock_count EXCEPT ![m] = @ + 1]
    /\ IF lock_count[m] = 0
       THEN /\ priority' = [priority EXCEPT ![m] = current_priority[t]]
            /\ held_mutexes' = [held_mutexes EXCEPT ![t] = @ \cup {m}]
            /\ holding_thread' = [holding_thread EXCEPT ![m] = t]
            /\ UpdatePriority(t, held_mutexes'[t], priority')
            /\ PrepareReschedule
       ELSE UNCHANGED <<priority, held_mutexes, holding_thread, current_priority,
                        ready_queue, halted, reschedule_pending>>
    /\ todo' = Tail(todo)
    /\ UNCHANGED <<status, nominal_priority, wait_objects, pending_mutexes, wakeup_callback,
                   can_schedule, context, armed, waiting_threads, signaled,
                   available_count, current_thread, r0, agenda, signalled_wake>>

\* Event::Acquire
AcquireEvent ==
    /\ NextCall("acquire") /\ CallObject \in Events /\ ~EventShouldWait(CallObject)
    /\ signaled' = IF ResetType[CallObject] = "OneShot"
                   THEN [signaled EXCEPT ![CallObject] = FALSE] ELSE signaled
    /\ todo' = Tail(todo)
    /\ UNCHANGED <<threadVars, waiting_threads, lock_count, holding_thread, priority,
                   available_count, coreVars, reschedule_pending, halted, agenda,
                   signalled_wake>>

\* Semaphore::Acquire, which does nothing when there is no free slot.
AcquireSemaphore ==
    /\ NextCall("acquire") /\ CallObject \in Semaphores
    /\ available_count' = IF available_count[CallObject] > 0
                          THEN [available_count EXCEPT ![CallObject] = @ - 1]
                          ELSE available_count
    /\ todo' = Tail(todo)
    /\ UNCHANGED <<threadVars, waiting_threads, lock_count, holding_thread, priority,
                   signaled, coreVars, reschedule_pending, halted, agenda, signalled_wake>>

\* Thread::Acquire
AcquireThread ==
    /\ NextCall("acquire") /\ CallObject \in Threads /\ ~ThreadShouldWait(CallObject)
    /\ todo' = Tail(todo)
    /\ UNCHANGED <<threadVars, objectVars, coreVars, reschedule_pending, halted, agenda,
                   signalled_wake>>

\* WaitObject::AddWaitingThread and Mutex::AddWaitingThread
AddWaitingThread ==
    LET t == CallThread  o == CallObject IN
    /\ NextCall("add")
    /\ waiting_threads' = IF t \in Range(waiting_threads[o]) THEN waiting_threads
                          ELSE [waiting_threads EXCEPT ![o] = Append(@, t)]
    /\ IF o \in Mutexes
       THEN /\ pending_mutexes' = [pending_mutexes EXCEPT ![t] = @ \cup {o}]
            /\ MutexUpdatePriority(o, waiting_threads'[o])
       ELSE UNCHANGED <<pending_mutexes, priority, current_priority, ready_queue>>
    /\ todo' = Tail(todo)
    /\ UNCHANGED <<status, nominal_priority, wait_objects, held_mutexes, wakeup_callback,
                   can_schedule, context, armed, lock_count, holding_thread, signaled,
                   available_count, current_thread, r0, reschedule_pending, halted,
                   agenda, signalled_wake>>

\* WaitObject::RemoveWaitingThread and Mutex::RemoveWaitingThread
RemoveWaitingThread ==
    LET t == CallThread  o == CallObject IN
    /\ NextCall("remove")
    /\ waiting_threads' = [waiting_threads EXCEPT ![o] = RemoveFirst(@, t)]
    /\ IF o \in Mutexes
       THEN /\ pending_mutexes' = [pending_mutexes EXCEPT ![t] = @ \ {o}]
            /\ MutexUpdatePriority(o, waiting_threads'[o])
       ELSE UNCHANGED <<pending_mutexes, priority, current_priority, ready_queue>>
    /\ todo' = Tail(todo)
    /\ UNCHANGED <<status, nominal_priority, wait_objects, held_mutexes, wakeup_callback,
                   can_schedule, context, armed, lock_count, holding_thread, signaled,
                   available_count, current_thread, r0, reschedule_pending, halted,
                   agenda, signalled_wake>>

\* wait_objects.clear() and Thread::ResumeFromWait; a thread that is Ready,
\* Running or Dead is left alone.
ResumeFromWait ==
    LET t == CallThread IN
    /\ NextCall("resume")
    /\ wait_objects' = [wait_objects EXCEPT ![t] = <<>>]
    /\ IF status[t] \in Waits
       THEN /\ wakeup_callback' = [wakeup_callback EXCEPT ![t] = FALSE]
            /\ ready_queue' = [ready_queue EXCEPT ![CoreOf[t]][current_priority[t]] =
                                  Append(@, t)]
            /\ status' = [status EXCEPT ![t] = "Ready"]
            /\ PrepareReschedule
       ELSE UNCHANGED <<wakeup_callback, ready_queue, status, halted, reschedule_pending>>
    /\ todo' = Tail(todo)
    /\ UNCHANGED <<nominal_priority, current_priority, held_mutexes, pending_mutexes,
                   can_schedule, context, armed, objectVars, current_thread, r0, agenda,
                   signalled_wake>>

\* Mutants: only one thread is woken; a thread stays in the lists it waited in.
WakeupCalls_Once(o, t, rest) ==
    CallsOn("acquire", t, IF status[t] = "WaitSynchAll" THEN wait_objects[t] ELSE <<o>>)
    \o CallsOn("remove", t, wait_objects[t]) \o <<Call("resume", t, None)>> \o Tail(rest)


\* What WakeupAllWaitingThreads does to a thread, before the rest.
WakeupCalls(o, t, rest) ==
    CallsOn("acquire", t, IF status[t] = "WaitSynchAll" THEN wait_objects[t] ELSE <<o>>)
    \o CallsOn("remove", t, wait_objects[t]) \o <<Call("resume", t, None)>> \o rest

\* One iteration of WaitObject::WakeupAllWaitingThreads.  The wakeup callback
\* (SVC_SyncCallback) writes the result into the saved context of the thread.
WakeupNext ==
    LET o == CallObject
        t == GetHighestPriorityReadyThread(o)
    IN
    /\ NextCall("wake") /\ t # None
    /\ context' = IF wakeup_callback[t] THEN [context EXCEPT ![t] = "Other"] ELSE context
    /\ signalled_wake' = [signalled_wake EXCEPT ![t] = TRUE]
    /\ todo' = WakeupCalls(o, t, todo)
    /\ UNCHANGED <<status, nominal_priority, current_priority, wait_objects, held_mutexes,
                   pending_mutexes, wakeup_callback, can_schedule, armed, objectVars,
                   coreVars, reschedule_pending, halted, agenda>>

\* The loop ends; Event::WakeupAllWaitingThreads then resets a Pulse event.
WakeupDone ==
    LET o == CallObject IN
    /\ NextCall("wake") /\ GetHighestPriorityReadyThread(o) = None
    /\ signaled' = IF o \in Events /\ ResetType[o] = "Pulse"
                   THEN [signaled EXCEPT ![o] = FALSE] ELSE signaled
    /\ todo' = Tail(todo)
    /\ UNCHANGED <<threadVars, waiting_threads, lock_count, holding_thread, priority,
                   available_count, coreVars, reschedule_pending, halted, agenda,
                   signalled_wake>>

\* ReleaseThreadMutexes: the set is ordered by address, so in any order.
ReleaseThreadMutexes ==
    LET t == CallThread
        left == {m \in held_mutexes[t] : holding_thread[m] = t}
    IN
    /\ NextCall("release")
    /\ \/ \E m \in left :
             /\ lock_count' = [lock_count EXCEPT ![m] = 0]
             /\ holding_thread' = [holding_thread EXCEPT ![m] = None]
             /\ todo' = <<Call("wake", None, m)>> \o todo
             /\ UNCHANGED held_mutexes
       \/ /\ left = {}
          /\ held_mutexes' = [held_mutexes EXCEPT ![t] = {}]
          /\ todo' = Tail(todo)
          /\ UNCHANGED <<lock_count, holding_thread>>
    /\ UNCHANGED <<status, nominal_priority, current_priority, wait_objects,
                   pending_mutexes, wakeup_callback, can_schedule, context, armed,
                   waiting_threads, priority, signaled, available_count, coreVars,
                   reschedule_pending, halted, agenda, signalled_wake>>

\* Thread::Stop
Stop ==
    LET t == CallThread IN
    /\ NextCall("stop")
    /\ armed' = [armed EXCEPT ![t] = FALSE]
    /\ ready_queue' = IF status[t] = "Ready"
                      THEN [ready_queue EXCEPT ![CoreOf[t]][current_priority[t]] =
                                RemoveFirst(@, t)]
                      ELSE ready_queue
    /\ status' = [status EXCEPT ![t] = "Dead"]
    /\ wait_objects' = [wait_objects EXCEPT ![t] = <<>>]
    /\ todo' = <<Call("wake", None, t)>> \o CallsOn("remove", t, wait_objects[t])
               \o <<Call("release", t, None)>> \o Tail(todo)
    /\ UNCHANGED <<nominal_priority, current_priority, held_mutexes, pending_mutexes,
                   wakeup_callback, can_schedule, context, objectVars, current_thread, r0,
                   reschedule_pending, halted, agenda, signalled_wake>>

\* The loop over pending_mutexes in SVC::SetThreadPriority
UpdatePending ==
    /\ NextCall("update")
    /\ MutexUpdatePriority(CallObject, waiting_threads[CallObject])
    /\ todo' = Tail(todo)
    /\ UNCHANGED <<status, nominal_priority, wait_objects, held_mutexes, pending_mutexes,
                   wakeup_callback, can_schedule, context, armed, waiting_threads,
                   lock_count, holding_thread, signaled, available_count, current_thread,
                   r0, reschedule_pending, halted, agenda, signalled_wake>>

KernelCall ==
    \/ AcquireMutex \/ AcquireEvent \/ AcquireSemaphore \/ AcquireThread
    \/ AddWaitingThread \/ RemoveWaitingThread
    \/ ResumeFromWait
    \/ WakeupNext \/ WakeupDone
    \/ Stop \/ ReleaseThreadMutexes
    \/ UpdatePending
-----------------------------------------------------------------------------
ThreadTypeOK ==
    /\ status \in [Threads -> Status]
    /\ nominal_priority \in [Threads -> Prio]
    /\ current_priority \in [Threads -> Prio]
    /\ wait_objects \in [Threads -> Seq(Objects)]
    /\ held_mutexes \in [Threads -> SUBSET Mutexes]
    /\ pending_mutexes \in [Threads -> SUBSET Mutexes]
    /\ wakeup_callback \in [Threads -> BOOLEAN]
    /\ can_schedule \in [Threads -> BOOLEAN]
    /\ context \in [Threads -> Results]
    /\ armed \in [Threads -> BOOLEAN]

ObjectTypeOK ==
    /\ waiting_threads \in [Objects -> Seq(Threads)]
    /\ lock_count \in [Mutexes -> Nat]
    /\ holding_thread \in [Mutexes -> Threads \cup {None}]
    /\ priority \in [Mutexes -> Prio]
    /\ signaled \in [Events -> BOOLEAN]
    /\ available_count \in [Semaphores -> Nat]
    /\ \A s \in Semaphores : available_count[s] <= MaxCount[s]

CoreTypeOK ==
    /\ ready_queue \in [Cores -> [Prio -> Seq(Threads)]]
    /\ current_thread \in [Cores -> Threads \cup {None}]
    /\ r0 \in [Cores -> Results]

LoopTypeOK ==
    /\ reschedule_pending \in BOOLEAN
    /\ halted \in BOOLEAN
    /\ agenda \in Seq(TaskSet)
    /\ todo \in Seq(CallSet)
    /\ signalled_wake \in [Threads -> BOOLEAN]

(* The fields keep their ranges; a semaphore never has more free slots     *)
(* than max_count nor fewer than none, and every call made in a wakeup, a  *)
(* timeout or an exit is on a thread and an object of the right kind.      *)
TypeOK == ThreadTypeOK /\ ObjectTypeOK /\ CoreTypeOK /\ LoopTypeOK
=============================================================================
