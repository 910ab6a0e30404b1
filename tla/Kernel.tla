------------------------------- MODULE Kernel -------------------------------
(***************************************************************************)
(* The system calls and the scheduler of the emulated kernel               *)
(* (core/hle/kernel), driven by System::RunLoop (core/core.cpp).           *)
(*                                                                         *)
(* One host thread runs everything.  An iteration of RunLoop is a list of  *)
(* tasks, the agenda: let the timer of a core fire and reschedule it, run  *)
(* its current thread, switch it to its next thread.  While a core runs,   *)
(* its current thread makes system calls.                                  *)
(***************************************************************************)
EXTENDS KernelObjects

(* System calls of the thread that is executing.                           *)
InTask(stage) == todo = <<>> /\ agenda # <<>> /\ Head(agenda).stage = stage

SVC(name, t) ==
    /\ name \in Calls
    /\ InTask("run") /\ current_thread[Head(agenda).core] = t /\ ~halted
    /\ signalled_wake' = [signalled_wake EXCEPT ![t] = FALSE]
    /\ UNCHANGED <<agenda, current_thread>>

Return(t, result) == r0' = [r0 EXCEPT ![CoreOf[t]] = result]

Exists(o) == o \in Threads => status[o] # "Dormant"

\* The thread goes to sleep in WaitSynchronization1/N.
Block(t, mode, os, timeout) ==
    /\ status' = [status EXCEPT ![t] = mode]
    /\ wait_objects' = [wait_objects EXCEPT ![t] = os]
    /\ armed' = [armed EXCEPT ![t] = @ \/ timeout = "finite"]
    /\ wakeup_callback' = [wakeup_callback EXCEPT ![t] = TRUE]
    /\ todo' = CallsOn("add", t, os)
    /\ Return(t, "Timeout")
    /\ PrepareReschedule

WaitSynchronization(t, mode, os, timeout) ==
    LET free == {i \in DOMAIN os : ~ShouldWait(os[i], t)}
        available == IF mode = "WaitSynchAll" THEN free = DOMAIN os ELSE free # {}
    IN
    /\ \A i \in DOMAIN os : Exists(os[i])
    /\ \A i \in free \cap {j \in DOMAIN os : os[j] \in Mutexes} : lock_count[os[i]] < MaxLock
    /\ \/ /\ available
          /\ todo' = CallsOn("acquire", t, IF mode = "WaitSynchAll" THEN os
                                           ELSE <<os[Min(free)]>>)
          /\ Return(t, "Other")
          /\ UNCHANGED <<status, wait_objects, armed, wakeup_callback, halted,
                         reschedule_pending>>
       \/ /\ ~available /\ timeout = "zero"
          /\ Return(t, "Timeout")
          /\ UNCHANGED <<status, wait_objects, armed, wakeup_callback, halted,
                         reschedule_pending, todo>>
       \/ ~available /\ timeout # "zero" /\ Block(t, mode, os, timeout)
    /\ UNCHANGED <<nominal_priority, current_priority, held_mutexes, pending_mutexes,
                   can_schedule, context, objectVars, ready_queue>>

WaitSynchronization1(t) ==
    /\ SVC("WaitSynchronization1", t)
    /\ \E os \in WaitLists, timeout \in Timeouts :
          Len(os) = 1 /\ WaitSynchronization(t, "WaitSynchAny", os, timeout)

WaitSynchronizationN(t) ==
    /\ SVC("WaitSynchronizationN", t)
    /\ \E os \in WaitLists, mode \in WaitSynch, timeout \in Timeouts :
          WaitSynchronization(t, mode, os, timeout)

\* A mutant: the mutex keeps its holder.
Unlock_KeepHolder(t, m) ==
    /\ lock_count' = [lock_count EXCEPT ![m] = 0]
    /\ held_mutexes' = [held_mutexes EXCEPT ![t] = @ \ {m}]
    /\ UpdatePriority(t, held_mutexes'[t], priority)
    /\ UNCHANGED holding_thread

\* The end of Mutex::Release, when the last lock is given back.
Unlock(t, m) ==
    /\ lock_count' = [lock_count EXCEPT ![m] = 0]
    /\ held_mutexes' = [held_mutexes EXCEPT ![t] = @ \ {m}]
    /\ UpdatePriority(t, held_mutexes'[t], priority)
    /\ holding_thread' = [holding_thread EXCEPT ![m] = None]

\* SVC::ReleaseMutex and Mutex::Release
ReleaseMutex(t) ==
    /\ SVC("ReleaseMutex", t)
    /\ \E m \in Mutexes :
          \/ /\ holding_thread[m] # t \/ lock_count[m] <= 0
             /\ Return(t, "Other")
             /\ UNCHANGED <<lock_count, holding_thread, held_mutexes, current_priority,
                            ready_queue, todo, halted, reschedule_pending>>
          \/ /\ holding_thread[m] = t /\ lock_count[m] > 1
             /\ lock_count' = [lock_count EXCEPT ![m] = @ - 1]
             /\ Return(t, "Other")
             /\ UNCHANGED <<holding_thread, held_mutexes, current_priority, ready_queue,
                            todo, halted, reschedule_pending>>
          \/ /\ holding_thread[m] = t /\ lock_count[m] = 1
             /\ Unlock(t, m)
             /\ todo' = <<Call("wake", None, m)>>
             /\ Return(t, "Other")
             /\ PrepareReschedule
    /\ UNCHANGED <<status, nominal_priority, wait_objects, pending_mutexes,
                   wakeup_callback, can_schedule, context, armed, waiting_threads,
                   priority, signaled, available_count>>

\* SVC::SignalEvent and Event::Signal
SignalEvent(t) ==
    /\ SVC("SignalEvent", t)
    /\ \E e \in Events : /\ signaled' = [signaled EXCEPT ![e] = TRUE]
                        /\ todo' = <<Call("wake", None, e)>>
    /\ Return(t, "Other")
    /\ UNCHANGED <<threadVars, waiting_threads, lock_count, holding_thread, priority,
                   available_count, ready_queue, halted, reschedule_pending>>

\* SVC::ClearEvent and Event::Clear
ClearEvent(t) ==
    /\ SVC("ClearEvent", t)
    /\ \E e \in Events : signaled' = [signaled EXCEPT ![e] = FALSE]
    /\ Return(t, "Other")
    /\ UNCHANGED <<threadVars, waiting_threads, lock_count, holding_thread, priority,
                   available_count, ready_queue, halted, reschedule_pending, todo>>

\* SVC::ReleaseSemaphore and Semaphore::Release
ReleaseSemaphore(t) ==
    /\ SVC("ReleaseSemaphore", t)
    /\ \E s \in Semaphores, n \in ReleaseCounts :
          \/ /\ MaxCount[s] - available_count[s] < n
             /\ Return(t, "Other")
             /\ UNCHANGED <<available_count, todo>>
          \/ /\ MaxCount[s] - available_count[s] >= n
             /\ available_count' = [available_count EXCEPT ![s] = @ + n]
             /\ todo' = <<Call("wake", None, s)>>
             /\ Return(t, "Other")
    /\ UNCHANGED <<threadVars, waiting_threads, lock_count, holding_thread, priority,
                   signaled, ready_queue, halted, reschedule_pending>>

\* SVC::SetThreadPriority, Thread::SetPriority and Thread::UpdatePriority
SetThreadPriority(t) ==
    /\ SVC("SetThreadPriority", t)
    /\ \E x \in Threads, prio \in NewPriorities :
          /\ Exists(x)
          /\ nominal_priority' = [nominal_priority EXCEPT ![x] = prio]
          /\ BoostPriority(x, BestPriority(prio, {priority[m] : m \in held_mutexes[x]}))
          /\ \E ms \in SetToSeqs(pending_mutexes[x]) : todo' = CallsOn("update", None, ms)
    /\ Return(t, "Other")
    /\ PrepareReschedule
    /\ UNCHANGED <<status, wait_objects, held_mutexes, pending_mutexes, wakeup_callback,
                   can_schedule, context, armed, objectVars>>

\* SVC::SleepThread; a zero delay yields only when a thread is ready.
SleepThread(t) ==
    /\ SVC("SleepThread", t)
    /\ \E timeout \in Timeouts :
          \/ /\ timeout = "zero" /\ \A p \in Prio : ready_queue[CoreOf[t]][p] = <<>>
             /\ UNCHANGED <<status, armed, halted, reschedule_pending>>
          \/ /\ timeout = "zero" => \E p \in Prio : ready_queue[CoreOf[t]][p] # <<>>
             /\ status' = [status EXCEPT ![t] = "WaitSleep"]
             /\ armed' = [armed EXCEPT ![t] = @ \/ timeout # "forever"]
             /\ PrepareReschedule
    /\ UNCHANGED <<nominal_priority, current_priority, wait_objects, held_mutexes,
                   pending_mutexes, wakeup_callback, can_schedule, context, objectVars,
                   ready_queue, r0, todo>>

\* SVC::CreateThread and KernelSystem::CreateThread
CreateThread(t) ==
    /\ SVC("CreateThread", t)
    /\ \E x \in Threads :
          /\ status[x] = "Dormant"
          /\ status' = [status EXCEPT ![x] = "Ready"]
          /\ ready_queue' = [ready_queue EXCEPT ![CoreOf[x]][CreatePrio[x]] = Append(@, x)]
    /\ Return(t, "Other")
    /\ PrepareReschedule
    /\ UNCHANGED <<nominal_priority, current_priority, wait_objects, held_mutexes,
                   pending_mutexes, wakeup_callback, can_schedule, context, armed,
                   objectVars, todo>>

\* SVC::ExitThread and ThreadManager::ExitCurrentThread
ExitThread(t) ==
    /\ SVC("ExitThread", t)
    /\ todo' = <<Call("stop", t, None)>>
    /\ PrepareReschedule
    /\ UNCHANGED <<threadVars, objectVars, ready_queue, r0>>

\* SVC::ControlProcess, PROCESSOP_SCHEDULE_THREADS_WITHOUT_TLS_MAGIC
ScheduleThreadsWithoutMagic(t) ==
    /\ SVC("ControlProcess", t)
    /\ \E on \in BOOLEAN :
          can_schedule' = [x \in Threads |->
              IF x = t \/ x \in Magic \/ status[x] \in {"Dormant", "Dead"}
              THEN can_schedule[x] ELSE on]
    /\ Return(t, "Other")
    /\ UNCHANGED <<status, nominal_priority, current_priority, wait_objects, held_mutexes,
                   pending_mutexes, wakeup_callback, context, armed, objectVars,
                   ready_queue, halted, reschedule_pending, todo>>

SystemCall ==
    \E t \in Threads :
        \/ WaitSynchronization1(t) \/ WaitSynchronizationN(t)
        \/ ReleaseMutex(t) \/ SignalEvent(t) \/ ClearEvent(t) \/ ReleaseSemaphore(t)
        \/ SetThreadPriority(t) \/ SleepThread(t)
        \/ CreateThread(t) \/ ExitThread(t)
        \/ ScheduleThreadsWithoutMagic(t)
-----------------------------------------------------------------------------
(* The scheduler.                                                          *)

FirstSchedulable(level) == SelectInSeq(level, LAMBDA t : can_schedule[t])

\* The level whose i-th thread is popped: the threads before it were popped too
\* and are pushed back, last one first.
WithoutPopped(level, i) ==
    SubSeq(level, i + 1, Len(level)) \o Reverse(SubSeq(level, 1, i - 1))

\* ThreadManager::PopNextReadyThread, as the record of the thread and of the
\* queue it leaves.  Threads that may not be scheduled are popped on the way
\* and pushed back, last one first.
PopNextReadyThread(c) ==
    LET cur   == current_thread[c]
        q     == ready_queue[c]
        keep  == cur # None /\ status[cur] = "Running"
        limit == IF keep THEN current_priority[cur] ELSE PrioLowest + 1
        first(p) == FirstSchedulable(q[p])
        levels == {p \in Prio : p < limit /\ first(p) # 0}
        level == IF levels = {} THEN limit ELSE Min(levels)
    IN  [thread |-> CASE levels # {} -> q[level][first(level)]
                      [] levels = {} /\ keep -> cur
                      [] OTHER -> None,
         queue  |-> [p \in Prio |->
                       CASE p < level -> Reverse(q[p])
                         [] p = level /\ levels # {} -> WithoutPopped(q[p], first(p))
                         [] OTHER -> q[p]]]

\* A mutant: the wakeup of the new thread stays scheduled.
LoadContext_KeepTimer(c, next, saved) ==
    /\ r0' = IF next = None THEN r0 ELSE [r0 EXCEPT ![c] = saved[next]]
    /\ UNCHANGED armed

\* The second half of SwitchContext: the wakeup of the new thread is cancelled
\* and its registers are loaded.
LoadContext(c, next, saved) ==
    IF next = None
    THEN UNCHANGED <<armed, r0>>
    ELSE /\ armed' = [armed EXCEPT ![next] = FALSE]
         /\ r0' = [r0 EXCEPT ![c] = saved[next]]

\* ThreadManager::Reschedule and ThreadManager::SwitchContext
Reschedule(c) ==
    LET prev == current_thread[c]
        pop  == PopNextReadyThread(c)
        next == pop.thread
        yields == prev # None /\ status[prev] = "Running"
        saved  == IF prev = None THEN context ELSE [context EXCEPT ![prev] = r0[c]]
        queue1 == IF yields THEN [pop.queue EXCEPT ![current_priority[prev]] = <<prev>> \o @]
                  ELSE pop.queue
        queue2 == IF next = None THEN queue1
                  ELSE [queue1 EXCEPT ![current_priority[next]] = RemoveFirst(@, next)]
    IN
    /\ context' = saved
    /\ current_thread' = [current_thread EXCEPT ![c] = next]
    /\ ready_queue' = [ready_queue EXCEPT ![c] = queue2]
    /\ status' = [t \in Threads |-> CASE t = next -> "Running"
                                      [] t = prev /\ t # next /\ yields -> "Ready"
                                      [] OTHER -> status[t]]
    /\ LoadContext(c, next, saved)
    /\ UNCHANGED <<nominal_priority, current_priority, wait_objects, held_mutexes,
                   pending_mutexes, wakeup_callback, can_schedule, objectVars,
                   signalled_wake>>

\* RunLoop when all cores are at the same time: Advance and Reschedule for
\* each, then run each.
FullIteration == Tasks("sched", AllCores) \o Tasks("run", AllCores) \o <<Task("end", 0)>>

\* RunLoop: the cores that are behind the global time catch up first.
BeginIteration ==
    /\ todo = <<>> /\ agenda = <<>>
    /\ \E late \in LateCores : agenda' = Tasks("sched", late) \o FullIteration
    /\ UNCHANGED <<threadVars, objectVars, coreVars, reschedule_pending, halted, todo,
                   signalled_wake>>

\* RunLoop when a core is far behind: the last of the late cores runs alone.
BeginLateIteration ==
    /\ todo = <<>> /\ agenda = <<>>
    /\ \E late \in LateCores : \E c \in Range(late) :
          agenda' = Tasks("sched", late) \o <<Task("run", c), Task("end", 0)>>
    /\ UNCHANGED <<threadVars, objectVars, coreVars, reschedule_pending, halted, todo,
                   signalled_wake>>

\* A mutant: the thread is not resumed.
ThreadWakeupCallback_NoResume(t) ==
    /\ InTask("sched") /\ Head(agenda).core = CoreOf[t] /\ armed[t]
    /\ armed' = [armed EXCEPT ![t] = FALSE]
    /\ todo' = CallsOn("remove", t, wait_objects[t])
    /\ UNCHANGED <<status, nominal_priority, current_priority, wait_objects, held_mutexes,
                   pending_mutexes, wakeup_callback, can_schedule, context, objectVars,
                   coreVars, reschedule_pending, halted, agenda, signalled_wake>>

\* Timer::Advance of a core: ThreadManager::ThreadWakeupCallback
ThreadWakeupCallback(t) ==
    /\ InTask("sched") /\ Head(agenda).core = CoreOf[t] /\ armed[t]
    /\ armed' = [armed EXCEPT ![t] = FALSE]
    /\ IF status[t] \in WaitSynch
       THEN /\ context' = IF wakeup_callback[t] THEN [context EXCEPT ![t] = "Timeout"]
                          ELSE context
            /\ todo' = CallsOn("remove", t, wait_objects[t]) \o <<Call("resume", t, None)>>
       ELSE todo' = <<Call("resume", t, None)>> /\ UNCHANGED context
    /\ UNCHANGED <<status, nominal_priority, current_priority, wait_objects, held_mutexes,
                   pending_mutexes, wakeup_callback, can_schedule, objectVars, coreVars,
                   reschedule_pending, halted, agenda, signalled_wake>>

RescheduleTask ==
    /\ InTask("sched") \/ InTask("switch")
    /\ Reschedule(Head(agenda).core)
    /\ agenda' = Tail(agenda)
    /\ UNCHANGED <<todo, reschedule_pending, halted>>

\* The slice of a core ends, or it idles because it has no thread.
EndSlice ==
    /\ InTask("run")
    /\ reschedule_pending' = (reschedule_pending \/ current_thread[Head(agenda).core] = None)
    /\ halted' = FALSE
    /\ agenda' = Tail(agenda)
    /\ UNCHANGED <<threadVars, objectVars, coreVars, todo, signalled_wake>>

\* System::Reschedule
EndIteration ==
    /\ InTask("end")
    /\ agenda' = IF reschedule_pending THEN Tasks("switch", AllCores) ELSE <<>>
    /\ reschedule_pending' = FALSE
    /\ UNCHANGED <<threadVars, objectVars, coreVars, halted, todo, signalled_wake>>

RunLoop ==
    BeginIteration \/ BeginLateIteration \/ RescheduleTask \/ EndSlice \/ EndIteration
-----------------------------------------------------------------------------
Init ==
    /\ status = [t \in Threads |-> IF t \in Started THEN "Ready" ELSE "Dormant"]
    /\ nominal_priority = CreatePrio
    /\ current_priority = CreatePrio
    /\ wait_objects = [t \in Threads |-> <<>>]
    /\ held_mutexes = [t \in Threads |-> {}]
    /\ pending_mutexes = [t \in Threads |-> {}]
    /\ wakeup_callback = [t \in Threads |-> FALSE]
    /\ can_schedule = [t \in Threads |-> TRUE]
    /\ context = [t \in Threads |-> "Other"]
    /\ armed = [t \in Threads |-> FALSE]
    /\ waiting_threads = [o \in Objects |-> <<>>]
    /\ lock_count = [m \in Mutexes |-> 0]
    /\ holding_thread = [m \in Mutexes |-> None]
    /\ priority = [m \in Mutexes |-> PrioLowest]
    /\ signaled = [e \in Events |-> FALSE]
    /\ available_count = InitialCount
    /\ ready_queue = [c \in Cores |-> [p \in Prio |->
           SetToSeq({t \in Started : CoreOf[t] = c /\ CreatePrio[t] = p})]]
    /\ current_thread = [c \in Cores |-> None]
    /\ r0 = [c \in Cores |-> "Other"]
    /\ reschedule_pending = FALSE
    /\ halted = FALSE
    /\ agenda = FullIteration
    /\ todo = <<>>
    /\ signalled_wake = [t \in Threads |-> FALSE]

Next ==
    \/ KernelCall
    \/ SystemCall
    \/ RunLoop
    \/ \E t \in Threads : ThreadWakeupCallback(t)

Spec == Init /\ [][Next]_vars

\* The emulator never stops; a slice is a bounded number of ticks; a late core
\* catches up; a timer event becomes due after a bounded number of ticks.
Fairness ==
    /\ WF_vars(Next)
    /\ SF_vars(EndSlice)
    /\ SF_vars(BeginIteration)
    /\ \A t \in Threads : SF_vars(ThreadWakeupCallback(t))

FairSpec == Spec /\ Fairness
-----------------------------------------------------------------------------
(* A mutex is locked exactly when it has a holder ("It should not be       *)
(* possible for the situation where the mutex has a holding thread with a  *)
(* zero lock count to occur", Mutex::Release) and the holder lists it in   *)
(* its held_mutexes; no other thread does, unless its mutexes are being    *)
(* released.                                                               *)
MutexOK ==
    /\ \A m \in Mutexes :
          /\ (lock_count[m] > 0) <=> (holding_thread[m] # None)
          /\ holding_thread[m] # None => m \in held_mutexes[holding_thread[m]]
    /\ \A t \in Threads : \A m \in held_mutexes[t] :
          holding_thread[m] = t \/ \E i \in DOMAIN todo : todo[i] = Call("release", t, None)
=============================================================================
