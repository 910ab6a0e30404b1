---------------------------- MODULE ThreadWorker ----------------------------
(***************************************************************************)
(* The pool of worker threads (common/thread_worker.h).  Callers queue     *)
(* tasks and may wait until all of them are done; the owner destroys the   *)
(* pool, which stops and joins the workers one after the other, whether or *)
(* not tasks are left.  What is done under queue_mutex is one step, except *)
(* that a waiting caller tests its condition, which workers change without *)
(* the lock, and goes to sleep in two; the counters change in steps of     *)
(* their own.                                                              *)
(***************************************************************************)
EXTENDS Integers, Sequences, FiniteSets

CONSTANTS
    NumWorkers,
    Callers,
    Owner,      \* the caller that destroys the pool
    MaxTasks    \* how many tasks are queued in all

Workers == 1 .. NumWorkers
NoOne == "none"

VARIABLES
    requests,       \* the tasks queued, by number
    queue_mutex,    \* the caller that tests or goes to sleep under it
    work_scheduled, work_done, workers_stopped,
    stop_requested, \* the workers asked to stop
    worker, task,   \* where each worker stands, and what it has taken
    caller, asked,  \* where each caller stands, and the tasks it has queued
    done            \* the tasks that have been run

counters == <<work_scheduled, work_done, workers_stopped>>
pool == <<requests, queue_mutex>>
threads == <<stop_requested, worker, task>>
calls == <<caller, asked>>
vars == <<pool, counters, threads, calls, done>>

Init ==
    /\ requests = << >> /\ queue_mutex = NoOne
    /\ work_scheduled = 0 /\ work_done = 0 /\ workers_stopped = 0
    /\ stop_requested = {} /\ done = {}
    /\ worker = [w \in Workers |-> "loop"] /\ task = [w \in Workers |-> 0]
    /\ caller = [c \in Callers |-> "idle"] /\ asked = [c \in Callers |-> {}]

\* wait_condition.notify_all and condition.notify_one.
NotifyWaiters ==
    caller' = [c \in Callers |-> IF caller[c] = "asleep" THEN "wait" ELSE caller[c]]
NotifyWorker ==
    LET asleep == {w \in Workers : worker[w] = "asleep"} IN
    IF asleep = {} THEN UNCHANGED worker
    ELSE \E w \in asleep : worker' = [worker EXCEPT ![w] = "woken"]
-----------------------------------------------------------------------------
(* The workers *)

\* A worker that is to stop leaves its loop, counts itself and tells the waiters.
Loop(w) ==
    /\ worker[w] = "loop"
    /\ worker' = [worker EXCEPT ![w] = IF w \in stop_requested THEN "stopping" ELSE "lock"]
    /\ UNCHANGED <<pool, counters, stop_requested, task, calls, done>>

\* The wait on the condition, which a request to stop also ends: sleep, stop or
\* take the first task.
AwaitTask(w) ==
    \/ /\ w \in stop_requested
       /\ worker' = [worker EXCEPT ![w] = "stopping"] /\ UNCHANGED <<requests, task>>
    \/ /\ w \notin stop_requested /\ requests = << >>
       /\ worker' = [worker EXCEPT ![w] = "asleep"] /\ UNCHANGED <<requests, task>>
    \/ /\ w \notin stop_requested /\ requests # << >>
       /\ worker' = [worker EXCEPT ![w] = "run"]
       /\ task' = [task EXCEPT ![w] = Head(requests)] /\ requests' = Tail(requests)

\* A mutant: the worker that finds the queue empty tells no one.
LockQueue_Silent(w) ==
    /\ worker[w] = "lock" /\ queue_mutex = NoOne
    /\ AwaitTask(w) /\ UNCHANGED caller
    /\ UNCHANGED <<queue_mutex, counters, stop_requested, asked, done>>

LockQueue(w) ==
    /\ worker[w] = "lock" /\ queue_mutex = NoOne
    /\ AwaitTask(w)
    /\ IF requests = << >> THEN NotifyWaiters ELSE UNCHANGED caller
    /\ UNCHANGED <<queue_mutex, counters, stop_requested, asked, done>>

Wake(w) ==
    /\ worker[w] = "woken" /\ queue_mutex = NoOne
    /\ AwaitTask(w)
    /\ UNCHANGED <<queue_mutex, counters, stop_requested, calls, done>>

Run(w) ==
    /\ worker[w] = "run" /\ worker' = [worker EXCEPT ![w] = "count"]
    /\ done' = done \union {task[w]}
    /\ UNCHANGED <<pool, counters, stop_requested, task, calls>>

Count(w) ==
    /\ worker[w] = "count" /\ worker' = [worker EXCEPT ![w] = "loop"]
    /\ work_done' = work_done + 1
    /\ UNCHANGED <<pool, work_scheduled, workers_stopped, stop_requested, task, calls, done>>

\* The worker is counted and the waiters are told, without the lock; then it ends.
Stop(w) ==
    /\ worker[w] = "stopping" /\ worker' = [worker EXCEPT ![w] = "ended"]
    /\ workers_stopped' = workers_stopped + 1 /\ NotifyWaiters
    /\ UNCHANGED <<pool, work_scheduled, work_done, stop_requested, task, asked, done>>
-----------------------------------------------------------------------------
(* The callers *)

Enqueue(c) ==
    LET t == work_scheduled + 1 IN
    /\ caller[c] = "idle" /\ t <= MaxTasks /\ queue_mutex = NoOne
    /\ requests' = Append(requests, t) /\ work_scheduled' = t
    /\ caller' = [caller EXCEPT ![c] = "notify"]
    /\ asked' = [asked EXCEPT ![c] = @ \union {t}]
    /\ UNCHANGED <<queue_mutex, work_done, workers_stopped, threads, done>>

Notify(c) ==
    /\ caller[c] = "notify" /\ NotifyWorker
    /\ caller' = [caller EXCEPT ![c] = "idle"]
    /\ UNCHANGED <<pool, counters, stop_requested, task, asked, done>>

WaitForRequests(c) ==
    /\ caller[c] = "idle" /\ caller' = [caller EXCEPT ![c] = "wait"]
    /\ UNCHANGED <<pool, counters, threads, asked, done>>

\* The condition of the wait, tested under the lock.
Test(c) ==
    /\ caller[c] = "wait" /\ queue_mutex = NoOne
    /\ IF workers_stopped >= NumWorkers \/ work_done >= work_scheduled
       THEN caller' = [caller EXCEPT ![c] = "idle"] /\ UNCHANGED queue_mutex
       ELSE caller' = [caller EXCEPT ![c] = "sleep"] /\ queue_mutex' = c
    /\ UNCHANGED <<requests, counters, threads, asked, done>>

Sleep(c) ==
    /\ caller[c] = "sleep" /\ caller' = [caller EXCEPT ![c] = "asleep"]
    /\ queue_mutex' = NoOne
    /\ UNCHANGED <<requests, counters, threads, asked, done>>

\* Nobody uses a pool that is being destroyed.
Destroy ==
    /\ \A c \in Callers : caller[c] = "idle"
    /\ caller' = [c \in Callers |-> IF c = Owner THEN "destroy" ELSE "gone"]
    /\ UNCHANGED <<pool, counters, threads, asked, done>>

\* A thread object stops and joins its thread; they are destroyed in order.
RequestStop(w) ==
    /\ caller[Owner] = "destroy" /\ w \notin stop_requested
    /\ \A v \in 1 .. w - 1 : worker[v] = "ended"
    /\ stop_requested' = stop_requested \union {w}
    /\ worker' = [worker EXCEPT ![w] = IF @ = "asleep" THEN "woken" ELSE @]
    /\ UNCHANGED <<pool, counters, task, calls, done>>

Destroyed ==
    /\ caller[Owner] = "destroy" /\ \A w \in Workers : worker[w] = "ended"
    /\ caller' = [caller EXCEPT ![Owner] = "gone"]
    /\ UNCHANGED <<pool, counters, threads, asked, done>>
-----------------------------------------------------------------------------
Work(w) == Loop(w) \/ LockQueue(w) \/ Wake(w) \/ Run(w) \/ Count(w) \/ Stop(w)
Return(c) == Notify(c) \/ Test(c) \/ Sleep(c)
Finish == Destroyed \/ \E w \in Workers : RequestStop(w)

Next ==
    \/ \E w \in Workers : Work(w)
    \/ \E c \in Callers : Enqueue(c) \/ WaitForRequests(c) \/ Return(c)
    \/ Destroy \/ Finish

\* Threads go on, and the tasks end; nobody has to queue, to wait or to destroy.
Spec ==
    /\ Init /\ [][Next]_vars
    /\ \A w \in Workers : WF_vars(Work(w))
    /\ \A c \in Callers : WF_vars(Return(c))
    /\ WF_vars(Finish)

\* WaitForRequests returns only when every task its caller had queued has been run.
WaitedForAll ==
    [][\A c \in Callers : caller[c] = "wait" /\ caller'[c] = "idle" => asked[c] \subseteq done]_vars

\* WaitForRequests returns: the wakeup is not lost although the counters change
\* without the lock.
WaitReturns == \A c \in Callers : caller[c] = "wait" ~> caller[c] = "idle"

\* A queued task is run, unless the pool is destroyed first.
TaskRuns == \A c \in Callers, t \in 1 .. MaxTasks :
    t \in asked[c] ~> t \in done \/ caller[Owner] \in {"destroy", "gone"}

\* The destructor returns, wherever the workers were when it was called.
DestroyReturns == caller[Owner] = "destroy" ~> caller[Owner] = "gone"
=============================================================================
