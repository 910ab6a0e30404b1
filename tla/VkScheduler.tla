---------------------------- MODULE VkScheduler ----------------------------
(***************************************************************************)
(* The Vulkan renderer's scheduler, its master semaphore and its command   *)
(* pool (renderer_vulkan/vk_scheduler, vk_master_semaphore and             *)
(* vk_resource_pool).  The emulation thread records commands in a chunk,   *)
(* hands chunks to a worker that runs them into a command buffer, and has  *)
(* the buffer submitted to the GPU under a tick; it can wait for the       *)
(* worker or for a tick.  The worker takes a fresh buffer from the pool    *)
(* after a submission, by what it knows of the GPU's tick.                 *)
(***************************************************************************)
EXTENDS Integers, SequencesExt

CONSTANTS
    Timeline,       \* TRUE: a timeline semaphore; FALSE: fences and their thread
    ChunkSize,      \* how many commands a chunk holds
    GrowStep,       \* by how many buffers the pool grows
    MaxTick,        \* bounds on the ticks and
    MaxCommands     \* on the commands recorded

NoOne == "none"
NoBuffer == 0
Draw == 0           \* a command; a submission is its tick

VARIABLES
    chunk,              \* the chunk being recorded
    work_queue, chunk_reserve,
    queue_mutex, execution_mutex,   \* the thread that holds each
    todo,               \* what the emulation thread has left to do in its call
    asleep,             \* the threads that sleep on event_cv
    worker, work,       \* where the worker stands, and its chunk
    current_cmdbuf,
    current_tick, gpu_tick,
    seen,               \* the ticks a thread has loaded in Refresh
    ticks, hint_iterator,           \* the pool
    gpu_queue, gpu_counter,         \* submissions in flight; the last one completed
    wait_queue, fence,  \* the fences in flight; the one waited for
    recorded, executed  \* how many commands have been

scheduler == <<chunk, work_queue, chunk_reserve, queue_mutex, execution_mutex, asleep>>
semaphore == <<current_tick, gpu_tick, seen, wait_queue, fence>>
pool == <<ticks, hint_iterator, current_cmdbuf>>
gpu == <<gpu_queue, gpu_counter>>
progress == <<recorded, executed>>
vars == <<scheduler, todo, worker, work, semaphore, pool, gpu, progress>>

\* A chunk keeps its count of commands when it has been executed and is used again.
NewChunk == [commands |-> << >>, counted |-> FALSE, submit |-> FALSE]
UsedChunk == [NewChunk EXCEPT !.counted = TRUE]

NotRefreshing == << >>

Init ==
    /\ chunk = NewChunk /\ work_queue = << >> /\ chunk_reserve = 0
    /\ queue_mutex = NoOne /\ execution_mutex = NoOne /\ asleep = {}
    /\ todo = << >> /\ worker = "wait" /\ work = NewChunk
    /\ current_tick = 1 /\ gpu_tick = 0
    /\ seen = [t \in {"emulation", "worker"} |-> NotRefreshing]
    /\ wait_queue = << >> /\ fence = 0
    /\ ticks = [i \in 1 .. GrowStep |-> IF i = 1 THEN 1 ELSE 0]
    /\ hint_iterator = 1 % GrowStep /\ current_cmdbuf = 1
    /\ gpu_queue = << >> /\ gpu_counter = 0
    /\ recorded = 0 /\ executed = 0

IsFree(tick) == gpu_tick >= tick
-----------------------------------------------------------------------------
(* What the emulation thread calls, as steps to do *)

Op(name, arg) == [name |-> name, arg |-> arg]

\* SubmitExecution: take a tick, record the submission, mark the chunk, dispatch it.
Submission(tick) == <<Op("record", tick), Op("submit", 0)>>

Record ==
    /\ todo = << >> /\ recorded < MaxCommands
    /\ todo' = <<Op("record", Draw)>>
    /\ UNCHANGED <<scheduler, worker, work, semaphore, pool, gpu, progress>>

Flush ==
    /\ todo = << >> /\ current_tick < MaxTick
    /\ current_tick' = current_tick + 1
    /\ todo' = Submission(current_tick)
    /\ UNCHANGED <<scheduler, worker, work, gpu_tick, seen, wait_queue, fence, pool, gpu, progress>>

Finish ==
    /\ todo = << >> /\ current_tick < MaxTick
    /\ current_tick' = current_tick + 1
    /\ todo' = Submission(current_tick) \o <<Op("await", current_tick)>>
    /\ UNCHANGED <<scheduler, worker, work, gpu_tick, seen, wait_queue, fence, pool, gpu, progress>>

\* A mutant: Wait does not flush.
Wait_Unsignalled(tick) ==
    /\ todo = << >> /\ current_tick < MaxTick
    /\ UNCHANGED current_tick
    /\ todo' = <<Op("await", tick)>>
    /\ UNCHANGED <<scheduler, worker, work, gpu_tick, seen, wait_queue, fence, pool, gpu, progress>>

\* Wait for a tick; the current one has to be submitted first.
Wait(tick) ==
    /\ todo = << >> /\ current_tick < MaxTick
    /\ IF tick >= current_tick
       THEN /\ current_tick' = current_tick + 1
            /\ todo' = Submission(current_tick) \o <<Op("await", tick)>>
       ELSE UNCHANGED current_tick /\ todo' = <<Op("await", tick)>>
    /\ UNCHANGED <<scheduler, worker, work, gpu_tick, seen, wait_queue, fence, pool, gpu, progress>>

WaitWorker ==
    /\ todo = << >>
    /\ todo' = <<Op("dispatch", 0), Op("drain", 0), Op("finished", 0)>>
    /\ UNCHANGED <<scheduler, worker, work, semaphore, pool, gpu, progress>>
-----------------------------------------------------------------------------
(* The steps of these calls *)

Doing(name) == todo # << >> /\ Head(todo).name = name

\* A command that does not fit counts all the same; the chunk is dispatched and the
\* command goes to the next.
RecordCommand ==
    /\ Doing("record")
    /\ IF Len(chunk.commands) < ChunkSize
       THEN /\ chunk' = [chunk EXCEPT !.counted = TRUE,
                                      !.commands = Append(@, Head(todo).arg)]
            /\ recorded' = recorded + 1 /\ todo' = Tail(todo)
       ELSE /\ chunk' = [chunk EXCEPT !.counted = TRUE]
            /\ todo' = <<Op("dispatch", 0)>> \o todo /\ UNCHANGED recorded
    /\ UNCHANGED <<work_queue, chunk_reserve, queue_mutex, execution_mutex, asleep, worker, work,
                   semaphore, pool, gpu, executed>>

\* DispatchWork does nothing with an empty chunk.
DispatchNothing ==
    /\ Doing("dispatch") /\ ~chunk.counted
    /\ todo' = Tail(todo)
    /\ UNCHANGED <<scheduler, worker, work, semaphore, pool, gpu, progress>>

Dispatch ==
    /\ Doing("dispatch") \/ Doing("submit")
    /\ chunk.counted /\ queue_mutex = NoOne
    /\ work_queue' = Append(work_queue, [chunk EXCEPT !.submit = Doing("submit")])
    /\ todo' = <<Op("notify", 0)>> \o Tail(todo)
    /\ UNCHANGED <<chunk, chunk_reserve, queue_mutex, execution_mutex, asleep, worker, work,
                   semaphore, pool, gpu, progress>>

\* notify_all and AcquireNewChunk.
AcquireNewChunk ==
    /\ Doing("notify") /\ todo' = Tail(todo)
    /\ asleep' = {}
    /\ chunk' = IF chunk_reserve = 0 THEN NewChunk ELSE UsedChunk
    /\ chunk_reserve' = IF chunk_reserve = 0 THEN 0 ELSE chunk_reserve - 1
    /\ UNCHANGED <<work_queue, queue_mutex, execution_mutex, worker, work, semaphore, pool, gpu,
                   progress>>

\* Both conditions on the queue are tested under its lock, before and after sleep.
Drain ==
    /\ Doing("drain") /\ "emulation" \notin asleep /\ queue_mutex = NoOne
    /\ IF work_queue = << >> THEN todo' = Tail(todo) /\ UNCHANGED asleep
       ELSE asleep' = asleep \union {"emulation"} /\ UNCHANGED todo
    /\ UNCHANGED <<chunk, work_queue, chunk_reserve, queue_mutex, execution_mutex, worker, work,
                   semaphore, pool, gpu, progress>>

\* The execution lock is taken and given back.
Finished ==
    /\ Doing("finished") /\ execution_mutex = NoOne
    /\ todo' = Tail(todo)
    /\ UNCHANGED <<scheduler, worker, work, semaphore, pool, gpu, progress>>

\* MasterSemaphore::Wait ends when the tick is known to be over, or, with a timeline,
\* when the GPU has signalled it, after which what is known is refreshed.
Await ==
    /\ Doing("await")
    /\ \/ IsFree(Head(todo).arg) /\ todo' = Tail(todo)
       \/ /\ Timeline /\ ~IsFree(Head(todo).arg) /\ gpu_counter >= Head(todo).arg
          /\ todo' = <<Op("refresh", 0)>> \o Tail(todo)
    /\ UNCHANGED <<scheduler, worker, work, semaphore, pool, gpu, progress>>
-----------------------------------------------------------------------------
(* MasterSemaphoreTimeline::Refresh, which both threads may be in *)

RefreshLoad(t) ==
    /\ seen[t] = NotRefreshing
    /\ seen' = [seen EXCEPT ![t] = <<gpu_tick, gpu_counter>>]
    /\ UNCHANGED <<current_tick, gpu_tick, wait_queue, fence>>

\* The exchange fails when another thread has changed the tick, and the loop begins
\* again; over is what happens when Refresh returns.
RefreshStore(t, over) ==
    /\ seen[t] # NotRefreshing
    /\ \/ seen[t][2] < seen[t][1] /\ over /\ UNCHANGED gpu_tick
       \/ seen[t][2] >= seen[t][1] /\ gpu_tick = seen[t][1] /\ over /\ gpu_tick' = seen[t][2]
       \/ seen[t][2] >= seen[t][1] /\ gpu_tick # seen[t][1]
          /\ UNCHANGED <<gpu_tick, todo, worker>>
    /\ seen' = [seen EXCEPT ![t] = NotRefreshing]
    /\ UNCHANGED <<current_tick, wait_queue, fence>>

RefreshByEmulation ==
    /\ Doing("refresh")
    /\ \/ RefreshLoad("emulation") /\ UNCHANGED todo
       \/ RefreshStore("emulation", todo' = Tail(todo))
    /\ UNCHANGED <<scheduler, worker, work, pool, gpu, progress>>

\* CommandPool::Commit begins with a refresh, which is nothing with fences.
RefreshByWorker ==
    /\ worker = "allocate"
    /\ IF Timeline
       THEN \/ RefreshLoad("worker") /\ UNCHANGED worker
            \/ RefreshStore("worker", worker' = "commit")
       ELSE worker' = "commit" /\ UNCHANGED semaphore
    /\ UNCHANGED <<scheduler, todo, work, pool, gpu, progress>>
-----------------------------------------------------------------------------
(* The worker *)

\* A mutant: the queue's lock is let go before the execution lock is taken.
TryPopQueue_Release ==
    /\ worker = "wait" /\ "worker" \notin asleep /\ queue_mutex = NoOne
    /\ IF work_queue = << >>
       THEN asleep' = asleep \union {"worker"} /\ UNCHANGED <<work_queue, work, worker>>
       ELSE /\ work' = Head(work_queue) /\ work_queue' = Tail(work_queue)
            /\ asleep' = {} /\ worker' = "exchange"
    /\ UNCHANGED <<chunk, chunk_reserve, queue_mutex, execution_mutex, todo, semaphore, pool, gpu,
                   progress>>

\* Under the lock of the queue the worker takes a chunk, and everyone is notified, or
\* goes to sleep.
TryPopQueue ==
    /\ worker = "wait" /\ "worker" \notin asleep /\ queue_mutex = NoOne
    /\ IF work_queue = << >>
       THEN asleep' = asleep \union {"worker"} /\ UNCHANGED <<work_queue, work, worker, queue_mutex>>
       ELSE /\ work' = Head(work_queue) /\ work_queue' = Tail(work_queue)
            /\ asleep' = {} /\ queue_mutex' = "worker" /\ worker' = "exchange"
    /\ UNCHANGED <<chunk, chunk_reserve, execution_mutex, todo, semaphore, pool, gpu, progress>>

\* The execution lock is taken before the queue's is released.
ExchangeLocks ==
    /\ worker = "exchange" /\ execution_mutex = NoOne
    /\ execution_mutex' = "worker" /\ queue_mutex' = NoOne /\ worker' = "execute"
    /\ UNCHANGED <<chunk, work_queue, chunk_reserve, asleep, todo, work, semaphore, pool, gpu,
                   progress>>

ExecuteCommand ==
    /\ worker = "execute" /\ work.commands # << >> /\ Head(work.commands) = Draw
    /\ work' = [work EXCEPT !.commands = Tail(@)] /\ executed' = executed + 1
    /\ UNCHANGED <<scheduler, todo, worker, semaphore, pool, gpu, recorded>>

\* The submission takes the queue's lock inside the execution lock.
SubmitWork ==
    LET tick == Head(work.commands) IN
    /\ worker = "execute" /\ work.commands # << >> /\ tick # Draw /\ queue_mutex = NoOne
    /\ gpu_queue' = Append(gpu_queue, [tick |-> tick, buffer |-> current_cmdbuf])
    /\ wait_queue' = IF Timeline THEN wait_queue ELSE Append(wait_queue, tick)
    /\ current_cmdbuf' = NoBuffer
    /\ work' = [work EXCEPT !.commands = Tail(@)] /\ executed' = executed + 1
    /\ UNCHANGED <<scheduler, todo, worker, current_tick, gpu_tick, seen, fence, ticks,
                   hint_iterator, gpu_counter, recorded>>

\* The lock is kept while a buffer is allocated.
Executed ==
    /\ worker = "execute" /\ work.commands = << >>
    /\ IF work.submit THEN worker' = "allocate" /\ UNCHANGED execution_mutex
                      ELSE worker' = "recycle" /\ execution_mutex' = NoOne
    /\ UNCHANGED <<chunk, work_queue, chunk_reserve, queue_mutex, asleep, todo, work, semaphore,
                   pool, gpu, progress>>

\* The indices of the pool in the order in which they are searched, and what is free.
SearchOrder == [i \in 1 .. Len(ticks) |-> ((hint_iterator + i - 1) % Len(ticks)) + 1]
Free(i) == IsFree(ticks[i])

\* A mutant: a buffer is marked with the tick the GPU has reached.
CommitResource_Known ==
    LET free == SelectSeq(SearchOrder, Free)
        found == IF free = << >> THEN Len(ticks) + 1 ELSE Head(free)
        grown == ticks \o [i \in 1 .. IF free = << >> THEN GrowStep ELSE 0 |-> 0] IN
    /\ worker = "commit" /\ worker' = "recycle" /\ execution_mutex' = NoOne
    /\ ticks' = [grown EXCEPT ![found] = gpu_tick + 1]
    /\ hint_iterator' = found % Len(grown) /\ current_cmdbuf' = found
    /\ UNCHANGED <<chunk, work_queue, chunk_reserve, queue_mutex, asleep, todo, work, semaphore,
                   gpu, progress>>

\* The first free buffer from the hint on, or else the first of a grown pool; it is
\* marked with the tick the emulation thread has got to.
CommitResource ==
    LET free == SelectSeq(SearchOrder, Free)
        found == IF free = << >> THEN Len(ticks) + 1 ELSE Head(free)
        grown == ticks \o [i \in 1 .. IF free = << >> THEN GrowStep ELSE 0 |-> 0] IN
    /\ worker = "commit" /\ worker' = "recycle" /\ execution_mutex' = NoOne
    /\ ticks' = [grown EXCEPT ![found] = current_tick]
    /\ hint_iterator' = found % Len(grown) /\ current_cmdbuf' = found
    /\ UNCHANGED <<chunk, work_queue, chunk_reserve, queue_mutex, asleep, todo, work, semaphore,
                   gpu, progress>>

Recycle ==
    /\ worker = "recycle" /\ worker' = "wait"
    /\ work' = NewChunk /\ chunk_reserve' = chunk_reserve + 1
    /\ UNCHANGED <<chunk, work_queue, queue_mutex, execution_mutex, asleep, todo, semaphore, pool,
                   gpu, progress>>
-----------------------------------------------------------------------------
(* The GPU, which completes submissions in order, and the thread of the fences *)

GpuComplete ==
    /\ gpu_queue # << >>
    /\ gpu_counter' = Head(gpu_queue).tick /\ gpu_queue' = Tail(gpu_queue)
    /\ UNCHANGED <<scheduler, todo, worker, work, semaphore, pool, progress>>

WaitThreadTake ==
    /\ fence = 0 /\ wait_queue # << >>
    /\ fence' = Head(wait_queue) /\ wait_queue' = Tail(wait_queue)
    /\ UNCHANGED <<scheduler, todo, worker, work, current_tick, gpu_tick, seen, pool, gpu, progress>>

WaitThreadSignal ==
    /\ fence # 0 /\ gpu_counter >= fence
    /\ gpu_tick' = fence /\ fence' = 0
    /\ UNCHANGED <<scheduler, todo, worker, work, current_tick, seen, wait_queue, pool, gpu, progress>>
-----------------------------------------------------------------------------
Emulation ==
    \/ RecordCommand \/ DispatchNothing \/ Dispatch \/ AcquireNewChunk
    \/ Drain \/ Finished \/ Await \/ RefreshByEmulation
Worker ==
    \/ TryPopQueue \/ ExchangeLocks \/ ExecuteCommand \/ SubmitWork \/ Executed
    \/ RefreshByWorker \/ CommitResource \/ Recycle
WaitThread == WaitThreadTake \/ WaitThreadSignal

Next ==
    \/ Record \/ Flush \/ Finish \/ WaitWorker \/ \E t \in 1 .. current_tick : Wait(t)
    \/ Emulation \/ Worker \/ WaitThread \/ GpuComplete

\* Calls, threads and the GPU go on; nobody has to make a call.
Spec ==
    /\ Init /\ [][Next]_vars
    /\ WF_vars(Emulation) /\ WF_vars(Worker) /\ WF_vars(WaitThread) /\ WF_vars(GpuComplete)

\* When WaitWorker returns, the worker has run everything recorded and holds nothing:
\* its resources may be touched.
WorkerFinished ==
    [][Doing("finished") /\ todo' = Tail(todo) =>
           executed = recorded /\ worker \in {"wait", "recycle"}]_vars

\* Finish and Wait return only when the GPU has passed the tick, and what is known of
\* its tick is never ahead of it and never falls back.
TickPassed ==
    [][/\ Doing("await") /\ todo' # todo => gpu_counter >= Head(todo).arg
       /\ gpu_tick <= gpu_tick' /\ gpu_tick' <= gpu_counter']_vars

\* The worker records only into a buffer that no submission in flight uses.
BufferFree ==
    /\ \A i \in DOMAIN gpu_queue : gpu_queue[i].buffer # current_cmdbuf
    /\ worker = "execute" /\ work.commands # << >> => current_cmdbuf # NoBuffer

\* Every call returns: the locks and the two conditions on one condition variable
\* leave nobody waiting.
CallsReturn == todo # << >> ~> todo = << >>
=============================================================================
