----------------------------- MODULE MCGraphics -----------------------------
(***************************************************************************)
(* The Vulkan renderer's threads on small instances: the scheduler, with a *)
(* timeline semaphore or with fences, and the presentation of frames, with *)
(* a thread of its own or without.  They share no state here, so a         *)
(* behaviour runs one part and leaves the other alone; TLC explores the    *)
(* sum of their states.                                                    *)
(***************************************************************************)
EXTENDS Integers

VARIABLES
    part,                                       \* what this behaviour runs
    chunk, work_queue, chunk_reserve, queue_mutex, execution_mutex, todo, asleep, worker,
    work, current_cmdbuf, current_tick, gpu_tick, seen, ticks, hint_iterator, gpu_queue,
    gpu_counter, wait_queue, fence, recorded, executed,                 \* VkScheduler
    free_queue, present_queue, frame_mutex, swapchain_mutex, frame_sleepers, size,
    window_size, emulation, frame, handed, awaited, present, copying, frame_commands,
    dispatched, frame_work, present_done, swapchain_size                \* PresentWindow

schedulerVars == <<chunk, work_queue, chunk_reserve, queue_mutex, execution_mutex, todo, asleep,
    worker, work, current_cmdbuf, current_tick, gpu_tick, seen, ticks, hint_iterator, gpu_queue,
    gpu_counter, wait_queue, fence, recorded, executed>>
windowVars == <<free_queue, present_queue, frame_mutex, swapchain_mutex, frame_sleepers, size,
    window_size, emulation, frame, handed, awaited, present, copying, frame_commands,
    dispatched, frame_work, present_done, swapchain_size>>

Timelines == INSTANCE VkScheduler WITH Timeline <- TRUE, ChunkSize <- 2, GrowStep <- 1,
    MaxTick <- 4, MaxCommands <- 2
Fences == INSTANCE VkScheduler WITH Timeline <- FALSE, ChunkSize <- 2, GrowStep <- 1,
    MaxTick <- 3, MaxCommands <- 3

Frames == {"f1", "f2"}
Threaded == INSTANCE PresentWindow WITH FirstFrames <- <<"f1", "f2">>, Sizes <- {1, 2},
    UsePresentThread <- TRUE, queue_mutex <- frame_mutex, asleep <- frame_sleepers,
    recorded <- frame_commands, gpu_queue <- frame_work
Inline == INSTANCE PresentWindow WITH FirstFrames <- <<"f1", "f2">>, Sizes <- {1, 2},
    UsePresentThread <- FALSE, queue_mutex <- frame_mutex, asleep <- frame_sleepers,
    recorded <- frame_commands, gpu_queue <- frame_work

ASSUME InstancesOK == Threaded!FramesAssumption /\ Inline!FramesAssumption

Init ==
    /\ \/ part = "fences" /\ Fences!Init
       \/ part \in {"timeline", "threaded", "inline"} /\ Timelines!Init
    /\ IF part = "inline" THEN Inline!Init ELSE Threaded!Init
    /\ part \in {"timeline", "fences"} => window_size = 1

InScheduler(name, step) == part = name /\ step /\ UNCHANGED <<part, windowVars>>
InWindow(name, step) == part = name /\ step /\ UNCHANGED <<part, schedulerVars>>

Next ==
    \/ InScheduler("timeline", Timelines!Next)
    \/ InScheduler("fences", Fences!Next)
    \/ InWindow("threaded", Threaded!Next)
    \/ InWindow("inline", Inline!Next)

\* The fairness of VkScheduler and PresentWindow
Thread(step, otherwise, also, instead) ==
    \/ InScheduler("timeline", step)
    \/ InScheduler("fences", otherwise)
    \/ InWindow("threaded", also)
    \/ InWindow("inline", instead)
vars == <<part, schedulerVars, windowVars>>
Spec ==
    /\ Init /\ [][Next]_vars
    /\ WF_vars(Thread(Timelines!Emulation, Fences!Emulation, Threaded!Emulation, Inline!Emulation))
    /\ WF_vars(Thread(Timelines!Worker, Fences!Worker, Threaded!Worker, Inline!Worker))
    /\ WF_vars(Thread(Timelines!GpuComplete, Fences!GpuComplete, Threaded!GpuComplete,
                      Inline!GpuComplete))
    /\ WF_vars(Thread(Timelines!WaitThread, Fences!WaitThread, Threaded!PresentThread,
                      Inline!PresentThread))
-----------------------------------------------------------------------------
Scheduling == part \in {"timeline", "fences"}

\* The worker records only into a buffer that no submission in flight uses.
BufferFree == Timelines!BufferFree

\* A wait returns only when what it waits for has happened: WaitWorker when the worker
\* has run everything recorded, Finish and Wait when the GPU has passed the tick,
\* WaitPresent when the frames that were queued have been presented.
WaitsKept == Timelines!WorkerFinished /\ Timelines!TickPassed /\ Threaded!QueuedPresented

\* Every call of the scheduler returns.
CallsReturn == Scheduling => Timelines!CallsReturn

\* The frame the emulation thread works on is nowhere else.
FrameUntouched == Threaded!FrameUntouched

\* Every frame handed over comes back.
FramesReturn == ~Scheduling => Threaded!FramesReturn
=============================================================================
