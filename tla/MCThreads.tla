----------------------------- MODULE MCThreads ------------------------------
(***************************************************************************)
(* What the threads of the emulator share, on small instances: the ring    *)
(* buffer and the thread queue (whose constants are those of the           *)
(* configuration), the pool of workers, and the custom textures that the   *)
(* pool decodes.  They share no state here, so a behaviour runs one part and    *)
(* leaves the others alone; TLC explores the sum of their states.          *)
(***************************************************************************)
EXTENDS RingBuffer, SpscQueue

VARIABLES
    part,                                           \* what this behaviour runs
    requests, queue_mutex, work_scheduled, work_done, workers_stopped, stop_requested,
    worker, task, caller, asked, done,              \* ThreadWorker
    async_custom_loading, texture, state, jobs, decoder, async_uploads, frame, stored,
    custom, shown, stray                            \* CustomTextures

ringVars == <<m_read_index, m_write_index, m_data, push_count, push_copied, pop_count,
              pop_copied, pushed, popped>>
poolVars == <<requests, queue_mutex, work_scheduled, work_done, workers_stopped,
              stop_requested, worker, task, caller, asked, done>>
textureVars == <<async_custom_loading, texture, state, jobs, decoder, async_uploads, frame,
                 stored, custom, shown, stray>>

Callers == {"renderer", "loader"}
Pool == INSTANCE ThreadWorker WITH NumWorkers <- 2, Owner <- "renderer", MaxTasks <- 2

\* Two materials with maps of their own, decoded in the background or at once
MapsOf == [m \in {"brick", "grass"} |->
    IF m = "brick" THEN <<"brick_color", "brick_normal">> ELSE <<"grass_color">>]
Later == INSTANCE CustomTextures WITH Materials <- {"brick", "grass"},
    Textures <- {"brick_color", "brick_normal", "grass_color"}, Maps <- MapsOf,
    Unreadable <- {}, Mismatched <- {"grass"}, Slots <- {1}, NumWorkers <- 2,
    AsyncLoading <- {TRUE}, Preload <- FALSE, MaxUploadsPerTick <- 1, MaxQueued <- 2,
    worker <- decoder
AtOnce == INSTANCE CustomTextures WITH Materials <- {"brick", "grass"},
    Textures <- {"brick_color", "brick_normal", "grass_color"}, Maps <- MapsOf,
    Unreadable <- {}, Mismatched <- {}, Slots <- {1}, NumWorkers <- 1,
    AsyncLoading <- {TRUE, FALSE}, Preload <- TRUE, MaxUploadsPerTick <- 1, MaxQueued <- 1,
    worker <- decoder

ASSUME InstancesOK == Later!MapsAssumption /\ AtOnce!MapsAssumption

MCInit ==
    /\ Init /\ QueueInit /\ Pool!Init
    /\ \/ part \in {"ring", "queue", "pool", "later"} /\ Later!Init
       \/ part = "at once" /\ AtOnce!Init

InRing(step) == part = "ring" /\ step /\ UNCHANGED <<part, queueVars, poolVars, textureVars>>
InQueue(step) == part = "queue" /\ step /\ UNCHANGED <<part, ringVars, poolVars, textureVars>>
InPool(step) == part = "pool" /\ step /\ UNCHANGED <<part, ringVars, queueVars, textureVars>>
InTextures(name, step) ==
    part = name /\ step /\ UNCHANGED <<part, ringVars, queueVars, poolVars>>

MCNext ==
    \/ InRing(Next)
    \/ InQueue(QueueNext)
    \/ InPool(Pool!Next)
    \/ InTextures("later", Later!Next)
    \/ InTextures("at once", AtOnce!Next)

\* The fairness of SpscQueue, ThreadWorker and CustomTextures
mcVars == <<part, ringVars, queueVars, poolVars, textureVars>>
MCSpec ==
    /\ MCInit /\ [][MCNext]_mcVars
    /\ WF_mcVars(InQueue(Read))
    /\ \A w \in Writers : WF_mcVars(InQueue(Push(w)))
    /\ \A w \in 1 .. 2 : WF_mcVars(InPool(Pool!Work(w)))
    /\ \A c \in Callers : WF_mcVars(InPool(Pool!Return(c)))
    /\ WF_mcVars(InPool(Pool!Finish))
    /\ \A w \in 1 .. 2 : WF_mcVars(InTextures("later", Later!Load(w)))
    /\ SF_mcVars(InTextures("later", Later!TickFrame))
    /\ WF_mcVars(InTextures("later", Later!TickUpload \/ Later!TickEnd))
-----------------------------------------------------------------------------
\* Everything pushed is popped.
PushedPopped == part = "queue" => AllPopped

\* WaitForRequests returns, and only when every task of its caller has been run; a
\* queued task is run, unless the pool is destroyed first; the destructor returns.
PoolServes ==
    /\ Pool!WaitedForAll
    /\ part = "pool" => Pool!WaitReturns /\ Pool!TaskRuns /\ Pool!DestroyReturns

=============================================================================
