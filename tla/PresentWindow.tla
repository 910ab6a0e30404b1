---------------------------- MODULE PresentWindow ----------------------------
(***************************************************************************)
(* Presentation in the Vulkan renderer (renderer_vulkan/vk_present_window  *)
(* and RenderToWindow of renderer_vulkan.cpp).  The emulation thread takes *)
(* a free frame, renders to it and hands it over; the frame reaches the    *)
(* present thread through a command that the scheduler's worker runs, is   *)
(* copied to the swapchain and becomes free again.  Of the scheduler there *)
(* is what VkScheduler shows: commands run in order once dispatched, and   *)
(* Finish returns when the GPU has completed what was recorded.            *)
(***************************************************************************)
EXTENDS Integers, SequencesExt

CONSTANTS
    Frames,
    FirstFrames,    \* the frames in their first order
    Sizes,          \* the window's sizes
    UsePresentThread

FramesAssumption == FirstFrames \in Seq(Frames) /\ ToSet(FirstFrames) = Frames

NoOne == "none"
NoFrame == "none"

VARIABLES
    free_queue, present_queue,
    queue_mutex, swapchain_mutex,   \* the thread that holds each
    asleep,             \* the threads that sleep on frame_cv
    size,               \* of every frame
    window_size,        \* what the layout asks for
    emulation, frame,   \* where the emulation thread stands, and its frame
    handed,             \* the frames passed to Present that are not free again
    awaited,            \* the frames queued or being copied when WaitPresent is called
    present, copying,   \* where the present thread stands, and its frame
    recorded, dispatched,   \* commands of the scheduler, before and after dispatch
    gpu_queue,          \* GPU work in flight
    present_done,       \* the frames whose fence is signalled
    swapchain_size

queues == <<free_queue, present_queue>>
locks == <<queue_mutex, swapchain_mutex, asleep>>
commands == <<recorded, dispatched>>
gpu == <<gpu_queue, present_done>>
main == <<emulation, frame, handed, awaited, size, window_size>>
presenter == <<present, copying, swapchain_size>>
vars == <<queues, locks, commands, gpu, main, presenter>>

Init ==
    /\ free_queue = FirstFrames /\ present_queue = << >>
    /\ queue_mutex = NoOne /\ swapchain_mutex = NoOne /\ asleep = {}
    /\ size = [f \in Frames |-> 0] /\ window_size \in Sizes
    /\ emulation = "idle" /\ frame = NoFrame /\ handed = {} /\ awaited = {}
    /\ present = IF UsePresentThread THEN "wait" ELSE "ended"
    /\ copying = NoFrame /\ swapchain_size = window_size
    /\ recorded = << >> /\ dispatched = << >>
    /\ gpu_queue = << >> /\ present_done = Frames

Command(name, f) == [name |-> name, frame |-> f]
-----------------------------------------------------------------------------
(* RenderToWindow on the emulation thread *)

Resize ==
    /\ window_size' \in Sizes \ {window_size}
    /\ UNCHANGED <<queues, locks, commands, gpu, emulation, frame, handed, awaited, size, presenter>>

\* A mutant: the frame is used at once, whether or not its last copy is over.
GetRenderFrame_Hasty ==
    /\ emulation = "idle" /\ free_queue # << >>
    /\ frame' = Head(free_queue) /\ free_queue' = Tail(free_queue)
    /\ emulation' = "frame" /\ present_done' = present_done \ {Head(free_queue)}
    /\ UNCHANGED <<present_queue, locks, commands, gpu_queue, handed, awaited, size, window_size, presenter>>

\* GetRenderFrame waits for a free frame, takes it, waits until its last copy is over
\* and resets its fence.
GetRenderFrame ==
    /\ emulation = "idle" /\ free_queue # << >> /\ Head(free_queue) \in present_done
    /\ frame' = Head(free_queue) /\ free_queue' = Tail(free_queue)
    /\ emulation' = "frame" /\ present_done' = present_done \ {Head(free_queue)}
    /\ UNCHANGED <<present_queue, locks, commands, gpu_queue, handed, awaited, size, window_size, presenter>>

\* A frame of another size is recreated, after WaitPresent and Finish.
CheckSize ==
    /\ emulation = "frame"
    /\ emulation' = IF size[frame] = window_size THEN "render"
                    ELSE IF UsePresentThread THEN "drain" ELSE "finish"
    /\ awaited' = IF emulation' = "drain" THEN ToSet(present_queue) \union ({copying} \ {NoFrame}) ELSE {}
    /\ UNCHANGED <<queues, locks, commands, gpu, frame, handed, size, window_size, presenter>>

\* WaitPresent waits for an empty queue, on the condition variable on which the
\* present thread waits for frames ...
Drain ==
    /\ emulation = "drain" /\ "emulation" \notin asleep /\ queue_mutex = NoOne
    /\ IF present_queue = << >> THEN emulation' = "presented" /\ UNCHANGED asleep
       ELSE asleep' = asleep \union {"emulation"} /\ UNCHANGED emulation
    /\ UNCHANGED <<queues, queue_mutex, swapchain_mutex, commands, gpu, frame, handed, awaited, size,
                   window_size, presenter>>

\* ... and then takes the swapchain's lock and gives it back.
Presented ==
    /\ emulation = "presented" /\ swapchain_mutex = NoOne
    /\ emulation' = "finish" /\ awaited' = {}
    /\ UNCHANGED <<queues, locks, commands, gpu, frame, handed, size, window_size, presenter>>

\* Scheduler::Finish dispatches what is recorded, and waits for the GPU to complete it.
Finish ==
    /\ emulation = "finish" /\ emulation' = "finished"
    /\ dispatched' = dispatched \o recorded \o <<Command("submit", NoFrame)>>
    /\ recorded' = << >>
    /\ UNCHANGED <<queues, locks, gpu, frame, handed, awaited, size, window_size, presenter>>

\* The layout is the window's own and is read again.
RecreateFrame ==
    /\ emulation = "finished"
    /\ dispatched = << >> /\ ~\E i \in DOMAIN gpu_queue : gpu_queue[i].name = "render"
    /\ size' = [size EXCEPT ![frame] = window_size] /\ emulation' = "render"
    /\ UNCHANGED <<queues, locks, commands, gpu, frame, handed, awaited, window_size, presenter>>

\* Rendering is recorded and flushed, and only then the frame is handed over, by a
\* command that waits for the next dispatch.
Render ==
    /\ emulation = "render"
    /\ dispatched' = dispatched \o recorded \o <<Command("render", frame)>>
    /\ handed' = handed \union {frame}
    /\ IF UsePresentThread
       THEN /\ recorded' = <<Command("present", frame)>>
            /\ emulation' = "idle" /\ frame' = NoFrame
       ELSE /\ recorded' = << >> /\ emulation' = "copy" /\ UNCHANGED frame
    /\ UNCHANGED <<queues, locks, gpu, awaited, size, window_size, presenter>>

\* Commands that others record are dispatched too, at any moment.
DispatchWork ==
    /\ recorded # << >>
    /\ dispatched' = dispatched \o recorded /\ recorded' = << >>
    /\ UNCHANGED <<queues, locks, gpu, main, presenter>>

\* Without a present thread: WaitWorker, CopyToSwapchain, and the frame is free.
CopyAtOnce ==
    /\ emulation = "copy" /\ dispatched = << >>
    /\ gpu_queue' = Append(gpu_queue, Command("copy", frame))
    /\ swapchain_size' = size[frame]
    /\ free_queue' = Append(free_queue, frame) /\ handed' = handed \ {frame}
    /\ emulation' = "idle" /\ frame' = NoFrame
    /\ UNCHANGED <<present_queue, locks, commands, present_done, awaited, size, window_size, present,
                   copying>>
-----------------------------------------------------------------------------
(* The scheduler's worker and the GPU *)

\* frame_cv.notify_one wakes one of those asleep.
NotifyOne == IF asleep = {} THEN UNCHANGED asleep ELSE \E t \in asleep : asleep' = asleep \ {t}

RunCommand ==
    LET c == Head(dispatched) IN
    /\ dispatched # << >> /\ c.name # "present" /\ dispatched' = Tail(dispatched)
    /\ gpu_queue' = IF c.name = "render" THEN Append(gpu_queue, c) ELSE gpu_queue
    /\ UNCHANGED <<queues, locks, recorded, present_done, main, presenter>>

\* A mutant: nobody is notified.
RunPresent_Silent ==
    LET c == Head(dispatched) IN
    /\ dispatched # << >> /\ c.name = "present" /\ queue_mutex = NoOne
    /\ dispatched' = Tail(dispatched)
    /\ present_queue' = Append(present_queue, c.frame)
    /\ UNCHANGED <<free_queue, locks, recorded, gpu, main, presenter>>

RunPresent ==
    LET c == Head(dispatched) IN
    /\ dispatched # << >> /\ c.name = "present" /\ queue_mutex = NoOne
    /\ dispatched' = Tail(dispatched)
    /\ present_queue' = Append(present_queue, c.frame) /\ NotifyOne
    /\ UNCHANGED <<free_queue, queue_mutex, swapchain_mutex, recorded, gpu, main, presenter>>

\* Work completes in order; a copy signals its frame's fence.
GpuComplete ==
    LET c == Head(gpu_queue) IN
    /\ gpu_queue # << >> /\ gpu_queue' = Tail(gpu_queue)
    /\ present_done' = IF c.name = "copy" THEN present_done \union {c.frame} ELSE present_done
    /\ UNCHANGED <<queues, locks, commands, main, presenter>>
-----------------------------------------------------------------------------
(* The present thread *)

TakeFrame ==
    /\ present = "wait" /\ "present" \notin asleep /\ queue_mutex = NoOne
    /\ IF present_queue = << >>
       THEN asleep' = asleep \union {"present"} /\ UNCHANGED <<present_queue, queue_mutex, present, copying>>
       ELSE /\ copying' = Head(present_queue) /\ present_queue' = Tail(present_queue)
            /\ NotifyOne /\ queue_mutex' = "present" /\ present' = "exchange"
    /\ UNCHANGED <<free_queue, swapchain_mutex, commands, gpu, main, swapchain_size>>

ExchangeLocks ==
    /\ present = "exchange" /\ swapchain_mutex = NoOne
    /\ swapchain_mutex' = "present" /\ queue_mutex' = NoOne /\ present' = "copy"
    /\ UNCHANGED <<queues, asleep, commands, gpu, main, copying, swapchain_size>>

\* A swapchain of another size than the frame's is recreated first.
CopyToSwapchain ==
    /\ present = "copy" /\ present' = "free"
    /\ swapchain_size' = size[copying]
    /\ gpu_queue' = Append(gpu_queue, Command("copy", copying))
    /\ UNCHANGED <<queues, locks, commands, present_done, main, copying>>

FreeFrame ==
    /\ present = "free" /\ present' = "wait" /\ copying' = NoFrame
    /\ free_queue' = Append(free_queue, copying) /\ handed' = handed \ {copying}
    /\ swapchain_mutex' = NoOne
    /\ UNCHANGED <<present_queue, queue_mutex, asleep, commands, gpu, emulation, frame, awaited,
                   size, window_size, swapchain_size>>
-----------------------------------------------------------------------------
Emulation ==
    \/ GetRenderFrame \/ CheckSize \/ Drain \/ Presented \/ Finish \/ RecreateFrame \/ Render
    \/ CopyAtOnce
Worker == RunCommand \/ RunPresent
PresentThread == TakeFrame \/ ExchangeLocks \/ CopyToSwapchain \/ FreeFrame

Next == Resize \/ Emulation \/ DispatchWork \/ Worker \/ GpuComplete \/ PresentThread

\* All threads and the GPU go on; the window need not change, and only RenderToWindow
\* is sure to dispatch.
Spec ==
    /\ Init /\ [][Next]_vars
    /\ WF_vars(Emulation) /\ WF_vars(Worker) /\ WF_vars(GpuComplete) /\ WF_vars(PresentThread)

Busy(f) ==
    \/ f \in ToSet(free_queue) \/ f \in ToSet(present_queue) \/ f = copying
    \/ \E i \in DOMAIN gpu_queue : gpu_queue[i].frame = f
    \/ \E i \in DOMAIN dispatched : dispatched[i].frame = f
    \/ \E i \in DOMAIN recorded : recorded[i].frame = f

\* The frame the emulation thread works on, and may recreate, is nowhere else: not
\* queued, not being copied, and not in use by the GPU.
FrameUntouched == emulation \notin {"idle", "copy"} => ~Busy(frame)

\* When WaitPresent returns, the frames that were in the queue, or taken from it,
\* when it was called have been presented.
QueuedPresented ==
    [][emulation = "presented" /\ emulation' = "finish" =>
           awaited \cap (ToSet(present_queue) \union {copying}) = {}]_vars

\* Every frame handed over to Present comes back, so that rendering goes on.
FramesReturn == \A f \in Frames : f \in handed ~> f \in ToSet(free_queue)

\* When WaitPresent returns, every frame passed to Present has been presented.
AllPresented == [][emulation = "presented" /\ emulation' = "finish" => handed = {}]_vars
=============================================================================
