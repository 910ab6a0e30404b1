------------------------------- MODULE GspGpu -------------------------------
(***************************************************************************)
(* The gsp::Gpu service (service/gsp/gsp_gpu.cpp): the sessions and their  *)
(* thread ids, the GPU right, the interrupt relay queue and the command    *)
(* buffer that each thread id has in shared memory, and the framebuffer    *)
(* updates that a vertical blank applies.  The application is the other    *)
(* end of the shared memory; it follows the comments of gsp_gpu.h.         *)
(***************************************************************************)
EXTENDS Integers, Sequences, SequencesExt

CONSTANTS
    Sessions,
    MaxSessions,    \* of the port
    MaxGSPThreads,
    Slots,          \* of a relay queue
    Width,          \* 2 ^ 8: the counters of a relay queue are u8
    Commands,       \* what an application writes; "DMA" is one that interrupts
    MaxPending,     \* bound: interrupts the application leaves unprocessed
    MaxWritten,     \* bound: commands written in a behaviour
    Concurrent      \* whether the application writes from several threads

GspAssumption ==
    /\ Slots \in Nat \ {0} /\ Width > Slots
    /\ MaxSessions <= MaxGSPThreads
    /\ MaxPending \in Nat /\ MaxWritten \in Nat
    /\ Concurrent \in BOOLEAN

NoId == MaxGSPThreads       \* stands for UINT32_MAX
ThreadIds == 0 .. MaxGSPThreads - 1
Screens == {"PDC0", "PDC1"}

VARIABLES
    thread_id,          \* of each connected session, NoId for the others
    registered,         \* sessions that called RegisterInterruptRelayQueue
    used_thread_ids,
    active_thread_id,   \* who has the GPU right
    relay,              \* the relay queue of each thread id
    pending,            \* history: the interrupts signalled and not yet processed
    dirty,              \* FrameBufferUpdate::is_dirty, per thread id and screen
    shown,              \* the thread whose framebuffer each screen shows
    commands,           \* the command buffer of each thread id, up to number_commands
    asked,              \* sessions about to call TriggerCmdReqQueue
    written, executed   \* history: the commands, in order

clients == <<thread_id, registered, used_thread_ids, active_thread_id>>
interrupts == <<relay, pending, dirty, shown>>
buffers == <<commands, asked, written, executed>>
vars == <<clients, interrupts, buffers>>

Connected == {s \in Sessions : thread_id[s] # NoId}
-----------------------------------------------------------------------------
GetUnusedThreadId ==
    CHOOSE id \in ThreadIds \ used_thread_ids :
        \A other \in ThreadIds \ used_thread_ids : id <= other

\* MakeSessionData and SessionData::SessionData.
ClientConnected(s) ==
    /\ s \notin Connected
    /\ Len(SetToSeq(Connected)) < MaxSessions
    /\ thread_id' = [thread_id EXCEPT ![s] = GetUnusedThreadId]
    /\ used_thread_ids' = used_thread_ids \cup {GetUnusedThreadId}
    /\ UNCHANGED <<registered, active_thread_id, interrupts, buffers>>


\* The right is released and the id is free again (~SessionData).  The shared
\* memory of the id stays as it is for the next session.
ClientDisconnected(s) ==
    /\ s \in Connected \ asked
    /\ active_thread_id' = IF active_thread_id = thread_id[s] THEN NoId
                           ELSE active_thread_id
    /\ used_thread_ids' = used_thread_ids \ {thread_id[s]}
    /\ thread_id' = [thread_id EXCEPT ![s] = NoId]
    /\ registered' = registered \ {s}
    /\ UNCHANGED <<interrupts, buffers>>

RegisterInterruptRelayQueue(s) ==
    /\ s \in Connected
    /\ registered' = registered \cup {s}
    /\ UNCHANGED <<thread_id, used_thread_ids, active_thread_id, interrupts, buffers>>

UnregisterInterruptRelayQueue(s) ==
    /\ s \in Connected
    /\ registered' = registered \ {s}
    /\ UNCHANGED <<thread_id, used_thread_ids, active_thread_id, interrupts, buffers>>

\* A right that another session has is an ASSERT that stops the emulator.
AcquireRight(s) ==
    /\ s \in Connected
    /\ active_thread_id \in {NoId, thread_id[s]}
    /\ active_thread_id' = thread_id[s]
    /\ UNCHANGED <<thread_id, registered, used_thread_ids, interrupts, buffers>>

\* So is the release of a right that the session does not have.
ReleaseRight(s) ==
    /\ s \in Connected
    /\ active_thread_id = thread_id[s]
    /\ active_thread_id' = NoId
    /\ UNCHANGED <<thread_id, registered, used_thread_ids, interrupts, buffers>>
-----------------------------------------------------------------------------
RegisteredIds == {thread_id[s] : s \in registered}

\* The queue part of SignalInterruptForThread: nothing asks whether it is full.
Push(q, kind) ==
    [q EXCEPT !.number = (@ + 1) % Width,
              !.slot[((q.index + q.number) % Width) % Slots] = kind]

\* SignalInterruptForThread for each thread of ids, once per member of kinds.
Signal(ids, kinds) ==
    /\ relay' = [id \in ThreadIds |->
                    IF id \in ids THEN FoldLeft(Push, relay[id], kinds) ELSE relay[id]]
    /\ pending' = [id \in ThreadIds |->
                    IF id \in ids THEN pending[id] \o kinds ELSE pending[id]]
    /\ \A id \in ids : Len(pending'[id]) <= MaxPending

\* SignalInterrupt of a vertical blank: every registered thread, in order of id,
\* so that the last dirty framebuffer is the one that stays on the screen.
SignalBlank(screen) ==
    LET swaps == {id \in RegisteredIds : dirty[id][screen]} IN
    /\ RegisteredIds # {}
    /\ Signal(RegisteredIds, <<screen>>)
    /\ dirty' = [id \in ThreadIds |->
                    IF id \in swaps THEN [dirty[id] EXCEPT ![screen] = FALSE] ELSE dirty[id]]
    /\ shown' = IF swaps = {} THEN shown
                ELSE [shown EXCEPT ![screen] =
                        CHOOSE id \in swaps : \A other \in swaps : other <= id]
    /\ UNCHANGED <<clients, buffers>>

\* SignalInterrupt of the others: the thread with the right, if it is registered.
SignalNormal(kind) ==
    /\ active_thread_id \in RegisteredIds
    /\ Signal({active_thread_id}, <<kind>>)
    /\ UNCHANGED <<clients, buffers, dirty, shown>>

\* The application takes the interrupt at the index.
ProcessInterrupt(s) ==
    LET id == thread_id[s] IN
    /\ s \in registered
    /\ relay[id].number > 0
    /\ relay' = [relay EXCEPT ![id].index = (@ + 1) % Slots, ![id].number = @ - 1]
    /\ pending' = [pending EXCEPT ![id] = Tail(@)]
    /\ UNCHANGED <<clients, buffers, dirty, shown>>

\* The application has drawn a frame.
RequestUpdate(s, screen) ==
    /\ s \in registered
    /\ ~dirty[thread_id[s]][screen]
    /\ dirty' = [dirty EXCEPT ![thread_id[s]][screen] = TRUE]
    /\ UNCHANGED <<clients, buffers, relay, pending, shown>>
-----------------------------------------------------------------------------
\* The application writes a command, and will trigger if it is the only one;
\* another of its threads may write before it does.
WriteCommand(s, c) ==
    LET id == thread_id[s] IN
    /\ s \in registered /\ (s \in asked => Concurrent)
    /\ Len(written) < MaxWritten
    /\ commands' = [commands EXCEPT ![id] = Append(@, c)]
    /\ asked' = IF Len(commands[id]) = 0 THEN asked \cup {s} ELSE asked
    /\ written' = Append(written, c)
    /\ UNCHANGED <<clients, interrupts, executed>>

\* The loop of TriggerCmdReqQueue counts up while number_commands counts down:
\* the two meet in the middle.
Executed(buffer) == SubSeq(buffer, 1, (Len(buffer) + 1) \div 2)

\* number_commands is lowered and the commands stay where they are, so that
\* what is left of the buffer is its head.
Remaining(buffer) == SubSeq(buffer, 1, Len(buffer) \div 2)

\* Every thread's buffer, in order of id.  A DMA command raises its interrupt.
TriggerCmdReqQueue(s) ==
    LET run == FoldLeft(LAMBDA all, i : all \o Executed(commands[i - 1]), << >>,
                        [i \in 1 .. MaxGSPThreads |-> i])
        ids == {active_thread_id} \cap RegisteredIds
    IN
    /\ s \in asked
    /\ asked' = asked \ {s}
    /\ executed' = executed \o run
    /\ commands' = [id \in ThreadIds |-> Remaining(commands[id])]
    /\ Signal(ids, SelectSeq(run, LAMBDA c : c = "DMA"))
    /\ UNCHANGED <<clients, dirty, shown, written>>

Init ==
    /\ thread_id = [s \in Sessions |-> NoId]
    /\ registered = {} /\ used_thread_ids = {}
    /\ active_thread_id = NoId
    /\ relay = [id \in ThreadIds |->
                  [index |-> 0, number |-> 0, slot |-> [i \in 0 .. Slots - 1 |-> "PSC0"]]]
    /\ pending = [id \in ThreadIds |-> << >>]
    /\ dirty = [id \in ThreadIds |-> [screen \in Screens |-> FALSE]]
    /\ shown = [screen \in Screens |-> NoId]
    /\ commands = [id \in ThreadIds |-> << >>]
    /\ asked = {}
    /\ written = << >> /\ executed = << >>

Next ==
    \/ \E s \in Sessions :
        \/ ClientConnected(s) \/ ClientDisconnected(s)
        \/ RegisterInterruptRelayQueue(s) \/ UnregisterInterruptRelayQueue(s)
        \/ AcquireRight(s) \/ ReleaseRight(s)
        \/ ProcessInterrupt(s)
        \/ \E screen \in Screens : RequestUpdate(s, screen)
        \/ \E c \in Commands : WriteCommand(s, c)
        \/ TriggerCmdReqQueue(s)
    \/ \E screen \in Screens : SignalBlank(screen)
    \/ SignalNormal("P3D")

Spec == Init /\ [][Next]_vars
-----------------------------------------------------------------------------
(* A thread id belongs to exactly one connected session, whatever order    *)
(* sessions come and go in: no two share a relay queue.                    *)
IdsOwned ==
    \A id \in ThreadIds :
        LET owners == {s \in Sessions : thread_id[s] = id} IN
        /\ id \in used_thread_ids <=> owners # {}
        /\ \A s, t \in owners : s = t

(* The GPU right is held by a connected session or by nobody: a session    *)
(* that goes away does not take the right with it, which would stop every  *)
(* later AcquireRight.                                                     *)
RightHeldByClient ==
    active_thread_id # NoId => \E s \in Connected : thread_id[s] = active_thread_id

(* "Number of interrupts remaining to be processed by the userland code":  *)
(* reading number_interrupts slots from the index gives exactly the        *)
(* interrupts that were signalled and not processed, in order.             *)
InterruptsKept ==
    \A id \in ThreadIds :
        /\ relay[id].number = Len(pending[id])
        /\ \A i \in 1 .. Len(pending[id]) :
              relay[id].slot[(relay[id].index + i - 1) % Slots] = pending[id][i]

(* What has been triggered has run: with no trigger outstanding, the       *)
(* commands that were executed are the commands that were written, each    *)
(* once and in order ("Iterate through each command...").                  *)
CommandsRun == asked = {} => executed = written
=============================================================================
