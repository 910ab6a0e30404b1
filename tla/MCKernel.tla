------------------------------ MODULE MCKernel ------------------------------
(***************************************************************************)
(* Kernel on small instances.  The threads, the cores and the objects are  *)
(* those of the configuration; five emulated programs use them, each with  *)
(* the calls and the arguments of its own.  A behaviour runs one program.  *)
(***************************************************************************)
EXTENDS KernelProperties
CONSTANTS t1, t2, t3, m1, m2, e1, e2, s1

OneCore   == [t \in Threads |-> 0]
TwoCores  == [t \in Threads |-> IF t = t2 THEN 1 ELSE 0]
ThreePrio == [t \in Threads |-> IF t = t1 THEN 1 ELSE IF t = t2 THEN 2 ELSE 0]
SamePrio  == [t \in Threads |-> 1]
Sticky    == [e \in Events |-> "Sticky"]
EventTypes == [e \in Events |-> IF e = e1 THEN "OneShot" ELSE "Pulse"]
MaxTwo    == [s \in Semaphores |-> 2]
OneFree   == [s \in Semaphores |-> 1]
MutexOrEvent == {<<m1>>, <<e1>>}
OneEvent  == {<<e1>>}
AnyList   == {<<o>> : o \in Objects} \cup {<<a, b>> : a, b \in Objects}

VARIABLE part     \* the program that runs

\* Three threads of three priorities on two cores, and two mutexes: waits that
\* time out, and threads that change each other's priorities
Mutual == INSTANCE KernelProperties WITH
    Calls <- {"WaitSynchronization1", "ReleaseMutex"},
    WaitLists <- {<<m1>>, <<m2>>}, Timeouts <- {"finite"}, MaxLock <- 1
Prioritising == INSTANCE KernelProperties WITH
    Calls <- {"WaitSynchronization1", "ReleaseMutex", "SetThreadPriority"},
    WaitLists <- {<<m1>>, <<m2>>}, Timeouts <- {"forever"}, MaxLock <- 1
\* Threads that start and join a third, and exit with a mutex
Exiting == INSTANCE KernelProperties WITH
    Started <- {t1, t2}, MaxLock <- 2,
    Calls <- {"WaitSynchronization1", "ReleaseMutex", "CreateThread", "ExitThread"},
    WaitLists <- {<<m1>>, <<t3>>}, Timeouts <- {"finite"}
\* Two threads of one core that wait for any or all of several objects
Signalling == INSTANCE KernelProperties WITH
    Started <- {t1, t3}, MaxLock <- 1,
    Calls <- {"WaitSynchronizationN", "ReleaseMutex", "SleepThread", "SignalEvent", "ClearEvent",
              "ReleaseSemaphore"},
    WaitLists <- {<<e1, s1>>, <<m1, e1>>, <<s1, s1>>, <<e2>>},
    Timeouts <- {"zero", "finite"}
\* Threads of one priority that ControlProcess excludes from scheduling
Freezing == INSTANCE KernelProperties WITH
    CreatePrio <- SamePrio, Magic <- {t2}, MaxLock <- 1,
    Calls <- {"WaitSynchronization1", "SignalEvent", "ControlProcess"},
    WaitLists <- {<<e1>>}, Timeouts <- {"finite"}

MCInit ==
    \/ part = "mutual" /\ Mutual!Init
    \/ part = "prioritising" /\ Prioritising!Init
    \/ part = "exiting" /\ Exiting!Init
    \/ part = "signalling" /\ Signalling!Init
    \/ part = "freezing" /\ Freezing!Init

Runs(name, step) == part = name /\ step /\ UNCHANGED part

MCNext ==
    \/ Runs("mutual", Mutual!Next)
    \/ Runs("prioritising", Prioritising!Next)
    \/ Runs("exiting", Exiting!Next)
    \/ Runs("signalling", Signalling!Next)
    \/ Runs("freezing", Freezing!Next)

mcVars == <<part, vars>>
MCSpec == MCInit /\ [][MCNext]_mcVars
-----------------------------------------------------------------------------
-----------------------------------------------------------------------------
\* The one program that a configuration's own constants describe, and the fairness
\* of Kernel for it
OneInit == part = "one" /\ Init
OneNext == Runs("one", Next)
OneSpec == OneInit /\ [][OneNext]_mcVars
LiveSpec ==
    /\ OneSpec
    /\ WF_mcVars(OneNext)
    /\ SF_mcVars(Runs("one", EndSlice))
    /\ SF_mcVars(Runs("one", BeginIteration))
    /\ \A t \in Threads : SF_mcVars(Runs("one", ThreadWakeupCallback(t)))
=============================================================================
