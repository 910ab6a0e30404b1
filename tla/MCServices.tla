----------------------------- MODULE MCServices -----------------------------
(***************************************************************************)
(* How emulated threads and services wait for, call and serve one another, *)
(* on small instances: ports and sessions, the service manager, the        *)
(* buffers mapped for a request, the GPU service and the applets that the  *)
(* emulator provides.  They share no state here, so a behaviour runs one   *)
(* part and leaves the others alone; TLC explores the sum of their states. *)
(***************************************************************************)
EXTENDS Naturals

VARIABLES
    part,                                       \* what this behaviour runs
    pending_sessions, active_sessions, client, handles, pending_requesting_threads,
    currently_handling, client_status, wait_objects, asked,     \* Sessions
    registered, delayed, asks, sessions, overtaken,             \* ServiceManager
    vma_map, context, busy, failed,                             \* IpcBuffers
    thread_id, relay_registered, used_thread_ids, active_thread_id, relay, pending, dirty,
    shown, commands, triggering, written, executed,             \* GspGpu
    applets, is_active, answering, library, prepared, active_slot, next_parameter,
    closing                                                     \* HleApplet

sessionVars == <<pending_sessions, active_sessions, client, handles, pending_requesting_threads,
                 currently_handling, client_status, wait_objects, asked>>
serviceVars == <<registered, delayed, asks, sessions, overtaken>>
bufferVars == <<vma_map, context, busy, failed>>
gspVars == <<thread_id, relay_registered, used_thread_ids, active_thread_id, relay, pending,
             dirty, shown, commands, triggering, written, executed>>
appletVars == <<applets, is_active, answering, library, prepared, active_slot, next_parameter,
                closing>>

\* Three threads that call a server of one thread; two that call one of two
One == INSTANCE Sessions WITH Clients <- {"c1", "c2", "c3"}, Servers <- {"t1"},
           Sids <- {"s1", "s2"}, MaxSessions <- 2, Port <- "Port", Null <- "Null",
           status <- client_status
Two == INSTANCE Sessions WITH Clients <- {"c1", "c2"}, Servers <- {"t1", "t2"},
           Sids <- {"s1", "s2"}, MaxSessions <- 2, Port <- "Port", Null <- "Null",
           status <- client_status
\* Two that call a server that goes on serving
Served == INSTANCE Sessions WITH Clients <- {"c1", "c2"}, Servers <- {"t1"},
           Sids <- {"s1", "s2"}, MaxSessions <- 2, Port <- "Port", Null <- "Null",
           status <- client_status
Services == INSTANCE ServiceManager WITH Threads <- {"t1", "t2", "t3"}, NoThread <- "none",
           Names <- {"a", "b"}, MaxSessions <- 2
Buffers == INSTANCE IpcBuffers WITH MAX_ADDRESS <- 24, States <- {"Shared", "Reserved"},
           Perms <- {{"r", "w"}}, Memory <- {0}, Sessions <- {"s1", "s2", "s3"},
           MaxBuffers <- 2, Sizes <- {2}
\* Sessions that come and go; one that takes interrupts and writes commands
GspClients == INSTANCE GspGpu WITH Sessions <- {"s1", "s2", "s3"}, MaxSessions <- 2,
           MaxGSPThreads <- 3, Slots <- 2, Width <- 8, Commands <- {}, MaxPending <- 0,
           MaxWritten <- 0, Concurrent <- FALSE,
           registered <- relay_registered, asked <- triggering
GspQueues == INSTANCE GspGpu WITH Sessions <- {"s1"}, MaxSessions <- 1,
           MaxGSPThreads <- 1, Slots <- 2, Width <- 8, Commands <- {"DMA", "CmdList"},
           MaxPending <- 2, MaxWritten <- 2, Concurrent <- FALSE,
           registered <- relay_registered, asked <- triggering
Applets == {"Keyboard", "MiiSelector", "Error"}
Hle == INSTANCE HleApplet WITH Ids <- Applets, AtOnce <- {"Error"}, Hasty <- FALSE,
           Messages <- FALSE, asked <- answering

ASSUME InstancesOK ==
    /\ One!SessionsAssumption /\ Two!SessionsAssumption /\ Served!SessionsAssumption
    /\ Services!ServiceAssumption /\ Buffers!BuffersAssumption
    /\ GspClients!GspAssumption /\ GspQueues!GspAssumption /\ Hle!HleAssumption

\* What does not run starts in one of its initial states
Init ==
    /\ \/ part = "one" /\ One!Init /\ GspClients!Init
       \/ part = "served" /\ Served!Init /\ GspClients!Init
       \/ part = "gsp queues" /\ Two!Init /\ GspQueues!Init
       \/ /\ part \in {"two", "services", "buffers", "gsp clients", "applets"}
          /\ Two!Init /\ GspClients!Init
    /\ Services!Init /\ Buffers!BuffersInit /\ Hle!Init
    /\ part # "applets" => closing = "None"

InSessions(name, step) ==
    /\ part = name /\ step
    /\ UNCHANGED <<part, serviceVars, bufferVars, gspVars, appletVars>>
InServices(step) ==
    /\ part = "services" /\ step
    /\ UNCHANGED <<part, sessionVars, bufferVars, gspVars, appletVars>>
InBuffers(step) ==
    /\ part = "buffers" /\ step
    /\ UNCHANGED <<part, sessionVars, serviceVars, gspVars, appletVars>>
InGsp(name, step) ==
    /\ part = name /\ step
    /\ UNCHANGED <<part, sessionVars, serviceVars, bufferVars, appletVars>>
InApplets(step) ==
    /\ part = "applets" /\ step
    /\ UNCHANGED <<part, sessionVars, serviceVars, bufferVars, gspVars>>

Next ==
    \/ InSessions("one", One!Next)
    \/ InSessions("two", Two!Next)
    \/ InSessions("served", Served!ServeNext)
    \/ InServices(Services!Next)
    \/ InBuffers(Buffers!BuffersNext)
    \/ InGsp("gsp clients", GspClients!Next)
    \/ InGsp("gsp queues", GspQueues!Next)
    \/ InApplets(Hle!Next)

\* The fairness of Sessions and HleApplet
vars == <<part, sessionVars, serviceVars, bufferVars, gspVars, appletVars>>
Spec ==
    /\ Init /\ [][Next]_vars
    /\ WF_vars(InSessions("served", Served!Serve("t1")))
    /\ WF_vars(InApplets(Hle!ReceiveParameter))
    /\ \A id \in Applets :
        /\ SF_vars(InApplets(Hle!UpdateCloses(id)))
        /\ WF_vars(InApplets(\E result \in {"OK", "Continue"} : Hle!AnswerCallback(id, result)))
-----------------------------------------------------------------------------
\* A server thread sleeps only if nothing it waits for is available (where it is the
\* only one); the port counts the sessions that exist, whoever is replied to sleeps
\* until that one reply, and a request is lost only with an end of its session (where
\* there are two).
SessionsOK ==
    /\ part = "one" => One!ServerSleepsOnlyIfIdle
    /\ part = "two" => Two!SessionCountOK /\ Two!RequestersAsleep /\ Two!RequestsKept





=============================================================================
