---------------------------- MODULE MCHandleTable ----------------------------
(***************************************************************************)
(* Handles on small instances: a handle table, with the constants of the   *)
(* configuration, and the handles that two processes send each other.  A   *)
(* behaviour runs one of the two.                                          *)
(***************************************************************************)
EXTENDS HandleTable

VARIABLES part, tables, sent

Ipc == INSTANCE IpcHandles WITH Processes <- {"client", "server"}, Objects <- {"o1"},
           NoObject <- "NoObject", MAX_COUNT <- 2, MaxHandles <- 2, table <- tables

ASSUME InstanceOK == Ipc!HandlesAssumption

MCInit == part \in {"table", "ipc"} /\ Init /\ Ipc!Init
MCNext ==
    \/ part = "table" /\ Next /\ UNCHANGED <<part, tables, sent>>
    \/ part = "ipc" /\ Ipc!Next /\ UNCHANGED <<part, vars>>
MCSpec == MCInit /\ [][MCNext]_<<vars, part, tables, sent>>

\* No guard reads the history of the last translation.
MCView == <<vars, part, tables>>
-----------------------------------------------------------------------------
\* A handle arrives as a handle to the same object, and no object is lost on the way.
HandlesArrive == Ipc!HandlesArrive /\ Ipc!ObjectsKept
=============================================================================
