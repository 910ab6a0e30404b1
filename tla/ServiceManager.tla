--------------------------- MODULE ServiceManager ---------------------------
(***************************************************************************)
(* The registry of services (service/sm/sm.cpp) and its front, srv:        *)
(* (service/sm/srv.cpp).  A thread that asks for a service that is not     *)
(* registered may sleep until it is; registering a service signals the one *)
(* event that is filed under its name, and the thread that waits on it is  *)
(* connected before the call returns.                                      *)
(***************************************************************************)
EXTENDS Integers, FiniteSets, FiniteSetsExt

CONSTANTS
    Threads, NoThread,
    Names,          \* the services
    MaxSessions     \* bound: the sessions a port may allow

ServiceAssumption == NoThread \notin Threads /\ MaxSessions \in Nat \ {0}

VARIABLES
    registered,     \* registered_services: max_sessions of each port, 0 for none
    delayed,        \* get_service_handle_delayed_map: who waits on the filed event
    asks,           \* the service a thread sleeps for
    sessions,       \* the sessions each thread holds, by service
    overtaken       \* history: threads whose event was replaced by a later one

vars == <<registered, delayed, asks, sessions, overtaken>>

Asleep == {t \in Threads : asks[t] # "none"}
\* ClientPort::active_sessions
Active(held, n) == MapThenSumSet(LAMBDA t : held[t][n], Threads)
HasRoom(n) == Active(sessions, n) < registered[n]

Connect(t, n) == sessions' = [sessions EXCEPT ![t][n] = @ + 1]

\* GetServiceHandle for a service that is registered.  A full port changes
\* nothing, whether it is an error or, with the flag clear, no answer at all.
GetRegistered(t, n) ==
    /\ t \notin Asleep
    /\ registered[n] # 0 /\ HasRoom(n)
    /\ Connect(t, n)
    /\ UNCHANGED <<registered, delayed, asks, overtaken>>


\* GetServiceHandle for one that is not: SleepClientThread, and the event takes
\* the place of the one filed under the name.
GetDelayed(t, n) ==
    /\ t \notin Asleep
    /\ registered[n] = 0
    /\ asks' = [asks EXCEPT ![t] = n]
    /\ delayed' = [delayed EXCEPT ![n] = t]
    /\ overtaken' = (overtaken \cup {delayed[n]}) \ {t, NoThread}
    /\ UNCHANGED <<registered, sessions>>

\* RegisterService: Signal resumes the waiter, whose callback connects it.
RegisterService(t, n, max) ==
    LET w == delayed[n] IN
    /\ t \notin Asleep
    /\ registered[n] = 0
    /\ registered' = [registered EXCEPT ![n] = max]
    /\ IF w = NoThread THEN UNCHANGED <<asks, sessions>>
       ELSE /\ Connect(w, n)
            /\ asks' = [asks EXCEPT ![w] = "none"]
    /\ delayed' = [delayed EXCEPT ![n] = NoThread]
    /\ UNCHANGED overtaken

\* The thread closes a session: ~ClientSession lowers active_sessions.
CloseSession(t, n) ==
    /\ t \notin Asleep
    /\ sessions[t][n] > 0
    /\ sessions' = [sessions EXCEPT ![t][n] = @ - 1]
    /\ UNCHANGED <<registered, delayed, asks, overtaken>>

Init ==
    /\ registered = [n \in Names |-> 0]
    /\ delayed = [n \in Names |-> NoThread]
    /\ asks = [t \in Threads |-> "none"]
    /\ sessions = [t \in Threads |-> [n \in Names |-> 0]]
    /\ overtaken = {}

Next ==
    \E t \in Threads, n \in Names :
        \/ GetRegistered(t, n)
        \/ GetDelayed(t, n)
        \/ \E max \in 1 .. MaxSessions : RegisterService(t, n, max)
        \/ CloseSession(t, n)

Spec == Init /\ [][Next]_vars
-----------------------------------------------------------------------------
(* A thread still sleeps for a registered service only if a later thread   *)
(* asked for the same name and replaced its event: the last to ask is      *)
(* always connected, by whatever thread registers the service.             *)
LastWaiterServed ==
    \A t \in Asleep : registered[asks[t]] # 0 => t \in overtaken

(* A thread that is woken has its session: the wakeup, which has no answer *)
(* for a full port, never finds one.                                       *)
WokenIsConnected ==
    [][\A t \in Asleep : t \notin Asleep' =>
          /\ sessions'[t][asks[t]] = sessions[t][asks[t]] + 1
          /\ Active(sessions', asks[t]) <= registered'[asks[t]]]_vars
=============================================================================
