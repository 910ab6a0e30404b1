------------------------------ MODULE Sessions ------------------------------
(***************************************************************************)
(* A port, the sessions clients open through it, and a server process that *)
(* answers their requests with ReplyAndReceive (client_port.cpp,           *)
(* server_port.cpp, client_session.cpp, server_session.cpp, svc.cpp).      *)
(*                                                                         *)
(* The threads of the client process share its session handles, those of   *)
(* the server process share the server's.  Both programs are arbitrary:    *)
(* any system call with any handles of the process.  A ready thread counts *)
(* as running, and which of several waiting server threads is the best is  *)
(* left open, because priorities are.                                      *)
(***************************************************************************)
EXTENDS Integers, FiniteSets, Sequences, SequencesExt

CONSTANTS
    Clients, Servers,   \* the threads of the two processes
    Sids,               \* bound: the sessions there can be at a time
    MaxSessions,        \* max_sessions of the port
    Port, Null

SessionsAssumption == MaxSessions \in Nat /\ Port \notin Sids /\ Null \notin Clients

VARIABLES
    pending_sessions, active_sessions,
    client,                       \* the sessions whose client end is open
    handles,                      \* the sessions the server holds a handle to
    pending_requesting_threads, currently_handling,
    status,                       \* of the client threads
    wait_objects,                 \* of the server threads; {} for one that runs
    asked                         \* history: the session of a client's last request

vars == <<pending_sessions, active_sessions, client, handles, pending_requesting_threads,
          currently_handling, status, wait_objects, asked>>

\* The server end lives as long as something refers to it.
Referred(pending, held, waits) == Range(pending) \cup held \cup UNION {waits[t] : t \in Servers}
ServerAlive == Referred(pending_sessions, handles, wait_objects) \cap Sids

\* ServerPort::ShouldWait, ServerSession::ShouldWait
Available(o, pending, open, requests, handling) ==
    IF o = Port THEN pending # <<>>
    ELSE o \notin open \/ (requests[o] # <<>> /\ handling[o] = Null)

Running(t) == wait_objects[t] = {}
WaitingFor(o) == {t \in Servers : o \in wait_objects[t]}
Wake(threads) == [t \in Servers |-> IF t \in threads THEN {} ELSE wait_objects[t]]

\* ServerSession::~ServerSession for what nobody refers to any more, when new
\* sessions are added
Destroy(new, waits, held) ==
    LET gone == ServerAlive \ Referred(pending_sessions', held, waits) IN
    /\ wait_objects' = waits /\ handles' = held
    /\ active_sessions' = active_sessions + new - Cardinality(gone)

\* ServerSession::Acquire pops the last request.
AcquireLast(o, requests) ==
    /\ pending_requesting_threads' = [requests EXCEPT ![o] = Front(@)]
    /\ currently_handling' = [currently_handling EXCEPT ![o] = Last(requests[o])]
-----------------------------------------------------------------------------
(* The client                                                              *)

\* ClientPort::Connect.  All threads that wait for the port wake up.
Connect ==
    \E s \in Sids \ (ServerAlive \cup client) :
        /\ active_sessions < MaxSessions
        /\ client' = client \cup {s}
        /\ pending_sessions' = Append(pending_sessions, s)
        /\ Destroy(1, Wake(WaitingFor(Port)), handles)
        /\ pending_requesting_threads' = [pending_requesting_threads EXCEPT ![s] = <<>>]
        /\ currently_handling' = [currently_handling EXCEPT ![s] = Null]
        /\ asked' = [c \in Clients |-> IF asked[c] = s THEN Null ELSE asked[c]]
        /\ UNCHANGED status


\* SendSyncRequest, HandleSyncRequest.  The session wakes at most one thread:
\* then it is handling a request.
SendSyncRequest(c, s) ==
    LET requests == [pending_requesting_threads EXCEPT ![s] = Append(@, c)] IN
    /\ status[c] = "Running" /\ s \in client \cap ServerAlive
    /\ status' = [status EXCEPT ![c] = "WaitIPC"]
    /\ asked' = [asked EXCEPT ![c] = s]
    /\ UNCHANGED <<pending_sessions, client>>
    /\ IF WaitingFor(s) # {} /\ currently_handling[s] = Null
       THEN /\ AcquireLast(s, requests)
            /\ \E t \in WaitingFor(s) : Destroy(0, Wake({t}), handles)
       ELSE /\ pending_requesting_threads' = requests
            /\ UNCHANGED <<currently_handling, wait_objects, active_sessions, handles>>

\* A mutant: the server does not learn that the client has gone.
CloseClient_NoWakeup(s) ==
    /\ s \in client
    /\ client' = client \ {s}
    /\ pending_requesting_threads' = [pending_requesting_threads EXCEPT ![s] = <<>>]
    /\ currently_handling' = [currently_handling EXCEPT ![s] = Null]
    /\ UNCHANGED <<pending_sessions, active_sessions, wait_objects, handles, status, asked>>

\* ClientSession::~ClientSession: all threads that wait for the session wake.
CloseClient(s) ==
    /\ s \in client
    /\ client' = client \ {s}
    /\ pending_requesting_threads' = [pending_requesting_threads EXCEPT ![s] = <<>>]
    /\ currently_handling' = [currently_handling EXCEPT ![s] = Null]
    /\ UNCHANGED pending_sessions
    /\ Destroy(0, Wake(WaitingFor(s)), handles)
    /\ UNCHANGED <<status, asked>>
-----------------------------------------------------------------------------
(* The server                                                              *)

\* AcceptSession, ServerPort::Accept: the last session first
AcceptSession(t) ==
    /\ Running(t) /\ pending_sessions # <<>>
    /\ pending_sessions' = Front(pending_sessions)
    /\ handles' = handles \cup {Last(pending_sessions)}
    /\ UNCHANGED <<active_sessions, client, pending_requesting_threads, currently_handling,
                   status, wait_objects, asked>>

\* CloseHandle on a session
CloseServer(t, s) ==
    /\ Running(t) /\ s \in handles
    /\ UNCHANGED pending_sessions
    /\ Destroy(0, wait_objects, handles \ {s})
    /\ UNCHANGED <<client, pending_requesting_threads, currently_handling, status, asked>>

\* The second half of ReplyAndReceive: the first available object, or sleep.
\* A request that is picked up is one that Acquire pops.
Receive(t, objects, handling) ==
    LET ready == {o \in objects : Available(o, pending_sessions, client,
                                            pending_requesting_threads, handling)} IN
    \/ \E o \in ready :
          /\ wait_objects' = wait_objects
          /\ IF o \in client
             THEN /\ pending_requesting_threads' = [pending_requesting_threads EXCEPT ![o] = Front(@)]
                  /\ currently_handling' = [handling EXCEPT ![o] = Last(pending_requesting_threads[o])]
             ELSE currently_handling' = handling /\ UNCHANGED pending_requesting_threads
    \/ /\ ready = {}
       /\ wait_objects' = [wait_objects EXCEPT ![t] = objects]
       /\ currently_handling' = handling
       /\ UNCHANGED pending_requesting_threads

\* ReplyAndReceive without a reply
ReceiveOnly(t, objects) ==
    /\ Running(t) /\ objects # {}
    /\ Receive(t, objects, currently_handling)
    /\ UNCHANGED <<pending_sessions, active_sessions, client, handles, status, asked>>

\* ReplyAndReceive with a reply; it fails when there is nobody to reply to.
ReplyAndReceive(t, s, objects) ==
    /\ Running(t) /\ s \in handles
    /\ currently_handling[s] # Null
    /\ status' = [status EXCEPT ![currently_handling[s]] = "Running"]
    /\ Receive(t, objects, [currently_handling EXCEPT ![s] = Null])
    /\ UNCHANGED <<pending_sessions, active_sessions, client, handles, asked>>

Init ==
    /\ pending_sessions = <<>> /\ active_sessions = 0
    /\ client = {} /\ handles = {}
    /\ pending_requesting_threads = [s \in Sids |-> <<>>]
    /\ currently_handling = [s \in Sids |-> Null]
    /\ status = [c \in Clients |-> "Running"]
    /\ wait_objects = [t \in Servers |-> {}]
    /\ asked = [c \in Clients |-> Null]

Requests == \E c \in Clients, s \in Sids : SendSyncRequest(c, s)
Objects == {Port} \cup handles

Next ==
    \/ (\E c \in Clients : status[c] = "Running") /\ (Connect \/ \E s \in Sids : CloseClient(s))
    \/ Requests
    \/ \E t \in Servers :
          \/ AcceptSession(t)
          \/ \E s \in Sids : CloseServer(t, s)
          \/ \E objects \in SUBSET Objects :
                \/ ReceiveOnly(t, objects)
                \/ \E s \in Sids : ReplyAndReceive(t, s, objects)

Spec == Init /\ [][Next]_vars

\* A server that accepts every session, waits for all of them and replies to
\* every request; it runs when it can.
Serve(t) ==
    \/ AcceptSession(t)
    \/ /\ pending_sessions = <<>>
       /\ IF \A s \in Sids : currently_handling[s] = Null THEN ReceiveOnly(t, Objects)
          ELSE \E s \in Sids : ReplyAndReceive(t, s, Objects)
ServeNext == Connect \/ Requests \/ \E t \in Servers : Serve(t)
ServeSpec == Init /\ [][ServeNext]_vars /\ \A t \in Servers : WF_vars(Serve(t))
-----------------------------------------------------------------------------
Registered(c) == {s \in Sids : c \in Range(pending_requesting_threads[s])
                               \/ currently_handling[s] = c}

(* ConnectionClosed never counts below zero ("active_sessions > 0") and    *)
(* the limit of the port holds: the port counts exactly the server ends    *)
(* that exist, accepted or not, closed by the client or not.               *)
SessionCountOK == active_sessions = Cardinality(ServerAlive) /\ active_sessions <= MaxSessions

(* Whoever is replied to is waiting for it: a thread that is pending or    *)
(* being handled is asleep in WaitIPC, at one place.                       *)
RequestersAsleep ==
    \A c \in Clients :
        /\ Registered(c) # {} => status[c] = "WaitIPC"
        /\ \A s \in Registered(c) :
              /\ Registered(c) = {s}
              /\ Cardinality({i \in DOMAIN pending_requesting_threads[s] :
                                 pending_requesting_threads[s][i] = c})
                 + (IF currently_handling[s] = c THEN 1 ELSE 0) = 1

(* A request is lost only when an end of its session is closed: until then *)
(* the thread is pending or being handled.                                 *)
RequestsKept ==
    \A c \in Clients :
        status[c] = "WaitIPC" /\ asked[c] \in client \cap ServerAlive => Registered(c) # {}

(* "Wait if we have no pending requests, or if we're currently handling a  *)
(* request": no server thread sleeps for an object that is available.      *)
ServerSleepsOnlyIfIdle ==
    \A t \in Servers : \A o \in wait_objects[t] :
        ~Available(o, pending_sessions, client, pending_requesting_threads, currently_handling)

(* "Put the thread to sleep until the server replies, it will be awoken in *)
(* svcReplyAndReceive for LLE servers": a thread in WaitIPC is known to a  *)
(* session that can still reply.                                           *)
ReplyPossible == \A c \in Clients : status[c] = "WaitIPC" => Registered(c) \cap ServerAlive # {}

=============================================================================
