---------------------------- MODULE PriorityQueue ----------------------------
(***************************************************************************)
(* What the scheduler expects of a ready queue (ThreadQueueList): a list   *)
(* of threads for each priority level, and requests for the first thread   *)
(* of the best level, at once, whatever levels were used before.           *)
(***************************************************************************)
EXTENDS Integers, Sequences

CONSTANTS
    Threads,     \* the members of the lists
    NumQueues,   \* number of priority levels; 0 is the best
    None,        \* nullptr
    Idle         \* no request is being served

VARIABLES queue, request, answer

abstractVars == <<queue, request, answer>>

Levels == 0 .. NumQueues - 1
Requests == [op : {"pop", "get"}, limit : 0 .. NumQueues]

Init ==
    /\ queue = [p \in Levels |-> <<>>]
    /\ request = Idle
    /\ answer = None

Without(s, i) == SubSeq(s, 1, i - 1) \o SubSeq(s, i + 1, Len(s))

PushBack(p, t)  == queue' = [queue EXCEPT ![p] = Append(@, t)]
PushFront(p, t) == queue' = [queue EXCEPT ![p] = <<t>> \o @]
Erase(p, i)     == queue' = [queue EXCEPT ![p] = Without(@, i)]
Rotate(p)       == queue[p] # <<>> /\ queue' = [queue EXCEPT ![p] = Append(Tail(@), Head(@))]
Clear           == queue' = [p \in Levels |-> <<>>]

Move(p, i, new) ==
    queue' = LET q == [queue EXCEPT ![p] = Without(@, i)]
             IN  [q EXCEPT ![new] = Append(@, queue[p][i])]

Edit ==
    /\ request = Idle
    /\ \/ \E p \in Levels, t \in Threads : PushBack(p, t) \/ PushFront(p, t)
       \/ \E p \in Levels : Rotate(p)
       \/ \E p \in Levels : \E i \in DOMAIN queue[p] : Erase(p, i)
       \/ \E p, new \in Levels : \E i \in DOMAIN queue[p] : Move(p, i, new)
       \/ Clear
    /\ UNCHANGED <<request, answer>>

\* A request for the first thread of a level better than a limit.
Ask ==
    /\ request = Idle
    /\ request' \in Requests
    /\ UNCHANGED <<queue, answer>>

\* p is the best level that has a thread, below the limit of the request.
Best(p) ==
    /\ p \in Levels /\ p < request.limit /\ queue[p] # <<>>
    /\ \A q \in Levels : q < p => queue[q] = <<>>

Found(p) ==
    /\ request # Idle /\ Best(p)
    /\ answer' = Head(queue[p])
    /\ queue' = IF request.op = "pop" THEN [queue EXCEPT ![p] = Tail(@)] ELSE queue
    /\ request' = Idle

NotFound ==
    /\ request # Idle
    /\ \A p \in Levels : p < request.limit => queue[p] = <<>>
    /\ answer' = None
    /\ request' = Idle
    /\ UNCHANGED queue

Next == Edit \/ Ask \/ NotFound \/ \E p \in Levels : Found(p)

Spec == Init /\ [][Next]_abstractVars
=============================================================================
