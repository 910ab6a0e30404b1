--------------------------- MODULE ThreadQueueList ---------------------------
(***************************************************************************)
(* The ready queue of a core (common/thread_queue_list.h): one deque for   *)
(* each priority level, and a list of the levels that were ever used, in   *)
(* order, linked through next_nonempty.  The loops of get_first, pop_first *)
(* and pop_first_better follow the links one step at a time.               *)
(*                                                                         *)
(* The callers are those of core/hle/kernel/thread.cpp: a thread has a     *)
(* priority level, which is prepared when the thread is created or changes *)
(* its priority, and is pushed only at that level and when it is in no     *)
(* queue (ReadyQueueOK of Kernel).  So remove, which erases every copy of  *)
(* a thread, erases the first one.                                         *)
(***************************************************************************)
EXTENDS Lists

CONSTANTS
    Threads, NumQueues,
    None,          \* no thread, and no level for a thread that does not exist
    Idle,          \* no loop is running
    Null,          \* the pointer nullptr
    UnlinkedTag    \* the pointer that marks a level never used

Levels == 0 .. NumQueues - 1

ASSUME QueueAssumption ==
    /\ NumQueues \in Nat \ {0}
    /\ Null \notin Int /\ UnlinkedTag \notin Int /\ Null # UnlinkedTag
    /\ None \notin Threads /\ None \notin Int
    /\ Idle \notin [op : {"pop", "get"}, limit : 0 .. NumQueues]

VARIABLES
    first, next_nonempty, data,   \* ThreadQueueList
    request, cur,                 \* the loop that runs, and its pointer
    answer,                       \* what the last loop returned
    level                         \* current_priority of each thread

queueVars == <<first, next_nonempty, data>>
loopVars  == <<request, cur, answer>>
vars == <<queueVars, loopVars, level>>

Linked(p) == next_nonempty[p] # UnlinkedTag

Queued(t) == level[t] \in Levels /\ t \in Range(data[level[t]])
-----------------------------------------------------------------------------
\* A mutant: the two assignments of link are swapped.
Link_Swapped(p) ==
    LET before == {i \in Levels : i < p /\ Linked(i)} IN
    IF before # {}
    THEN /\ next_nonempty' = [next_nonempty EXCEPT ![Max(before)] = p, ![p] = p]
         /\ UNCHANGED first
    ELSE /\ next_nonempty' = [next_nonempty EXCEPT ![p] = first]
         /\ first' = p

\* ThreadQueueList::link
Link(p) ==
    LET before == {i \in Levels : i < p /\ Linked(i)} IN
    IF before # {}
    THEN /\ next_nonempty' = [next_nonempty EXCEPT ![p] = next_nonempty[Max(before)],
                                                   ![Max(before)] = p]
         /\ UNCHANGED first
    ELSE /\ next_nonempty' = [next_nonempty EXCEPT ![p] = first]
         /\ first' = p

\* ThreadQueueList::prepare
Prepare(p) == IF Linked(p) THEN UNCHANGED <<first, next_nonempty>> ELSE Link(p)
-----------------------------------------------------------------------------
(* The callers.                                                            *)

\* A mutant: the level is not prepared.
CreateThread_NoPrepare(t, p) ==
    /\ request = Idle /\ level[t] = None
    /\ data' = [data EXCEPT ![p] = Append(@, t)]
    /\ level' = [level EXCEPT ![t] = p]
    /\ UNCHANGED <<first, next_nonempty, loopVars>>

\* KernelSystem::CreateThread: prepare and push_back
CreateThread(t, p) ==
    /\ request = Idle /\ level[t] = None
    /\ Prepare(p)
    /\ data' = [data EXCEPT ![p] = Append(@, t)]
    /\ level' = [level EXCEPT ![t] = p]
    /\ UNCHANGED loopVars

\* Thread::SetPriority and Thread::BoostPriority: move or prepare
BoostPriority(t, p) ==
    /\ request = Idle /\ level[t] # None
    /\ data' = IF Queued(t)
               THEN LET d == [data EXCEPT ![level[t]] = RemoveFirst(@, t)]
                    IN  [d EXCEPT ![p] = Append(@, t)]
               ELSE data
    /\ Prepare(p)
    /\ level' = [level EXCEPT ![t] = p]
    /\ UNCHANGED loopVars

\* Thread::ResumeFromWait and the end of PopNextReadyThread: push_back
PushBack(t) ==
    /\ request = Idle /\ level[t] # None /\ ~Queued(t)
    /\ data' = [data EXCEPT ![level[t]] = Append(@, t)]
    /\ UNCHANGED <<first, next_nonempty, loopVars, level>>

\* ThreadManager::SwitchContext: push_front of the thread that yields
PushFront(t) ==
    /\ request = Idle /\ level[t] # None /\ ~Queued(t)
    /\ data' = [data EXCEPT ![level[t]] = <<t>> \o @]
    /\ UNCHANGED <<first, next_nonempty, loopVars, level>>

\* Thread::Stop: remove, if the thread is ready
Stop(t) ==
    /\ request = Idle /\ level[t] # None
    /\ data' = IF Queued(t) THEN [data EXCEPT ![level[t]] = RemoveFirst(@, t)] ELSE data
    /\ level' = [level EXCEPT ![t] = None]
    /\ UNCHANGED <<first, next_nonempty, loopVars>>

\* ThreadQueueList::rotate; nothing calls it.
Rotate(p) ==
    /\ request = Idle /\ Len(data[p]) > 1
    /\ data' = [data EXCEPT ![p] = Append(Tail(@), Head(@))]
    /\ UNCHANGED <<first, next_nonempty, loopVars, level>>

\* ThreadQueueList::clear; nothing calls it.
Clear ==
    /\ request = Idle
    /\ first' = Null
    /\ next_nonempty' = [p \in Levels |-> UnlinkedTag]
    /\ data' = [p \in Levels |-> <<>>]
    /\ level' = [t \in Threads |-> None]
    /\ UNCHANGED loopVars

ToIndex(q) == CASE q = Null -> -2 [] q = UnlinkedTag -> -1 [] OTHER -> q

ToPointer(idx) == CASE idx = -1 -> UnlinkedTag [] idx < -1 -> Null [] OTHER -> idx

\* save followed by load: a save state that is made and loaded at once
SaveLoad ==
    /\ request = Idle
    /\ first' = ToPointer(ToIndex(first))
    /\ next_nonempty' = [p \in Levels |-> ToPointer(ToIndex(next_nonempty[p]))]
    /\ UNCHANGED <<data, loopVars, level>>
-----------------------------------------------------------------------------
(* The loops.                                                              *)
Ask(op, limit) ==
    /\ request = Idle
    /\ request' = [op |-> op, limit |-> limit]
    /\ cur' = first
    /\ UNCHANGED <<queueVars, answer, level>>

GetFirst == Ask("get", NumQueues)
PopFirst == Ask("pop", NumQueues)

\* pop_first_better is given the level of the thread that runs.
PopFirstBetter(t) == level[t] # None /\ ~Queued(t) /\ Ask("pop", level[t])

\* The condition of the loop: cur != nullptr in get_first and pop_first,
\* cur < stop in pop_first_better, which both special pointers satisfy.
Continues ==
    IF request.limit = NumQueues THEN cur # Null
    ELSE cur \in {Null, UnlinkedTag} \/ cur < request.limit

Walking == request # Idle /\ Continues

LoopFound ==
    /\ Walking /\ cur \in Levels /\ data[cur] # <<>>
    /\ answer' = Head(data[cur])
    /\ data' = IF request.op = "pop" THEN [data EXCEPT ![cur] = Tail(@)] ELSE data
    /\ request' = Idle
    /\ cur' = Null
    /\ UNCHANGED <<first, next_nonempty, level>>

LoopNext ==
    /\ Walking /\ cur \in Levels /\ data[cur] = <<>>
    /\ cur' = next_nonempty[cur]
    /\ UNCHANGED <<queueVars, request, answer, level>>

LoopEnd ==
    /\ request # Idle /\ ~Continues
    /\ answer' = None
    /\ request' = Idle
    /\ cur' = Null
    /\ UNCHANGED <<queueVars, level>>

Loop == LoopFound \/ LoopNext \/ LoopEnd
-----------------------------------------------------------------------------
Init ==
    /\ first = Null
    /\ next_nonempty = [p \in Levels |-> UnlinkedTag]
    /\ data = [p \in Levels |-> <<>>]
    /\ request = Idle
    /\ cur = Null
    /\ answer = None
    /\ level = [t \in Threads |-> None]

Next ==
    \/ \E t \in Threads, p \in Levels : CreateThread(t, p) \/ BoostPriority(t, p)
    \/ \E t \in Threads : PushBack(t) \/ PushFront(t) \/ Stop(t) \/ PopFirstBetter(t)
    \/ \E p \in Levels : Rotate(p)
    \/ Clear \/ SaveLoad
    \/ GetFirst \/ PopFirst
    \/ Loop

Spec == Init /\ [][Next]_vars

\* A loop that runs goes on: it runs on the one host thread.
FairSpec == Spec /\ WF_vars(Loop)
-----------------------------------------------------------------------------
Pointers == Levels \cup {Null, UnlinkedTag}
Requests == [op : {"pop", "get"}, limit : 0 .. NumQueues]

(* The fields keep their ranges.                                           *)
TypeOK ==
    /\ first \in Pointers
    /\ next_nonempty \in [Levels -> Pointers]
    /\ data \in [Levels -> Seq(Threads)]
    /\ request \in Requests \cup {Idle}
    /\ cur \in Pointers
    /\ answer \in Threads \cup {None}
    /\ level \in [Threads -> Levels \cup {None}]

(* The links lead from first through exactly the levels that were used, in *)
(* order, whatever order the levels were first used in: a link never skips *)
(* a used level or leads to an unused one, and a level that has a thread   *)
(* or is the priority of one is linked.                                    *)
LinksOK ==
    /\ first # UnlinkedTag
    /\ first # Null => Linked(first)
    /\ \A p \in Levels : Linked(p) => first # Null /\ first <= p
    /\ \A p \in Levels : next_nonempty[p] \in Levels =>
          p < next_nonempty[p] /\ Linked(next_nonempty[p])
    /\ \A p, q \in Levels : Linked(p) /\ Linked(q) /\ p < q =>
          next_nonempty[p] # Null /\ next_nonempty[p] <= q
    /\ \A p \in Levels : data[p] # <<>> => Linked(p)
    /\ \A t \in Threads : level[t] # None => Linked(level[t])

(* The loops never follow nullptr or UnlinkedTag: pop_first_better has no  *)
(* test for the end of the list ("cur < stop" holds of nullptr), so it     *)
(* relies on the level of the running thread to be linked.                 *)
NoBadPointer == Walking => cur \in Levels

(* While a loop runs, the levels before the one it looks at are empty, and *)
(* pop_first_better does not get past the level it was given.              *)
LoopOK ==
    request # Idle =>
        /\ cur # UnlinkedTag
        /\ cur = Null => \A p \in Levels : data[p] = <<>>
        /\ cur \in Levels => Linked(cur) /\ \A p \in Levels : p < cur => data[p] = <<>>
        /\ request.limit < NumQueues =>
              Linked(request.limit) /\ cur \in Levels /\ cur <= request.limit

(* The linked structure is a priority queue: get_first, pop_first and      *)
(* pop_first_better return the first thread of the best level.             *)
PQ == INSTANCE PriorityQueue WITH queue <- data

IsPriorityQueue == PQ!Spec

(* The loops end: the links have no cycle.                                 *)
LoopsEnd == request # Idle ~> request = Idle
=============================================================================
