------------------------------ MODULE SpscQueue ------------------------------
(***************************************************************************)
(* The queue between threads (common/threadsafe_queue.h): a linked list    *)
(* that ends in an empty node.  The writers fill that node, link a new one *)
(* behind it and only then count the element; the reader trusts the count. *)
(* MPSCQueue lets several writers in, one at a time, through a lock;       *)
(* SPSCQueue is the case of one writer.  A step is one access to memory    *)
(* that both sides share, or to a lock.                                    *)
(***************************************************************************)
EXTENDS Integers, Sequences

CONSTANTS
    Writers,
    MaxPushes   \* how often each writer pushes

Values == Writers \X (1 .. MaxPushes)
Empty == << >>      \* a node without an element
NoNode == 0
NoThread == "none"

ASSUME SpscAssumption == MaxPushes \in Nat /\ NoThread \notin Writers

VARIABLES
    current, next,          \* of the nodes, in the order they were allocated in
    write_ptr, read_ptr, size,
    deleted,                \* the nodes that have been freed
    write_lock, cv_mutex,   \* the thread that holds the lock
    writer,                 \* where each writer stands in Push
    pushes,                 \* how often it has pushed
    reader,                 \* where the reader stands in PopWait or Pop
    got                     \* what the reader has popped

list == <<current, next, write_ptr>>
writing == <<list, write_lock, writer, pushes>>
reading == <<read_ptr, deleted, reader, got>>
queueVars == <<writing, reading, size, cv_mutex>>

QueueInit ==
    /\ current = <<Empty>> /\ next = <<NoNode>>
    /\ write_ptr = 1 /\ read_ptr = 1 /\ size = 0 /\ deleted = {}
    /\ write_lock = NoThread /\ cv_mutex = NoThread
    /\ writer = [w \in Writers |-> "idle"] /\ pushes = [w \in Writers |-> 0]
    /\ reader = "idle" /\ got = << >>

GoTo(w, pc) == writer' = [writer EXCEPT ![w] = pc]
-----------------------------------------------------------------------------
(* Push *)

\* A mutant: a writer does not wait for the others.
Lock_Free(w) ==
    /\ writer[w] = "idle" /\ pushes[w] < MaxPushes
    /\ GoTo(w, "fill") /\ pushes' = [pushes EXCEPT ![w] = @ + 1]
    /\ UNCHANGED <<list, write_lock, size, cv_mutex, reading>>

Lock(w) ==
    /\ writer[w] = "idle" /\ pushes[w] < MaxPushes
    /\ write_lock = NoThread /\ write_lock' = w
    /\ GoTo(w, "fill") /\ pushes' = [pushes EXCEPT ![w] = @ + 1]
    /\ UNCHANGED <<list, size, cv_mutex, reading>>

Fill(w) ==
    /\ writer[w] = "fill" /\ GoTo(w, "link")
    /\ current' = [current EXCEPT ![write_ptr] = <<w, pushes[w]>>]
    /\ UNCHANGED <<next, write_ptr, write_lock, pushes, size, cv_mutex, reading>>

\* Only writers look at write_ptr, which moves on to the new node.
Link(w) ==
    /\ writer[w] = "link" /\ GoTo(w, "count")
    /\ next' = Append([next EXCEPT ![write_ptr] = Len(next) + 1], NoNode)
    /\ current' = Append(current, Empty)
    /\ write_ptr' = Len(next) + 1
    /\ UNCHANGED <<write_lock, pushes, size, cv_mutex, reading>>

\* A mutant: the writer does not pass through the reader's lock.
Count_NoFence(w) ==
    /\ writer[w] = "count"
    /\ size' = size + 1 /\ GoTo(w, "notify")
    /\ UNCHANGED <<list, write_lock, pushes, cv_mutex, reading>>

Count(w) ==
    /\ writer[w] = "count"
    /\ size' = size + 1 /\ GoTo(w, IF size = 0 THEN "fence" ELSE "notify")
    /\ UNCHANGED <<list, write_lock, pushes, cv_mutex, reading>>

\* The lock is taken and given back at once.
Fence(w) ==
    /\ writer[w] = "fence" /\ cv_mutex = NoThread
    /\ GoTo(w, "notify")
    /\ UNCHANGED <<list, write_lock, pushes, size, cv_mutex, reading>>

\* notify_one wakes the reader if it sleeps; then MPSCQueue::Push returns.
Notify(w) ==
    /\ writer[w] = "notify" /\ GoTo(w, "idle")
    /\ write_lock' = NoThread
    /\ reader' = IF reader = "asleep" THEN "awake" ELSE reader
    /\ UNCHANGED <<list, pushes, read_ptr, deleted, got, size, cv_mutex>>
-----------------------------------------------------------------------------
(* PopWait and Pop *)

PopWait ==
    /\ reader = "idle"
    /\ reader' = IF size = 0 THEN "lock" ELSE "pop"
    /\ UNCHANGED <<writing, read_ptr, deleted, got, size, cv_mutex>>

\* The reader takes the lock, at first or when it wakes.
TakeLock ==
    /\ reader \in {"lock", "awake"} /\ cv_mutex = NoThread
    /\ cv_mutex' = "reader" /\ reader' = "test"
    /\ UNCHANGED <<writing, read_ptr, deleted, got, size>>

\* With the lock held the reader looks at the size, which a writer may change
\* before the reader has gone to sleep.
Test ==
    /\ reader = "test"
    /\ reader' = IF size = 0 THEN "sleep" ELSE "pop"
    /\ cv_mutex' = IF size = 0 THEN cv_mutex ELSE NoThread
    /\ UNCHANGED <<writing, read_ptr, deleted, got, size>>

\* Going to sleep gives the lock back.
Sleep ==
    /\ reader = "sleep" /\ reader' = "asleep" /\ cv_mutex' = NoThread
    /\ UNCHANGED <<writing, read_ptr, deleted, got, size>>

WakeSpuriously ==
    /\ reader = "asleep" /\ reader' = "awake"
    /\ UNCHANGED <<writing, read_ptr, deleted, got, size, cv_mutex>>

\* Pop, called by itself or at the end of PopWait, returns when there is nothing;
\* otherwise it counts the element out.
PopCount ==
    /\ reader \in {"idle", "pop"}
    /\ IF size = 0 THEN reader' = "idle" /\ UNCHANGED size
                   ELSE reader' = "take" /\ size' = size - 1
    /\ UNCHANGED <<writing, read_ptr, deleted, got, cv_mutex>>

\* ... and takes it out with its node.
PopTake ==
    /\ reader = "take" /\ reader' = "idle"
    /\ read_ptr' = next[read_ptr]
    /\ got' = Append(got, current[read_ptr])
    /\ deleted' = deleted \union {read_ptr}
    /\ UNCHANGED <<writing, size, cv_mutex>>
-----------------------------------------------------------------------------
Push(w) == Lock(w) \/ Fill(w) \/ Link(w) \/ Count(w) \/ Fence(w) \/ Notify(w)
Read == PopWait \/ TakeLock \/ Test \/ Sleep \/ PopCount \/ PopTake

QueueNext == Read \/ WakeSpuriously \/ \E w \in Writers : Push(w)

\* Every thread goes on, and the reader comes back for more.
QueueSpec ==
    /\ QueueInit /\ [][QueueNext]_queueVars
    /\ WF_queueVars(Read) /\ \A w \in Writers : WF_queueVars(Push(w))

\* The node of the first element that still counts.
First == IF reader = "take" THEN read_ptr + 1 ELSE read_ptr

Channel == INSTANCE FifoChannel WITH
    queue <- [i \in 1 .. size |-> current[First + i - 1]],
    taken <- IF reader = "take" THEN Append(got, current[read_ptr]) ELSE got

\* However the steps of Push and Pop interleave, the queue is a first-in first-out
\* channel: an element is in when it is counted and out when it is counted out.
IsChannel == Channel!Spec

\* The reader takes an element only from a node that is filled and has a successor,
\* and never deletes the node at which the next Push will write.
TakesWhole ==
    /\ reader = "take" => current[read_ptr] # Empty /\ next[read_ptr] # NoNode
    /\ write_ptr \notin deleted /\ read_ptr \notin deleted

\* A reader that waits in PopWait is never left asleep: everything pushed is popped.
AllPopped == \A w \in Writers, k \in 1 .. MaxPushes :
    pushes[w] = k ~> \E i \in DOMAIN got : got[i] = <<w, k>>
=============================================================================
