--------------------------- MODULE AddressArbiter ---------------------------
(***************************************************************************)
(* The address arbiter (core/hle/kernel/address_arbiter.cpp): threads wait *)
(* for an address until another thread signals it or their time is over.   *)
(*                                                                         *)
(* A system call is one step.  Which ready thread runs next is left open:  *)
(* Kernel models the scheduler.  A thread in WaitArb is never stopped,     *)
(* because ExitProcess asserts that it meets none.                         *)
(***************************************************************************)
EXTENDS Lists

CONSTANTS
    Threads,
    Addresses,
    Priorities,
    Stores,      \* bound: the values the program writes
    Values,      \* bound: the values it compares with
    MinValue     \* bound: no decrement goes below it

Null == "null"
Statuses == {"Running", "Ready", "WaitArb"}

ArbiterAssumption ==
    /\ IsFiniteSet(Threads) /\ Null \notin Addresses
    /\ Priorities \subseteq Nat
    /\ Stores \subseteq Int /\ Values \subseteq Int
    /\ MinValue \in Int /\ \A v \in Stores : MinValue <= v

VARIABLES
    waiting_threads,
    status, wait_address, current_priority,
    wakeup_callback,   \* the threads whose callback is the arbiter's
    wakeups,           \* the threads whose ThreadWakeupEvent is scheduled
    memory,
    arrivals           \* history: the waiting threads in the order they came

threadVars == <<status, wait_address, current_priority, wakeup_callback, wakeups>>
vars == <<waiting_threads, threadVars, memory, arrivals>>

At(list, a) == SelectSeq(list, LAMBDA t : wait_address[t] = a)
NotAt(list, a) == SelectSeq(list, LAMBDA t : wait_address[t] # a)
Leave(list, gone) == SelectSeq(list, LAMBDA t : t \notin gone)
-----------------------------------------------------------------------------
\* WaitThread, after WakeAfterDelay when the wait has an end.  The callback
\* is set for every timed wait, the event only for one that is not endless.
WaitThread(t, a, timed, endless) ==
    /\ status' = [status EXCEPT ![t] = "WaitArb"]
    /\ wait_address' = [wait_address EXCEPT ![t] = a]
    /\ waiting_threads' = Append(waiting_threads, t)
    /\ arrivals' = Append(arrivals, t)
    /\ wakeup_callback' = IF timed THEN wakeup_callback \cup {t} ELSE wakeup_callback
    /\ wakeups' = IF timed /\ ~endless THEN wakeups \cup {t} ELSE wakeups
    /\ UNCHANGED current_priority

\* Thread::ResumeFromWait of the threads that are not in the new list.
ResumeThreads(list) ==
    LET woken == Range(waiting_threads) \ Range(list) IN
    /\ status' = [t \in Threads |-> IF t \in woken THEN "Ready" ELSE status[t]]
    /\ waiting_threads' = list
    /\ arrivals' = Leave(arrivals, woken)
    /\ wakeup_callback' = wakeup_callback \ woken
    /\ UNCHANGED <<wait_address, current_priority, wakeups, memory>>

\* A mutant: among equals the last one is picked.
ResumeHighestPriorityThread_Last(list, a) ==
    LET match == At(list, a)
        best  == CHOOSE i \in DOMAIN match : \A j \in DOMAIN match :
                    \/ current_priority[match[i]] < current_priority[match[j]]
                    \/ current_priority[match[i]] = current_priority[match[j]] /\ i >= j
    IN  NotAt(list, a) \o IF match = <<>> THEN match ELSE RemoveAt(match, best)

\* The list after ResumeHighestPriorityThread: the partition moves the threads
\* at the address to the end, min_element picks the first of the best.
ResumeHighestPriorityThread(list, a) ==
    LET match == At(list, a)
        best  == CHOOSE i \in DOMAIN match : \A j \in DOMAIN match :
                    \/ current_priority[match[i]] < current_priority[match[j]]
                    \/ current_priority[match[i]] = current_priority[match[j]] /\ i <= j
    IN  NotAt(list, a) \o IF match = <<>> THEN match ELSE RemoveAt(match, best)
-----------------------------------------------------------------------------
(* ArbitrateAddress, called by a running thread                            *)
SignalAll(t, a) ==
    /\ status[t] = "Running"
    /\ ResumeThreads(NotAt(waiting_threads, a))

SignalSome(t, a, n) ==
    LET after[i \in 0 .. n] == IF i = 0 THEN waiting_threads
                               ELSE ResumeHighestPriorityThread(after[i - 1], a)
    IN  /\ status[t] = "Running"
        /\ \E list \in {after[n]} : ResumeThreads(list)

\* WaitIfLessThan, WaitIfLessThanWithTimeout
WaitIfLessThan(t, a, v, timed, endless) ==
    /\ status[t] = "Running" /\ memory[a] < v
    /\ WaitThread(t, a, timed, endless)
    /\ UNCHANGED memory

\* DecrementAndWaitIfLessThan, DecrementAndWaitIfLessThanWithTimeout
DecrementAndWaitIfLessThan(t, a, v, timed, endless) ==
    /\ status[t] = "Running" /\ memory[a] < v /\ memory[a] > MinValue
    /\ memory' = [memory EXCEPT ![a] = @ - 1]
    /\ WaitThread(t, a, timed, endless)

\* A mutant: the thread stays listed.
ThreadWakeupCallback_KeepList(t) ==
    /\ t \in wakeups
    /\ wakeups' = wakeups \ {t}
    /\ wakeup_callback' = wakeup_callback \ {t}
    /\ status' = [status EXCEPT ![t] = "Ready"]
    /\ arrivals' = Leave(arrivals, {t})
    /\ UNCHANGED <<waiting_threads, wait_address, current_priority, memory>>

\* ThreadManager::ThreadWakeupCallback with AddressArbiter::WakeUp.  A thread
\* that was signalled before its event fires is ready already.
ThreadWakeupCallback(t) ==
    /\ t \in wakeups
    /\ wakeups' = wakeups \ {t}
    /\ \/ /\ status[t] = "WaitArb"
          /\ waiting_threads' = IF t \in wakeup_callback THEN Leave(waiting_threads, {t})
                                ELSE waiting_threads
          /\ wakeup_callback' = wakeup_callback \ {t}
          /\ status' = [status EXCEPT ![t] = "Ready"]
          /\ arrivals' = Leave(arrivals, {t})
       \/ /\ status[t] # "WaitArb"
          /\ UNCHANGED <<waiting_threads, wakeup_callback, status, arrivals>>
    /\ UNCHANGED <<wait_address, current_priority, memory>>

\* ThreadManager::SwitchContext, to a thread and away from one
SwitchContext(t) ==
    /\ status[t] = "Ready"
    /\ wakeups' = wakeups \ {t}
    /\ status' = [status EXCEPT ![t] = "Running"]
    /\ UNCHANGED <<waiting_threads, wait_address, current_priority, wakeup_callback, memory,
                   arrivals>>

Preempt(t) ==
    /\ status[t] = "Running"
    /\ status' = [status EXCEPT ![t] = "Ready"]
    /\ UNCHANGED <<waiting_threads, wait_address, current_priority, wakeup_callback, wakeups,
                   memory, arrivals>>

\* What else a running thread does: SetThreadPriority, a store to the address
SetPriority(t, u, p) ==
    /\ status[t] = "Running"
    /\ current_priority' = [current_priority EXCEPT ![u] = p]
    /\ UNCHANGED <<waiting_threads, status, wait_address, wakeup_callback, wakeups, memory,
                   arrivals>>

Write32(t, a, v) ==
    /\ status[t] = "Running"
    /\ memory' = [memory EXCEPT ![a] = v]
    /\ UNCHANGED <<waiting_threads, threadVars, arrivals>>

Init ==
    /\ waiting_threads = <<>> /\ arrivals = <<>>
    /\ status = [t \in Threads |-> "Ready"]
    /\ wait_address = [t \in Threads |-> Null]
    /\ current_priority \in [Threads -> Priorities]
    /\ wakeup_callback = {} /\ wakeups = {}
    /\ memory \in [Addresses -> Stores]

Next ==
    \E t \in Threads :
        \/ SwitchContext(t) \/ Preempt(t) \/ ThreadWakeupCallback(t)
        \/ \E u \in Threads, p \in Priorities : SetPriority(t, u, p)
        \/ \E a \in Addresses :
              \/ SignalAll(t, a)
              \/ \E n \in 0 .. 2 : SignalSome(t, a, n)
              \/ \E v \in Stores : Write32(t, a, v)
              \/ \E v \in Values, timed \in BOOLEAN, endless \in BOOLEAN :
                    \/ WaitIfLessThan(t, a, v, timed, endless)
                    \/ DecrementAndWaitIfLessThan(t, a, v, timed, endless)

Spec == Init /\ [][Next]_vars
-----------------------------------------------------------------------------
(* "Inconsistent AddressArbiter state" never happens: the list holds every *)
(* thread that waits in WaitArb, once, and no other, however signals and   *)
(* timeouts race.                                                          *)
ArbiterConsistent ==
    /\ Range(waiting_threads) = {t \in Threads : status[t] = "WaitArb"}
    /\ Len(waiting_threads) = Cardinality(Range(waiting_threads))

(* A wakeup event never outlives the wait it was scheduled for: a thread   *)
(* that waits again, without a timeout, is not ended by an old one, and    *)
(* every event that finds its thread in WaitArb finds the callback that    *)
(* takes it off the list.                                                  *)
NoStaleTimeout ==
    \A t \in wakeups : \/ status[t] = "WaitArb" /\ t \in wakeup_callback
                       \/ status[t] = "Ready"

(* The assertion of ResumeFromWait: a thread that is not waiting has no    *)
(* callback any more.                                                      *)
CallbackCleared == \A t \in wakeup_callback : status[t] = "WaitArb"

(* A signal for some threads resumes the ones with the best priority, and  *)
(* among equals those that came first, although every search reorders the  *)
(* list and priorities change while threads wait.                          *)
Position(t) == CHOOSE i \in DOMAIN arrivals : arrivals[i] = t
SignalWakesBest ==
    [][wakeups' = wakeups =>
          \A r, u \in Range(waiting_threads) :
             /\ status'[r] = "Ready" /\ status'[u] = "WaitArb"
             /\ wait_address[r] = wait_address[u]
             => \/ current_priority[r] < current_priority[u]
                \/ current_priority[r] = current_priority[u] /\ Position(r) < Position(u)]_vars

=============================================================================
