---------------------------- MODULE MCCoreTiming ----------------------------
(***************************************************************************)
(* Time and what waits for it, on small instances: the clocks and events   *)
(* of the cores, with the constants of the configuration, and the address  *)
(* arbiter, whose waits an event can end.  They share no state here, so a  *)
(* behaviour runs one of the two.                                          *)
(***************************************************************************)
EXTENDS CoreTiming
CONSTANTS once, timer

Every2 == [t \in Timers |-> 2]

VARIABLES
    part,
    waiting_threads, status, wait_address, current_priority, wakeup_callback, wakeups,
    memory, arrivals                            \* AddressArbiter

arbiterVars == <<waiting_threads, status, wait_address, current_priority, wakeup_callback,
                 wakeups, memory, arrivals>>

\* Three threads that wait for two addresses
Arbiter == INSTANCE AddressArbiter WITH
               Threads <- {"t1", "t2", "t3"}, Addresses <- {"a", "b"}, Priorities <- {1, 2},
               Stores <- {1}, Values <- {1, 2}, MinValue <- 0

ASSUME InstanceOK == Arbiter!ArbiterAssumption

MCInit ==
    /\ part \in {"clocks", "arbiter"} /\ Init /\ Arbiter!Init
    /\ part = "clocks" => \A t \in DOMAIN current_priority : current_priority[t] = 1

\* When every thread waits for an address the cores idle.
MCNext ==
    \/ part = "clocks" /\ Next /\ UNCHANGED <<part, arbiterVars>>
    \/ part = "arbiter" /\ Arbiter!Next /\ UNCHANGED <<part, vars>>
    \/ part = "arbiter" /\ UNCHANGED <<part, vars, arbiterVars>>

MCSpec == MCInit /\ [][MCNext]_<<part, vars, arbiterVars>>
-----------------------------------------------------------------------------
\* The arbiter's list holds the threads that wait, once each; a callback of the
\* arbiter and a wakeup event do not outlive the wait they were set for.
ArbiterConsistent ==
    Arbiter!ArbiterConsistent /\ Arbiter!CallbackCleared /\ Arbiter!NoStaleTimeout

\* A signal resumes the best of the threads at the address.
SignalWakesBest == Arbiter!SignalWakesBest
=============================================================================
