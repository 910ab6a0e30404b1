----------------------------- MODULE CoreTiming -----------------------------
(***************************************************************************)
(* The clocks of the emulated cores (core/core_timing.cpp), driven by      *)
(* System::RunLoop (core/core.cpp), and the kernel timers that reschedule  *)
(* themselves (core/hle/kernel/timer.cpp).                                 *)
(*                                                                         *)
(* An iteration of RunLoop goes over the cores that are late and gives     *)
(* each a slice; then the latest of them runs alone or, if no core is far  *)
(* behind, all cores advance and run in turn.  op is what RunLoop does     *)
(* next, on the core cpu, and phase the loop it is in.                     *)
(***************************************************************************)
EXTENDS Integers, Sequences, FiniteSetsExt

CONSTANTS
    NumCores,
    MAX_SLICE_LENGTH,
    MinDelay,    \* min_delay of RunLoop: smaller differences are not made up
    Overshoot,   \* bound: how far a core runs past the end of its slice
    Plain,       \* the events that fire once
    Timers,      \* the kernel timers
    Interval,    \* the interval of each timer in ticks, 0 for none
    Delays,      \* bound: the delays given to ScheduleEvent and Timer::Set
    MaxTicks,    \* bound: when the cores stop counting
    MaxEvents    \* bound: how many events are scheduled

Cores == 0 .. NumCores - 1
Ids   == Plain \cup Timers

ASSUME TimingAssumption ==
    /\ NumCores \in Nat \ {0}
    /\ MAX_SLICE_LENGTH \in Nat \ {0}
    /\ MinDelay \in Nat /\ Overshoot \in Nat
    /\ Plain \cap Timers = {}
    /\ Interval \in [Timers -> Nat]
    /\ Delays \subseteq Nat
    /\ MaxTicks \in Nat /\ MaxEvents \in Nat

VARIABLES
    \* Timing::Timer, for each core
    event_queue, ts_queue, event_fifo_id, is_timer_sane, slice_length, downcount,
    executed_ticks,
    \* RunLoop
    op, phase, cpu,
    global_ticks, delay, max_delay, slowest,    \* 0 outside the loop over the late cores
    max_slice, start_ticks,
    \* history: events scheduled so far; when a timer was first to expire
    born, anchor

timerVars == <<event_queue, ts_queue, event_fifo_id, is_timer_sane, slice_length, downcount,
               executed_ticks>>
lateVars == <<global_ticks, delay, max_delay, slowest>>
loopVars == <<op, phase, cpu, lateVars, max_slice, start_ticks>>
vars == <<timerVars, loopVars, born, anchor>>

Event(time, fifo, id, n, remote) ==
    [time |-> time, fifo |-> fifo, id |-> id, born |-> n, remote |-> remote]
-----------------------------------------------------------------------------
\* Timer::GetTicks
GetTicks(c) == executed_ticks[c] + IF is_timer_sane[c] THEN 0 ELSE slice_length[c] - downcount[c]

\* Timing::GetGlobalTicks
GetGlobalTicks == Max({GetTicks(c) : c \in Cores})

\* Event::operator>: the events that nothing else precedes.
Earliest(q) == {e \in q : \A f \in q : e.time < f.time \/ (e.time = f.time /\ e.fifo <= f.fifo)}
NextTime(q) == Min({e.time : e \in q})

\* A mutant: the ticks that the slice loses count as executed.
ForceExceptionCheck_KeepSlice(c, cycles) ==
    /\ downcount' = [downcount EXCEPT ![c] = Min({@, Max({0, cycles})})]
    /\ UNCHANGED slice_length

\* Timer::ForceExceptionCheck
ForceExceptionCheck(c, cycles) ==
    LET lost == Max({0, downcount[c] - Max({0, cycles})})
    IN  /\ slice_length' = [slice_length EXCEPT ![c] = @ - lost]
        /\ downcount' = [downcount EXCEPT ![c] = @ - lost]

\* A mutant: the slice is not cut short.
Enqueue_KeepSlice(c, queues, cycles, id) ==
    /\ event_queue' = [queues EXCEPT ![c] =
           @ \cup {Event(GetTicks(c) + cycles, event_fifo_id[c], id, born, FALSE)}]
    /\ event_fifo_id' = [event_fifo_id EXCEPT ![c] = @ + 1]
    /\ born' = born + 1
    /\ UNCHANGED <<slice_length, downcount>>

\* Timing::ScheduleEvent on the current timer.
Enqueue(c, queues, cycles, id) ==
    /\ event_queue' = [queues EXCEPT ![c] =
           @ \cup {Event(GetTicks(c) + cycles, event_fifo_id[c], id, born, FALSE)}]
    /\ event_fifo_id' = [event_fifo_id EXCEPT ![c] = @ + 1]
    /\ born' = born + 1
    /\ IF is_timer_sane[c] THEN UNCHANGED <<slice_length, downcount>>
       ELSE ForceExceptionCheck(c, cycles)

ScheduleEvent(id, cycles) ==
    /\ op = "run" /\ born < MaxEvents
    /\ Enqueue(cpu, event_queue, cycles, id)
    /\ UNCHANGED <<ts_queue, is_timer_sane, executed_ticks, loopVars, anchor>>

\* Timing::ScheduleEvent with the number of another core
ScheduleRemote(id, cycles, c) ==
    /\ op = "run" /\ c # cpu /\ born < MaxEvents
    /\ ts_queue' = [ts_queue EXCEPT ![c] =
           Append(@, Event(GetTicks(c) + cycles, 0, id, born, TRUE))]
    /\ born' = born + 1
    /\ UNCHANGED <<event_queue, event_fifo_id, is_timer_sane, slice_length, downcount,
                   executed_ticks, loopVars, anchor>>

\* Timing::UnscheduleEvent leaves ts_queue alone.
Without(id) == [c \in Cores |-> {e \in event_queue[c] : e.id # id}]

UnscheduleEvent(id) ==
    /\ op = "run"
    /\ event_queue' = Without(id)
    /\ UNCHANGED <<ts_queue, event_fifo_id, is_timer_sane, slice_length, downcount,
                   executed_ticks, loopVars, born, anchor>>

\* Timer::Set.  Without an initial delay the timer signals at once: initial is
\* then its interval.
TimerSet(t, initial) ==
    /\ op = "run" /\ born < MaxEvents
    /\ Enqueue(cpu, Without(t), initial, t)
    /\ anchor' = [anchor EXCEPT ![t] = GetTicks(cpu) + initial]
    /\ UNCHANGED <<ts_queue, is_timer_sane, executed_ticks, loopVars>>
-----------------------------------------------------------------------------
(* Timer::Advance: the events of other threads, the clock, then one step   *)
(* for each event that is due.                                             *)
MoveEvents(c) ==
    /\ event_queue' = [event_queue EXCEPT ![c] = @ \cup
           {[ts_queue[c][i] EXCEPT !.fifo = event_fifo_id[c] + i - 1] : i \in DOMAIN ts_queue[c]}]
    /\ event_fifo_id' = [event_fifo_id EXCEPT ![c] = @ + Len(ts_queue[c])]
    /\ ts_queue' = [ts_queue EXCEPT ![c] = <<>>]

Advance ==
    /\ op = "advance"
    /\ MoveEvents(cpu)
    /\ executed_ticks' = [executed_ticks EXCEPT ![cpu] =
                              @ + slice_length[cpu] - downcount[cpu]]
    /\ slice_length' = [slice_length EXCEPT ![cpu] = 0]
    /\ downcount' = [downcount EXCEPT ![cpu] = 0]
    /\ is_timer_sane' = [is_timer_sane EXCEPT ![cpu] = TRUE]
    /\ op' = "fire"
    /\ UNCHANGED <<phase, cpu, lateVars, max_slice, start_ticks, born, anchor>>

\* A mutant: a late timer starts its interval anew.
Rearm_Drift(c, queues, e) == Enqueue(c, queues, Interval[e.id], e.id)

Due(c) == {e \in Earliest(event_queue[c]) : e.time <= executed_ticks[c]}

\* Timer::Signal schedules the next expiry, interval_delay - cycles_late ahead.
Rearm(c, queues, e) ==
    Enqueue(c, queues, Interval[e.id] - (executed_ticks[c] - e.time), e.id)

Recurs(id) == id \in Timers /\ Interval[id] # 0

FireEvent ==
    /\ op = "fire"
    /\ \E e \in Due(cpu) :
          LET rest == [event_queue EXCEPT ![cpu] = @ \ {e}] IN
          \/ Recurs(e.id) /\ born < MaxEvents /\ Rearm(cpu, rest, e)
          \/ /\ ~Recurs(e.id) \/ born = MaxEvents
             /\ event_queue' = rest
             /\ UNCHANGED <<event_fifo_id, slice_length, downcount, born>>
    /\ UNCHANGED <<ts_queue, is_timer_sane, executed_ticks, loopVars, anchor>>

AdvanceDone ==
    /\ op = "fire" /\ Due(cpu) = {}
    /\ is_timer_sane' = [is_timer_sane EXCEPT ![cpu] = FALSE]
    /\ op' = IF phase = "late" THEN "limit" ELSE "max"
    /\ UNCHANGED <<event_queue, ts_queue, event_fifo_id, slice_length, downcount,
                   executed_ticks, phase, cpu, lateVars, max_slice, start_ticks, born, anchor>>

\* Timer::SetNextSlice
SetNextSlice(c, max) ==
    LET length == IF event_queue[c] = {} THEN max
                  ELSE Min({max, NextTime(event_queue[c]) - executed_ticks[c]})
    IN  /\ slice_length' = [slice_length EXCEPT ![c] = length]
        /\ downcount' = [downcount EXCEPT ![c] = length]
-----------------------------------------------------------------------------
(* System::RunLoop                                                         *)

\* A mutant: the cores that are behind never catch up.
CatchUp_Never(max) == FALSE

CatchUp(max) == max > MinDelay

\* The loop over the late cores goes on at core c, or ends: the slowest core is
\* far behind and runs alone, or all cores advance.
Visit(c, global, max, slow) ==
    LET late == {d \in Cores : d >= c /\ GetTicks(d) < global} IN
    \/ /\ late # {}
       /\ op' = "advance" /\ phase' = "late" /\ cpu' = Min(late)
       /\ global_ticks' = global /\ delay' = global - GetTicks(Min(late))
       /\ max_delay' = max /\ slowest' = slow
       /\ UNCHANGED max_slice
    \/ /\ late = {} /\ CatchUp(max)
       /\ op' = "run" /\ phase' = "alone" /\ cpu' = slow
       /\ global_ticks' = 0 /\ delay' = 0 /\ max_delay' = 0 /\ slowest' = 0
       /\ UNCHANGED max_slice
    \/ /\ late = {} /\ ~CatchUp(max)
       /\ op' = "advance" /\ phase' = "all" /\ cpu' = 0
       /\ global_ticks' = 0 /\ delay' = 0 /\ max_delay' = 0 /\ slowest' = 0
       /\ max_slice' = MAX_SLICE_LENGTH

BeginIteration ==
    /\ op = "begin"
    /\ Visit(0, GetGlobalTicks, 0, 0)
    /\ UNCHANGED <<timerVars, start_ticks, born, anchor>>

\* The slice of a late core is what it is behind.
LimitSlice ==
    /\ op = "limit"
    /\ SetNextSlice(cpu, delay)
    /\ Visit(cpu + 1, global_ticks, Max({max_delay, delay}),
             IF max_delay < delay THEN cpu ELSE slowest)
    /\ UNCHANGED <<event_queue, ts_queue, event_fifo_id, is_timer_sane, executed_ticks,
                   start_ticks, born, anchor>>

\* The next core in a loop over all of them, or what follows the loop
NextCore(again, after) ==
    IF cpu + 1 \in Cores THEN op' = again /\ cpu' = cpu + 1 ELSE op' = after /\ cpu' = 0

\* The slice is the least of the GetMaxSliceLength of all cores.
MaxSlice ==
    /\ op = "max"
    /\ max_slice' = Min({max_slice} \cup {e.time - executed_ticks[cpu] : e \in event_queue[cpu]})
    /\ NextCore("advance", "slice")
    /\ UNCHANGED <<timerVars, phase, lateVars, start_ticks, born, anchor>>

StartSlice ==
    /\ op = "slice"
    /\ SetNextSlice(cpu, max_slice)
    /\ op' = "run"
    /\ UNCHANGED <<event_queue, ts_queue, event_fifo_id, is_timer_sane, executed_ticks,
                   phase, cpu, lateVars, max_slice, born, anchor>>
    /\ start_ticks' = GetTicks(cpu)'

\* The core executes instructions (AddTicks)
Execute ==
    /\ op = "run" /\ downcount[cpu] > 0
    /\ \E n \in 1 .. downcount[cpu] + Overshoot :
          /\ GetTicks(cpu) + n <= MaxTicks
          /\ downcount' = [downcount EXCEPT ![cpu] = @ - n]
    /\ UNCHANGED <<event_queue, ts_queue, event_fifo_id, is_timer_sane, slice_length,
                   executed_ticks, loopVars, born, anchor>>

\* What a core has executed is the slice of those after it.
RunDone(ticks) ==
    /\ \/ /\ phase = "all" /\ NextCore("slice", "begin")
          /\ max_slice' = ticks - start_ticks
       \/ /\ phase = "alone" /\ op' = "begin" /\ cpu' = 0
          /\ UNCHANGED max_slice
    /\ UNCHANGED <<phase, lateVars, start_ticks, born, anchor>>

\* The end of a slice, an early one if the core was told to reschedule.
EndRun ==
    /\ op = "run"
    /\ RunDone(GetTicks(cpu))
    /\ UNCHANGED timerVars

\* A core without a thread idles to the end of its slice.
Idle ==
    /\ op = "run" /\ downcount[cpu] = slice_length[cpu]
    /\ GetTicks(cpu) + downcount[cpu] <= MaxTicks
    /\ downcount' = [downcount EXCEPT ![cpu] = 0]
    /\ RunDone(GetTicks(cpu) + downcount[cpu])
    /\ UNCHANGED <<event_queue, ts_queue, event_fifo_id, is_timer_sane, slice_length,
                   executed_ticks>>

Init ==
    /\ event_queue = [c \in Cores |-> {}]
    /\ ts_queue = [c \in Cores |-> <<>>]
    /\ event_fifo_id = [c \in Cores |-> 0]
    /\ is_timer_sane = [c \in Cores |-> TRUE]
    /\ slice_length = [c \in Cores |-> MAX_SLICE_LENGTH]
    /\ downcount = [c \in Cores |-> MAX_SLICE_LENGTH]
    /\ executed_ticks = [c \in Cores |-> 0]
    /\ op = "begin" /\ phase = "all" /\ cpu = 0
    /\ global_ticks = 0 /\ delay = 0 /\ max_delay = 0 /\ slowest = 0
    /\ max_slice = MAX_SLICE_LENGTH
    /\ start_ticks = 0
    /\ born = 0
    /\ anchor = [t \in Timers |-> 0]

Next ==
    \/ BeginIteration \/ Advance \/ FireEvent \/ AdvanceDone
    \/ LimitSlice \/ MaxSlice \/ StartSlice \/ Execute \/ EndRun \/ Idle
    \/ \E id \in Ids : UnscheduleEvent(id)
    \/ \E id \in Plain, n \in Delays : ScheduleEvent(id, n)
    \/ \E id \in Plain, n \in Delays, c \in Cores : ScheduleRemote(id, n, c)
    \/ \E t \in Timers, n \in Delays : TimerSet(t, n)

Spec == Init /\ [][Next]_vars
-----------------------------------------------------------------------------
(* The numbers stay numbers of ticks; only the downcount may be negative,  *)
(* by what a core runs past the end of its slice.                          *)
TypeOK ==
    /\ event_queue \in [Cores -> SUBSET [time : Nat, fifo : Nat, id : Ids, born : Nat,
                                         remote : BOOLEAN]]
    /\ event_fifo_id \in [Cores -> Nat]
    /\ is_timer_sane \in [Cores -> BOOLEAN]
    /\ slice_length \in [Cores -> Nat]
    /\ \A c \in Cores : downcount[c] \in -Overshoot .. slice_length[c]
    /\ executed_ticks \in [Cores -> Nat]
    /\ max_slice \in Nat

(* The assertion of GetMaxSliceLength: when the slice of a core is chosen, *)
(* every event of the core is still to come.                               *)
NothingOverdue ==
    op = "max" => \A e \in event_queue[cpu] : e.time > executed_ticks[cpu]

(* No core runs past an event of its own queue by more than it overshoots: *)
(* every slice ends at the next event, and an event scheduled in the       *)
(* middle of a slice cuts it short.                                        *)
EventsOnTime ==
    \A c \in Cores : \A e \in event_queue[c] : ~e.remote => GetTicks(c) <= e.time + Overshoot

(* A kernel timer expires at fixed times: however late its callback runs,  *)
(* the next expiry is a multiple of its interval after the first.          *)
NoDrift ==
    \A c \in Cores : \A e \in event_queue[c] :
        e.id \in Timers => \/ e.time = anchor[e.id]
                           \/ Interval[e.id] # 0 /\ (e.time - anchor[e.id]) % Interval[e.id] = 0

(* A kernel timer has at most one expiry scheduled, whichever cores set    *)
(* it: Timer::Set cancels the previous one on every core.                  *)
OneExpiry ==
    \A c, d \in Cores : \A e \in event_queue[c], f \in event_queue[d] :
        e.id = f.id /\ e.id \in Timers => c = d /\ e = f

(* The cores never drift apart by more than a slice, what RunLoop does not *)
(* make up for, and what the cores overshoot one after another.            *)
CoresTogether ==
    \A c, d \in Cores :
        GetTicks(c) - GetTicks(d) <= MAX_SLICE_LENGTH + MinDelay + (NumCores - 1) * Overshoot

(* The clock of a core counts what the core executes and nothing else,     *)
(* although Advance, SetNextSlice and ForceExceptionCheck all rewrite      *)
(* slice_length and downcount: it never goes back, and it stands still     *)
(* while an event is scheduled and between the slices.                     *)
ClockIsExecution ==
    [][\A c \in Cores :
          /\ GetTicks(c)' >= GetTicks(c)
          /\ born' # born \/ op # "run" => GetTicks(c)' = GetTicks(c)]_vars

(* Events of a core that are due at the same time fire in the order they   *)
(* were scheduled in.                                                      *)
FiredInOrder ==
    [][op = "fire" => \A e \in event_queue[cpu] \ event_queue'[cpu], f \in event_queue'[cpu] :
          ~e.remote /\ ~f.remote /\ e.time = f.time => e.born < f.born]_vars

(* "We only permit one event of each type in the queue at a time"          *)
(* (Timing::RemoveEvent, core_timing.h).                                   *)
OneEventOfAType ==
    \A c \in Cores : \A e, f \in event_queue[c] : e.id = f.id => e = f
=============================================================================
