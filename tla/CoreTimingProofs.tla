-------------------------- MODULE CoreTimingProofs --------------------------
(***************************************************************************)
(* The clocks and the events of CoreTiming: the steps that collect, fire,  *)
(* schedule and cancel events keep the invariant too.  So nothing is       *)
(* overdue when a slice is chosen, no event is passed over, a timer has    *)
(* one expiry and keeps to its grid, and the clock counts what is run.     *)
(***************************************************************************)
EXTENDS CoreTimingSteps

\* The events of other cores get numbers after those that are there.
LEMMA MoveEventsOrder ==
    ASSUME TimerTypes, EventInv, NEW c \in Cores, MoveEvents(c), UNCHANGED <<born, anchor>>
    PROVE  /\ event_queue' \in [Cores -> SUBSET Events] /\ ts_queue' \in [Cores -> Seq(Events)]
           /\ event_fifo_id' \in [Cores -> Nat] /\ EventInv'
           /\ \A d \in Cores : \A e \in event_queue'[d] :
                  e \in event_queue[d] \/ (d = c /\ e.remote /\ e.id \in Plain)
<1> DEFINE Moved(i) == [ts_queue[c][i] EXCEPT !.fifo = event_fifo_id[c] + i - 1]
           moved == {Moved(i) : i \in DOMAIN ts_queue[c]}
<1>1. /\ ts_queue[c] \in Seq(Events) /\ event_fifo_id[c] \in Nat /\ Len(ts_queue[c]) \in Nat
      /\ DOMAIN ts_queue[c] = 1 .. Len(ts_queue[c])
      /\ \A i \in DOMAIN ts_queue[c] : ts_queue[c][i] \in Events
  BY DEF TimerTypes
<1>2. /\ event_queue' = [event_queue EXCEPT ![c] = @ \cup moved]
      /\ event_fifo_id' = [event_fifo_id EXCEPT ![c] = @ + Len(ts_queue[c])]
      /\ ts_queue' = [ts_queue EXCEPT ![c] = <<>>]
  BY DEF MoveEvents
<1>3. \A i \in DOMAIN ts_queue[c] :
          /\ Moved(i) \in Events /\ Moved(i).fifo = event_fifo_id[c] + i - 1
          /\ Moved(i).remote /\ Moved(i).id \in Plain
          /\ Moved(i).fifo < event_fifo_id[c] + Len(ts_queue[c])
  <2> TAKE i \in DOMAIN ts_queue[c]
  <2>1. i \in Nat /\ 1 <= i /\ i <= Len(ts_queue[c])
    BY <1>1
  <2>2. ts_queue[c][i] \in Events /\ ts_queue[c][i].remote /\ ts_queue[c][i].id \in Plain
    BY <1>1 DEF EventInv, Scheduled
  <2>3. event_fifo_id[c] + i - 1 \in Nat
    BY <1>1, <2>1
  <2>4. /\ Moved(i) \in Events /\ Moved(i).fifo = event_fifo_id[c] + i - 1
        /\ Moved(i).remote = ts_queue[c][i].remote /\ Moved(i).id = ts_queue[c][i].id
    BY <2>2, <2>3, Zenon DEF Events
  <2> QED BY <1>1, <2>1, <2>2, <2>4
<1>4. \A e \in moved : /\ e \in Events /\ e.remote /\ e.id \in Plain
                       /\ e.fifo < event_fifo_id[c] + Len(ts_queue[c])
  BY <1>3, Zenon
<1> HIDE DEF moved, Moved
<1>5. /\ \A d \in Cores : event_queue'[d] = IF d = c THEN event_queue[c] \cup moved ELSE event_queue[d]
      /\ \A d \in Cores : event_fifo_id'[d] = IF d = c THEN event_fifo_id[c] + Len(ts_queue[c])
                                              ELSE event_fifo_id[d]
      /\ \A d \in Cores : ts_queue'[d] = IF d = c THEN <<>> ELSE ts_queue[d]
  BY <1>2 DEF TimerTypes
<1>6. /\ event_queue' \in [Cores -> SUBSET Events] /\ ts_queue' \in [Cores -> Seq(Events)]
      /\ event_fifo_id' \in [Cores -> Nat]
  <2>1. event_queue' \in [Cores -> SUBSET Events]
    BY <1>2, <1>4 DEF TimerTypes
  <2>2. ts_queue' \in [Cores -> Seq(Events)]
    <3>1. <<>> \in Seq(Events)
      OBVIOUS
    <3> QED BY <1>2, <3>1 DEF TimerTypes
  <2>3. event_fifo_id' \in [Cores -> Nat]
    BY <1>1, <1>2 DEF TimerTypes
  <2> QED BY <2>1, <2>2, <2>3
<1>7. \A d \in Cores : \A e \in event_queue'[d] : e \in event_queue[d] \/ (d = c /\ e \in moved)
  BY <1>5
<1>8. Scheduled'
  <2>1. \A d \in Cores : \A e \in event_queue'[d] :
            /\ e.fifo < event_fifo_id'[d] /\ (e.remote => e.id \in Plain)
            /\ (~e.remote => e.born < born')
    <3> TAKE d \in Cores
    <3> TAKE e \in event_queue'[d]
    <3>1. CASE e \in event_queue[d]
      <4>1. e.fifo \in Nat /\ event_fifo_id[d] \in Nat
        BY <3>1 DEF TimerTypes, Events
      <4>2. e.fifo < event_fifo_id[d]
        BY <3>1 DEF EventInv, Scheduled
      <4>3. event_fifo_id[d] <= event_fifo_id'[d]
        BY <1>1, <1>5, <4>1
      <4>4. event_fifo_id'[d] \in Nat
        BY <1>6
      <4>5. e.fifo < event_fifo_id'[d]
        BY <4>1, <4>2, <4>3, <4>4
      <4> QED BY <3>1, <4>5 DEF EventInv, Scheduled
    <3>2. CASE d = c /\ e \in moved
      BY <1>4, <1>5, <3>2, Zenon
    <3> QED BY <1>7, <3>1, <3>2
  <2>2. \A d \in Cores : \A i \in DOMAIN ts_queue'[d] :
            ts_queue'[d][i].remote /\ ts_queue'[d][i].id \in Plain
    BY <1>5 DEF EventInv, Scheduled
  <2>3. \A d \in Cores : \A e, f \in event_queue'[d] :
            ~e.remote /\ ~f.remote => e \in event_queue[d] /\ f \in event_queue[d]
    BY <1>4, <1>7
  <2>4. \A d \in Cores : \A e, f \in event_queue'[d] :
            ~e.remote /\ ~f.remote =>
                /\ e.fifo < f.fifo <=> e.born < f.born
                /\ e.born = f.born => e = f
    BY <2>3 DEF EventInv, Scheduled
  <2> QED BY <2>1, <2>2, <2>4 DEF Scheduled
<1>9. \A d \in Cores : \A e \in event_queue'[d] : e.id \in Timers => e \in event_queue[d]
  BY <1>4, <1>7, TimingAssumption
<1>10. OneExpiry'
  BY <1>9 DEF EventInv, OneExpiry
<1>11. OnGrid'
  BY <1>9 DEF EventInv, OnGrid
<1> QED
  BY <1>4, <1>6, <1>7, <1>8, <1>10, <1>11 DEF EventInv

\* Advance takes the events of other cores and closes the slice; the clock does not move.
LEMMA AdvanceIInv ==
    ASSUME IInv, Advance
    PROVE  IInv' /\ \A c \in Cores : GetTicks(c)' = GetTicks(c)
<1>1. /\ op = "advance" /\ cpu \in Cores /\ phase \in {"late", "all"} /\ MoveEvents(cpu)
      /\ executed_ticks' = [executed_ticks EXCEPT ![cpu] = @ + slice_length[cpu] - downcount[cpu]]
      /\ slice_length' = [slice_length EXCEPT ![cpu] = 0]
      /\ downcount' = [downcount EXCEPT ![cpu] = 0]
      /\ is_timer_sane' = [is_timer_sane EXCEPT ![cpu] = TRUE]
      /\ op' = "fire"
      /\ UNCHANGED <<phase, cpu, lateVars, max_slice, start_ticks, born, anchor>>
  BY DEF Advance, IInv, LoopTypes, Places
<1>2. /\ event_queue' \in [Cores -> SUBSET Events] /\ ts_queue' \in [Cores -> Seq(Events)]
      /\ event_fifo_id' \in [Cores -> Nat] /\ EventInv'
      /\ \A d \in Cores : \A e \in event_queue'[d] :
             e \in event_queue[d] \/ (d = cpu /\ e.remote /\ e.id \in Plain)
  BY <1>1, MoveEventsOrder DEF IInv, EventInv
<1>3. /\ executed_ticks[cpu] \in Nat /\ slice_length[cpu] \in Nat /\ downcount[cpu] \in Int
      /\ downcount[cpu] <= slice_length[cpu] /\ -Overshoot <= downcount[cpu]
  BY <1>1 DEF IInv, TimerTypes, Counts
<1>4. /\ executed_ticks'[cpu] = executed_ticks[cpu] + slice_length[cpu] - downcount[cpu]
      /\ slice_length'[cpu] = 0 /\ downcount'[cpu] = 0 /\ is_timer_sane'[cpu] = TRUE
      /\ \A c \in Cores : c # cpu => /\ executed_ticks'[c] = executed_ticks[c]
                                     /\ slice_length'[c] = slice_length[c]
                                     /\ downcount'[c] = downcount[c]
                                     /\ is_timer_sane'[c] = is_timer_sane[c]
  BY <1>1 DEF IInv, TimerTypes
<1>5. TimerTypes'
  <2>1. executed_ticks[cpu] + slice_length[cpu] - downcount[cpu] \in Nat
    BY <1>3
  <2>2. /\ executed_ticks' \in [Cores -> Nat] /\ slice_length' \in [Cores -> Nat]
        /\ downcount' \in [Cores -> Int] /\ is_timer_sane' \in [Cores -> BOOLEAN]
    BY <1>1, <2>1 DEF IInv, TimerTypes
  <2> QED BY <1>1, <1>2, <2>2, Zenon DEF IInv, TimerTypes
<1>6. \A c \in Cores : GetTicks(c)' = GetTicks(c)
  <2> TAKE c \in Cores
  <2>1. CASE c = cpu
    <3>1. is_timer_sane[cpu] => slice_length[cpu] = downcount[cpu]
      BY <1>1 DEF IInv, Clocks
    <3>2. GetTicks(c) = executed_ticks[cpu] + (slice_length[cpu] - downcount[cpu])
      BY <1>3, <2>1, <3>1 DEF GetTicks
    <3>3. GetTicks(c)' = executed_ticks'[cpu] + 0
      BY <1>4, <2>1 DEF GetTicks
    <3> QED BY <1>3, <1>4, <3>2, <3>3
  <2>2. CASE c # cpu
    BY <1>4, <2>2 DEF GetTicks
  <2> QED BY <2>1, <2>2
<1>7. Counts'
  <2>1. \A c \in Cores : -Overshoot <= downcount'[c] /\ downcount'[c] <= slice_length'[c]
    BY <1>4, TimingAssumption DEF IInv, Counts
  <2> QED BY <1>6, <2>1 DEF IInv, Counts
<1>8. LoopTypes'
  BY <1>1 DEF IInv, LoopTypes, Places, lateVars
<1>9. /\ Advanced' \subseteq Advanced \cup {cpu} /\ cpu \notin Settled'
      /\ Settled' \subseteq Settled /\ Settled' \subseteq Cores
  BY <1>1, CoreNumbers DEF IInv, LoopTypes, Advanced, Settled, lateVars
<1>10. Clocks'
  <2>1. \A c \in Settled' : ~is_timer_sane'[c]
    <3> SUFFICES ASSUME NEW c \in Settled' PROVE ~is_timer_sane'[c]
      OBVIOUS
    <3>1. c \in Cores /\ c # cpu /\ c \in Settled
      BY <1>9, Zenon
    <3>2. ~is_timer_sane[c]
      BY <3>1 DEF IInv, Clocks
    <3> QED BY <1>4, <3>1, <3>2, Zenon
  <2>2. \A c \in Advanced' : slice_length'[c] = downcount'[c]
    <3>1. \A c \in Advanced' : c \in Cores /\ (c \in Advanced \/ c = cpu)
      BY <1>9 DEF Advanced
    <3> QED BY <1>4, <3>1 DEF IInv, Clocks
  <2> QED BY <1>1, <1>4, <2>1, <2>2, SMTT(30) DEF IInv, Clocks
<1>11. OnTime'
  <2> SUFFICES ASSUME NEW c \in Cores, NEW e \in event_queue'[c]
               PROVE  \/ executed_ticks'[c] + slice_length'[c] <= e.time
                      \/ c = cpu /\ (e.remote \/ executed_ticks'[c] <= e.time + Overshoot)
    BY <1>1 DEF OnTime
  <2>1. CASE e \in event_queue[c]
    <3>1. executed_ticks[c] + slice_length[c] <= e.time /\ e.time \in Nat
      BY <1>1, <2>1, SMTT(30) DEF IInv, OnTime, TimerTypes, Events
    <3>2. CASE c = cpu
      <4>1. executed_ticks[cpu] + slice_length[cpu] - downcount[cpu] <= e.time + Overshoot
        BY <1>3, <3>1, <3>2, TimingAssumption
      <4> QED BY <1>4, <3>2, <4>1, Zenon
    <3>3. CASE c # cpu
      BY <1>4, <3>1, <3>3
    <3> QED BY <3>2, <3>3
  <2>2. CASE e \notin event_queue[c]
    BY <1>2, <2>2
  <2> QED BY <2>1, <2>2
<1>12. NothingOverdue'
  BY <1>1 DEF NothingOverdue
<1> QED
  BY <1>2, <1>5, <1>6, <1>7, <1>8, <1>10, <1>11, <1>12, Zenon DEF IInv, EventInv
-----------------------------------------------------------------------------
\* What is left of IInv when clocks and RunLoop stand still and the slice is not changed.
LEMMA QueuesMove ==
    ASSUME IInv, TimerTypes', EventInv', op # "max", OnTime',
           UNCHANGED <<is_timer_sane, slice_length, downcount, executed_ticks, loopVars>>
    PROVE  IInv'
<1>1. LoopTypes' /\ Counts'
  BY DEF IInv, LoopTypes, Places, Counts, GetTicks, loopVars, lateVars
<1>2. Advanced' = Advanced /\ Settled' = Settled
  BY Zenon DEF Advanced, Settled, loopVars, lateVars
<1>3. Clocks'
  BY <1>2 DEF IInv, Clocks, GetTicks, loopVars
<1>4. NothingOverdue'
  BY DEF NothingOverdue, loopVars
<1> QED
  BY <1>1, <1>3, <1>4 DEF IInv, EventInv

\* One more period.
LEMMA NextMultiple ==
    ASSUME NEW k \in Nat, NEW i \in Nat
    PROVE  (k + 1) * i = k * i + i /\ k * i \in Nat
<1>1. k * i \in Nat
  OBVIOUS
<1>2. (k + 1) * i = k * i + i
  BY SMTT(30)
<1> QED BY <1>1, <1>2

\* An event fires; a timer is scheduled for the next point of its grid.
LEMMA FireEventIInv == ASSUME IInv, FireEvent PROVE IInv'
<1>1. /\ op = "fire" /\ cpu \in Cores /\ is_timer_sane[cpu]
      /\ UNCHANGED <<ts_queue, is_timer_sane, executed_ticks, loopVars, anchor>>
  BY DEF FireEvent, IInv, LoopTypes, Clocks
<1>2. PICK e \in Due(cpu) :
          LET rest == [event_queue EXCEPT ![cpu] = @ \ {e}] IN
          \/ Recurs(e.id) /\ born < MaxEvents /\ Rearm(cpu, rest, e)
          \/ /\ ~Recurs(e.id) \/ born = MaxEvents
             /\ event_queue' = rest
             /\ UNCHANGED <<event_fifo_id, slice_length, downcount, born>>
  BY Zenon DEF FireEvent
<1> DEFINE rest == [event_queue EXCEPT ![cpu] = @ \ {e}]
<1>3. e \in event_queue[cpu] /\ e.time <= executed_ticks[cpu]
  BY <1>2 DEF Due, Earliest
<1>4. e \in Events /\ e.time \in Nat /\ e.id \in Ids /\ executed_ticks[cpu] \in Nat
  BY <1>1, <1>3 DEF IInv, TimerTypes, Events
<1>5. /\ rest \in [Cores -> SUBSET Events] /\ e \notin rest[cpu]
      /\ \A d \in Cores : rest[d] \subseteq event_queue[d]
  BY <1>1 DEF IInv, TimerTypes
<1> HIDE DEF rest
<1>6. CASE Recurs(e.id) /\ Rearm(cpu, rest, e)
  <2> DEFINE time == e.time + Interval[e.id]
             new == Event(time, event_fifo_id[cpu], e.id, born, FALSE)
  <2>1. e.id \in Timers /\ Interval[e.id] \in Nat
    BY <1>6, TimingAssumption DEF Recurs
  <2>2. time \in Nat
    BY <1>4, <2>1
  <2>3. GetTicks(cpu) + (Interval[e.id] - (executed_ticks[cpu] - e.time)) = time
    BY <1>1, <1>4, <2>1, SMTT(30) DEF GetTicks
  <2>4. /\ event_queue' = [rest EXCEPT ![cpu] = @ \cup {new}]
        /\ event_fifo_id' = [event_fifo_id EXCEPT ![cpu] = @ + 1]
        /\ born' = born + 1 /\ UNCHANGED <<slice_length, downcount>>
    BY <1>1, <1>6, <2>3, Zenon DEF Rearm, Enqueue
  <2> HIDE DEF time
  <2>5. /\ event_queue' \in [Cores -> SUBSET Events] /\ event_fifo_id' \in [Cores -> Nat]
        /\ born' \in Nat /\ Scheduled'
    BY <1>1, <1>4, <1>5, <2>2, <2>4, EnqueueOrder, Zenon DEF IInv
  <2>6. new.id = e.id /\ new.time = time /\ new.remote = FALSE
    BY DEF Event
  <2>7. TimerTypes'
    BY <1>1, <2>4, <2>5, Zenon DEF IInv, TimerTypes
  <2> HIDE DEF new
  <2>8. OneExpiry'
    <3>1. \A d \in Cores : \A f \in rest[d] : f.id # e.id
      BY <1>1, <1>3, <1>5, <2>1 DEF IInv, OneExpiry
    <3>2. OneExpiry
      BY DEF IInv
    <3>3. \A d \in Cores : \A f \in event_queue'[d] :
              f \in rest[d] \/ (d = cpu /\ f = new /\ f.id = e.id)
      BY <1>1, <1>5, <2>4, <2>6, Zenon
    <3> QED BY <1>1, <1>4, <1>5, <3>1, <3>2, <3>3, EnqueueOnce, SMTT(30)
  <2>9. \A d \in Cores : \A f \in event_queue'[d] : f \in event_queue[d] \/ (d = cpu /\ f = new)
    BY <1>1, <1>5, <2>4, Zenon
  <2>10. OnGrid'
    <3> SUFFICES ASSUME NEW d \in Cores, NEW f \in event_queue'[d], f.id \in Timers
                 PROVE  \E k \in Nat : f.time = anchor[f.id] + k * Interval[f.id]
      BY <1>1 DEF OnGrid
    <3>1. CASE f \in event_queue[d]
      BY <3>1 DEF IInv, OnGrid
    <3>2. CASE f = new
      <4>1. PICK k \in Nat : e.time = anchor[e.id] + k * Interval[e.id]
        BY <1>1, <1>3, <2>1, Zenon DEF IInv, OnGrid
      <4>2. anchor[e.id] \in Nat
        BY <2>1, Zenon DEF IInv, TimerTypes
      <4>3. (k + 1) * Interval[e.id] = k * Interval[e.id] + Interval[e.id]
        BY <2>1, NextMultiple, Zenon
      <4>4. k * Interval[e.id] \in Nat
        BY <2>1, NextMultiple, Zenon
      <4>5. f.time = anchor[f.id] + (k + 1) * Interval[f.id]
        BY <2>1, <2>6, <3>2, <4>1, <4>2, <4>3, <4>4 DEF time
      <4> QED BY <4>5
    <3> QED BY <2>9, <3>1, <3>2
  <2>11. OnTime'
    <3> SUFFICES ASSUME NEW d \in Cores, NEW f \in event_queue'[d]
                 PROVE  \/ executed_ticks[d] + slice_length[d] <= f.time
                        \/ d = cpu /\ (f.remote \/ executed_ticks[d] <= f.time + Overshoot)
      BY <1>1, <2>4, Zenon DEF OnTime, loopVars
    <3>1. CASE f \in event_queue[d]
      BY <3>1 DEF IInv, OnTime
    <3>2. CASE d = cpu /\ f = new
      <4>1. ~e.remote
        BY <1>1, <1>3, <2>1, TimingAssumption, Zenon DEF IInv, Scheduled
      <4>2. executed_ticks[cpu] + slice_length[cpu] <= e.time
            \/ executed_ticks[cpu] <= e.time + Overshoot
        BY <1>1, <1>3, <4>1, Zenon DEF IInv, OnTime
      <4>3. slice_length[cpu] \in Nat
        BY <1>1 DEF IInv, TimerTypes
      <4> QED BY <1>4, <2>1, <2>6, <3>2, <4>2, <4>3, TimingAssumption DEF time
    <3> QED BY <2>9, <3>1, <3>2, Zenon
  <2> QED
    BY <1>1, <2>4, <2>5, <2>7, <2>8, <2>10, <2>11, QueuesMove, Zenon DEF EventInv
<1>7. CASE event_queue' = rest /\ UNCHANGED <<event_fifo_id, slice_length, downcount, born>>
  <2>1. TimerTypes'
    BY <1>1, <1>5, <1>7 DEF IInv, TimerTypes
  <2>2. \A d \in Cores : event_queue'[d] \subseteq event_queue[d]
    BY <1>5, <1>7, Zenon
  <2>3. EventInv'
    <3>1. EventInv
      BY DEF IInv, EventInv
    <3> QED BY <1>1, <1>7, <2>2, <3>1, FewerEvents
  <2>4. OnTime'
    BY <1>1, <1>7, <2>2 DEF IInv, OnTime, loopVars
  <2> QED
    BY <1>1, <1>7, <2>1, <2>3, <2>4, QueuesMove, Zenon
<1> QED
  BY <1>2, <1>6, <1>7 DEF rest

\* UnscheduleEvent.
LEMMA UnscheduleIInv == ASSUME IInv, NEW id \in Ids, UnscheduleEvent(id) PROVE IInv'
<1>1. /\ op = "run" /\ event_queue' = Without(id)
      /\ UNCHANGED <<ts_queue, event_fifo_id, is_timer_sane, slice_length, downcount,
                     executed_ticks, loopVars, born, anchor>>
  BY DEF UnscheduleEvent
<1>2. \A d \in Cores : event_queue'[d] \subseteq event_queue[d]
  BY <1>1 DEF Without
<1>3. TimerTypes'
  BY <1>1, SMTT(30) DEF IInv, TimerTypes, Without
<1>4. EventInv'
  <2>1. EventInv
    BY Zenon DEF IInv, EventInv
  <2> QED BY <1>1, <1>2, <2>1, FewerEvents
<1>5. OnTime'
  BY <1>1, <1>2 DEF IInv, OnTime, loopVars
<1> QED
  BY <1>1, <1>3, <1>4, <1>5, QueuesMove

\* ScheduleEvent with the number of another core.
LEMMA ScheduleRemoteIInv ==
    ASSUME IInv, NEW id \in Plain, NEW n \in Delays, NEW c \in Cores, ScheduleRemote(id, n, c)
    PROVE  IInv'
<1> DEFINE new == Event(GetTicks(c) + n, 0, id, born, TRUE)
<1>1. /\ op = "run" /\ ts_queue' = [ts_queue EXCEPT ![c] = Append(@, new)] /\ born' = born + 1
      /\ UNCHANGED <<event_queue, event_fifo_id, is_timer_sane, slice_length, downcount,
                     executed_ticks, loopVars, anchor>>
  BY DEF ScheduleRemote
<1>2. new \in Events /\ new.remote = TRUE /\ new.id = id
  <2>1. GetTicks(c) + n \in Nat /\ born \in Nat /\ id \in Ids
    <3>1. GetTicks(c) \in Nat
      BY TicksType DEF IInv
    <3> QED BY <3>1, TimingAssumption DEF IInv, TimerTypes, Ids
  <2> HIDE DEF GetTicks
  <2> QED BY <2>1 DEF Event, Events
<1> HIDE DEF new
<1>3. ts_queue[c] \in Seq(Events) /\ ts_queue'[c] = Append(ts_queue[c], new)
      /\ \A d \in Cores : d # c => ts_queue'[d] = ts_queue[d]
  BY <1>1 DEF IInv, TimerTypes
<1>4. TimerTypes'
  <2>1. ts_queue' \in [Cores -> Seq(Events)]
    BY <1>1, <1>2, <1>3 DEF IInv, TimerTypes
  <2> QED BY <1>1, <2>1 DEF IInv, TimerTypes
<1>5. \A d \in Cores : \A i \in DOMAIN ts_queue'[d] :
          ts_queue'[d][i].remote /\ ts_queue'[d][i].id \in Plain
  <2> SUFFICES ASSUME NEW d \in Cores, NEW i \in DOMAIN ts_queue'[d]
               PROVE  ts_queue'[d][i].remote /\ ts_queue'[d][i].id \in Plain
    BY Zenon
  <2>1. CASE d # c
    BY <1>3, <2>1, Zenon DEF IInv, Scheduled
  <2>2. CASE d = c
    <3>1. /\ DOMAIN ts_queue[c] = 1 .. Len(ts_queue[c]) /\ Len(ts_queue[c]) \in Nat
          /\ i \in 1 .. Len(ts_queue[c]) + 1
          /\ i <= Len(ts_queue[c]) => ts_queue'[c][i] = ts_queue[c][i]
          /\ i = Len(ts_queue[c]) + 1 => ts_queue'[c][i] = new
      BY <1>2, <1>3, <2>2, SMTT(30)
    <3>2. CASE i <= Len(ts_queue[c])
      BY <2>2, <3>1, <3>2 DEF IInv, Scheduled
    <3>3. CASE i = Len(ts_queue[c]) + 1
      BY <1>2, <2>2, <3>1, <3>3, Zenon
    <3> QED BY <3>1, <3>2, <3>3
  <2> QED BY <2>1, <2>2
<1>6. EventInv'
  <2>1. \A d \in Cores : \A e \in event_queue[d] : ~e.remote => e.born < born'
    <3>1. \A d \in Cores : \A e \in event_queue[d] : e.born \in Nat /\ born \in Nat
      BY SMTT(30) DEF IInv, TimerTypes, Events
    <3> QED BY <1>1, <3>1 DEF IInv, Scheduled
  <2>2. Scheduled'
    BY <1>1, <1>5, <2>1, ZenonT(40) DEF IInv, Scheduled
  <2> QED BY <1>1, <2>2, Zenon DEF IInv, EventInv, OneExpiry, OnGrid
<1>7. OnTime'
  BY <1>1, ZenonT(40) DEF IInv, OnTime, loopVars
<1> QED
  BY <1>1, <1>4, <1>6, <1>7, QueuesMove, Zenon
-----------------------------------------------------------------------------
\* A slice is cut short: no clock moves, and the slice ends within n ticks.
LEMMA SliceCut ==
    ASSUME IInv, op = "run", NEW n \in Nat, ForceExceptionCheck(cpu, n),
           UNCHANGED <<executed_ticks, is_timer_sane>>
    PROVE  /\ slice_length' \in [Cores -> Nat] /\ downcount' \in [Cores -> Int]
           /\ \A c \in Cores : GetTicks(c)' = GetTicks(c) /\ slice_length'[c] <= slice_length[c]
           /\ \A c \in Cores : c # cpu => /\ slice_length'[c] = slice_length[c]
                                          /\ downcount'[c] = downcount[c]
           /\ executed_ticks[cpu] + slice_length'[cpu] <= GetTicks(cpu) + n
           /\ Counts'
<1>1. cpu \in Cores /\ ~is_timer_sane[cpu]
  <2>1. cpu \in Cores /\ cpu \in Settled
    BY DEF IInv, LoopTypes, Settled
  <2> QED BY <2>1 DEF IInv, Clocks
<1>2. PICK lost \in Nat : /\ slice_length' = [slice_length EXCEPT ![cpu] = @ - lost]
                          /\ downcount' = [downcount EXCEPT ![cpu] = @ - lost]
                          /\ lost <= slice_length[cpu] /\ downcount[cpu] - lost <= n
                          /\ lost = 0 \/ downcount[cpu] - lost >= 0
  BY <1>1, CutShort DEF IInv
<1>3. /\ executed_ticks[cpu] \in Nat /\ slice_length[cpu] \in Nat /\ downcount[cpu] \in Int
      /\ downcount[cpu] <= slice_length[cpu] /\ -Overshoot <= downcount[cpu]
  BY <1>1 DEF IInv, TimerTypes, Counts
<1>4. slice_length[cpu] - lost \in Nat /\ downcount[cpu] - lost \in Int
  BY <1>2, <1>3
<1>5. slice_length \in [Cores -> Nat] /\ downcount \in [Cores -> Int]
  BY DEF IInv, TimerTypes
<1>6. slice_length' \in [Cores -> Nat] /\ downcount' \in [Cores -> Int]
  BY <1>1, <1>2, <1>4, <1>5, Zenon
<1>7. /\ slice_length'[cpu] = slice_length[cpu] - lost /\ downcount'[cpu] = downcount[cpu] - lost
      /\ \A c \in Cores : c # cpu => /\ slice_length'[c] = slice_length[c]
                                     /\ downcount'[c] = downcount[c]
  BY <1>1, <1>2, <1>5, Zenon
<1>8. ASSUME NEW c \in Cores
      PROVE  GetTicks(c)' = GetTicks(c) /\ slice_length'[c] <= slice_length[c]
  <2>1. CASE c = cpu
    BY <1>1, <1>3, <1>7, <2>1 DEF GetTicks
  <2>2. CASE c # cpu
    BY <1>5, <1>7, <2>2 DEF GetTicks
  <2> QED BY <2>1, <2>2, Zenon
<1>9. executed_ticks[cpu] + slice_length'[cpu] <= GetTicks(cpu) + n
  BY <1>1, <1>2, <1>3, <1>7 DEF GetTicks
<1>10. Counts'
  <2>1. -Overshoot <= downcount'[cpu] /\ downcount'[cpu] <= slice_length'[cpu]
    BY <1>2, <1>3, <1>7, TimingAssumption
  <2>2. \A c \in Cores : -Overshoot <= downcount'[c] /\ downcount'[c] <= slice_length'[c]
    BY <1>7, <2>1, Zenon DEF IInv, Counts
  <2> QED BY <1>8, <2>2, Zenon DEF IInv, Counts
<1> QED BY <1>6, <1>7, <1>8, <1>9, <1>10, Zenon

\* The slice of the running core is cut short: what IInv says of RunLoop and the
\* clocks stays.
LEMMA CutClocks ==
    ASSUME IInv, op = "run", UNCHANGED <<is_timer_sane, loopVars>>,
           \A c \in Cores : GetTicks(c)' = GetTicks(c),
           \A c \in Cores : c # cpu => /\ slice_length'[c] = slice_length[c]
                                       /\ downcount'[c] = downcount[c]
    PROVE  LoopTypes' /\ Clocks' /\ NothingOverdue' /\ op' = "run" /\ cpu' = cpu
<1>1. cpu \in Cores /\ cpu \in Settled
  BY DEF IInv, LoopTypes, Settled
<1>2. ~is_timer_sane[cpu]
  BY <1>1, Zenon DEF IInv, Clocks
<1>3. LoopTypes' /\ op' = "run" /\ cpu' = cpu /\ start_ticks' = start_ticks /\ phase' = phase
  BY Zenon DEF IInv, LoopTypes, Places, loopVars, lateVars
<1>4. Advanced' = Advanced /\ Settled' = Settled
  BY DEF loopVars, lateVars, Advanced, Settled
<1>5. \A c \in Advanced : c \in Cores /\ c # cpu
  BY <1>1, CoreNumbers DEF Advanced
<1>6. GetTicks(cpu)' = GetTicks(cpu)
  BY <1>1, <1>3, Zenon DEF GetTicks
<1>7. /\ \A c \in Cores : is_timer_sane'[c] => slice_length'[c] = downcount'[c]
      /\ \A c \in Advanced' : slice_length'[c] = downcount'[c]
      /\ \A c \in Settled' : ~is_timer_sane'[c]
  BY <1>2, <1>4, <1>5, Zenon DEF IInv, Clocks
<1>8. Clocks'
  BY <1>3, <1>6, <1>7, Zenon DEF IInv, Clocks
<1> QED BY <1>3, <1>8, Zenon DEF NothingOverdue

\* A running core schedules an event: its slice ends there, and its clock does not move.
LEMMA EnqueueRun ==
    ASSUME IInv, op = "run", NEW n \in Nat, NEW id \in Ids,
           NEW queues \in [Cores -> SUBSET Events],
           \A d \in Cores : queues[d] \subseteq event_queue[d],
           id \in Timers => \A d \in Cores : \A e \in queues[d] : e.id # id,
           Enqueue(cpu, queues, n, id),
           UNCHANGED <<ts_queue, is_timer_sane, executed_ticks, loopVars>>,
           anchor' \in [Timers -> Nat], OnGrid'
    PROVE  IInv' /\ \A c \in Cores : GetTicks(c)' = GetTicks(c)
<1> DEFINE time == GetTicks(cpu) + n
           new == Event(time, event_fifo_id[cpu], id, born, FALSE)
<1>1. cpu \in Cores /\ time \in Nat /\ ~is_timer_sane[cpu]
  <2>1. cpu \in Cores /\ cpu \in Settled
    BY DEF IInv, LoopTypes, Settled
  <2> QED BY <2>1, TicksType DEF IInv, Clocks
<1>2. /\ event_queue' = [queues EXCEPT ![cpu] = @ \cup {new}]
      /\ event_fifo_id' = [event_fifo_id EXCEPT ![cpu] = @ + 1]
      /\ born' = born + 1 /\ ForceExceptionCheck(cpu, n)
  BY <1>1, Zenon DEF Enqueue
<1>3. new.id = id /\ new.time = time
  BY DEF Event
<1> HIDE DEF time
<1>4. /\ event_queue' \in [Cores -> SUBSET Events] /\ event_fifo_id' \in [Cores -> Nat]
      /\ born' \in Nat /\ Scheduled'
  BY <1>1, <1>2, EnqueueOrder, ZenonT(40) DEF IInv
<1> HIDE DEF new
<1>5. \A d \in Cores : \A e \in event_queue'[d] : e \in queues[d] \/ (d = cpu /\ e = new)
  BY <1>1, <1>2, Zenon
<1>6. OneExpiry'
  <2>1. OneExpiry
    BY Zenon DEF IInv
  <2>2. \A d \in Cores : \A e \in event_queue'[d] :
            e \in queues[d] \/ (d = cpu /\ e = new /\ e.id = id)
    BY <1>3, <1>5, Zenon
  <2> QED BY <1>1, <2>1, <2>2, EnqueueOnce
<1>7. /\ slice_length' \in [Cores -> Nat] /\ downcount' \in [Cores -> Int] /\ Counts'
      /\ \A c \in Cores : GetTicks(c)' = GetTicks(c) /\ slice_length'[c] <= slice_length[c]
      /\ \A c \in Cores : c # cpu => /\ slice_length'[c] = slice_length[c]
                                     /\ downcount'[c] = downcount[c]
      /\ executed_ticks[cpu] + slice_length'[cpu] <= time
  BY <1>2, SliceCut, Zenon DEF time
<1>8. TimerTypes'
  BY <1>4, <1>7, Zenon DEF IInv, TimerTypes
<1>9. LoopTypes' /\ Clocks' /\ NothingOverdue' /\ op' = "run"
  BY <1>7, CutClocks, Zenon
<1>10. OnTime'
  <2> SUFFICES ASSUME NEW c \in Cores, NEW e \in event_queue'[c]
               PROVE  executed_ticks'[c] + slice_length'[c] <= e.time
    BY Zenon DEF OnTime
  <2>1. CASE e \in event_queue[c]
    <3>1. executed_ticks[c] + slice_length[c] <= e.time
      BY <2>1, Zenon DEF IInv, OnTime
    <3>2. /\ executed_ticks[c] \in Nat /\ slice_length[c] \in Nat /\ slice_length'[c] \in Nat
          /\ e.time \in Nat /\ slice_length'[c] <= slice_length[c]
      BY <1>7, <2>1 DEF IInv, TimerTypes, Events
    <3> QED BY <3>1, <3>2
  <2>2. CASE c = cpu /\ e = new
    BY <1>3, <1>7, <2>2, Zenon
  <2> QED BY <1>5, <2>1, <2>2, Zenon
<1> QED BY <1>4, <1>6, <1>7, <1>8, <1>9, <1>10, Zenon DEF IInv

\* ScheduleEvent.
LEMMA ScheduleEventIInv ==
    ASSUME IInv, NEW id \in Plain, NEW n \in Delays, ScheduleEvent(id, n)
    PROVE  IInv' /\ \A c \in Cores : GetTicks(c)' = GetTicks(c)
<1>1. /\ op = "run" /\ Enqueue(cpu, event_queue, n, id) /\ cpu \in Cores
      /\ UNCHANGED <<ts_queue, is_timer_sane, executed_ticks, loopVars, anchor>>
  BY DEF ScheduleEvent, IInv, LoopTypes
<1>2. n \in Nat /\ id \in Ids /\ id \notin Timers
  BY TimingAssumption DEF Ids
<1>3. event_queue \in [Cores -> SUBSET Events] /\ anchor' \in [Timers -> Nat]
  BY <1>1, Zenon DEF IInv, TimerTypes
<1>4. \A d \in Cores : \A e \in event_queue'[d] : e \in event_queue[d] \/ e.id = id
  BY <1>1, <1>3, SMTT(30) DEF Enqueue, Event
<1>5. OnGrid'
  BY <1>1, <1>2, <1>4, ZenonT(40) DEF IInv, OnGrid
<1> QED
  BY <1>1, <1>2, <1>3, <1>5, EnqueueRun, Zenon

\* Timer::Set starts a new grid.
LEMMA TimerSetIInv ==
    ASSUME IInv, NEW t \in Timers, NEW n \in Delays, TimerSet(t, n)
    PROVE  IInv' /\ \A c \in Cores : GetTicks(c)' = GetTicks(c)
<1>1. /\ op = "run" /\ Enqueue(cpu, Without(t), n, t) /\ cpu \in Cores
      /\ anchor' = [anchor EXCEPT ![t] = GetTicks(cpu) + n]
      /\ UNCHANGED <<ts_queue, is_timer_sane, executed_ticks, loopVars>>
  BY DEF TimerSet, IInv, LoopTypes
<1>2. n \in Nat /\ t \in Ids
  BY TimingAssumption DEF Ids
<1>3. GetTicks(cpu) \in Nat
  BY <1>1, TicksType, Zenon DEF IInv
<1>4. anchor' \in [Timers -> Nat] /\ anchor'[t] = GetTicks(cpu) + n
      /\ \A u \in Timers : u # t => anchor'[u] = anchor[u]
  <2> HIDE DEF GetTicks
  <2> QED BY <1>1, <1>2, <1>3 DEF IInv, TimerTypes
<1>5. /\ Without(t) \in [Cores -> SUBSET Events]
      /\ \A d \in Cores : Without(t)[d] \subseteq event_queue[d]
      /\ \A d \in Cores : \A e \in Without(t)[d] : e.id # t
  BY Zenon DEF IInv, TimerTypes, Without
<1>6. \A d \in Cores : \A e \in event_queue'[d] :
          (e \in event_queue[d] /\ e.id # t) \/ (e.id = t /\ e.time = GetTicks(cpu) + n)
  <2> HIDE DEF GetTicks
  <2>1. \A d \in Cores : \A e \in event_queue'[d] :
            e \in Without(t)[d] \/ e = Event(GetTicks(cpu) + n, event_fifo_id[cpu], t, born, FALSE)
    BY <1>1, <1>5, Zenon DEF Enqueue
  <2> QED BY <1>5, <2>1, SMTT(30) DEF Event
<1>7. OnGrid'
  <2> SUFFICES ASSUME NEW d \in Cores, NEW e \in event_queue'[d], e.id \in Timers
               PROVE  \E k \in Nat : e.time = anchor'[e.id] + k * Interval[e.id]
    BY Zenon DEF OnGrid
  <2>1. CASE e \in event_queue[d] /\ e.id # t
    BY <1>4, <2>1, Zenon DEF IInv, OnGrid
  <2>2. CASE e.id = t /\ e.time = GetTicks(cpu) + n
    <3>1. Interval[t] \in Nat
      BY TimingAssumption, Zenon
    <3>2. e.time = anchor'[e.id] + 0 * Interval[e.id]
      <4> HIDE DEF GetTicks
      <4> QED BY <1>2, <1>3, <1>4, <2>2, <3>1
    <3> QED BY <3>2
  <2> QED BY <1>6, <2>1, <2>2, Zenon
<1> QED
  BY <1>1, <1>2, <1>4, <1>5, <1>7, EnqueueRun, Zenon

\* Every step of RunLoop and of the program keeps the invariant.
LEMMA NextIInv == ASSUME IInv, [Next]_vars PROVE IInv'
<1>1. CASE UNCHANGED vars
  <2>1. UNCHANGED <<timerVars, born, anchor>> /\ UNCHANGED loopVars
    BY <1>1, Zenon DEF vars
  <2>2. PlaceInv'
    <3>1. LoopTypes' /\ Advanced' = Advanced /\ Settled' = Settled
      BY <2>1, Zenon DEF IInv, LoopTypes, Places, loopVars, lateVars, Advanced, Settled
    <3>2. Clocks'
      BY <2>1, <3>1, Zenon DEF IInv, Clocks, GetTicks, loopVars, timerVars
    <3> QED BY <2>1, <3>1, <3>2, Zenon DEF IInv, PlaceInv, OnTime, NothingOverdue, loopVars, timerVars
  <2> QED BY <2>1, <2>2, TimersKept
<1>2. CASE BeginIteration
  BY <1>2, BeginIterationIInv
<1>3. CASE Advance
  BY <1>3, AdvanceIInv
<1>4. CASE FireEvent
  BY <1>4, FireEventIInv
<1>5. CASE AdvanceDone
  BY <1>5, AdvanceDoneIInv, Zenon
<1>6. CASE LimitSlice
  BY <1>6, LimitSliceIInv
<1>7. CASE MaxSlice
  BY <1>7, MaxSliceIInv
<1>8. CASE StartSlice
  BY <1>8, StartSliceIInv
<1>9. CASE Execute
  BY <1>9, ExecuteIInv
<1>10. CASE EndRun
  BY <1>10, EndRunIInv
<1>11. CASE Idle
  BY <1>11, IdleIInv
<1>12. ASSUME NEW id \in Ids, UnscheduleEvent(id) PROVE IInv'
  BY <1>12, UnscheduleIInv
<1>13. ASSUME NEW id \in Plain, NEW n \in Delays, ScheduleEvent(id, n) PROVE IInv'
  BY <1>13, ScheduleEventIInv
<1>14. ASSUME NEW id \in Plain, NEW n \in Delays, NEW c \in Cores, ScheduleRemote(id, n, c) PROVE IInv'
  BY <1>14, ScheduleRemoteIInv
<1>15. ASSUME NEW t \in Timers, NEW n \in Delays, TimerSet(t, n) PROVE IInv'
  BY <1>15, TimerSetIInv
<1> QED
  BY <1>1, <1>2, <1>3, <1>4, <1>5, <1>6, <1>7, <1>8, <1>9, <1>10, <1>11, <1>12, <1>13, <1>14,
     <1>15 DEF Next

\* The inductive invariant holds whenever the emulator runs.
THEOREM TimingInvariant == Spec => []IInv
<1>1. Init => IInv
  BY InitIInv
<1>2. IInv /\ [Next]_vars => IInv'
  BY NextIInv
<1> QED
  BY <1>1, <1>2, PTL DEF Spec
-----------------------------------------------------------------------------
\* The fields of every timer keep their types.
THEOREM TypeCorrect == Spec => []TypeOK
<1>1. IInv => TypeOK
  <2> SUFFICES ASSUME IInv PROVE TypeOK
    OBVIOUS
  <2>1. \A c \in Cores : downcount[c] \in -Overshoot .. slice_length[c]
    <3> TAKE c \in Cores
    <3>1. /\ downcount[c] \in Int /\ slice_length[c] \in Nat
          /\ -Overshoot <= downcount[c] /\ downcount[c] <= slice_length[c]
      BY DEF IInv, TimerTypes, Counts
    <3> QED BY <3>1, TimingAssumption, SMTT(30)
  <2> QED BY <2>1, Zenon DEF IInv, TimerTypes, LoopTypes, TypeOK, Events
<1> QED BY <1>1, TimingInvariant, PTL

\* GetMaxSliceLength's assertion never fails, and a timer never has two expiries.
THEOREM QueueCorrect == Spec => [](NothingOverdue /\ OneExpiry)
<1>1. IInv => NothingOverdue /\ OneExpiry
  BY Zenon DEF IInv
<1> QED BY <1>1, TimingInvariant, PTL

\* No core runs past an event of its own by more than it overshoots.
THEOREM OnTimeCorrect == Spec => []EventsOnTime
<1>1. IInv => EventsOnTime
  <2> SUFFICES ASSUME IInv, NEW c \in Cores, NEW e \in event_queue[c], ~e.remote
               PROVE  GetTicks(c) <= e.time + Overshoot
    BY Zenon DEF EventsOnTime
  <2>1. /\ executed_ticks[c] \in Nat /\ slice_length[c] \in Nat /\ downcount[c] \in Int
        /\ -Overshoot <= downcount[c] /\ e.time \in Nat /\ Overshoot \in Nat
    BY TimingAssumption DEF IInv, TimerTypes, Counts, Events
  <2>2. CASE executed_ticks[c] + slice_length[c] <= e.time
    BY <2>1, <2>2, SMTT(30) DEF GetTicks
  <2>3. CASE op = "fire" /\ c = cpu /\ executed_ticks[c] <= e.time + Overshoot
    <3>1. is_timer_sane[c]
      BY <2>3 DEF IInv, Clocks
    <3> QED BY <2>1, <2>3, <3>1 DEF GetTicks
  <2> QED BY <2>2, <2>3, Zenon DEF IInv, OnTime
<1> QED BY <1>1, TimingInvariant, PTL

\* A multiple leaves no remainder.
LEMMA MultipleMod ==
    ASSUME NEW k \in Nat, NEW m \in Nat \ {0}
    PROVE  (k * m) % m = 0
<1> DEFINE a == k * m
<1>1. a \in Nat
  OBVIOUS
<1>2. a = (m * (a \div m)) + (a % m) /\ a % m \in 0 .. m - 1 /\ a \div m \in Int
  <2> HIDE DEF a
  <2> QED BY <1>1
<1>3. a % m = m * (k - (a \div m))
  BY <1>2
<1>4. ASSUME NEW x \in Int, NEW r \in 0 .. m - 1, r = m * x PROVE r = 0
  <2>1. CASE x >= 1
    <3>1. m * x >= m
      BY <2>1
    <3> QED BY <1>4, <3>1
  <2>2. CASE x <= -1
    <3>1. m * x <= -m
      BY <2>2
    <3> QED BY <1>4, <3>1
  <2>3. CASE x = 0
    BY <1>4, <2>3
  <2> QED BY <2>1, <2>2, <2>3
<1>5. k - (a \div m) \in Int
  BY <1>2
<1> HIDE DEF a
<1>6. a % m = 0
  BY <1>2, <1>3, <1>4, <1>5, Zenon
<1> QED BY <1>6 DEF a

\* A kernel timer keeps to the grid of its first expiry, however late it is served.
THEOREM NoDriftCorrect == Spec => []NoDrift
<1>1. IInv => NoDrift
  <2> SUFFICES ASSUME IInv, NEW c \in Cores, NEW e \in event_queue[c], e.id \in Timers
               PROVE  \/ e.time = anchor[e.id]
                      \/ Interval[e.id] # 0 /\ (e.time - anchor[e.id]) % Interval[e.id] = 0
    BY Zenon DEF NoDrift
  <2>1. PICK k \in Nat : e.time = anchor[e.id] + k * Interval[e.id]
    BY DEF IInv, OnGrid
  <2>2. anchor[e.id] \in Nat /\ Interval[e.id] \in Nat /\ k * Interval[e.id] \in Nat
    BY TimingAssumption, SMTT(30) DEF IInv, TimerTypes
  <2>3. CASE Interval[e.id] = 0
    BY <2>1, <2>2, <2>3
  <2>4. CASE Interval[e.id] # 0
    <3>1. e.time - anchor[e.id] = k * Interval[e.id]
      BY <2>1, <2>2
    <3>2. (k * Interval[e.id]) % Interval[e.id] = 0
      BY <2>2, <2>4, MultipleMod, Zenon
    <3> QED BY <2>4, <3>1, <3>2, Zenon
  <2> QED BY <2>3, <2>4, Zenon
<1> QED BY <1>1, TimingInvariant, PTL

\* Firing an event leaves the clock alone, since is_timer_sane is set.
LEMMA FireEventClock == ASSUME IInv, FireEvent PROVE \A c \in Cores : GetTicks(c)' = GetTicks(c)
<1>1. op = "fire" /\ is_timer_sane[cpu] /\ UNCHANGED <<is_timer_sane, executed_ticks>>
  BY SMTT(30) DEF FireEvent, IInv, Clocks
<1>2. UNCHANGED <<slice_length, downcount>>
  BY <1>1, Zenon DEF FireEvent, Rearm, Enqueue
<1> QED BY <1>1, <1>2, Zenon DEF GetTicks

\* A running core's clock counts what it executes.
LEMMA RunClock ==
    ASSUME IInv, NEW n \in Nat, op = "run", downcount' = [downcount EXCEPT ![cpu] = @ - n],
           UNCHANGED <<is_timer_sane, slice_length, executed_ticks>>
    PROVE  \A c \in Cores : GetTicks(c)' >= GetTicks(c)
<1> TAKE c \in Cores
<1>1. /\ executed_ticks[c] \in Nat /\ slice_length[c] \in Nat /\ downcount[c] \in Int
      /\ downcount'[c] = downcount[c] - n \/ downcount'[c] = downcount[c]
  BY Zenon DEF IInv, TimerTypes
<1> QED BY <1>1 DEF GetTicks

\* What a step does to the clocks.
LEMMA ClockStep ==
    ASSUME IInv, Next, NEW c \in Cores
    PROVE  /\ GetTicks(c)' >= GetTicks(c)
           /\ born' # born \/ op # "run" => GetTicks(c)' = GetTicks(c)
<1>1. GetTicks(c) \in Nat
  BY TicksType DEF IInv
<1>2. CASE UNCHANGED <<is_timer_sane, slice_length, downcount, executed_ticks>>
  <2>1. GetTicks(c)' = GetTicks(c)
    BY <1>2 DEF GetTicks
  <2> QED BY <1>1, <2>1
<1>3. CASE GetTicks(c)' = GetTicks(c)
  BY <1>1, <1>3, SMTT(30)
<1>4. CASE BeginIteration \/ MaxSlice \/ EndRun
  BY <1>2, <1>4, Zenon DEF BeginIteration, MaxSlice, EndRun, timerVars
<1>5. CASE Advance \/ AdvanceDone
  BY <1>3, <1>5, AdvanceIInv, AdvanceDoneIInv, Zenon
<1>6. CASE FireEvent
  BY <1>3, <1>6, FireEventClock, Zenon
<1>7. CASE LimitSlice
  <2>1. /\ op = "limit" /\ delay \in Nat /\ SetNextSlice(cpu, delay)
        /\ UNCHANGED <<event_queue, is_timer_sane, executed_ticks>>
    BY <1>7, Zenon DEF LimitSlice, IInv, LoopTypes
  <2> QED BY <1>3, <2>1, SliceGiven, Zenon
<1>8. CASE StartSlice
  <2>1. /\ op = "slice" /\ max_slice \in Nat /\ SetNextSlice(cpu, max_slice)
        /\ UNCHANGED <<event_queue, is_timer_sane, executed_ticks>>
    BY <1>8 DEF StartSlice, IInv, LoopTypes
  <2> QED BY <1>3, <2>1, SliceGiven, Zenon
<1>9. CASE Execute
  <2>1. op = "run" /\ cpu \in Cores /\ downcount[cpu] \in Int
    BY <1>9 DEF Execute, IInv, LoopTypes, TimerTypes
  <2>2. PICK n \in 1 .. downcount[cpu] + Overshoot : downcount' = [downcount EXCEPT ![cpu] = @ - n]
    BY <1>9, Zenon DEF Execute
  <2>3. n \in Nat
    BY <2>1, <2>2, TimingAssumption
  <2>4. GetTicks(c)' >= GetTicks(c)
    BY <1>9, <2>1, <2>2, <2>3, RunClock, Zenon DEF Execute
  <2> QED BY <1>9, <2>1, <2>4, Zenon DEF Execute
<1>10. CASE Idle
  <2>1. op = "run" /\ cpu \in Cores /\ downcount[cpu] \in Nat
    BY <1>10 DEF Idle, IInv, LoopTypes, TimerTypes
  <2>2. downcount' = [downcount EXCEPT ![cpu] = @ - downcount[cpu]]
    <3>1. downcount \in [Cores -> Int] /\ downcount' = [downcount EXCEPT ![cpu] = 0]
      BY <1>10 DEF Idle, IInv, TimerTypes
    <3>2. downcount[cpu] - downcount[cpu] = 0
      BY <2>1
    <3> QED BY <2>1, <3>1, <3>2, Zenon
  <2>3. GetTicks(c)' >= GetTicks(c)
    BY <1>10, <2>1, <2>2, RunClock, Zenon DEF Idle
  <2> QED BY <1>10, <2>1, <2>3, Zenon DEF Idle, RunDone
<1>11. CASE \E id \in Ids : UnscheduleEvent(id)
  BY <1>2, <1>11 DEF UnscheduleEvent
<1>12. CASE \E id \in Plain, n \in Delays : ScheduleEvent(id, n)
  BY <1>3, <1>12, ScheduleEventIInv, Zenon
<1>13. CASE \E id \in Plain, n \in Delays, d \in Cores : ScheduleRemote(id, n, d)
  BY <1>2, <1>13, Zenon DEF ScheduleRemote
<1>14. CASE \E t \in Timers, n \in Delays : TimerSet(t, n)
  BY <1>3, <1>14, TimerSetIInv
<1> QED
  BY <1>4, <1>5, <1>6, <1>7, <1>8, <1>9, <1>10, <1>11, <1>12, <1>13, <1>14, Zenon DEF Next

\* The clock of a core moves exactly when the core executes.
THEOREM ClockCorrect == Spec => ClockIsExecution
<1> DEFINE A == \A c \in Cores : /\ GetTicks(c)' >= GetTicks(c)
                                 /\ born' # born \/ op # "run" => GetTicks(c)' = GetTicks(c)
<1>1. IInv /\ [Next]_vars => [A]_vars
  BY ClockStep
<1>2. Spec => [][A]_vars
  <2> HIDE DEF A
  <2> QED BY <1>1, TimingInvariant, PTL DEF Spec
<1> QED BY <1>2 DEF ClockIsExecution

\* Events due at the same time fire in the order they were scheduled in.
LEMMA FireOrder ==
    ASSUME IInv, Next, op = "fire", NEW e \in event_queue[cpu] \ event_queue'[cpu],
           NEW f \in event_queue'[cpu], ~e.remote, ~f.remote, e.time = f.time
    PROVE  e.born < f.born
<1>1. FireEvent
  BY Zenon DEF Next, BeginIteration, Advance, AdvanceDone, LimitSlice, MaxSlice, StartSlice, Execute,
         EndRun, Idle, UnscheduleEvent, ScheduleEvent, ScheduleRemote, TimerSet
<1>2. PICK g \in Due(cpu) :
          LET rest == [event_queue EXCEPT ![cpu] = @ \ {g}] IN
          \/ Rearm(cpu, rest, g)
          \/ event_queue' = rest
  BY <1>1, ZenonT(40) DEF FireEvent
<1>3. cpu \in Cores /\ event_queue \in [Cores -> SUBSET Events]
  BY Zenon DEF IInv, LoopTypes, TimerTypes
<1>4. /\ \A h \in event_queue[cpu] : h # g => h \in event_queue'[cpu]
      /\ \A h \in event_queue'[cpu] : h \in event_queue[cpu] \/ h.born = born
  BY <1>2, <1>3 DEF Rearm, Enqueue, Event
<1>5. e = g /\ g \in Earliest(event_queue[cpu])
  BY <1>2, <1>4, Zenon DEF Due
<1>6. e.born \in Nat /\ e.fifo \in Nat /\ e.born < born /\ e.time \in Nat
  BY <1>3 DEF Events, IInv, Scheduled
<1>7. CASE f.born = born
  BY <1>6, <1>7, Zenon
<1>8. CASE f \in event_queue[cpu]
  <2>1. f.fifo \in Nat /\ f.born \in Nat /\ e # f
    BY <1>3, <1>8 DEF Events
  <2>2. e.fifo <= f.fifo
    BY <1>5, <1>6, <1>8, SMTT(30) DEF Earliest
  <2>3. (f.fifo < e.fifo <=> f.born < e.born) /\ (e.born # f.born)
    BY <1>3, <1>8, <2>1 DEF IInv, Scheduled
  <2> QED BY <1>6, <2>1, <2>2, <2>3
<1> QED BY <1>4, <1>7, <1>8, SMTT(30)

\* The order of the callbacks is the order of the calls.
THEOREM OrderCorrect == Spec => FiredInOrder
<1> DEFINE A == op = "fire" =>
                    \A e \in event_queue[cpu] \ event_queue'[cpu], f \in event_queue'[cpu] :
                        ~e.remote /\ ~f.remote /\ e.time = f.time => e.born < f.born
<1>1. IInv /\ [Next]_vars => [A]_vars
  BY FireOrder, Zenon
<1>2. Spec => [][A]_vars
  <2> HIDE DEF A
  <2> QED BY <1>1, TimingInvariant, PTL DEF Spec
<1> QED BY <1>2, Zenon DEF FiredInOrder
=============================================================================
