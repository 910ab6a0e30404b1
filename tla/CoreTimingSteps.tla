-------------------------- MODULE CoreTimingSteps ---------------------------
(***************************************************************************)
(* The inductive invariant of CoreTiming, for any number of cores, timers  *)
(* and events and any length of slice, and the steps of RunLoop that keep  *)
(* it: choosing a slice, running the cores and counting what they ran.     *)
(***************************************************************************)
EXTENDS CoreTiming, WellFoundedInduction, TLAPS

Events == [time : Nat, fifo : Nat, id : Ids, born : Nat, remote : BOOLEAN]

\* What RunLoop can do next in each of its loops
Places ==
    \/ op = "begin"
    \/ op \in {"advance", "fire"} /\ phase \in {"late", "all"}
    \/ op = "limit" /\ phase = "late"
    \/ op \in {"max", "slice"} /\ phase = "all"
    \/ op = "run" /\ phase \in {"all", "alone"}

TimerTypes ==
    /\ event_queue \in [Cores -> SUBSET Events]
    /\ ts_queue \in [Cores -> Seq(Events)]
    /\ event_fifo_id \in [Cores -> Nat]
    /\ is_timer_sane \in [Cores -> BOOLEAN]
    /\ slice_length \in [Cores -> Nat]
    /\ downcount \in [Cores -> Int]
    /\ executed_ticks \in [Cores -> Nat]
    /\ born \in Nat /\ anchor \in [Timers -> Nat]

\* The slowest core is one that the loop over the late cores has passed.
LoopTypes ==
    /\ Places /\ cpu \in Cores /\ slowest \in Cores
    /\ global_ticks \in Nat /\ delay \in Nat /\ max_delay \in Nat
    /\ max_slice \in Nat /\ start_ticks \in Nat
    /\ max_delay > 0 => phase = "late" /\ op \in {"advance", "fire", "limit"} /\ slowest < cpu

\* A core has run past its slice by Overshoot at most, and has stopped at MaxTicks.
Counts ==
    \A c \in Cores : /\ -Overshoot <= downcount[c] /\ downcount[c] <= slice_length[c]
                     /\ GetTicks(c) <= MaxTicks

\* The cores that have advanced in this iteration and have no slice yet
Advanced ==
    {c \in Cores : \/ op \in {"advance", "fire"} /\ phase = "all" /\ c < cpu
                   \/ op \in {"limit", "fire"} /\ c = cpu
                   \/ op = "max" /\ c <= cpu
                   \/ op = "slice" /\ c >= cpu
                   \/ op = "run" /\ phase = "all" /\ c > cpu}

\* The cores that have advanced, with or without a slice
Settled ==
    {c \in Cores : \/ op \in {"advance", "fire"} /\ phase = "all" /\ c < cpu
                   \/ op = "limit" /\ c = cpu
                   \/ op = "max" /\ c <= cpu
                   \/ op \in {"slice", "run"} /\ phase = "all"
                   \/ op = "run" /\ c = cpu
                   \/ max_delay > 0 /\ c = slowest}

\* An unused slice does not count as executed, and is_timer_sane is cleared
\* before the core runs.
Clocks ==
    /\ \A c \in Cores : is_timer_sane[c] => slice_length[c] = downcount[c]
    /\ \A c \in Advanced : slice_length[c] = downcount[c]
    /\ \A c \in Settled : ~is_timer_sane[c]
    /\ op = "fire" => is_timer_sane[cpu] /\ slice_length[cpu] = 0
    /\ op = "run" /\ phase = "all" => start_ticks <= GetTicks(cpu)

\* A slice ends at the next event, except on the core whose events are firing.
OnTime ==
    \A c \in Cores : \A e \in event_queue[c] :
        \/ executed_ticks[c] + slice_length[c] <= e.time
        \/ op = "fire" /\ c = cpu /\ (e.remote \/ executed_ticks[c] <= e.time + Overshoot)

\* What is scheduled for a timer, and in which order
Scheduled ==
    /\ \A c \in Cores : \A e \in event_queue[c] :
          /\ e.fifo < event_fifo_id[c]
          /\ e.remote => e.id \in Plain
          /\ ~e.remote => e.born < born
    /\ \A c \in Cores : \A i \in DOMAIN ts_queue[c] :
          ts_queue[c][i].remote /\ ts_queue[c][i].id \in Plain
    /\ \A c \in Cores : \A e, f \in event_queue[c] :
          ~e.remote /\ ~f.remote =>
              /\ e.fifo < f.fifo <=> e.born < f.born
              /\ e.born = f.born => e = f

\* Every expiry of a timer lies on the grid that starts with the first.
OnGrid ==
    \A c \in Cores : \A e \in event_queue[c] :
        e.id \in Timers => \E k \in Nat : e.time = anchor[e.id] + k * Interval[e.id]

IInv ==
    /\ TimerTypes /\ LoopTypes /\ Counts /\ Clocks /\ OnTime
    /\ NothingOverdue /\ Scheduled /\ OneExpiry /\ OnGrid
-----------------------------------------------------------------------------
\* A nonempty set of times has a least element, which Min returns.
LEMMA MinOfNaturals ==
    ASSUME NEW S, S \subseteq Nat, S # {}
    PROVE  Min(S) \in S /\ \A y \in S : Min(S) <= y
<1> DEFINE R == OpToRel(<, Nat)
<1>1. IsWellFoundedOn(R, Nat)
  BY NatLessThanWellFounded, Zenon
<1> HIDE DEF R
<1>2. PICK x \in S : \A y \in S : <<y, x>> \notin R
  BY <1>1, WFMin, Zenon
<1>3. \A y \in S : x <= y
  <2> SUFFICES ASSUME NEW y \in S PROVE x <= y
    OBVIOUS
  <2>1. y < x => <<y, x>> \in R
    BY DEF R, OpToRel
  <2> QED
    BY <1>2, <2>1
<1> QED
  BY <1>3, Zenon DEF Min

\* A nonempty set of times with an upper bound has a greatest one, which Max returns.
LEMMA MaxOfNaturals ==
    ASSUME NEW S, S \subseteq Nat, S # {}, NEW n \in Nat, \A x \in S : x <= n
    PROVE  Max(S) \in S /\ \A y \in S : y <= Max(S)
<1> DEFINE D == {n - x : x \in S}
<1>1. D \subseteq Nat /\ D # {}
  OBVIOUS
<1>2. Min(D) \in D /\ \A d \in D : Min(D) <= d
  <2> HIDE DEF D
  <2> QED
    BY <1>1, MinOfNaturals, Zenon
<1>3. PICK x \in S : Min(D) = n - x
  BY <1>2, Zenon
<1>4. \A y \in S : y <= x
  <2> SUFFICES ASSUME NEW y \in S PROVE y <= x
    OBVIOUS
  <2>1. n - y \in D
    OBVIOUS
  <2>2. n - x <= n - y
    BY <1>2, <1>3, <2>1, Zenon
  <2> QED
    BY <2>2
<1> QED
  BY <1>4, Zenon DEF Max

-----------------------------------------------------------------------------
\* Core 0 exists, and cores are numbers.
LEMMA CoreNumbers ==
    Cores \subseteq Nat /\ 0 \in Cores /\ \A c \in Cores : c + 1 \notin Cores => c = NumCores - 1
BY TimingAssumption DEF Cores

\* std::max
LEMMA MaxOfTwo ==
    ASSUME NEW a \in Int, NEW b \in Int
    PROVE  Max({a, b}) = IF a < b THEN b ELSE a
<1> DEFINE m == IF a < b THEN b ELSE a
<1>1. m \in {a, b} /\ \A y \in {a, b} : m >= y
  OBVIOUS
<1>2. \A x \in {a, b} : (\A y \in {a, b} : x >= y) => x = m
  OBVIOUS
<1> QED
  BY <1>1, <1>2 DEF Max

\* std::min
LEMMA MinOfTwo ==
    ASSUME NEW a \in Int, NEW b \in Int
    PROVE  Min({a, b}) = IF a < b THEN a ELSE b
<1> DEFINE m == IF a < b THEN a ELSE b
<1>1. m \in {a, b} /\ \A y \in {a, b} : m <= y
  OBVIOUS
<1>2. \A x \in {a, b} : (\A y \in {a, b} : x <= y) => x = m
  OBVIOUS
<1> QED
  BY <1>1, <1>2 DEF Min

\* A clock never shows less than what was executed before the slice.
LEMMA TicksType ==
    ASSUME TimerTypes, Counts, NEW c \in Cores
    PROVE  GetTicks(c) \in Nat /\ GetTicks(c) <= MaxTicks
<1>1. executed_ticks[c] \in Nat /\ slice_length[c] \in Nat /\ downcount[c] \in Int
      /\ downcount[c] <= slice_length[c] /\ GetTicks(c) <= MaxTicks
  BY DEF TimerTypes, Counts
<1> QED
  BY <1>1 DEF GetTicks

\* The global time is one of the clocks.
LEMMA GlobalTicksType ==
    ASSUME TimerTypes, Counts
    PROVE  GetGlobalTicks \in Nat
<1> DEFINE S == {GetTicks(c) : c \in Cores}
<1>1. S \subseteq Nat /\ S # {} /\ \A x \in S : x <= MaxTicks
  BY TicksType, CoreNumbers
<1>2. MaxTicks \in Nat
  BY TimingAssumption
<1>3. Max(S) \in S
  <2> HIDE DEF S
  <2> QED BY <1>1, <1>2, MaxOfNaturals, Zenon
<1> QED
  BY <1>1, <1>3 DEF GetGlobalTicks

\* The next event is one of the queue, and none is earlier.
LEMMA NextTimeFirst ==
    ASSUME NEW q \in SUBSET Events, q # {}
    PROVE  NextTime(q) \in Nat /\ (\E e \in q : e.time = NextTime(q))
           /\ \A e \in q : NextTime(q) <= e.time
<1> DEFINE S == {e.time : e \in q}
<1>1. S \subseteq Nat /\ S # {}
  BY DEF Events
<1>2. Min(S) \in S /\ \A y \in S : Min(S) <= y
  <2> HIDE DEF S
  <2> QED BY <1>1, MinOfNaturals, Zenon
<1> QED
  BY <1>1, <1>2, Zenon DEF NextTime

\* A queue that is not empty has a first event.
LEMMA EarliestExists ==
    ASSUME NEW q \in SUBSET Events, NEW f \in q
    PROVE  \E e \in Earliest(q) : e.time <= f.time
<1> DEFINE first == {e \in q : e.time = NextTime(q)}
           F == {e.fifo : e \in first}
<1>1. /\ NextTime(q) \in Nat /\ (\E e \in q : e.time = NextTime(q))
      /\ \A e \in q : NextTime(q) <= e.time
  <2>1. q # {}
    OBVIOUS
  <2> QED BY <2>1, NextTimeFirst
<1>2. F \subseteq Nat /\ F # {}
  BY <1>1 DEF Events
<1>3. Min(F) \in F /\ \A y \in F : Min(F) <= y
  <2> HIDE DEF F
  <2> QED BY <1>2, MinOfNaturals, Zenon
<1>4. PICK e \in first : e.fifo = Min(F)
  BY <1>3
<1>5. \A g \in q : g.time \in Nat
  BY DEF Events
<1>6. \A g \in q : e.time < g.time \/ (e.time = g.time /\ e.fifo <= g.fifo)
  <2> TAKE g \in q
  <2>1. e.time = NextTime(q) /\ e.time <= g.time
    BY <1>1, <1>4
  <2>2. CASE g.time = NextTime(q)
    BY <1>3, <1>4, <2>1, <2>2
  <2>3. CASE g.time # NextTime(q)
    BY <1>1, <1>5, <2>1, <2>3
  <2> QED BY <2>2, <2>3
<1> QED
  BY <1>1, <1>4, <1>6 DEF Earliest

\* When Advance has fired all events that are due, the others are still to come.
LEMMA NoneDue ==
    ASSUME TimerTypes, NEW c \in Cores, Due(c) = {}, NEW e \in event_queue[c]
    PROVE  executed_ticks[c] < e.time
<1>1. event_queue[c] \in SUBSET Events /\ executed_ticks[c] \in Nat
  BY DEF TimerTypes
<1>2. PICK f \in Earliest(event_queue[c]) : f.time <= e.time
  BY <1>1, EarliestExists
<1>3. f \in event_queue[c] /\ ~(f.time <= executed_ticks[c])
  BY <1>2 DEF Due, Earliest
<1>4. f.time \in Nat /\ e.time \in Nat
  BY <1>1, <1>3 DEF Events
<1> QED
  BY <1>1, <1>2, <1>3, <1>4
-----------------------------------------------------------------------------
\* SetNextSlice gives a core a slice that ends at its next event or before it.
LEMMA NextSlice ==
    ASSUME TimerTypes, NEW c \in Cores, NEW max \in Nat, SetNextSlice(c, max),
           \A e \in event_queue[c] : executed_ticks[c] <= e.time
    PROVE  \E n \in Nat : /\ slice_length' = [slice_length EXCEPT ![c] = n]
                          /\ downcount' = [downcount EXCEPT ![c] = n]
                          /\ \A e \in event_queue[c] : executed_ticks[c] + n <= e.time
<1> DEFINE q == event_queue[c]
           n == IF q = {} THEN max ELSE Min({max, NextTime(q) - executed_ticks[c]})
<1>1. q \in SUBSET Events /\ executed_ticks[c] \in Nat
  BY DEF TimerTypes
<1>2. slice_length' = [slice_length EXCEPT ![c] = n] /\ downcount' = [downcount EXCEPT ![c] = n]
  BY DEF SetNextSlice
<1>3. n \in Nat /\ \A e \in q : executed_ticks[c] + n <= e.time
  <2>1. CASE q = {}
    BY <2>1
  <2>2. CASE q # {}
    <3>1. /\ NextTime(q) \in Nat /\ \A e \in q : NextTime(q) <= e.time
          /\ executed_ticks[c] <= NextTime(q)
      <4> HIDE DEF q
      <4>1. NextTime(q) \in Nat /\ (\E e \in q : e.time = NextTime(q))
            /\ \A e \in q : NextTime(q) <= e.time
        BY <1>1, <2>2, NextTimeFirst
      <4> QED BY <4>1 DEF q
    <3>2. n = IF max < NextTime(q) - executed_ticks[c] THEN max ELSE NextTime(q) - executed_ticks[c]
      <4>1. NextTime(q) - executed_ticks[c] \in Int /\ max \in Int
        BY <1>1, <3>1
      <4> QED BY <2>2, <4>1, MinOfTwo
    <3>3. \A e \in q : e.time \in Nat
      BY <1>1 DEF Events
    <3> HIDE DEF q, n
    <3> QED BY <1>1, <3>1, <3>2, <3>3
  <2> QED BY <2>1, <2>2, Zenon
<1> HIDE DEF n
<1> QED BY <1>2, <1>3, Zenon

\* ForceExceptionCheck takes from the slice what is left of it beyond n ticks.
LEMMA CutShort ==
    ASSUME TimerTypes, Counts, NEW c \in Cores, NEW n \in Nat, ForceExceptionCheck(c, n)
    PROVE  \E lost \in Nat : /\ slice_length' = [slice_length EXCEPT ![c] = @ - lost]
                             /\ downcount' = [downcount EXCEPT ![c] = @ - lost]
                             /\ lost <= slice_length[c] /\ downcount[c] - lost <= n
                             /\ lost = 0 \/ downcount[c] - lost >= 0
<1> DEFINE lost == Max({0, downcount[c] - Max({0, n})})
<1>1. downcount[c] \in Int /\ slice_length[c] \in Nat /\ downcount[c] <= slice_length[c]
  BY DEF TimerTypes, Counts
<1>2. Max({0, n}) = n
  BY MaxOfTwo
<1>3. lost = IF 0 < downcount[c] - n THEN downcount[c] - n ELSE 0
  <2>1. 0 \in Int /\ downcount[c] - n \in Int
    BY <1>1
  <2> QED BY <1>2, <2>1, MaxOfTwo
<1>4. slice_length' = [slice_length EXCEPT ![c] = @ - lost]
      /\ downcount' = [downcount EXCEPT ![c] = @ - lost]
  BY DEF ForceExceptionCheck
<1> HIDE DEF lost
<1>5. /\ lost \in Nat /\ lost <= slice_length[c] /\ downcount[c] - lost <= n
      /\ lost = 0 \/ downcount[c] - lost >= 0
  BY <1>1, <1>3
<1> QED BY <1>4, <1>5, Zenon

\* Where the loop over the late cores goes from core c: to a later core, to the slowest
\* one alone, or to all of them.
LEMMA VisitCases ==
    ASSUME TimerTypes, Counts, NEW c \in Nat, NEW global \in Nat, NEW max \in Nat,
           NEW slow \in Cores, max > 0 => slow < c, Visit(c, global, max, slow)
    PROVE  \/ /\ op' = "advance" /\ phase' = "late" /\ cpu' \in Cores /\ c <= cpu'
              /\ global_ticks' = global /\ delay' \in Nat /\ max_delay' = max
              /\ slowest' = slow /\ max_slice' = max_slice
           \/ /\ op' = "run" /\ phase' = "alone" /\ cpu' = slow /\ max > 0
              /\ global_ticks' = 0 /\ delay' = 0 /\ max_delay' = 0 /\ slowest' = 0
              /\ max_slice' = max_slice
           \/ /\ op' = "advance" /\ phase' = "all" /\ cpu' = 0
              /\ global_ticks' = 0 /\ delay' = 0 /\ max_delay' = 0 /\ slowest' = 0
              /\ max_slice' = MAX_SLICE_LENGTH
<1> DEFINE late == {d \in Cores : d >= c /\ GetTicks(d) < global}
<1>1. CASE late # {}
  <2>1. late \subseteq Nat
    BY CoreNumbers, Zenon
  <2>2. Min(late) \in late
    <3> HIDE DEF late
    <3> QED BY <1>1, <2>1, MinOfNaturals, Zenon
  <2>3. GetTicks(Min(late)) \in Nat /\ GetTicks(Min(late)) < global
    BY <2>2, TicksType
  <2>4. /\ op' = "advance" /\ phase' = "late" /\ cpu' = Min(late)
        /\ global_ticks' = global /\ delay' = global - GetTicks(Min(late))
        /\ max_delay' = max /\ slowest' = slow /\ max_slice' = max_slice
    BY <1>1 DEF Visit
  <2>5. cpu' \in Cores /\ c <= cpu'
    BY <2>1, <2>2, <2>4
  <2>6. delay' \in Nat
    BY <2>3, <2>4
  <2> QED BY <2>4, <2>5, <2>6
<1>2. CASE late = {}
  BY <1>2, TimingAssumption DEF Visit, CatchUp
<1> QED BY <1>1, <1>2
-----------------------------------------------------------------------------
EventInv == Scheduled /\ OneExpiry /\ OnGrid

eventVars == <<event_queue, ts_queue, event_fifo_id, born, anchor>>

\* Clocks and slices say nothing about which events there are.
LEMMA EventsKept == ASSUME EventInv, UNCHANGED eventVars PROVE EventInv'
BY DEF EventInv, eventVars, Scheduled, OneExpiry, OnGrid

\* Events that leave the queues disturb nothing.
LEMMA FewerEvents ==
    ASSUME EventInv, \A d \in Cores : event_queue'[d] \subseteq event_queue[d],
           UNCHANGED <<ts_queue, event_fifo_id, born, anchor>>
    PROVE  EventInv'
<1>1. Scheduled'
  BY DEF EventInv, Scheduled
<1>2. OneExpiry'
  BY DEF EventInv, OneExpiry
<1>3. OnGrid'
  BY DEF EventInv, OnGrid
<1> QED BY <1>1, <1>2, <1>3 DEF EventInv

\* A new event comes after those that are there.
LEMMA EnqueueOrder ==
    ASSUME TimerTypes, Scheduled, NEW c \in Cores, NEW id \in Ids, NEW time \in Nat,
           NEW queues \in [Cores -> SUBSET Events], \A d \in Cores : queues[d] \subseteq event_queue[d],
           event_queue' = [queues EXCEPT ![c] =
               @ \cup {Event(time, event_fifo_id[c], id, born, FALSE)}],
           event_fifo_id' = [event_fifo_id EXCEPT ![c] = @ + 1],
           born' = born + 1, UNCHANGED ts_queue
    PROVE  /\ event_queue' \in [Cores -> SUBSET Events] /\ event_fifo_id' \in [Cores -> Nat]
           /\ born' \in Nat /\ Scheduled'
<1> DEFINE new == Event(time, event_fifo_id[c], id, born, FALSE)
<1>1. event_fifo_id[c] \in Nat /\ born \in Nat
  BY DEF TimerTypes
<1>2. /\ new \in Events /\ new.time = time /\ new.fifo = event_fifo_id[c] /\ new.id = id
      /\ new.born = born /\ new.remote = FALSE
  BY <1>1 DEF Event, Events
<1> HIDE DEF new
<1>3. \A d \in Cores : event_queue'[d] = IF d = c THEN queues[c] \cup {new} ELSE queues[d]
  BY DEF new
<1>4. \A d \in Cores : event_fifo_id'[d] = IF d = c THEN event_fifo_id[c] + 1 ELSE event_fifo_id[d]
  BY DEF TimerTypes
<1>5. event_queue' \in [Cores -> SUBSET Events] /\ event_fifo_id' \in [Cores -> Nat] /\ born' \in Nat
  <2>1. event_queue' \in [Cores -> SUBSET Events]
    <3>1. event_queue' = [d \in Cores |-> IF d = c THEN queues[c] \cup {new} ELSE queues[d]]
      BY Zenon DEF new
    <3>2. queues[c] \cup {new} \in SUBSET Events
      BY <1>2
    <3> QED BY <3>1, <3>2, Zenon
  <2>2. event_fifo_id' \in [Cores -> Nat] /\ born' \in Nat
    BY <1>1 DEF TimerTypes
  <2> QED BY <2>1, <2>2, Zenon
<1>6. \A d \in Cores : \A e \in event_queue'[d] : e \in event_queue[d] \/ (d = c /\ e = new)
  BY <1>3, Zenon
<1>7. \A d \in Cores : \A e \in event_queue[d] :
          /\ e.fifo \in Nat /\ e.born \in Nat /\ e.remote \in BOOLEAN
          /\ e.fifo < event_fifo_id[d] /\ (e.remote => e.id \in Plain)
          /\ (~e.remote => e.born < born)
  BY DEF TimerTypes, Events, Scheduled
<1>8. \A d \in Cores : \A e \in event_queue'[d] :
          /\ e.fifo < event_fifo_id'[d] /\ (e.remote => e.id \in Plain)
          /\ (~e.remote => e.born < born')
  <2> TAKE d \in Cores
  <2> TAKE e \in event_queue'[d]
  <2>1. event_fifo_id[d] \in Nat /\ event_fifo_id'[d] >= event_fifo_id[d]
    BY <1>1, <1>4 DEF TimerTypes
  <2>2. CASE e \in event_queue[d]
    BY <1>1, <1>7, <2>1, <2>2, <1>5 DEF TimerTypes
  <2>3. CASE d = c /\ e = new
    BY <1>1, <1>2, <1>4, <2>3
  <2> QED BY <1>6, <2>2, <2>3, Zenon
<1>9. \A d \in Cores : \A e, f \in event_queue'[d] :
          ~e.remote /\ ~f.remote =>
              /\ e.fifo < f.fifo <=> e.born < f.born
              /\ e.born = f.born => e = f
  <2> SUFFICES ASSUME NEW d \in Cores, NEW e \in event_queue'[d], NEW f \in event_queue'[d],
                      ~e.remote, ~f.remote
               PROVE  (e.fifo < f.fifo <=> e.born < f.born) /\ (e.born = f.born => e = f)
    BY ZenonT(40)
  <2>1. CASE e \in event_queue[d] /\ f \in event_queue[d]
    BY <2>1 DEF Scheduled
  <2>2. CASE e \in event_queue[d] /\ d = c /\ f = new
    BY <1>1, <1>2, <1>7, <2>2
  <2>3. CASE d = c /\ e = new /\ f \in event_queue[d]
    BY <1>1, <1>2, <1>7, <2>3
  <2>4. CASE e = new /\ f = new
    BY <1>1, <1>2, <2>4
  <2> QED BY <1>6, <2>1, <2>2, <2>3, <2>4, Zenon
<1> QED
  BY <1>5, <1>8, <1>9, Zenon DEF Scheduled

\* A timer that is enqueued has no other expiry.
LEMMA EnqueueOnce ==
    ASSUME OneExpiry, NEW c \in Cores, NEW id \in Ids, NEW new,
           NEW queues \in [Cores -> SUBSET Events], \A d \in Cores : queues[d] \subseteq event_queue[d],
           id \in Timers => \A d \in Cores : \A e \in queues[d] : e.id # id,
           \A d \in Cores : \A e \in event_queue'[d] :
               e \in queues[d] \/ (d = c /\ e = new /\ e.id = id)
    PROVE  OneExpiry'
<1> SUFFICES ASSUME NEW d1 \in Cores, NEW d2 \in Cores, NEW e \in event_queue'[d1],
                    NEW f \in event_queue'[d2], e.id = f.id, e.id \in Timers
             PROVE  d1 = d2 /\ e = f
  BY DEF OneExpiry
<1>1. CASE e \in queues[d1] /\ f \in queues[d2]
  BY <1>1 DEF OneExpiry
<1>2. CASE ~(e \in queues[d1] /\ f \in queues[d2])
  BY <1>2
<1> QED BY <1>1, <1>2
-----------------------------------------------------------------------------
\* The initial state satisfies the invariant.
LEMMA InitIInv == ASSUME Init PROVE IInv
<1> USE DEF Init
<1>1. TimerTypes
  BY TimingAssumption DEF TimerTypes
<1>2. LoopTypes
  BY TimingAssumption, CoreNumbers DEF LoopTypes, Places
<1>3. Counts /\ Clocks
  BY TimingAssumption DEF Counts, Clocks, GetTicks, Advanced, Settled
<1>4. OnTime /\ NothingOverdue /\ Scheduled /\ OneExpiry /\ OnGrid
  BY DEF OnTime, NothingOverdue, Scheduled, OneExpiry, OnGrid
<1> QED
  BY <1>1, <1>2, <1>3, <1>4 DEF IInv

\* The conditions of IInv that depend on the place in RunLoop.
PlaceInv == LoopTypes /\ Clocks /\ OnTime /\ NothingOverdue

\* When only the place in RunLoop changes.
LEMMA TimersKept ==
    ASSUME IInv, UNCHANGED <<timerVars, born, anchor>>, PlaceInv' PROVE IInv'
<1>1. EventInv'
  BY EventsKept DEF IInv, EventInv, eventVars, timerVars
<1>2. TimerTypes' /\ Counts'
  BY DEF IInv, TimerTypes, Counts, GetTicks, timerVars
<1> QED
  BY <1>1, <1>2 DEF IInv, PlaceInv, EventInv

\* RunLoop looks for late cores.
LEMMA BeginIterationIInv == ASSUME IInv, BeginIteration PROVE IInv'
<1>1. op = "begin" /\ UNCHANGED <<timerVars, start_ticks, born, anchor>>
  BY DEF BeginIteration
<1>2. /\ op' = "advance" /\ cpu' \in Cores /\ slowest' = 0 /\ max_delay' = 0
      /\ global_ticks' \in Nat /\ delay' \in Nat /\ max_slice' \in Nat
      /\ phase' = "late" \/ (phase' = "all" /\ cpu' = 0)
  <2>1. GetGlobalTicks \in Nat
    BY GlobalTicksType DEF IInv
  <2>2. Visit(0, GetGlobalTicks, 0, 0) /\ TimerTypes /\ Counts /\ max_slice \in Nat
    BY DEF BeginIteration, IInv, LoopTypes
  <2> HIDE DEF GetGlobalTicks
  <2>3. \/ /\ op' = "advance" /\ phase' = "late" /\ cpu' \in Cores /\ 0 <= cpu'
           /\ global_ticks' = GetGlobalTicks /\ delay' \in Nat /\ max_delay' = 0
           /\ slowest' = 0 /\ max_slice' = max_slice
        \/ /\ op' = "advance" /\ phase' = "all" /\ cpu' = 0
           /\ global_ticks' = 0 /\ delay' = 0 /\ max_delay' = 0 /\ slowest' = 0
           /\ max_slice' = MAX_SLICE_LENGTH
    BY <2>1, <2>2, VisitCases, CoreNumbers
  <2> QED
    BY <2>1, <2>2, <2>3, CoreNumbers, TimingAssumption
<1>3. LoopTypes'
  BY <1>1, <1>2, CoreNumbers DEF IInv, LoopTypes, Places
<1>4. Advanced' = {} /\ Settled' = {}
  <2> SUFFICES ASSUME NEW c \in Cores PROVE c \notin Advanced' /\ c \notin Settled'
    BY DEF Advanced, Settled
  <2>1. c \in Nat
    BY CoreNumbers
  <2> QED BY <1>2, <2>1 DEF Advanced, Settled
<1>5. Clocks'
  BY <1>1, <1>2, <1>4 DEF IInv, Clocks, timerVars
<1>6. OnTime' /\ NothingOverdue'
  BY <1>1, <1>2 DEF IInv, OnTime, NothingOverdue, timerVars
<1> QED
  BY <1>1, <1>3, <1>5, <1>6, TimersKept DEF PlaceInv

\* GetMaxSliceLength, and the least of them.
LEMMA MaxSliceIInv == ASSUME IInv, MaxSlice PROVE IInv'
<1>1. /\ op = "max" /\ phase = "all" /\ max_delay = 0 /\ cpu \in Cores
      /\ UNCHANGED <<timerVars, phase, lateVars, start_ticks, born, anchor>>
  BY DEF MaxSlice, IInv, LoopTypes, Places
<1>2. \/ cpu + 1 \in Cores /\ op' = "advance" /\ cpu' = cpu + 1
      \/ cpu + 1 \notin Cores /\ op' = "slice" /\ cpu' = 0
  BY DEF MaxSlice, NextCore
<1>3. max_slice' \in Nat
  <2> DEFINE S == {max_slice} \cup {e.time - executed_ticks[cpu] : e \in event_queue[cpu]}
  <2>1. \A e \in event_queue[cpu] : e.time \in Nat /\ executed_ticks[cpu] < e.time
    BY <1>1 DEF IInv, NothingOverdue, TimerTypes, Events
  <2>2. S \subseteq Nat /\ S # {}
    BY <1>1, <2>1 DEF IInv, LoopTypes, TimerTypes
  <2>3. Min(S) \in S
    <3> HIDE DEF S
    <3> QED BY <2>2, MinOfNaturals, Zenon
  <2> QED BY <2>2, <2>3 DEF MaxSlice
<1>4. LoopTypes'
  BY <1>1, <1>2, <1>3, CoreNumbers DEF IInv, LoopTypes, Places, lateVars
<1>5. Advanced' \subseteq Advanced /\ Settled' \subseteq Settled
  <2>1. CASE cpu + 1 \in Cores
    <3> SUFFICES ASSUME NEW c \in Cores
                 PROVE  (c \in Advanced' => c \in Advanced) /\ (c \in Settled' => c \in Settled)
      BY DEF Advanced, Settled
    <3>1. c \in Nat /\ cpu \in Nat
      BY <1>1, CoreNumbers
    <3> QED BY <1>1, <1>2, <2>1, <3>1 DEF Advanced, Settled, lateVars
  <2>2. CASE cpu + 1 \notin Cores
    <3>1. \A c \in Cores : c <= cpu
      BY <1>1, <2>2, TimingAssumption DEF Cores
    <3> QED BY <1>1, <1>2, <2>2, <3>1 DEF Advanced, Settled, lateVars
  <2> QED BY <2>1, <2>2
<1>6. Clocks'
  BY <1>1, <1>2, <1>5 DEF IInv, Clocks, timerVars
<1>7. OnTime' /\ NothingOverdue'
  BY <1>1, <1>2 DEF IInv, OnTime, NothingOverdue, timerVars
<1> QED
  BY <1>1, <1>4, <1>6, <1>7, TimersKept DEF PlaceInv

\* The end of a slice, when the clock shows the given ticks.
LEMMA RunDonePlace ==
    ASSUME IInv, op = "run", NEW ticks \in Nat, GetTicks(cpu) <= ticks, RunDone(ticks)
    PROVE  /\ LoopTypes' /\ op' \in {"slice", "begin"}
           /\ Advanced' \subseteq Advanced /\ Settled' \subseteq Settled /\ cpu \notin Advanced'
           /\ UNCHANGED <<born, anchor>>
<1>1. /\ cpu \in Cores /\ max_delay = 0 /\ phase \in {"all", "alone"}
      /\ UNCHANGED <<phase, lateVars, start_ticks, born, anchor>>
  BY DEF RunDone, IInv, LoopTypes, Places
<1>2. GetTicks(cpu) \in Nat /\ start_ticks \in Nat
  BY <1>1, TicksType DEF IInv, LoopTypes
<1>3. CASE phase = "all"
  <2>1. /\ max_slice' = ticks - start_ticks
        /\ \/ cpu + 1 \in Cores /\ op' = "slice" /\ cpu' = cpu + 1
           \/ op' = "begin" /\ cpu' = 0
    BY <1>3 DEF RunDone, NextCore
  <2>2. max_slice' \in Nat
    BY <1>2, <1>3, <2>1 DEF IInv, Clocks
  <2>3. LoopTypes' /\ op' \in {"slice", "begin"}
    BY <1>1, <1>3, <2>1, <2>2, CoreNumbers DEF IInv, LoopTypes, Places, lateVars
  <2>4. ASSUME NEW c \in Cores
        PROVE  /\ c \in Advanced' => c \in Advanced /\ c # cpu
               /\ c \in Settled' => c \in Settled
    <3>1. c \in Nat /\ cpu \in Nat
      BY <1>1, CoreNumbers
    <3> QED BY <1>1, <1>3, <2>1, <3>1 DEF Advanced, Settled, lateVars
  <2>5. Advanced' \subseteq Cores /\ Settled' \subseteq Cores
    BY DEF Advanced, Settled
  <2> QED BY <1>1, <2>3, <2>4, <2>5
<1>4. CASE phase = "alone"
  <2>1. op' = "begin" /\ cpu' = 0 /\ UNCHANGED max_slice
    BY <1>4 DEF RunDone
  <2> QED
    BY <1>1, <1>4, <2>1, CoreNumbers DEF IInv, LoopTypes, Places, Advanced, Settled, lateVars
<1> QED BY <1>1, <1>3, <1>4

\* A core ends its slice.
LEMMA EndRunIInv == ASSUME IInv, EndRun PROVE IInv'
<1>1. op = "run" /\ RunDone(GetTicks(cpu)) /\ UNCHANGED timerVars /\ cpu \in Cores
  BY DEF EndRun, IInv, LoopTypes
<1>2. GetTicks(cpu) \in Nat
  BY <1>1, TicksType DEF IInv
<1>3. /\ LoopTypes' /\ op' \in {"slice", "begin"} /\ UNCHANGED <<born, anchor>>
      /\ Advanced' \subseteq Advanced /\ Settled' \subseteq Settled
  <2> HIDE DEF GetTicks
  <2> QED BY <1>1, <1>2, RunDonePlace
<1>4. Clocks'
  BY <1>1, <1>3 DEF IInv, Clocks, timerVars
<1>5. OnTime' /\ NothingOverdue'
  BY <1>1, <1>3 DEF IInv, OnTime, NothingOverdue, timerVars
<1> QED
  BY <1>1, <1>3, <1>4, <1>5, TimersKept DEF PlaceInv

\* What is left of IInv when no event is scheduled or fires.
LEMMA ClocksMove ==
    ASSUME IInv, UNCHANGED eventVars, PlaceInv', Counts',
           is_timer_sane' \in [Cores -> BOOLEAN], slice_length' \in [Cores -> Nat],
           downcount' \in [Cores -> Int], executed_ticks' \in [Cores -> Nat]
    PROVE  IInv'
<1>1. EventInv'
  BY EventsKept DEF IInv, EventInv
<1>2. TimerTypes'
  BY Zenon DEF IInv, TimerTypes, eventVars
<1> QED
  BY <1>1, <1>2 DEF IInv, PlaceInv, EventInv

\* A core idles to the end of its slice.
LEMMA IdleIInv == ASSUME IInv, Idle PROVE IInv'
<1>1. /\ op = "run" /\ downcount[cpu] = slice_length[cpu] /\ cpu \in Cores
      /\ GetTicks(cpu) + downcount[cpu] <= MaxTicks
      /\ downcount' = [downcount EXCEPT ![cpu] = 0]
      /\ RunDone(GetTicks(cpu) + downcount[cpu])
      /\ UNCHANGED <<event_queue, ts_queue, event_fifo_id, is_timer_sane, slice_length,
                     executed_ticks>>
  BY DEF Idle, IInv, LoopTypes
<1>2. /\ GetTicks(cpu) \in Nat /\ downcount[cpu] \in Nat /\ executed_ticks[cpu] \in Nat
      /\ slice_length[cpu] \in Nat /\ ~is_timer_sane[cpu]
  BY <1>1, TicksType DEF IInv, TimerTypes, Clocks, Settled
<1>3. /\ LoopTypes' /\ op' \in {"slice", "begin"} /\ UNCHANGED <<born, anchor>>
      /\ Advanced' \subseteq Advanced /\ Settled' \subseteq Settled /\ cpu \notin Advanced'
  <2> DEFINE t == GetTicks(cpu) + downcount[cpu]
  <2>1. t \in Nat /\ GetTicks(cpu) <= t /\ RunDone(t)
    BY <1>1, <1>2
  <2> HIDE DEF t
  <2> QED BY <1>1, <2>1, RunDonePlace
<1>4. downcount' \in [Cores -> Int] /\ Counts'
  <2>1. downcount' \in [Cores -> Int]
    BY <1>1 DEF IInv, TimerTypes
  <2>2. \A c \in Cores : -Overshoot <= downcount'[c] /\ downcount'[c] <= slice_length'[c]
    BY <1>1, <1>2, TimingAssumption DEF IInv, Counts, TimerTypes
  <2>3. \A c \in Cores : GetTicks(c)' <= MaxTicks
    <3> TAKE c \in Cores
    <3>1. CASE c = cpu
      BY <1>1, <1>2, <3>1 DEF GetTicks, IInv, TimerTypes
    <3>2. CASE c # cpu
      BY <1>1, <3>2, Zenon DEF GetTicks, IInv, TimerTypes, Counts
    <3> QED BY <3>1, <3>2
  <2> QED BY <2>1, <2>2, <2>3 DEF Counts
<1>5. Clocks'
  <2>1. \A c \in Cores : c # cpu => downcount'[c] = downcount[c]
    BY <1>1 DEF IInv, TimerTypes
  <2>2. \A c \in Advanced' : c \in Cores /\ c # cpu
    BY <1>3 DEF Advanced
  <2> QED BY <1>1, <1>2, <1>3, <2>1, <2>2 DEF IInv, Clocks
<1>6. OnTime' /\ NothingOverdue'
  BY <1>1, <1>3 DEF IInv, OnTime, NothingOverdue
<1> QED
  BY <1>1, <1>3, <1>4, <1>5, <1>6, ClocksMove, Zenon DEF PlaceInv, eventVars, IInv, TimerTypes

\* A core executes.
LEMMA ExecuteIInv == ASSUME IInv, Execute PROVE IInv'
<1>1. /\ op = "run" /\ cpu \in Cores /\ ~is_timer_sane[cpu]
      /\ UNCHANGED <<event_queue, ts_queue, event_fifo_id, is_timer_sane, slice_length,
                     executed_ticks, loopVars, born, anchor>>
  BY DEF Execute, IInv, LoopTypes, Clocks, Settled
<1>2. PICK n \in 1 .. downcount[cpu] + Overshoot :
          GetTicks(cpu) + n <= MaxTicks /\ downcount' = [downcount EXCEPT ![cpu] = @ - n]
  BY Zenon DEF Execute
<1>3. /\ downcount[cpu] \in Int /\ executed_ticks[cpu] \in Nat /\ slice_length[cpu] \in Nat
      /\ downcount[cpu] <= slice_length[cpu] /\ n \in Nat /\ n <= downcount[cpu] + Overshoot
      /\ downcount'[cpu] = downcount[cpu] - n /\ downcount' \in [Cores -> Int]
      /\ \A c \in Cores : c # cpu => downcount'[c] = downcount[c]
  BY <1>1, <1>2, TimingAssumption, SMTT(30) DEF IInv, TimerTypes, Counts
<1>4. /\ GetTicks(cpu)' = GetTicks(cpu) + n
      /\ \A c \in Cores : c # cpu => GetTicks(c)' = GetTicks(c)
  BY <1>1, <1>3 DEF GetTicks, loopVars
<1>5. Counts'
  <2>1. -Overshoot <= downcount'[cpu] /\ downcount'[cpu] <= slice_length[cpu]
    BY <1>3, TimingAssumption
  <2>2. cpu' = cpu
    BY <1>1 DEF loopVars
  <2>3. ASSUME NEW c \in Cores
        PROVE  -Overshoot <= downcount'[c] /\ downcount'[c] <= slice_length'[c] /\ GetTicks(c)' <= MaxTicks
    <3>1. CASE c = cpu
      <4>1. GetTicks(c)' = GetTicks(cpu)'
        BY <2>2, <3>1, Zenon DEF GetTicks
      <4> HIDE DEF GetTicks
      <4> QED BY <1>1, <1>2, <1>4, <2>1, <3>1, <4>1
    <3>2. CASE c # cpu
      BY <1>1, <1>3, <1>4, <3>2, Zenon DEF IInv, Counts
    <3> QED BY <3>1, <3>2
  <2> QED BY <2>3 DEF Counts
<1>6. LoopTypes' /\ Advanced' = Advanced /\ Settled' = Settled
  BY <1>1, Zenon DEF IInv, LoopTypes, Places, loopVars, lateVars, Advanced, Settled
<1>7. Clocks'
  <2>1. cpu \notin Advanced
    BY <1>1, CoreNumbers DEF Advanced
  <2>2. GetTicks(cpu) \in Nat /\ start_ticks \in Nat
    BY <1>1, TicksType DEF IInv, LoopTypes
  <2>3. start_ticks <= GetTicks(cpu) => start_ticks' <= GetTicks(cpu)'
    BY <1>1, <1>3, <1>4, <2>2 DEF loopVars
  <2>4. \A c \in Advanced' : c \in Cores /\ c # cpu
    BY <1>6, <2>1, Zenon DEF Advanced
  <2> QED BY <1>1, <1>3, <1>6, <2>3, <2>4 DEF IInv, Clocks, loopVars
<1>8. OnTime' /\ NothingOverdue'
  BY <1>1, Zenon DEF IInv, OnTime, NothingOverdue, loopVars
<1> QED
  BY <1>1, <1>3, <1>5, <1>6, <1>7, <1>8, ClocksMove, Zenon DEF PlaceInv, eventVars, IInv, TimerTypes
-----------------------------------------------------------------------------
\* A core that has advanced gets a slice: its clock does not move.
LEMMA SliceGiven ==
    ASSUME IInv, NEW max \in Nat, SetNextSlice(cpu, max), op \in {"limit", "slice"},
           UNCHANGED <<event_queue, is_timer_sane, executed_ticks>>
    PROVE  /\ slice_length' \in [Cores -> Nat] /\ downcount' \in [Cores -> Int]
           /\ Counts' /\ slice_length'[cpu] = downcount'[cpu] /\ ~is_timer_sane[cpu]
           /\ \A c \in Cores : GetTicks(c)' = GetTicks(c)
           /\ \A c \in Cores : c # cpu => /\ slice_length'[c] = slice_length[c]
                                          /\ downcount'[c] = downcount[c]
           /\ \A c \in Cores : \A e \in event_queue[c] :
                  executed_ticks[c] + slice_length'[c] <= e.time
<1>1. cpu \in Cores /\ slice_length[cpu] = downcount[cpu] /\ ~is_timer_sane[cpu]
  <2>1. cpu \in Cores /\ (op = "slice" => phase = "all")
    BY DEF IInv, LoopTypes, Places
  <2>2. cpu \in Advanced /\ cpu \in Settled
    BY <2>1, CoreNumbers DEF Advanced, Settled
  <2> QED BY <2>1, <2>2 DEF IInv, Clocks
<1>2. \A c \in Cores : \A e \in event_queue[c] :
          executed_ticks[c] + slice_length[c] <= e.time /\ e.time \in Nat
  BY DEF IInv, OnTime, TimerTypes, Events
<1>3. \A e \in event_queue[cpu] : executed_ticks[cpu] <= e.time
  BY <1>1, <1>2 DEF IInv, TimerTypes
<1>4. PICK n \in Nat : /\ slice_length' = [slice_length EXCEPT ![cpu] = n]
                       /\ downcount' = [downcount EXCEPT ![cpu] = n]
                       /\ \A e \in event_queue[cpu] : executed_ticks[cpu] + n <= e.time
  BY <1>1, <1>3, NextSlice DEF IInv
<1>5. slice_length' \in [Cores -> Nat] /\ downcount' \in [Cores -> Int]
  BY <1>1, <1>4 DEF IInv, TimerTypes
<1>6. /\ slice_length'[cpu] = n /\ downcount'[cpu] = n
      /\ \A c \in Cores : c # cpu => /\ slice_length'[c] = slice_length[c]
                                     /\ downcount'[c] = downcount[c]
  BY <1>1, <1>4 DEF IInv, TimerTypes
<1>7. \A c \in Cores : GetTicks(c)' = GetTicks(c)
  <2> TAKE c \in Cores
  <2>1. CASE c = cpu
    <3>1. executed_ticks[c] \in Nat /\ slice_length[c] \in Nat
      BY Zenon DEF IInv, TimerTypes
    <3> QED BY <1>1, <1>6, <2>1, <3>1 DEF GetTicks
  <2>2. CASE c # cpu
    BY <1>6, <2>2 DEF GetTicks
  <2> QED BY <2>1, <2>2
<1>8. Counts'
  <2>1. \A c \in Cores : -Overshoot <= downcount'[c] /\ downcount'[c] <= slice_length'[c]
    BY <1>6, TimingAssumption DEF IInv, Counts
  <2> QED BY <1>7, <2>1, Zenon DEF IInv, Counts
<1> QED
  BY <1>1, <1>2, <1>4, <1>5, <1>6, <1>7, <1>8, Zenon

\* A late core gets the slice it is behind.
LEMMA LimitSliceIInv == ASSUME IInv, LimitSlice PROVE IInv'
<1>1. /\ op = "limit" /\ phase = "late" /\ cpu \in Cores /\ slowest \in Cores
      /\ delay \in Nat /\ max_delay \in Nat /\ global_ticks \in Nat /\ max_slice \in Nat
      /\ max_delay > 0 => slowest < cpu
      /\ SetNextSlice(cpu, delay)
      /\ UNCHANGED <<event_queue, ts_queue, event_fifo_id, is_timer_sane, executed_ticks,
                     start_ticks, born, anchor>>
  BY DEF LimitSlice, IInv, LoopTypes, Places
<1> DEFINE max == Max({max_delay, delay})
           slow == IF max_delay < delay THEN cpu ELSE slowest
<1>2. max = IF max_delay < delay THEN delay ELSE max_delay
  BY <1>1, MaxOfTwo
<1>3. max \in Nat /\ slow \in Cores /\ (max > 0 => slow < cpu + 1)
  <2> HIDE DEF max
  <2> QED BY <1>1, <1>2, CoreNumbers
<1>4. Visit(cpu + 1, global_ticks, max, slow)
  BY DEF LimitSlice
<1>5. max > 0 => ~is_timer_sane[slow]
  <2> HIDE DEF max
  <2>1. max > 0 => slow \in Settled
    BY <1>1, <1>2, CoreNumbers, Zenon DEF Settled
  <2> QED BY <2>1 DEF IInv, Clocks
<1> HIDE DEF max, slow
<1>6. \/ /\ op' = "advance" /\ phase' = "late" /\ cpu' \in Cores /\ cpu + 1 <= cpu'
         /\ global_ticks' = global_ticks /\ delay' \in Nat /\ max_delay' = max
         /\ slowest' = slow /\ max_slice' = max_slice
      \/ /\ op' = "run" /\ phase' = "alone" /\ cpu' = slow /\ max > 0
         /\ global_ticks' = 0 /\ delay' = 0 /\ max_delay' = 0 /\ slowest' = 0
         /\ max_slice' = max_slice
      \/ /\ op' = "advance" /\ phase' = "all" /\ cpu' = 0
         /\ global_ticks' = 0 /\ delay' = 0 /\ max_delay' = 0 /\ slowest' = 0
         /\ max_slice' = MAX_SLICE_LENGTH
  <2>1. cpu + 1 \in Nat
    BY <1>1, CoreNumbers
  <2> QED BY <1>1, <1>3, <1>4, <2>1, VisitCases DEF IInv
<1>7. LoopTypes'
  <2>1. cpu \in Nat /\ slow \in Nat /\ cpu' \in Nat /\ cpu' \in Cores /\ MAX_SLICE_LENGTH \in Nat
    BY <1>1, <1>3, <1>6, CoreNumbers, TimingAssumption, Zenon
  <2>2. start_ticks' \in Nat
    BY <1>1 DEF IInv, LoopTypes
  <2>3. max_delay' > 0 => phase' = "late" /\ op' = "advance" /\ slowest' < cpu'
    BY <1>3, <1>6, <2>1
  <2> QED BY <1>1, <1>3, <1>6, <2>1, <2>2, <2>3, CoreNumbers DEF LoopTypes, Places
<1>8. Advanced' = {} /\ \A c \in Settled' : c = slow /\ max > 0
  <2> SUFFICES ASSUME NEW c \in Cores
               PROVE  c \notin Advanced' /\ (c \in Settled' => c = slow /\ max > 0)
    BY Zenon DEF Advanced, Settled
  <2>1. c \in Nat
    BY CoreNumbers
  <2> QED BY <1>3, <1>6, <2>1 DEF Advanced, Settled
<1>9. /\ slice_length' \in [Cores -> Nat] /\ downcount' \in [Cores -> Int]
      /\ Counts' /\ slice_length'[cpu] = downcount'[cpu]
      /\ \A c \in Cores : c # cpu => /\ slice_length'[c] = slice_length[c]
                                     /\ downcount'[c] = downcount[c]
      /\ \A c \in Cores : \A e \in event_queue[c] :
             executed_ticks[c] + slice_length'[c] <= e.time
  BY <1>1, SliceGiven, Zenon
<1>10. Clocks'
  BY <1>1, <1>5, <1>6, <1>8, <1>9, Zenon DEF IInv, Clocks
<1>11. OnTime' /\ NothingOverdue'
  BY <1>1, <1>6, <1>9, Zenon DEF OnTime, NothingOverdue
<1> QED
  BY <1>1, <1>7, <1>9, <1>10, <1>11, ClocksMove, Zenon DEF PlaceInv, eventVars, IInv, TimerTypes

\* A core gets the slice that all cores get.
LEMMA StartSliceIInv == ASSUME IInv, StartSlice PROVE IInv'
<1>1. /\ op = "slice" /\ phase = "all" /\ max_delay = 0 /\ cpu \in Cores /\ max_slice \in Nat
      /\ SetNextSlice(cpu, max_slice) /\ op' = "run" /\ start_ticks' = GetTicks(cpu)'
      /\ UNCHANGED <<event_queue, ts_queue, event_fifo_id, is_timer_sane, executed_ticks,
                     phase, cpu, lateVars, max_slice, born, anchor>>
  BY DEF StartSlice, IInv, LoopTypes, Places
<1>2. /\ slice_length' \in [Cores -> Nat] /\ downcount' \in [Cores -> Int]
      /\ Counts' /\ slice_length'[cpu] = downcount'[cpu]
      /\ \A c \in Cores : GetTicks(c)' = GetTicks(c)
      /\ \A c \in Cores : c # cpu => /\ slice_length'[c] = slice_length[c]
                                     /\ downcount'[c] = downcount[c]
      /\ \A c \in Cores : \A e \in event_queue[c] :
             executed_ticks[c] + slice_length'[c] <= e.time
  BY <1>1, SliceGiven, Zenon
<1>3. start_ticks' \in Nat
  <2>1. GetTicks(cpu) \in Nat
    BY <1>1, TicksType, Zenon DEF IInv
  <2>2. GetTicks(cpu)' = GetTicks(cpu)
    BY <1>1, <1>2 DEF GetTicks
  <2> QED BY <1>1, <2>1, <2>2
<1>4. LoopTypes'
  BY <1>1, <1>3 DEF IInv, LoopTypes, Places, lateVars
<1>5. Advanced' \subseteq Advanced /\ Settled' \subseteq Settled
  <2> SUFFICES ASSUME NEW c \in Cores
               PROVE  (c \in Advanced' => c \in Advanced) /\ (c \in Settled' => c \in Settled)
    BY DEF Advanced, Settled
  <2>1. c \in Nat /\ cpu \in Nat
    BY <1>1, CoreNumbers, Zenon
  <2> QED BY <1>1, <2>1 DEF Advanced, Settled, lateVars
<1>6. Clocks'
  <2>1. start_ticks' <= GetTicks(cpu)'
    BY <1>1, <1>3
  <2>2. \A c \in Advanced' : c \in Advanced /\ c \in Cores
    BY <1>5, Zenon DEF Advanced
  <2> QED BY <1>1, <1>2, <1>5, <2>1, <2>2 DEF IInv, Clocks
<1>7. OnTime' /\ NothingOverdue'
  BY <1>1, <1>2 DEF OnTime, NothingOverdue
<1> QED
  BY <1>1, <1>2, <1>4, <1>6, <1>7, ClocksMove, Zenon DEF PlaceInv, eventVars, IInv, TimerTypes

\* Advance is done: no event of the core is due, and its clock has not moved.
LEMMA AdvanceDoneIInv ==
    ASSUME IInv, AdvanceDone
    PROVE  IInv' /\ \A c \in Cores : GetTicks(c)' = GetTicks(c)
<1>1. /\ op = "fire" /\ cpu \in Cores /\ phase \in {"late", "all"} /\ Due(cpu) = {}
      /\ is_timer_sane' = [is_timer_sane EXCEPT ![cpu] = FALSE]
      /\ op' = IF phase = "late" THEN "limit" ELSE "max"
      /\ UNCHANGED <<event_queue, ts_queue, event_fifo_id, slice_length, downcount,
                     executed_ticks, phase, cpu, lateVars, max_slice, start_ticks, born, anchor>>
  BY Zenon DEF AdvanceDone, IInv, LoopTypes, Places
<1>2. slice_length[cpu] = 0 /\ downcount[cpu] = 0 /\ is_timer_sane[cpu]
  <2>1. cpu \in Advanced
    BY <1>1 DEF Advanced
  <2> QED BY <1>1, <2>1 DEF IInv, Clocks
<1>3. /\ is_timer_sane' \in [Cores -> BOOLEAN] /\ is_timer_sane'[cpu] = FALSE
      /\ \A c \in Cores : c # cpu => is_timer_sane'[c] = is_timer_sane[c]
  BY <1>1 DEF IInv, TimerTypes
<1>4. \A e \in event_queue[cpu] : executed_ticks[cpu] < e.time
  BY <1>1, NoneDue DEF IInv
<1>5. \A c \in Cores : GetTicks(c)' = GetTicks(c)
  <2> TAKE c \in Cores
  <2>1. executed_ticks[c] \in Nat
    BY Zenon DEF IInv, TimerTypes
  <2>2. CASE c = cpu
    BY <1>1, <1>2, <1>3, <2>1, <2>2 DEF GetTicks
  <2>3. CASE c # cpu
    BY <1>1, <1>3, <2>3, Zenon DEF GetTicks
  <2> QED BY <2>2, <2>3
<1>6. Counts'
  BY <1>1, <1>5, Zenon DEF IInv, Counts
<1>7. LoopTypes'
  BY <1>1, Zenon DEF IInv, LoopTypes, Places, lateVars
<1>8. Advanced' \subseteq Advanced /\ Settled' \subseteq Settled \cup {cpu}
  <2> SUFFICES ASSUME NEW c \in Cores
               PROVE  /\ c \in Advanced' => c \in Advanced
                      /\ c \in Settled' => c \in Settled \/ c = cpu
    BY DEF Advanced, Settled
  <2>1. c \in Nat /\ cpu \in Nat
    BY <1>1, CoreNumbers, Zenon
  <2> QED BY <1>1, <2>1 DEF Advanced, Settled, lateVars
<1>9. Clocks'
  <2>1. \A c \in Settled' : ~is_timer_sane'[c]
    BY <1>3, <1>8 DEF IInv, Clocks, Settled
  <2> QED BY <1>1, <1>3, <1>8, <2>1, Zenon DEF IInv, Clocks
<1>10. OnTime'
  <2> SUFFICES ASSUME NEW c \in Cores, NEW e \in event_queue[c]
               PROVE  executed_ticks[c] + slice_length[c] <= e.time
    BY <1>1, Zenon DEF OnTime
  <2>1. CASE c = cpu
    <3>1. executed_ticks[c] \in Nat /\ e.time \in Nat
      BY DEF IInv, TimerTypes, Events
    <3> QED BY <1>2, <1>4, <2>1, <3>1
  <2>2. CASE c # cpu
    BY <1>1, <2>2 DEF IInv, OnTime
  <2> QED BY <2>1, <2>2, Zenon
<1>11. NothingOverdue'
  <2>1. \A e \in event_queue[cpu] : e.time \in Nat /\ executed_ticks[cpu] \in Nat
    BY <1>1 DEF IInv, TimerTypes, Events
  <2> QED BY <1>1, <1>4, <2>1 DEF NothingOverdue
<1>12. IInv'
  BY <1>1, <1>3, <1>6, <1>7, <1>9, <1>10, <1>11, ClocksMove, Zenon
  DEF PlaceInv, eventVars, IInv, TimerTypes
<1> QED
  BY <1>5, <1>12, Zenon
=============================================================================
