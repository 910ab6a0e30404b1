----------------------------- MODULE RingBuffer -----------------------------
(***************************************************************************)
(* The ring buffer (common/ring_buffer.h) between one producer, which      *)
(* pushes, and one consumer, which pops.  Each works on one atomic index   *)
(* of its own and reads the other's once; slots are copied one at a time,  *)
(* so that the copies of the two interleave.  The i-th slot pushed holds   *)
(* the number i, and the i-th slot popped has to.                          *)
(***************************************************************************)
EXTENDS Integers

CONSTANTS
    Capacity,
    IndexRange, \* how many values an index has (2^64 in the build)
    MaxPushed   \* no push begins once so many slots have been pushed

ASSUME CapacityAssumption == Capacity \in Nat \ {0} /\ MaxPushed \in Nat
\* Both are powers of two, and the buffer is far smaller than the range.
ASSUME RangeAssumption ==
    /\ IndexRange \in Nat /\ 2 * Capacity <= IndexRange
    /\ \E n \in 1 .. IndexRange : IndexRange = n * Capacity

VARIABLES
    m_read_index, m_write_index, m_data,
    push_count, push_copied,    \* of the push that has begun: slots to copy, and copied
    pop_count, pop_copied,      \* of the pop
    pushed,     \* how many slots have been pushed, and popped, since the start
    popped

producer == <<push_count, push_copied, m_write_index, pushed>>
consumer == <<pop_count, pop_copied, m_read_index, popped>>
vars == <<producer, consumer, m_data>>

\* Arithmetic on indices that are at most one range away from their values.
Wrap(i) == IF i < 0 THEN i + IndexRange ELSE IF i >= IndexRange THEN i - IndexRange ELSE i

\* The slot at an index.
Pos(i) == Wrap(i) % Capacity

Least(a, b) == IF a <= b THEN a ELSE b
-----------------------------------------------------------------------------
Size == Wrap(m_write_index - m_read_index)

\* A mutant: the index is published before the slots are copied.
PushBegin_Early(slot_count) ==
    LET n == Least(slot_count, Wrap(Capacity + Wrap(m_read_index - m_write_index))) IN
    /\ push_count = 0 /\ pushed < MaxPushed
    /\ m_write_index' = Wrap(m_write_index + n) /\ pushed' = pushed + n
    /\ UNCHANGED <<push_count, push_copied, m_data, consumer>>

\* Push loads both indices and settles how much it will copy; a call that copies
\* nothing is over at once.
PushBegin(slot_count) ==
    LET slots_free == Wrap(Capacity + Wrap(m_read_index - m_write_index)) IN
    /\ push_count = 0 /\ pushed < MaxPushed
    /\ push_count' = Least(slot_count, slots_free) /\ push_copied' = 0
    /\ UNCHANGED <<m_write_index, pushed, m_data, consumer>>

PushCopy ==
    /\ push_copied < push_count
    /\ m_data' = [m_data EXCEPT ![Pos(m_write_index + push_copied)] = pushed + push_copied]
    /\ push_copied' = push_copied + 1
    /\ UNCHANGED <<push_count, m_write_index, pushed, consumer>>

\* The store of the index publishes the slots.
PushEnd ==
    /\ push_count > 0 /\ push_copied = push_count
    /\ m_write_index' = Wrap(m_write_index + push_count)
    /\ pushed' = pushed + push_count
    /\ push_count' = 0 /\ push_copied' = 0
    /\ UNCHANGED <<m_data, consumer>>

\* Pop does the same on the other index.
PopBegin(max_slots) ==
    /\ pop_count = 0
    /\ pop_count' = Least(Size, max_slots) /\ pop_copied' = 0
    /\ UNCHANGED <<m_read_index, popped, m_data, producer>>

PopCopy ==
    /\ pop_copied < pop_count
    /\ pop_copied' = pop_copied + 1
    /\ UNCHANGED <<pop_count, m_read_index, popped, m_data, producer>>

PopEnd ==
    /\ pop_count > 0 /\ pop_copied = pop_count
    /\ m_read_index' = Wrap(m_read_index + pop_count)
    /\ popped' = popped + pop_count
    /\ pop_count' = 0 /\ pop_copied' = 0
    /\ UNCHANGED <<m_data, producer>>

Init ==
    /\ m_read_index = 0 /\ m_write_index = 0
    /\ m_data \in [0 .. Capacity - 1 -> {-1}]
    /\ push_count = 0 /\ push_copied = 0 /\ pop_count = 0 /\ pop_copied = 0
    /\ pushed = 0 /\ popped = 0

\* To ask for more than the capacity is to ask for the capacity.
Next ==
    \/ \E n \in 0 .. Capacity : PushBegin(n)
    \/ PushCopy \/ PushEnd
    \/ \E n \in 0 .. Capacity : PopBegin(n)
    \/ PopCopy \/ PopEnd

Spec == Init /\ [][Next]_vars
-----------------------------------------------------------------------------
Pushing == push_copied < push_count
Popping == pop_copied < pop_count

TypeOK ==
    /\ m_read_index \in 0 .. IndexRange - 1 /\ m_write_index \in 0 .. IndexRange - 1
    /\ m_data \in [0 .. Capacity - 1 -> Int]
    /\ push_count \in Nat /\ push_copied \in Nat
    /\ pop_count \in Nat /\ pop_copied \in Nat
    /\ pushed \in Nat /\ popped \in Nat

(* The consumer reads what was pushed, in order and none twice: the slot   *)
(* it copies next holds the number of slots it has taken so far.           *)
ReadsInOrder ==
    Popping => m_data[Pos(m_read_index + pop_copied)] = popped + pop_copied

(* The producer and the consumer never copy the same slot at a time.       *)
CopiesApart ==
    Pushing /\ Popping => Pos(m_write_index + push_copied) # Pos(m_read_index + pop_copied)

(* Whenever anyone asks, the size is that of what was pushed and not       *)
(* popped, and at most the capacity, also after the indices have wrapped.  *)
SizeOK == Size = pushed - popped /\ Size \in 0 .. Capacity
=============================================================================
