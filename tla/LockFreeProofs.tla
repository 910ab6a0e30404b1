---------------------------- MODULE LockFreeProofs ----------------------------
(***************************************************************************)
(* The two queues that threads share without a common lock.  The ring      *)
(* buffer, for every capacity, every range of indices that is a multiple   *)
(* of it, and pushes and pops of every size.  And the queue of nodes: for  *)
(* any number of writers and pushes it never hands out a node that is not  *)
(* ready, and it is a first-in first-out channel; its inductive invariant  *)
(* ties the three things that no lock ties together: the count, the links  *)
(* and where the threads stand.                                            *)
(***************************************************************************)
EXTENDS RingBuffer, SpscQueue, SequenceTheorems, TLAPS

(***************************************************************************)
(* The ring buffer.                                                        *)
(***************************************************************************)
\* What has been pushed or copied and not been popped lies from the read index on.
DataOK ==
    \A k \in 0 .. Capacity - 1 :
        k < pushed - popped + push_copied => m_data[Pos(m_read_index + k)] = popped + k

RingInv ==
    /\ TypeOK
    /\ popped <= pushed /\ pushed <= popped + Capacity
    /\ m_write_index = Wrap(m_read_index + (pushed - popped))
    /\ push_copied <= push_count /\ pushed + push_count <= popped + Capacity
    /\ pop_copied <= pop_count /\ popped + pop_count <= pushed
    /\ DataOK
-----------------------------------------------------------------------------
\* What the quotient and the remainder are.
LEMMA DivMod ==
    ASSUME NEW a \in Nat
    PROVE  /\ a = (Capacity * (a \div Capacity)) + (a % Capacity)
           /\ a % Capacity \in 0 .. Capacity - 1 /\ a \div Capacity \in Nat
BY CapacityAssumption

\* The part of the assumption on the range that is linear.
LEMMA RangeLarge == IndexRange \in Nat /\ 2 * Capacity <= IndexRange
BY RangeAssumption

\* A push that takes at most the free slots fills the buffer at most.
LEMMA PushFits ==
    ASSUME NEW a \in Nat, NEW b \in Nat, NEW c \in Nat, NEW k \in Nat,
           NEW u \in 0 .. c, u = a - b, k <= c - u
    PROVE  a + k <= b + c
<1>1. a = b + u
  OBVIOUS
<1>2. k + u <= c
  BY SMTT(30)
<1> QED BY <1>1, <1>2

\* No multiple of c lies strictly between 0 and c.
LEMMA NoMultiple ==
    ASSUME NEW c \in Nat \ {0}, NEW x \in Int, NEW d \in Int, d = c * x, 0 < d, d < c
    PROVE  FALSE
OBVIOUS

\* Going on from an index in two steps or in one is the same.
LEMMA WrapAdd ==
    ASSUME NEW i \in 0 .. IndexRange - 1, NEW a \in Nat, NEW b \in Nat, a + b <= Capacity
    PROVE  /\ Wrap(i + a) \in 0 .. IndexRange - 1
           /\ Wrap(Wrap(i + a) + b) = Wrap(i + (a + b))
           /\ Wrap(Wrap(i + a) - i) = a
           /\ Wrap(Capacity + Wrap(i - Wrap(i + a))) = Capacity - a
BY CapacityAssumption, RangeLarge DEF Wrap

LEMMA PosType ==
    ASSUME NEW i \in Nat, i < 2 * IndexRange
    PROVE  Pos(i) \in 0 .. Capacity - 1
<1>1. Wrap(i) \in Nat
  BY RangeLarge DEF Wrap
<1> QED
  BY <1>1, DivMod, CapacityAssumption DEF Pos

\* Less than a capacity apart, two indices have different slots.
LEMMA PosDistinct ==
    ASSUME NEW i \in Nat, NEW j \in Nat, i < j, j < i + Capacity, j < 2 * IndexRange
    PROVE  Pos(i) # Pos(j)
<1> SUFFICES ASSUME Pos(i) = Pos(j) PROVE FALSE
  OBVIOUS
<1> PICK n \in 1 .. IndexRange : IndexRange = n * Capacity
  BY RangeAssumption
<1> DEFINE x == Wrap(i)
           y == Wrap(j)
           qx == x \div Capacity
           qy == y \div Capacity
<1>1. x \in Nat /\ y \in Nat /\ x % Capacity = y % Capacity
  BY CapacityAssumption, RangeLarge DEF Pos, Wrap
<1>2. /\ x = (Capacity * qx) + (x % Capacity) /\ x % Capacity \in Nat
      /\ y = (Capacity * qy) + (y % Capacity) /\ qx \in Nat /\ qy \in Nat
  <2> HIDE DEF x, y
  <2> QED
    BY <1>1, DivMod, CapacityAssumption
<1>3. y - x = Capacity * (qy - qx)
  <2> HIDE DEF x, y, qx, qy
  <2>1. y - x = (Capacity * qy) - (Capacity * qx)
    BY <1>1, <1>2, CapacityAssumption
  <2> QED
    BY <2>1, <1>2, CapacityAssumption
<1>4. CASE y - x = j - i
  <2>1. j - i = Capacity * (qy - qx) /\ qy - qx \in Int /\ j - i \in Int
    BY <1>2, <1>3, <1>4
  <2> HIDE DEF qx, qy
  <2> QED
    BY <2>1, NoMultiple, CapacityAssumption
<1>5. CASE y - x = j - i - IndexRange
  <2>1. j - i = Capacity * (qy - qx + n) /\ qy - qx + n \in Int /\ j - i \in Int
    <3> HIDE DEF x, y, qx, qy
    <3>1. j - i = (Capacity * (qy - qx)) + (n * Capacity)
      BY <1>2, <1>3, <1>5, CapacityAssumption
    <3> QED
      BY <3>1, <1>2, CapacityAssumption
  <2> HIDE DEF qx, qy
  <2> QED
    BY <2>1, NoMultiple, CapacityAssumption
<1> QED
  BY <1>4, <1>5, CapacityAssumption, RangeLarge DEF Wrap
-----------------------------------------------------------------------------
\* The invariant holds at the start: the buffer is empty.
LEMMA RingInit == Init => RingInv
BY CapacityAssumption, RangeLarge DEF Init, RingInv, TypeOK, DataOK, Wrap

\* Every step of the producer and of the consumer preserves the invariant.
LEMMA RingStep == RingInv /\ [Next]_vars => RingInv'
<1> SUFFICES ASSUME RingInv, [Next]_vars PROVE RingInv'
  OBVIOUS
<1> USE CapacityAssumption, RangeLarge
<1> DEFINE used == pushed - popped
<1>0. used \in 0 .. Capacity /\ m_read_index \in 0 .. IndexRange - 1
  BY DEF RingInv, TypeOK
<1>1. ASSUME NEW n \in 0 .. Capacity, PushBegin(n) PROVE RingInv'
  <2>1. Wrap(Capacity + Wrap(m_read_index - m_write_index)) = Capacity - used
    BY <1>0, WrapAdd DEF RingInv
  <2>2. push_count' = Least(n, Capacity - used) /\ push_copied' = 0
    BY <1>1, <2>1 DEF PushBegin, consumer
  <2>3. /\ push_count' \in Nat
        /\ push_copied' = 0 /\ push_count' <= Capacity - used
    BY <1>0, <2>2 DEF Least
  <2>4. DataOK'
    <3>1. UNCHANGED <<m_read_index, m_data, pushed, popped>>
      BY <1>1, Zenon DEF PushBegin, consumer
    <3>2. \A k \in 0 .. Capacity - 1 : k < pushed - popped + push_copied' =>
              k < pushed - popped + push_copied
      <4>1. push_copied \in Nat /\ pushed \in Nat /\ popped \in Nat
        BY DEF RingInv, TypeOK
      <4> QED BY <2>3, <4>1
    <3> QED BY <3>1, <3>2, Zenon DEF RingInv, DataOK, Pos, Wrap
  <2>5. TypeOK' /\ m_write_index' = Wrap(m_read_index + (pushed - popped))'
    BY <1>1, <2>3, Zenon DEF PushBegin, consumer, RingInv, TypeOK, Wrap
  <2>6. UNCHANGED <<pushed, popped, pop_count, pop_copied>>
    BY <1>1, Zenon DEF PushBegin, consumer
  <2>7. push_copied' <= push_count' /\ pushed + push_count' <= popped + Capacity
    <3>1. pushed \in Nat /\ popped \in Nat
      BY DEF RingInv, TypeOK
    <3>2. Capacity \in Nat /\ push_count' \in Nat /\ used = pushed - popped
      BY <2>3
    <3> HIDE DEF used
    <3>3. pushed + push_count' <= popped + Capacity
      BY <1>0, <2>3, <3>1, <3>2, PushFits, Zenon
    <3> QED BY <2>3, <3>3
  <2> QED BY <2>4, <2>5, <2>6, <2>7, Zenon DEF RingInv
<1>2. ASSUME PushCopy PROVE RingInv'
  <2> DEFINE at == used + push_copied
  <2>1. /\ at \in 0 .. Capacity - 1 /\ push_copied \in Nat /\ popped \in Nat
        /\ pushed + push_copied = popped + at
        /\ push_copied' = push_copied + 1
    BY <1>2 DEF PushCopy, RingInv, TypeOK
  <2>2. Pos(m_write_index + push_copied) = Pos(m_read_index + at)
    BY <1>0, <2>1, WrapAdd DEF RingInv, Pos
  <2>3. \A k \in Int : k < used + push_copied' => k <= at
    BY <1>0, <2>1
  <2> HIDE DEF at
  <2>4. m_data' = [m_data EXCEPT ![Pos(m_read_index + at)] = popped + at]
    BY <1>2, <2>1, <2>2, Zenon DEF PushCopy
  <2>5. Pos(m_read_index + at) \in 0 .. Capacity - 1
    <3>1. m_read_index + at \in Nat /\ m_read_index + at < 2 * IndexRange
      BY <1>0, <2>1
    <3> QED
      BY <3>1, PosType
  <2>6. TypeOK'
    <3>1. m_data' \in [0 .. Capacity - 1 -> Int]
      BY <2>1, <2>4, <2>5 DEF RingInv, TypeOK
    <3> QED
      BY <1>2, <2>1, <3>1 DEF PushCopy, consumer, RingInv, TypeOK
  <2>7. DataOK'
    <3> SUFFICES ASSUME NEW k \in 0 .. Capacity - 1, k < used + push_copied'
                 PROVE  m_data'[Pos(m_read_index + k)] = popped + k
      BY <1>2 DEF PushCopy, consumer, DataOK, Pos, Wrap
    <3>1. k <= at /\ m_read_index + k \in Nat /\ m_read_index + k < 2 * IndexRange
      BY <1>0, <2>3
    <3>2. CASE k = at
      BY <2>4, <2>5, <3>2 DEF RingInv, TypeOK
    <3>3. CASE k < at
      <4>1. Pos(m_read_index + k) # Pos(m_read_index + at)
        <5>1. /\ m_read_index + at \in Nat /\ m_read_index + at < 2 * IndexRange
              /\ m_read_index + k < m_read_index + at
              /\ m_read_index + at < m_read_index + k + Capacity
          BY <1>0, <2>1, <3>3
        <5> QED
          BY <3>1, <5>1, PosDistinct
      <4>2. m_data[Pos(m_read_index + k)] = popped + k
        BY <3>3 DEF at, RingInv, DataOK
      <4> QED
        BY <2>4, <3>1, <4>1, <4>2, PosType DEF RingInv, TypeOK
    <3> QED
      BY <2>1, <3>1, <3>2, <3>3
  <2> QED
    BY <1>2, <2>6, <2>7 DEF PushCopy, consumer, RingInv, TypeOK, Wrap
<1>3. ASSUME PushEnd PROVE RingInv'
  <2>1. /\ push_count \in Nat /\ used + push_count <= Capacity /\ push_copied = push_count
        /\ pushed' = pushed + push_count /\ push_count' = 0 /\ push_copied' = 0
        /\ UNCHANGED <<m_read_index, m_data, pop_count, pop_copied, popped>>
    BY <1>3 DEF PushEnd, consumer, RingInv, TypeOK
  <2>2. m_write_index' = Wrap(m_read_index + (used + push_count))
    BY <1>0, <1>3, <2>1, WrapAdd DEF PushEnd, consumer, RingInv
  <2>3. m_write_index' \in 0 .. IndexRange - 1
    BY <1>0, <2>1, <2>2 DEF Wrap
  <2>4. m_write_index' = Wrap(m_read_index + (pushed - popped))'
    BY <2>1, <2>2 DEF RingInv, TypeOK, Wrap
  <2>5. DataOK'
    <3> SUFFICES ASSUME NEW k \in 0 .. Capacity - 1, k < pushed' - popped' + push_copied'
                 PROVE  m_data[Pos(m_read_index + k)] = popped + k
      BY <2>1 DEF DataOK, Pos, Wrap
    <3>1. k < pushed - popped + push_copied
      BY <2>1 DEF RingInv, TypeOK
    <3> QED
      BY <3>1 DEF RingInv, DataOK
  <2> QED
    BY <2>1, <2>3, <2>4, <2>5 DEF RingInv, TypeOK
<1>4. ASSUME NEW n \in 0 .. Capacity, PopBegin(n) PROVE RingInv'
  <2>1. Size = used
    BY <1>0, WrapAdd DEF RingInv, Size
  <2>2. /\ pop_count' \in Nat
        /\ pop_copied' = 0 /\ pop_count' <= used
    BY <1>0, <1>4, <2>1 DEF PopBegin, producer, Least
  <2> QED
    BY <1>4, <2>2 DEF PopBegin, producer, RingInv, TypeOK, DataOK, Pos, Wrap
<1>5. ASSUME PopCopy PROVE RingInv'
  BY <1>5 DEF PopCopy, producer, RingInv, TypeOK, DataOK, Pos, Wrap
<1>6. ASSUME PopEnd PROVE RingInv'
  <2>1. /\ pop_count \in Nat /\ pop_count <= used
        /\ m_read_index' = Wrap(m_read_index + pop_count)
        /\ popped' = popped + pop_count /\ pop_count' = 0 /\ pop_copied' = 0
        /\ UNCHANGED <<m_write_index, m_data, push_count, push_copied, pushed>>
    BY <1>6 DEF PopEnd, producer, RingInv, TypeOK
  <2>2. m_read_index' \in 0 .. IndexRange - 1
    BY <1>0, <2>1 DEF Wrap
  <2>3. m_write_index' = Wrap(m_read_index' + (pushed' - popped'))
    <3>1. Wrap(Wrap(m_read_index + pop_count) + (used - pop_count))
            = Wrap(m_read_index + (pop_count + (used - pop_count)))
      BY <1>0, <2>1, WrapAdd
    <3> QED
      BY <1>0, <2>1, <3>1 DEF RingInv, TypeOK
  <2>4. DataOK'
    <3> SUFFICES ASSUME NEW k \in 0 .. Capacity - 1, k < pushed' - popped' + push_copied'
                 PROVE  m_data[Pos(m_read_index' + k)] = popped' + k
      BY <2>1 DEF DataOK, Pos, Wrap
    <3> DEFINE j == pop_count + k
    <3>1. j \in 0 .. Capacity - 1 /\ j < pushed - popped + push_copied
      BY <2>1 DEF RingInv, TypeOK
    <3>2. Wrap(Wrap(m_read_index + pop_count) + k) = Wrap(m_read_index + j)
      BY <1>0, <2>1, <3>1 DEF Wrap
    <3>3. Pos(m_read_index' + k) = Pos(m_read_index + j) /\ popped' + k = popped + j
      BY <2>1, <3>2 DEF Pos, RingInv, TypeOK
    <3> HIDE DEF j
    <3> QED
      BY <3>1, <3>3 DEF RingInv, DataOK
  <2> QED
    BY <2>1, <2>2, <2>3, <2>4 DEF RingInv, TypeOK
<1>7. ASSUME UNCHANGED vars PROVE RingInv'
  BY <1>7 DEF vars, producer, consumer, RingInv, TypeOK, DataOK, Pos, Wrap
<1> QED
  BY <1>1, <1>2, <1>3, <1>4, <1>5, <1>6, <1>7 DEF Next

\* The invariant holds in every state of every behaviour.
THEOREM RingInvariance == Spec => []RingInv
BY RingInit, RingStep, PTL DEF Spec

\* ring_buffer.h, Pop: the consumer gets the slots in the order in which they were
\* pushed, none lost, repeated or half written.
THEOREM Order == Spec => []ReadsInOrder
<1>1. RingInv => ReadsInOrder
  BY CapacityAssumption DEF RingInv, TypeOK, DataOK, ReadsInOrder, Popping
<1> QED
  BY <1>1, RingInvariance, PTL

\* ring_buffer.h, Push and Pop: no slot is copied by both sides at a time.
THEOREM Apart == Spec => []CopiesApart
<1>1. RingInv => CopiesApart
  <2> SUFFICES ASSUME RingInv, Pushing, Popping
               PROVE  Pos(m_write_index + push_copied) # Pos(m_read_index + pop_copied)
    BY DEF CopiesApart
  <2> DEFINE used == pushed - popped
             at == used + push_copied
  <2>1. /\ used \in Nat /\ push_copied \in Nat /\ pop_copied \in Nat
        /\ at \in Nat /\ pop_copied < at /\ at < Capacity
        /\ m_read_index \in 0 .. IndexRange - 1
    BY CapacityAssumption DEF RingInv, TypeOK, Pushing, Popping
  <2>2. Pos(m_write_index + push_copied) = Pos(m_read_index + at)
    BY <2>1, WrapAdd, CapacityAssumption DEF RingInv, Pos
  <2> HIDE DEF at
  <2>3. /\ m_read_index + pop_copied \in Nat /\ m_read_index + at \in Nat
        /\ m_read_index + pop_copied < m_read_index + at /\ m_read_index + at < 2 * IndexRange
        /\ m_read_index + at < m_read_index + pop_copied + Capacity
    BY <2>1, CapacityAssumption, RangeLarge
  <2> QED
    BY <2>2, <2>3, PosDistinct
<1> QED
  BY <1>1, RingInvariance, PTL

\* ring_buffer.h, Size: it is what is in the buffer, also after an index has wrapped.
THEOREM Sizes == Spec => []SizeOK
<1>1. RingInv => SizeOK
  <2> SUFFICES ASSUME RingInv PROVE SizeOK
    OBVIOUS
  <2>1. pushed - popped \in 0 .. Capacity /\ m_read_index \in 0 .. IndexRange - 1
    BY CapacityAssumption DEF RingInv, TypeOK
  <2>2. Size = pushed - popped
    BY <2>1, WrapAdd, CapacityAssumption DEF RingInv, Size
  <2> QED
    BY <2>1, <2>2 DEF SizeOK
<1> QED
  BY <1>1, RingInvariance, PTL
-----------------------------------------------------------------------------
(***************************************************************************)
(* The queue of nodes.                                                     *)
(***************************************************************************)
WriterPlaces == {"idle", "fill", "link", "count", "fence", "notify"}
ReaderPlaces == {"idle", "lock", "test", "sleep", "asleep", "awake", "pop", "take"}

TypeInv ==
    /\ writer \in [Writers -> WriterPlaces]
    /\ pushes \in [Writers -> 0 .. MaxPushes]
    /\ reader \in ReaderPlaces
    /\ size \in Nat /\ read_ptr \in Nat \ {0} /\ write_ptr \in Nat \ {0}
    /\ current \in Seq(Values \cup {Empty}) /\ Len(current) = write_ptr
    /\ next \in Seq(Nat) /\ Len(next) = write_ptr
    /\ got \in Seq(Values)

\* One writer at a time is between Lock and Notify, and it has counted its push.
OneWriter ==
    \A w \in Writers : /\ writer[w] # "idle" <=> write_lock = w
                       /\ writer[w] # "idle" => pushes[w] # 0

\* Every node before the last holds an element and leads to the next one; the
\* last holds one when a writer has filled it and not yet linked the next.
Filled ==
    /\ \A n \in 1 .. write_ptr - 1 : current[n] \in Values /\ next[n] = n + 1
    /\ \A w \in Writers : writer[w] = "link" => current[write_ptr] \in Values

\* The nodes between the pointers are the elements counted, one that the reader
\* has counted out and not yet taken, and one linked and not yet counted.
Linked == \E w \in Writers : writer[w] = "count"
Counted ==
    write_ptr = read_ptr + size + (IF reader = "take" THEN 1 ELSE 0) + (IF Linked THEN 1 ELSE 0)

Freed == deleted = 1 .. read_ptr - 1

QueueInv == TypeInv /\ OneWriter /\ Filled /\ Counted /\ Freed
-----------------------------------------------------------------------------
\* An element is never mistaken for an empty node.
LEMMA ValueNotEmpty == ASSUME NEW v \in Values PROVE v # Empty
BY DEF Values, Empty

\* The queue starts with one empty node, and nobody is in it.
LEMMA QueueInitInv == ASSUME QueueInit PROVE QueueInv
<1>1. TypeInv
  BY SpscAssumption DEF QueueInit, TypeInv, WriterPlaces, ReaderPlaces, NoNode
<1>2. OneWriter /\ Filled /\ Counted /\ Freed
  BY SpscAssumption DEF QueueInit, OneWriter, Filled, Counted, Linked, Freed
<1> QED BY <1>1, <1>2 DEF QueueInv

\* A writer that holds the lock is the only one that is not idle.
LEMMA OnlyOne ==
    ASSUME OneWriter, NEW w \in Writers, writer[w] # "idle", NEW u \in Writers, u # w
    PROVE  writer[u] = "idle"
BY DEF OneWriter

\* Each step of Push keeps the invariant.
LEMMA PushKeeps ==
    ASSUME QueueInv, NEW w \in Writers, Push(w)
    PROVE  QueueInv'
<1> USE DEF QueueInv, TypeInv
<1>a. \A u \in Writers \ {w} : writer[w] # "idle" => writer[u] = "idle"
  BY OnlyOne
<1>1. CASE Lock(w)
  <2>1. TypeInv'
    BY <1>1, SpscAssumption DEF Lock, GoTo, list, reading, WriterPlaces
  <2>2. OneWriter'
    BY <1>1, SpscAssumption DEF Lock, GoTo, OneWriter
  <2>3. Filled' /\ Counted' /\ Freed'
    BY <1>1, Zenon DEF Lock, GoTo, list, reading, Filled, Counted, Linked, Freed
  <2> QED BY <2>1, <2>2, <2>3
<1>2. CASE Fill(w)
  <2>1. <<w, pushes[w]>> \in Values
    BY <1>2 DEF Fill, OneWriter, Values
  <2>2. TypeInv'
    BY <1>2, <2>1 DEF Fill, GoTo, reading, WriterPlaces
  <2>3. OneWriter'
    BY <1>2 DEF Fill, GoTo, OneWriter
  <2>4. current'[write_ptr] \in Values /\ \A n \in 1 .. write_ptr - 1 : current'[n] = current[n]
    BY <1>2, <2>1 DEF Fill
  <2>6. Filled'
    BY <1>2, <2>4, Zenon DEF Fill, Filled
  <2>5. Counted' /\ Freed'
    BY <1>2 DEF Fill, GoTo, reading, Counted, Linked, Freed
  <2> QED BY <2>2, <2>3, <2>5, <2>6
<1>3. CASE Link(w)
  <2>1. /\ write_ptr' = write_ptr + 1
        /\ current' \in Seq(Values \cup {Empty}) /\ Len(current') = write_ptr + 1
        /\ next' \in Seq(Nat) /\ Len(next') = write_ptr + 1
    BY <1>3 DEF Link, NoNode
  <2>2. TypeInv'
    BY <1>3, <2>1 DEF Link, GoTo, reading, WriterPlaces
  <2>3. OneWriter'
    BY <1>3 DEF Link, GoTo, OneWriter
  <2>4. \A n \in 1 .. write_ptr : current'[n] \in Values /\ next'[n] = n + 1
    BY <1>3 DEF Link, Filled
  <2>5. Filled'
    BY <1>3, <1>a, <2>1, <2>4 DEF Link, GoTo, Filled
  <2>6. ~Linked /\ Linked'
    BY <1>3, <1>a, Zenon DEF Link, GoTo, Linked
  <2>7. Counted' /\ Freed'
    BY <1>3, <2>1, <2>6 DEF Link, reading, Counted, Freed
  <2> QED BY <2>2, <2>3, <2>5, <2>7
<1>4. CASE Count(w)
  <2>1. TypeInv' /\ OneWriter' /\ Filled' /\ Freed'
    BY <1>4 DEF Count, GoTo, list, reading, WriterPlaces, OneWriter, Filled, Freed
  <2>2. Linked /\ ~Linked'
    BY <1>4, <1>a DEF Count, GoTo, Linked
  <2>3. Counted'
    BY <1>4, <2>2 DEF Count, list, reading, Counted
  <2> QED BY <2>1, <2>3
<1>5. CASE Fence(w)
  <2>1. TypeInv' /\ OneWriter' /\ Filled' /\ Freed'
    BY <1>5 DEF Fence, GoTo, list, reading, WriterPlaces, OneWriter, Filled, Freed
  <2>2. Linked' <=> Linked
    BY <1>5 DEF Fence, GoTo, Linked
  <2>3. Counted'
    BY <1>5, <2>2 DEF Fence, list, reading, Counted
  <2> QED BY <2>1, <2>3
<1>6. CASE Notify(w)
  <2>1. TypeInv' /\ Filled' /\ Freed'
    BY <1>6 DEF Notify, GoTo, list, WriterPlaces, ReaderPlaces, Filled, Freed
  <2>2. OneWriter'
    BY <1>6, <1>a, SpscAssumption DEF Notify, GoTo, OneWriter
  <2>3. (Linked' <=> Linked) /\ (reader' = "take" <=> reader = "take")
    BY <1>6 DEF Notify, GoTo, Linked
  <2>4. Counted'
    BY <1>6, <2>3 DEF Notify, list, Counted
  <2> QED BY <2>1, <2>2, <2>4
<1> QED BY <1>1, <1>2, <1>3, <1>4, <1>5, <1>6 DEF Push

\* Each step of PopWait and Pop keeps it; only PopCount and PopTake touch the list.
LEMMA ReadKeeps ==
    ASSUME QueueInv, Read \/ WakeSpuriously
    PROVE  QueueInv'
<1> USE DEF QueueInv, TypeInv
<1>1. CASE PopWait \/ TakeLock \/ Test \/ Sleep \/ WakeSpuriously
  <2>1. /\ UNCHANGED <<writing, read_ptr, deleted, got, size>>
        /\ reader' \in ReaderPlaces /\ reader # "take" /\ reader' # "take"
    BY <1>1 DEF PopWait, TakeLock, Test, Sleep, WakeSpuriously, ReaderPlaces
  <2> QED BY <2>1 DEF writing, list, OneWriter, Filled, Counted, Linked, Freed
<1>2. CASE PopCount
  <2>1. TypeInv' /\ OneWriter' /\ Filled' /\ Freed'
    BY <1>2 DEF PopCount, writing, list, ReaderPlaces, OneWriter, Filled, Freed
  <2>2. Linked' <=> Linked
    BY <1>2 DEF PopCount, writing, Linked
  <2>3. /\ reader # "take" /\ UNCHANGED <<read_ptr, write_ptr>>
        /\ \/ reader' # "take" /\ size' = size
           \/ reader' = "take" /\ size' = size - 1
    BY <1>2 DEF PopCount, writing, list
  <2>4. Counted'
    <3>1. CASE reader' # "take" /\ size' = size
      BY <2>2, <2>3, <3>1 DEF Counted
    <3>2. CASE reader' = "take" /\ size' = size - 1
      BY <2>2, <2>3, <3>2 DEF Counted
    <3> QED BY <2>3, <3>1, <3>2
  <2> QED BY <2>1, <2>4
<1>3. CASE PopTake
  <2>1. read_ptr \in 1 .. write_ptr - 1
    BY <1>3 DEF PopTake, Counted
  <2>2. read_ptr' = read_ptr + 1 /\ current[read_ptr] \in Values
    BY <1>3, <2>1 DEF PopTake, Filled
  <2>3. TypeInv' /\ OneWriter' /\ Filled' /\ Freed'
    BY <1>3, <2>2 DEF PopTake, writing, list, ReaderPlaces, OneWriter, Filled, Freed
  <2>4. Linked' <=> Linked
    BY <1>3 DEF PopTake, writing, Linked
  <2>5. Counted'
    BY <1>3, <2>2, <2>4 DEF PopTake, writing, list, Counted
  <2> QED BY <2>3, <2>5
<1> QED BY <1>1, <1>2, <1>3 DEF Read

LEMMA QueueNextInv == ASSUME QueueInv, [QueueNext]_queueVars PROVE QueueInv'
<1>1. CASE UNCHANGED queueVars
  BY <1>1 DEF queueVars, writing, list, reading, QueueInv, TypeInv, OneWriter, Filled, Counted, Linked,
              Freed
<1> QED BY <1>1, PushKeeps, ReadKeeps DEF QueueNext

\* The invariant holds throughout, for every number of writers and pushes.
THEOREM QueueInvariance == QueueSpec => []QueueInv
<1>1. QueueInit => QueueInv
  BY QueueInitInv
<1>2. QueueInv /\ [QueueNext]_queueVars => QueueInv'
  BY QueueNextInv
<1> QED BY <1>1, <1>2, PTL DEF QueueSpec

\* However the accesses of Push and Pop interleave, the reader takes an element only
\* from a node that is filled and linked, and deletes no node in use.
THEOREM Whole == QueueSpec => []TakesWhole
<1>1. ASSUME QueueInv PROVE TakesWhole
  <2>1. ASSUME reader = "take" PROVE current[read_ptr] # Empty /\ next[read_ptr] # NoNode
    <3>1. read_ptr \in 1 .. write_ptr - 1
      BY <1>1, <2>1 DEF QueueInv, TypeInv, Counted
    <3> QED BY <1>1, <3>1, ValueNotEmpty DEF QueueInv, TypeInv, Filled, NoNode
  <2>2. read_ptr <= write_ptr
    BY <1>1 DEF QueueInv, TypeInv, Counted
  <2> QED BY <1>1, <2>1, <2>2 DEF QueueInv, TypeInv, Freed, TakesWhole
<1> QED BY <1>1, QueueInvariance, PTL
-----------------------------------------------------------------------------
(* The queue is a channel: an element is put in by Count and taken out by  *)
(* PopCount, and no other step is seen.                                    *)
Queue == [i \in 1 .. size |-> current[First + i - 1]]
Taken == IF reader = "take" THEN Append(got, current[read_ptr]) ELSE got

LEMMA FunctionIsSeq ==
    ASSUME NEW S, NEW n \in Nat, NEW f \in [1 .. n -> S]
    PROVE  f \in Seq(S) /\ Len(f) = n
OBVIOUS

\* The elements that count lie before the node at which the writers write.
LEMMA QueueBounds ==
    ASSUME QueueInv
    PROVE  /\ First \in Nat \ {0} /\ First + size <= write_ptr
           /\ Linked => First + size = write_ptr - 1
           /\ reader = "take" => read_ptr \in 1 .. write_ptr - 1
           /\ Queue \in Seq(Values) /\ Len(Queue) = size
           /\ Taken \in Seq(Values)
<1> USE DEF QueueInv, TypeInv
<1>1. /\ First \in Nat \ {0} /\ First + size <= write_ptr
      /\ Linked => First + size = write_ptr - 1
      /\ reader = "take" => read_ptr \in 1 .. write_ptr - 1
  BY DEF First, Counted
<1>2. \A i \in 1 .. size : current[First + i - 1] \in Values
  BY <1>1 DEF Filled
<1>3. Queue \in Seq(Values) /\ Len(Queue) = size
  BY <1>2 DEF Queue
<1>4. Taken \in Seq(Values)
  BY <1>1 DEF Taken, Filled
<1> QED BY <1>1, <1>3, <1>4

\* A step that leaves the count, the elements before write_ptr and the reader's
\* place alone is not seen.
LEMMA Unseen ==
    ASSUME QueueInv, size' = size, First' = First, Taken' = Taken,
           \A n \in 1 .. write_ptr - 1 : current'[n] = current[n]
    PROVE  UNCHANGED <<Queue, Taken>>
<1>1. First \in Nat \ {0} /\ First + size <= write_ptr
  BY QueueBounds
<1>2. size \in Nat /\ write_ptr \in Nat
  BY DEF QueueInv, TypeInv
<1>3. \A i \in 1 .. size : First + i - 1 \in 1 .. write_ptr - 1
  BY <1>1, <1>2
<1> QED BY <1>3 DEF Queue

\* Counting an element puts it in.
LEMMA CountPuts ==
    ASSUME QueueInv, NEW w \in Writers, Count(w)
    PROVE  \E v \in Values : Queue' = Append(Queue, v) /\ Taken' = Taken
<1> DEFINE v == current[First + size]
<1>1. size \in Nat /\ First \in Nat \ {0} /\ First + size = write_ptr - 1 /\ Linked
  BY QueueBounds DEF Count, Linked, QueueInv, TypeInv
<1>2. v \in Values
  BY <1>1 DEF QueueInv, TypeInv, Filled
<1>3. size' = size + 1 /\ First' = First /\ current' = current /\ Taken' = Taken
  BY DEF Count, First, Taken, list, reading
<1>4. Queue' = Append(Queue, v)
  <2>1. Queue \in Seq(Values) /\ Len(Queue) = size
    BY QueueBounds
  <2>2. \A i \in 1 .. size : Queue'[i] = Queue[i] /\ Queue[i] \in Values
    BY <1>1, <1>3, <2>1 DEF Queue
  <2>3. Queue'[size + 1] = v
    BY <1>1, <1>3 DEF Queue
  <2>4. Queue' \in Seq(Values) /\ Len(Queue') = size + 1
    <3>1. Queue' = [i \in 1 .. size + 1 |-> current[First + i - 1]]
      BY <1>3 DEF Queue
    <3>2. \A i \in 1 .. size + 1 : i \in 1 .. size \/ i = size + 1
      BY <1>1
    <3>3. Queue' \in [1 .. size + 1 -> Values]
      BY <1>2, <2>2, <2>3, <3>1, <3>2
    <3> QED BY <1>1, <3>3, FunctionIsSeq
  <2>5. \A i \in 1 .. size + 1 : Queue'[i] = Append(Queue, v)[i]
    BY <1>1, <1>2, <2>1, <2>2, <2>3
  <2> QED BY <1>2, <2>1, <2>4, <2>5, SeqEqual, AppendProperties
<1> QED BY <1>2, <1>3, <1>4

\* Counting an element out takes the first one.
LEMMA PopCountTakes ==
    ASSUME QueueInv, PopCount, size # 0
    PROVE  /\ Queue # << >>
           /\ Queue' = Tail(Queue) /\ Taken' = Append(Taken, Head(Queue))
<1>1. /\ size \in Nat \ {0} /\ read_ptr \in Nat
      /\ size' = size - 1 /\ current' = current
      /\ First = read_ptr /\ First' = read_ptr + 1
      /\ Taken = got /\ Taken' = Append(got, current[read_ptr])
  BY DEF PopCount, First, Taken, writing, list, QueueInv, TypeInv
<1>2. Queue \in Seq(Values) /\ Len(Queue) = size
  BY QueueBounds
<1>3. \A i \in 1 .. size - 1 : Queue'[i] = Queue[i + 1] /\ Queue[i + 1] \in Values
  <2>1. Queue' = [i \in 1 .. size - 1 |-> current[read_ptr + 1 + i - 1]]
    BY <1>1 DEF Queue
  <2>2. Queue = [i \in 1 .. size |-> current[read_ptr + i - 1]]
    BY <1>1 DEF Queue
  <2>3. \A i \in 1 .. size - 1 : /\ i + 1 \in 1 .. size
                                 /\ read_ptr + 1 + i - 1 = read_ptr + (i + 1) - 1
    BY <1>1
  <2>4. \A i \in 1 .. size : Queue[i] \in Values
    BY <1>2
  <2>5. \A i \in 1 .. size - 1 : Queue'[i] = current[read_ptr + (i + 1) - 1]
    BY <2>1, <2>3
  <2>6. \A i \in 1 .. size - 1 : Queue[i + 1] = current[read_ptr + (i + 1) - 1]
    BY <2>2, <2>3
  <2> QED BY <2>3, <2>4, <2>5, <2>6
<1>4. Queue' \in Seq(Values) /\ Len(Queue') = size - 1
  <2>1. Queue' = [i \in 1 .. size - 1 |-> current[read_ptr + 1 + i - 1]]
    BY <1>1 DEF Queue
  <2>2. Queue' \in [1 .. size - 1 -> Values]
    BY <1>3, <2>1
  <2> QED BY <1>1, <2>2, FunctionIsSeq
<1>5. Head(Queue) = current[read_ptr]
  BY <1>1, <1>2 DEF Queue
<1>6. Queue' = Tail(Queue)
  BY <1>1, <1>2, <1>3, <1>4, SeqEqual, HeadTailProperties
<1> QED BY <1>1, <1>2, <1>5, <1>6

LEMMA StepIsChannel ==
    ASSUME QueueInv, [QueueNext]_queueVars
    PROVE  [Channel!Next]_<<Queue, Taken>>
<1>1. \A n \in 1 .. write_ptr - 1 : n \in Nat /\ n # write_ptr /\ n <= Len(current)
  BY DEF QueueInv, TypeInv
<1>2. ASSUME NEW w \in Writers, Push(w), ~Count(w) PROVE UNCHANGED <<Queue, Taken>>
  <2>1. size' = size /\ UNCHANGED <<read_ptr, got>> /\ (reader' = "take" <=> reader = "take")
    BY <1>2 DEF Push, Lock, Fill, Link, Fence, Notify, reading
  <2>2. \A n \in 1 .. write_ptr - 1 : current'[n] = current[n]
    <3>1. CASE Fill(w)
      BY <1>1, <3>1 DEF Fill, QueueInv, TypeInv
    <3>2. CASE Link(w)
      BY <1>1, <3>2 DEF Link, QueueInv, TypeInv
    <3>3. CASE Lock(w) \/ Fence(w) \/ Notify(w)
      BY <3>3 DEF Lock, Fence, Notify, list
    <3> QED BY <1>2, <3>1, <3>2, <3>3 DEF Push
  <2>3. First' = First
    BY <2>1 DEF First
  <2>4. Taken' = Taken
    BY <2>1, <2>2, QueueBounds DEF Taken
  <2> QED BY <2>1, <2>2, <2>3, <2>4, Unseen
<1>3. ASSUME Read \/ WakeSpuriously, ~(PopCount /\ size # 0) PROVE UNCHANGED <<Queue, Taken>>
  <2>1. size' = size /\ current' = current
    BY <1>3 DEF Read, PopWait, TakeLock, Test, Sleep, WakeSpuriously, PopCount, PopTake, writing,
                list
  <2>2. First' = First /\ Taken' = Taken
    <3>1. CASE PopTake
      <4>1. read_ptr' = read_ptr + 1
        BY <3>1, QueueBounds DEF PopTake, QueueInv, Filled
      <4> QED BY <2>1, <3>1, <4>1 DEF PopTake, First, Taken
    <3>2. CASE ~PopTake
      BY <1>3, <2>1, <3>2 DEF Read, PopWait, TakeLock, Test, Sleep, WakeSpuriously, PopCount,
                              First, Taken
    <3> QED BY <3>1, <3>2
  <2> QED BY <2>1, <2>2, Unseen
<1>4. CASE UNCHANGED queueVars
  BY <1>4 DEF queueVars, writing, list, reading, Queue, Taken, First
<1>5. ASSUME NEW w \in Writers, Count(w) PROVE Channel!Next
  BY <1>5, CountPuts, Zenon DEF Channel!Next, Channel!Put, Queue, Taken
<1>6. ASSUME PopCount, size # 0 PROVE Channel!Next
  BY <1>6, PopCountTakes, Zenon DEF Channel!Next, Channel!Take, Queue, Taken
<1> QED BY <1>2, <1>3, <1>4, <1>5, <1>6 DEF QueueNext

\* For every number of writers and pushes the queue implements the first-in
\* first-out channel: threadsafe_queue.h loses, repeats and reorders nothing.
THEOREM Refinement == QueueSpec => IsChannel
<1>1. QueueInit => Channel!Init
  BY DEF QueueInit, Channel!Init, First
<1>2. QueueInv /\ [QueueNext]_queueVars => [Channel!Next]_<<Queue, Taken>>
  BY StepIsChannel
<1> QED BY <1>1, <1>2, QueueInvariance, PTL DEF QueueSpec, IsChannel, Channel!Spec, Queue, Taken
=============================================================================
