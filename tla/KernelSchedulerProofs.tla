----------------------- MODULE KernelSchedulerProofs ------------------------
(***************************************************************************)
(* What the kernel calls, the system calls, Reschedule and the run loop do *)
(* to the ready queues and to the threads that the cores run, for any      *)
(* number of threads, cores and priorities.  A ready queue enumerates the  *)
(* threads that are ready at its level; an action leaves them alone, moves *)
(* one thread to another level, or lets one thread enter or leave.         *)
(***************************************************************************)
EXTENDS KernelProofs, KernelProperties

-----------------------------------------------------------------------------
(* Lists without repetition.                                               *)

(* A list that keeps all elements of another but the k-th, in any order.   *)
LEMMA EnumeratesDrop ==
    ASSUME NEW T, NEW s \in Seq(T), NEW S, Enumerates(s, S), NEW k \in 1 .. Len(s),
           NEW r \in Seq(T), NEW f \in [1 .. Len(r) -> (1 .. Len(s)) \ {k}],
           IsInjective(f), Range(f) = (1 .. Len(s)) \ {k},
           \A i \in 1 .. Len(r) : r[i] = s[f[i]]
    PROVE  Enumerates(r, S \ {s[k]})
<1>1. DOMAIN s = 1 .. Len(s) /\ DOMAIN r = 1 .. Len(r) /\ DOMAIN f = 1 .. Len(r)
  OBVIOUS
<1>2. \A i, j \in 1 .. Len(s) : s[i] = s[j] => i = j
  BY <1>1, Zenon DEF Enumerates, IsInjective
<1>3. IsInjective(r)
  <2> SUFFICES ASSUME NEW a \in 1 .. Len(r), NEW b \in 1 .. Len(r), r[a] = r[b]
               PROVE  a = b
    BY <1>1, Zenon DEF IsInjective
  <2>1. f[a] \in 1 .. Len(s) /\ f[b] \in 1 .. Len(s) /\ s[f[a]] = s[f[b]]
    BY Zenon
  <2>2. f[a] = f[b]
    BY <1>2, <2>1, Zenon
  <2> QED
    BY <1>1, <2>2, Zenon DEF IsInjective
<1>4. ASSUME NEW x \in Range(r) PROVE x \in S \ {s[k]}
  <2>1. PICK i \in 1 .. Len(r) : x = s[f[i]]
    BY <1>1, <1>4 DEF Range
  <2>2. f[i] \in 1 .. Len(s) /\ f[i] # k
    BY Zenon
  <2> QED
    BY <1>1, <1>2, <2>1, <2>2, Zenon DEF Enumerates, Range
<1>5. ASSUME NEW x \in S \ {s[k]} PROVE x \in Range(r)
  <2>1. PICK j \in 1 .. Len(s) : x = s[j]
    BY <1>1, Zenon DEF Enumerates, Range
  <2>2. j \in Range(f)
    BY <2>1
  <2>3. PICK i \in 1 .. Len(r) : f[i] = j
    BY <1>1, <2>2, Zenon DEF Range
  <2> QED
    BY <1>1, <2>1, <2>3, Zenon DEF Range
<1> QED
  BY <1>3, <1>4, <1>5 DEF Enumerates

(* To erase an element.                                                    *)
LEMMA EnumeratesRemove ==
    ASSUME NEW T, NEW s \in Seq(T), NEW S, Enumerates(s, S), NEW x
    PROVE  Enumerates(RemoveFirst(s, x), S \ {x})
<1>1. CASE x \notin S
  <2>1. RemoveFirst(s, x) = s /\ S \ {x} = S
    BY <1>1 DEF RemoveFirst, Enumerates
  <2> QED
    BY <2>1, Zenon
<1>2. CASE x \in S
  <2> DEFINE I == {i \in 1 .. Len(s) : s[i] = x}
             k == Min(I)
             r == RemoveAt(s, k)
             f == [i \in 1 .. Len(s) - 1 |-> IF i < k THEN i ELSE i + 1]
  <2>1. I \subseteq Nat /\ I # {}
    BY <1>2 DEF Enumerates, Range
  <2>2. k \in I
    BY <2>1, MinOfNaturals, Zenon
  <2>3. k \in 1 .. Len(s) /\ s[k] = x
    BY <2>2
  <2>4. RemoveFirst(s, x) = r
    BY <1>2 DEF RemoveFirst, Enumerates
  <2> HIDE DEF k
  <2>5. /\ r \in Seq(T) /\ Len(r) = Len(s) - 1
        /\ \A i \in 1 .. Len(r) : r[i] = s[f[i]]
    <3>1. /\ SubSeq(s, 1, k - 1) \in Seq(T) /\ Len(SubSeq(s, 1, k - 1)) = k - 1
          /\ \A i \in 1 .. k - 1 : SubSeq(s, 1, k - 1)[i] = s[i]
      BY <2>3, SubSeqProperties
    <3>2. /\ SubSeq(s, k + 1, Len(s)) \in Seq(T) /\ Len(SubSeq(s, k + 1, Len(s))) = Len(s) - k
          /\ \A i \in 1 .. Len(s) - k : SubSeq(s, k + 1, Len(s))[i] = s[k + i]
      BY <2>3, SubSeqProperties
    <3> DEFINE a == SubSeq(s, 1, k - 1)
               b == SubSeq(s, k + 1, Len(s))
    <3>3. /\ a \o b \in Seq(T) /\ Len(a \o b) = Len(a) + Len(b)
          /\ \A i \in 1 .. Len(a) + Len(b) :
                (a \o b)[i] = IF i <= Len(a) THEN a[i] ELSE b[i - Len(a)]
      BY <3>1, <3>2, ConcatProperties, Zenon
    <3>4. r = a \o b
      BY DEF RemoveAt
    <3>7. Len(a) = k - 1 /\ Len(b) = Len(s) - k
      BY <3>1, <3>2
    <3> HIDE DEF a, b, r
    <3>5. /\ r \in Seq(T) /\ Len(r) = Len(s) - 1
          /\ \A i \in 1 .. Len(s) - 1 : r[i] = IF i <= k - 1 THEN a[i] ELSE b[i - (k - 1)]
      <4>1. Len(a) + Len(b) = Len(s) - 1
        BY <2>3, <3>7
      <4> QED
        BY <3>3, <3>4, <3>7, <4>1, Zenon
    <3>6. ASSUME NEW i \in 1 .. Len(s) - 1 PROVE r[i] = s[f[i]]
      <4>1. CASE i < k
        <5>1. i <= k - 1 /\ i \in 1 .. k - 1 /\ f[i] = i
          BY <2>3, <4>1
        <5> QED
          BY <3>1, <3>5, <5>1, Zenon DEF a
      <4>2. CASE ~(i < k)
        <5>1. /\ ~(i <= k - 1) /\ i - (k - 1) \in 1 .. Len(s) - k
              /\ f[i] = i + 1 /\ k + (i - (k - 1)) = i + 1
          BY <2>3, <4>2
        <5> QED
          BY <3>2, <3>5, <5>1, Zenon DEF b
      <4> QED
        BY <4>1, <4>2
    <3> QED
      BY <3>5, <3>6
  <2> HIDE DEF r
  <2>6. f \in [1 .. Len(r) -> (1 .. Len(s)) \ {k}]
    BY <2>3, <2>5
  <2>7. IsInjective(f)
    BY <2>3 DEF IsInjective
  <2>8. Range(f) = (1 .. Len(s)) \ {k}
    <3>1. ASSUME NEW j \in (1 .. Len(s)) \ {k} PROVE j \in Range(f)
      <4>1. CASE j < k
        <5>1. j \in 1 .. Len(s) - 1 /\ f[j] = j
          BY <2>3, <4>1
        <5> QED
          BY <5>1 DEF Range
      <4>2. CASE j > k
        <5>1. j - 1 \in 1 .. Len(s) - 1 /\ f[j - 1] = j
          BY <2>3, <4>2
        <5> QED
          BY <5>1 DEF Range
      <4> QED
        BY <2>3, <4>1, <4>2
    <3> QED
      BY <2>6, <3>1 DEF Range
  <2> HIDE DEF f
  <2>9. Enumerates(r, S \ {s[k]})
    BY <2>3, <2>5, <2>6, <2>7, <2>8, EnumeratesDrop, Zenon
  <2> QED
    BY <2>3, <2>4, <2>9
<1> QED
  BY <1>1, <1>2

(* To pop the k-th element, the ones before it being popped and pushed back. *)
LEMMA EnumeratesPop ==
    ASSUME NEW T, NEW s \in Seq(T), NEW S, Enumerates(s, S), NEW k \in 1 .. Len(s)
    PROVE  Enumerates(WithoutPopped(s, k), S \ {s[k]})
<1> DEFINE r == WithoutPopped(s, k)
           f == [i \in 1 .. Len(s) - 1 |-> IF i <= Len(s) - k THEN k + i ELSE Len(s) - i]
<1>1. /\ r \in Seq(T) /\ Len(r) = Len(s) - 1
      /\ \A i \in 1 .. Len(r) : r[i] = s[f[i]]
  <2> DEFINE a == SubSeq(s, 1, k - 1)
             b == SubSeq(s, k + 1, Len(s))
  <2>1. /\ a \in Seq(T) /\ Len(a) = k - 1
        /\ \A i \in 1 .. k - 1 : a[i] = s[i]
    BY SubSeqProperties
  <2>2. /\ b \in Seq(T) /\ Len(b) = Len(s) - k
        /\ \A i \in 1 .. Len(s) - k : b[i] = s[k + i]
    BY SubSeqProperties
  <2> HIDE DEF a, b
  <2>3. /\ Reverse(a) \in Seq(T) /\ Len(Reverse(a)) = k - 1
        /\ \A i \in 1 .. k - 1 : Reverse(a)[i] = s[k - i]
    <3>1. Reverse(a) \in Seq(T) /\ Len(Reverse(a)) = Len(a)
      <4>1. Reverse(a) \in Seq(T)
        BY <2>1, ReverseType, Zenon
      <4>2. Reverse(a) = [i \in 1 .. Len(a) |-> a[Len(a) + 1 - i]] /\ Len(a) \in Nat
        BY <2>1 DEF Reverse
      <4>3. DOMAIN Reverse(a) = 1 .. Len(a)
        BY <4>2, Zenon
      <4> QED
        BY <4>1, <4>2, <4>3
    <3>2. ASSUME NEW i \in 1 .. k - 1 PROVE Reverse(a)[i] = s[k - i]
      <4>1. i \in 1 .. Len(a) /\ Len(a) + 1 - i = k - i /\ k - i \in 1 .. k - 1
        BY <2>1
      <4> QED
        BY <2>1, <4>1, Zenon DEF Reverse
    <3> QED
      BY <2>1, <3>1, <3>2, Zenon
  <2>4. r = b \o Reverse(a)
    BY DEF WithoutPopped, a, b
  <2> HIDE DEF r
  <2> DEFINE v == Reverse(a)
  <2> HIDE DEF v
  <2>10. v \in Seq(T) /\ Len(v) = k - 1
    BY <2>3 DEF v
  <2>11. /\ r \in Seq(T) /\ Len(r) = Len(b) + Len(v)
         /\ \A i \in 1 .. Len(b) + Len(v) : r[i] = IF i <= Len(b) THEN b[i] ELSE v[i - Len(b)]
    BY <2>2, <2>4, <2>10, ConcatProperties, Zenon DEF v
  <2>5. r \in Seq(T) /\ Len(r) = Len(s) - 1
    BY <2>2, <2>10, <2>11
  <2>6. ASSUME NEW i \in 1 .. Len(r) PROVE r[i] = s[f[i]]
    <3>1. CASE i <= Len(s) - k
      <4>1. i \in 1 .. Len(b) + Len(v) /\ i <= Len(b) /\ i \in 1 .. Len(s) - k /\ f[i] = k + i
        BY <2>2, <2>5, <2>10, <2>11, <3>1
      <4> QED
        BY <2>2, <2>11, <4>1, Zenon
    <3>2. CASE i > Len(s) - k
      <4>5. /\ i \in 1 .. Len(b) + Len(v) /\ ~(i <= Len(b)) /\ i - Len(b) = i - (Len(s) - k)
            /\ i - (Len(s) - k) \in 1 .. k - 1
        BY <2>2, <2>5, <2>10, <2>11, <3>2
      <4>1. r[i] = Reverse(a)[i - (Len(s) - k)] /\ i - (Len(s) - k) \in 1 .. k - 1
        BY <2>11, <4>5, Zenon DEF v
      <4>2. r[i] = s[k - (i - (Len(s) - k))]
        BY <2>3, <4>1
      <4>3. k - (i - (Len(s) - k)) = Len(s) - i
        BY <2>5
      <4> QED
        BY <2>5, <3>2, <4>2, <4>3
    <3> QED
      BY <2>5, <3>1, <3>2
  <2> QED
    BY <2>5, <2>6
<1> HIDE DEF r
<1>2. f \in [1 .. Len(r) -> (1 .. Len(s)) \ {k}]
  BY <1>1
<1>3. IsInjective(f)
  BY DEF IsInjective
<1>4. Range(f) = (1 .. Len(s)) \ {k}
  <2>1. ASSUME NEW j \in (1 .. Len(s)) \ {k} PROVE j \in Range(f)
    <3>1. CASE j > k
      <4>1. j - k \in 1 .. Len(s) - 1 /\ f[j - k] = j
        BY <3>1
      <4> QED
        BY <4>1 DEF Range
    <3>2. CASE j < k
      <4>1. Len(s) - j \in 1 .. Len(s) - 1 /\ f[Len(s) - j] = j
        BY <3>2
      <4> QED
        BY <4>1, Zenon DEF Range
    <3> QED
      BY <3>1, <3>2
  <2> QED
    BY <1>2, <2>1, Zenon DEF Range
<1> HIDE DEF f
<1> QED
  BY <1>1, <1>2, <1>3, <1>4, EnumeratesDrop, Zenon DEF r

(* To reverse a list.                                                      *)
LEMMA EnumeratesReverse ==
    ASSUME NEW T, NEW s \in Seq(T), NEW S, Enumerates(s, S)
    PROVE  Enumerates(Reverse(s), S)
<1>1. /\ DOMAIN s = 1 .. Len(s) /\ DOMAIN Reverse(s) = 1 .. Len(s)
      /\ \A i \in 1 .. Len(s) : /\ Len(s) + 1 - i \in 1 .. Len(s)
                                /\ Reverse(s)[i] = s[Len(s) + 1 - i]
  BY DEF Reverse
<1>2. IsInjective(Reverse(s))
  <2> SUFFICES ASSUME NEW a \in 1 .. Len(s), NEW b \in 1 .. Len(s),
                      Reverse(s)[a] = Reverse(s)[b]
               PROVE  a = b
    BY <1>1, Zenon DEF IsInjective
  <2>1. Len(s) + 1 - a = Len(s) + 1 - b
    BY <1>1, Zenon DEF Enumerates, IsInjective
  <2> QED
    BY <2>1
<1>3. ASSUME NEW x \in Range(s) PROVE x \in Range(Reverse(s))
  <2>1. PICK j \in 1 .. Len(s) : x = s[j]
    BY <1>1, Zenon DEF Range
  <2>2. Len(s) + 1 - j \in 1 .. Len(s) /\ Reverse(s)[Len(s) + 1 - j] = s[j]
    BY <1>1
  <2> QED
    BY <1>1, <2>1, <2>2, Zenon DEF Range
<1>4. ASSUME NEW x \in Range(Reverse(s)) PROVE x \in Range(s)
  BY <1>1, <1>4, Zenon DEF Range
<1> QED
  BY <1>2, <1>3, <1>4, Zenon DEF Enumerates

(* To put an element at the end or at the front.                           *)
LEMMA EnumeratesAppend ==
    ASSUME NEW T, NEW s \in Seq(T), NEW S, Enumerates(s, S), NEW x \in T, x \notin S
    PROVE  Enumerates(Append(s, x), S \cup {x})
<1>1. /\ DOMAIN s = 1 .. Len(s) /\ DOMAIN Append(s, x) = 1 .. Len(s) + 1
      /\ Append(s, x)[Len(s) + 1] = x
      /\ \A i \in 1 .. Len(s) : Append(s, x)[i] = s[i] /\ s[i] # x
  BY DEF Enumerates, Range
<1>2. IsInjective(Append(s, x))
  <2> SUFFICES ASSUME NEW a \in 1 .. Len(s) + 1, NEW b \in 1 .. Len(s) + 1,
                      Append(s, x)[a] = Append(s, x)[b]
               PROVE  a = b
    BY <1>1, Zenon DEF IsInjective
  <2>1. \A i \in 1 .. Len(s) + 1 : i \in 1 .. Len(s) \/ i = Len(s) + 1
    OBVIOUS
  <2> QED
    BY <1>1, <2>1, Zenon DEF Enumerates, IsInjective
<1>3. Range(Append(s, x)) = S \cup {x}
  BY <1>1 DEF Enumerates, Range
<1> QED
  BY <1>2, <1>3, Zenon DEF Enumerates

LEMMA EnumeratesCons ==
    ASSUME NEW T, NEW s \in Seq(T), NEW S, Enumerates(s, S), NEW x \in T, x \notin S
    PROVE  Enumerates(<<x>> \o s, S \cup {x})
<1> DEFINE r == <<x>> \o s
<1>1. /\ DOMAIN s = 1 .. Len(s) /\ DOMAIN r = 1 .. Len(s) + 1
      /\ r[1] = x
      /\ \A i \in 1 .. Len(s) : r[i + 1] = s[i] /\ s[i] # x
  BY DEF Enumerates, Range
<1> HIDE DEF r
<1>2. \A i \in 1 .. Len(s) + 1 : i = 1 \/ \E j \in 1 .. Len(s) : i = j + 1
  <2> SUFFICES ASSUME NEW i \in 1 .. Len(s) + 1, i # 1 PROVE \E j \in 1 .. Len(s) : i = j + 1
    OBVIOUS
  <2>1. i - 1 \in 1 .. Len(s) /\ i = (i - 1) + 1
    OBVIOUS
  <2> QED
    BY <2>1
<1>3. IsInjective(r)
  <2> SUFFICES ASSUME NEW a \in 1 .. Len(s) + 1, NEW b \in 1 .. Len(s) + 1, r[a] = r[b]
               PROVE  a = b
    BY <1>1, Zenon DEF IsInjective
  <2>1. \A i, j \in 1 .. Len(s) : s[i] = s[j] => i = j
    BY <1>1, Zenon DEF Enumerates, IsInjective
  <2>2. CASE a = 1
    BY <1>1, <1>2, <2>2
  <2>3. CASE b = 1
    BY <1>1, <1>2, <2>3
  <2>4. CASE a # 1 /\ b # 1
    <3>1. PICK i \in 1 .. Len(s) : a = i + 1
      BY <1>2, <2>4
    <3>2. PICK j \in 1 .. Len(s) : b = j + 1
      BY <1>2, <2>4
    <3>3. s[i] = s[j]
      BY <1>1, <3>1, <3>2
    <3> QED
      BY <2>1, <3>1, <3>2, <3>3
  <2> QED
    BY <2>2, <2>3, <2>4
<1>4. Range(r) = S \cup {x}
  <2>1. ASSUME NEW y \in Range(r) PROVE y \in S \cup {x}
    <3>1. PICK i \in 1 .. Len(s) + 1 : r[i] = y
      BY <1>1, <2>1 DEF Range
    <3>2. CASE i # 1
      <4>1. PICK j \in 1 .. Len(s) : i = j + 1
        BY <1>2, <3>2
      <4>2. y = s[j]
        BY <1>1, <3>1, <4>1
      <4> QED
        BY <1>1, <4>2, Zenon DEF Enumerates, Range
    <3> QED
      BY <1>1, <3>1, <3>2
  <2>2. ASSUME NEW y \in S \cup {x} PROVE y \in Range(r)
    <3>1. 1 \in 1 .. Len(s) + 1 /\ \A j \in 1 .. Len(s) : j + 1 \in 1 .. Len(s) + 1
      OBVIOUS
    <3>2. CASE y \in S
      <4>1. PICK j \in 1 .. Len(s) : s[j] = y
        BY <1>1, <3>2 DEF Enumerates, Range
      <4>2. r[j + 1] = y
        BY <1>1, <4>1
      <4> QED
        BY <1>1, <3>1, <4>2 DEF Range
    <3>3. CASE y = x
      BY <1>1, <3>1, <3>3 DEF Range
    <3> QED
      BY <2>2, <3>2, <3>3
  <2> QED
    BY <2>1, <2>2
<1> QED
  BY <1>3, <1>4, Zenon DEF Enumerates, r

(* Any enumeration of a finite set has all its elements.                   *)
LEMMA EnumeratesSet ==
    ASSUME NEW S, IsFiniteSet(S)
    PROVE  Enumerates(SetToSeq(S), S)
<1> DEFINE n == Cardinality(S)
           s == SetToSeq(S)
<1>1. n \in Nat /\ ExistsBijection(1 .. n, S)
  BY FS_CardinalityType
<1>2. \E f \in [1 .. n -> S] : IsInjective(f)
  BY <1>1 DEF ExistsBijection, Bijection, Injection, IsInjective
<1>3. s \in [1 .. n -> S] /\ IsInjective(s)
  BY <1>2 DEF SetToSeq
<1>4. s \in Injection(1 .. n, S)
  BY <1>3 DEF Injection, IsInjective
<1>5. IsFiniteSet(1 .. n) /\ Cardinality(1 .. n) = n
  BY <1>1, FS_Interval
<1> HIDE DEF s
<1>6. s \in Surjection(1 .. n, S)
  BY <1>4, <1>5, FS_Injection
<1>7. Range(s) = S
  BY <1>3, <1>6 DEF Surjection, Range
<1> QED
  BY <1>3, <1>7 DEF Enumerates, s
-----------------------------------------------------------------------------
(* The invariant of the scheduler.                                         *)

\* A core runs threads of its own, and no other thread is Running.
CurrentInv ==
    /\ \A c \in Cores : current_thread[c] # None => CoreOf[current_thread[c]] = c
    /\ \A t \in Threads : status[t] = "Running" => current_thread[CoreOf[t]] = t

\* A core is rescheduled before it runs, so the thread that it runs is Running
\* until it halts.
Scheduled(k) ==
    LET c == agenda[k].core IN
    \/ \E j \in 1 .. k - 1 : agenda[j] = Task("sched", c)
    \/ current_thread[c] = None
    \/ status[current_thread[c]] = "Running"
    \/ k = 1 /\ halted

AgendaInv ==
    /\ \A k \in DOMAIN agenda : agenda[k].stage = "run" => Scheduled(k)
    /\ \A j, k \in DOMAIN agenda : agenda[j].stage = "run" /\ agenda[k] = agenda[j] => j = k

\* Nothing knows a thread that is not created yet.
CreatedInv ==
    \A t \in Threads : status[t] = "Dormant" =>
        /\ current_priority[t] = CreatePrio[t]
        /\ ~armed[t]
        /\ \A m \in Mutexes : holding_thread[m] # t
        /\ \A o \in Objects : t \notin Range(waiting_threads[o])
        /\ \A x \in Range(todo) : x.thread # t

\* A thread that is to be stopped is the one that executes, and nothing else is
\* to be done; one whose mutexes are to be released is dead.
ExitInv ==
    \A x \in Range(todo) :
        /\ x.op = "stop" => /\ todo = <<x>> /\ status[x.thread] = "Running" /\ halted
                            /\ agenda # <<>> /\ Head(agenda) = Task("run", CoreOf[x.thread])
        /\ x.op = "release" => status[x.thread] = "Dead"

SchedulerInv == ReadyQueueOK /\ CurrentInv /\ AgendaInv /\ CreatedInv /\ ExitInv
-----------------------------------------------------------------------------
(* What a call does to the state of the scheduler.                         *)

\* The state of the scheduler stays as it is.
Calm == UNCHANGED <<status, current_priority, ready_queue>>

\* A thread gets another priority.
Boost(t, prio) == BoostPriority(t, prio) /\ UNCHANGED status

\* A thread becomes ready.
Enter(t) ==
    /\ status[t] \in Waits \cup {"Dormant"}
    /\ status' = [status EXCEPT ![t] = "Ready"]
    /\ ready_queue' = [ready_queue EXCEPT ![CoreOf[t]][current_priority[t]] = Append(@, t)]
    /\ UNCHANGED current_priority

\* The thread that executes goes to sleep or is stopped.
Leave(t, s) ==
    /\ status[t] = "Running"
    /\ status' = [status EXCEPT ![t] = s]
    /\ UNCHANGED <<current_priority, ready_queue>>
    /\ agenda # <<>> /\ Head(agenda) = Task("run", CoreOf[t]) /\ halted'

Effect ==
    \/ Calm
    \/ \E t \in Threads, prio \in Prio : status[t] # "Dormant" /\ Boost(t, prio)
    \/ \E t \in Threads : Enter(t)
    \/ \E t \in Threads, s \in Waits \cup {"Dead"} : Leave(t, s)

(* Thread::BoostPriority moves a ready thread to the level of its priority. *)
LEMMA BoostQueue ==
    ASSUME TypeOK, ReadyQueueOK, NEW t \in Threads, NEW prio \in Prio, Boost(t, prio)
    PROVE  ReadyQueueOK'
<1> SUFFICES ASSUME NEW c \in Cores, NEW p \in Prio
             PROVE  Enumerates(ready_queue'[c][p], ReadyAt(c, p)')
  BY DEF ReadyQueueOK
<1>1. /\ current_priority' = [current_priority EXCEPT ![t] = prio]
      /\ current_priority \in [Threads -> Prio] /\ status' = status
      /\ ready_queue \in [Cores -> [Prio -> Seq(Threads)]]
  BY DEF Boost, BoostPriority, TypeOK, ThreadTypeOK, CoreTypeOK
<1>2. Enumerates(ready_queue[c][p], ReadyAt(c, p)) /\ ready_queue[c][p] \in Seq(Threads)
  BY <1>1 DEF ReadyQueueOK
<1>3. ASSUME status[t] # "Ready" \/ c # CoreOf[t]
      PROVE  Enumerates(ready_queue'[c][p], ReadyAt(c, p)')
  <2>1. ready_queue'[c] = ready_queue[c]
    BY <1>1, <1>3, Zenon DEF Boost, BoostPriority
  <2>2. ReadyAt(c, p)' = ReadyAt(c, p)
    BY <1>1, <1>3 DEF ReadyAt
  <2> QED
    BY <1>2, <2>1, <2>2, Zenon
<1>4. ASSUME status[t] = "Ready", c = CoreOf[t]
      PROVE  Enumerates(ready_queue'[c][p], ReadyAt(c, p)')
  <2> DEFINE old == current_priority[t]
             q == [ready_queue[c] EXCEPT ![old] = RemoveFirst(@, t)]
  <2>1. ready_queue'[c] = [q EXCEPT ![prio] = Append(@, t)]
    BY <1>1, <1>4, Zenon DEF Boost, BoostPriority, QueueMove
  <2>2. old \in Prio /\ RemoveFirst(ready_queue[c][p], t) \in Seq(Threads)
    BY <1>1, <1>2, RemoveFirstType, Zenon
  <2>3. Enumerates(q[p], ReadyAt(c, p) \ {t}) /\ q[p] \in Seq(Threads)
    <3>3. Enumerates(RemoveFirst(ready_queue[c][p], t), ReadyAt(c, p) \ {t})
      BY <1>2, EnumeratesRemove
    <3>1. CASE p = old
      <4>1. q[p] = RemoveFirst(ready_queue[c][p], t)
        BY <1>1, <3>1, Zenon
      <4> QED
        BY <2>2, <3>3, <4>1, Zenon
    <3>2. CASE p # old
      <4>1. q[p] = ready_queue[c][p]
        BY <1>1, <3>2, Zenon
      <4>2. ReadyAt(c, p) \ {t} = ReadyAt(c, p)
        BY <3>2 DEF ReadyAt
      <4> QED
        BY <1>2, <4>1, <4>2, Zenon
    <3> QED
      BY <3>1, <3>2
  <2>4. DOMAIN q = Prio
    BY <1>1, Zenon
  <2> HIDE DEF q
  <2>5. CASE p = prio
    <3>1. ready_queue'[c][p] = Append(q[p], t)
      BY <2>1, <2>4, <2>5, Zenon
    <3>2. ReadyAt(c, p)' = (ReadyAt(c, p) \ {t}) \cup {t}
      BY <1>1, <1>4, <2>5 DEF ReadyAt
    <3>3. Enumerates(Append(q[p], t), (ReadyAt(c, p) \ {t}) \cup {t})
      BY <2>3, EnumeratesAppend, Zenon
    <3> QED
      BY <3>1, <3>2, <3>3, Zenon
  <2>6. CASE p # prio
    <3>1. ready_queue'[c][p] = q[p]
      BY <2>1, <2>4, <2>6, Zenon
    <3>2. ReadyAt(c, p)' = ReadyAt(c, p) \ {t}
      BY <1>1, <1>4, <2>6 DEF ReadyAt
    <3> QED
      BY <2>3, <3>1, <3>2, Zenon
  <2> QED
    BY <2>5, <2>6
<1> QED
  BY <1>3, <1>4

(* A thread that becomes ready is put at the end of the level of its priority. *)
LEMMA EnterQueue ==
    ASSUME TypeOK, ReadyQueueOK, NEW t \in Threads, Enter(t)
    PROVE  ReadyQueueOK'
<1> SUFFICES ASSUME NEW c \in Cores, NEW p \in Prio
             PROVE  Enumerates(ready_queue'[c][p], ReadyAt(c, p)')
  BY DEF ReadyQueueOK
<1>1. /\ current_priority' = current_priority /\ status \in [Threads -> Status]
      /\ status' = [status EXCEPT ![t] = "Ready"]
      /\ ready_queue \in [Cores -> [Prio -> Seq(Threads)]]
  BY DEF Enter, TypeOK, ThreadTypeOK, CoreTypeOK
<1>2. Enumerates(ready_queue[c][p], ReadyAt(c, p)) /\ ready_queue[c][p] \in Seq(Threads)
  BY <1>1 DEF ReadyQueueOK
<1>3. status[t] # "Ready"
  BY DEF Enter, Waits, WaitSynch
<1>4. CASE c = CoreOf[t] /\ p = current_priority[t]
  <2>1. ready_queue'[c][p] = Append(ready_queue[c][p], t)
    BY <1>1, <1>4, Zenon DEF Enter
  <2>2. ReadyAt(c, p)' = ReadyAt(c, p) \cup {t} /\ t \notin ReadyAt(c, p)
    BY <1>1, <1>3, <1>4 DEF ReadyAt
  <2>3. Enumerates(Append(ready_queue[c][p], t), ReadyAt(c, p) \cup {t})
    BY <1>2, <2>2, EnumeratesAppend
  <2> QED
    BY <2>1, <2>2, <2>3, Zenon
<1>5. CASE ~(c = CoreOf[t] /\ p = current_priority[t])
  <2>1. ready_queue'[c][p] = ready_queue[c][p]
    BY <1>1, <1>5, ZenonT(40) DEF Enter
  <2>2. ReadyAt(c, p)' = ReadyAt(c, p)
    BY <1>1, <1>3, <1>5 DEF ReadyAt
  <2> QED
    BY <1>2, <2>1, <2>2, Zenon
<1> QED
  BY <1>4, <1>5

(* A thread that goes to sleep or is stopped is in no queue.               *)
LEMMA LeaveQueue ==
    ASSUME TypeOK, ReadyQueueOK, NEW t \in Threads, NEW s \in Waits \cup {"Dead"}, Leave(t, s)
    PROVE  ReadyQueueOK'
<1>1. status \in [Threads -> Status] /\ s # "Ready"
  BY DEF TypeOK, ThreadTypeOK, Waits, WaitSynch
<1>2. \A c \in Cores, p \in Prio : ReadyAt(c, p)' = ReadyAt(c, p)
  BY <1>1 DEF Leave, ReadyAt
<1> QED
  BY <1>2, Zenon DEF Leave, ReadyQueueOK

(* No effect makes a thread run, and only the thread that executes stops   *)
(* running; a dead thread stays dead.                                      *)
LEMMA EffectStatus ==
    ASSUME TypeOK, Effect, NEW u \in Threads
    PROVE  /\ status'[u] = "Running" => status[u] = "Running"
           /\ status[u] = "Running" =>
                \/ status'[u] = "Running"
                \/ halted' /\ agenda # <<>> /\ Head(agenda) = Task("run", CoreOf[u])
           /\ status[u] = "Dead" => status'[u] = "Dead"
           /\ status'[u] = "Dormant" =>
                status[u] = "Dormant" /\ current_priority'[u] = current_priority[u]
<1>1. status \in [Threads -> Status] /\ current_priority \in [Threads -> Prio]
  BY DEF TypeOK, ThreadTypeOK
<1>2. CASE Calm
  BY <1>2 DEF Calm
<1>3. ASSUME NEW t \in Threads, NEW prio \in Prio, status[t] # "Dormant", Boost(t, prio)
      PROVE  status' = status /\ (status[u] = "Dormant" =>
                                     current_priority'[u] = current_priority[u])
  BY <1>1, <1>3, Zenon DEF Boost, BoostPriority
<1>4. ASSUME NEW t \in Threads, Enter(t)
      PROVE  /\ status[t] \notin {"Running", "Dead"} /\ current_priority' = current_priority
             /\ status'[u] = IF u = t THEN "Ready" ELSE status[u]
  BY <1>1, <1>4 DEF Enter, Waits, WaitSynch
<1>5. ASSUME NEW t \in Threads, NEW s \in Waits \cup {"Dead"}, Leave(t, s)
      PROVE  /\ status[t] = "Running" /\ current_priority' = current_priority
             /\ s \notin {"Running", "Dormant"}
             /\ status'[u] = IF u = t THEN s ELSE status[u]
             /\ halted' /\ agenda # <<>> /\ Head(agenda) = Task("run", CoreOf[t])
  BY <1>1, <1>5 DEF Leave, Waits, WaitSynch
<1> QED
  BY <1>2, <1>3, <1>4, <1>5 DEF Effect

\* A call may stop the core that executes; none starts it again.
Halting == halted' = halted \/ halted' = (Head(agenda).stage = "run")

(* A call keeps the ready queues and the running threads in step.          *)
LEMMA EffectInv ==
    ASSUME TypeOK, ReadyQueueOK, CurrentInv, AgendaInv, Effect, Halting,
           UNCHANGED <<agenda, current_thread>>
    PROVE  ReadyQueueOK' /\ CurrentInv' /\ AgendaInv'
<1>1. ReadyQueueOK'
  <2>1. Calm => ReadyQueueOK'
    BY DEF Calm, ReadyQueueOK, ReadyAt
  <2> QED
    BY <2>1, BoostQueue, EnterQueue, LeaveQueue, Zenon DEF Effect
<1>2. CurrentInv'
  BY EffectStatus, Zenon DEF CurrentInv
<1>3. ASSUME NEW k \in DOMAIN agenda, agenda[k].stage = "run"
      PROVE  Scheduled(k)'
  <2> DEFINE c == agenda[k].core
  <2>1. /\ agenda \in Seq(TaskSet) /\ k \in 1 .. Len(agenda) /\ Head(agenda) = agenda[1]
        /\ agenda[k] \in TaskSet
    BY DEF TypeOK, LoopTypeOK
  <2>2. c \in Cores /\ agenda[k] = Task("run", c)
    BY <1>3, <2>1 DEF TaskSet, Task
  <2>3. Scheduled(k)
    BY <1>3 DEF AgendaInv
  <2>4. k = 1 /\ halted => halted'
    BY <1>3, <2>1, Zenon DEF Halting
  <2>5. ASSUME current_thread[c] # None, status[current_thread[c]] = "Running",
               status'[current_thread[c]] # "Running"
        PROVE  k = 1 /\ halted'
    <3>1. current_thread[c] \in Threads /\ CoreOf[current_thread[c]] = c
      BY <2>2, <2>5, Zenon DEF CurrentInv, TypeOK, CoreTypeOK
    <3>2. halted' /\ agenda # <<>> /\ Head(agenda) = Task("run", c)
      BY <2>5, <3>1, EffectStatus, Zenon
    <3>3. 1 \in DOMAIN agenda /\ agenda[1] = agenda[k]
      BY <2>1, <2>2, <3>2
    <3> QED
      BY <1>3, <3>2, <3>3 DEF AgendaInv
  <2> QED
    BY <2>3, <2>4, <2>5, Zenon DEF Scheduled
<1> QED
  BY <1>1, <1>2, <1>3, Zenon DEF AgendaInv
-----------------------------------------------------------------------------
(* The effect of each call.                                                *)

(* A thread that makes a system call is Running on the core that executes. *)
LEMMA Executing ==
    ASSUME TypeOK, CurrentInv, AgendaInv, NEW name, NEW t \in Threads, SVC(name, t)
    PROVE  /\ todo = <<>> /\ agenda # <<>> /\ Head(agenda) = Task("run", CoreOf[t])
           /\ Head(agenda).stage = "run" /\ status[t] = "Running"
           /\ UNCHANGED <<agenda, current_thread>>
<1> DEFINE c == Head(agenda).core
<1>1. /\ todo = <<>> /\ agenda # <<>> /\ Head(agenda).stage = "run" /\ ~halted
      /\ current_thread[c] = t /\ UNCHANGED <<agenda, current_thread>>
  BY Zenon DEF SVC, InTask
<1>2. /\ agenda \in Seq(TaskSet) /\ 1 \in DOMAIN agenda /\ agenda[1] = Head(agenda)
      /\ Head(agenda) \in TaskSet
  BY <1>1 DEF TypeOK, LoopTypeOK
<1>3. c \in Cores /\ Head(agenda) = Task("run", c)
  BY <1>1, <1>2 DEF TaskSet, Task
<1>4. t # None
  BY ConstantsAssumption DEF Objects
<1>5. CoreOf[t] = c
  BY <1>1, <1>3, <1>4, Zenon DEF CurrentInv
<1>6. Scheduled(1)
  BY <1>1, <1>2, Zenon DEF AgendaInv
<1>7. 1 .. 1 - 1 = {}
  OBVIOUS
<1>8. status[t] = "Running"
  BY <1>1, <1>2, <1>4, <1>6, <1>7, ZenonT(40) DEF Scheduled
<1> QED
  BY <1>1, <1>3, <1>5, <1>8, Zenon

(* The elements of lists of calls.                                         *)
LEMMA RangeTail ==
    ASSUME NEW T, NEW s \in Seq(T), s # <<>>
    PROVE  Head(s) \in Range(s) /\ Range(Tail(s)) \subseteq Range(s)
<1>1. 1 \in DOMAIN s /\ Head(s) = s[1]
  OBVIOUS
<1>2. \A i \in DOMAIN Tail(s) : i + 1 \in DOMAIN s /\ Tail(s)[i] = s[i + 1]
  OBVIOUS
<1>3. ASSUME NEW x \in Range(Tail(s)) PROVE x \in Range(s)
  BY <1>2, <1>3 DEF Range
<1>4. Head(s) \in Range(s)
  BY <1>1 DEF Range
<1> QED
  BY <1>3, <1>4

LEMMA RangeConcat ==
    ASSUME NEW T, NEW a \in Seq(T), NEW b \in Seq(T)
    PROVE  Range(a \o b) = Range(a) \cup Range(b)
<1>1. \A i \in DOMAIN a : i \in DOMAIN (a \o b) /\ (a \o b)[i] = a[i]
  OBVIOUS
<1>2. \A i \in DOMAIN b : i + Len(a) \in DOMAIN (a \o b) /\ (a \o b)[i + Len(a)] = b[i]
  OBVIOUS
<1>3. \A i \in DOMAIN (a \o b) : \/ i \in DOMAIN a /\ (a \o b)[i] = a[i]
                                 \/ i - Len(a) \in DOMAIN b /\ (a \o b)[i] = b[i - Len(a)]
  OBVIOUS
<1>4. ASSUME NEW x \in Range(a \o b) PROVE x \in Range(a) \cup Range(b)
  BY <1>3, <1>4, Zenon DEF Range
<1>5. ASSUME NEW x \in Range(a) \cup Range(b) PROVE x \in Range(a \o b)
  BY <1>1, <1>2, <1>5, Zenon DEF Range
<1> QED
  BY <1>4, <1>5

LEMMA RangeCalls ==
    /\ \A x : Range(<<x>>) = {x}
    /\ Range(<<>>) = {}
    /\ \A op, t, os : Range(CallsOn(op, t, os)) = {Call(op, t, os[i]) : i \in 1 .. Len(os)}
    /\ \A op, t, o : /\ Call(op, t, o).op = op
                     /\ Call(op, t, o).thread = t
                     /\ Call(op, t, o).object = o
<1>1. \A x : Range(<<x>>) = {x}
  BY DEF Range
<1>2. \A op, t, os : Range(CallsOn(op, t, os)) = {Call(op, t, os[i]) : i \in 1 .. Len(os)}
  BY Zenon DEF Range, CallsOn
<1>3. Range(<<>>) = {}
  BY DEF Range
<1> QED
  BY <1>1, <1>2, <1>3 DEF Call

LEMMA CallsOnMember ==
    ASSUME NEW op, NEW t, NEW os, NEW y \in Range(CallsOn(op, t, os))
    PROVE  y.op = op /\ y.thread = t /\ \E i \in 1 .. Len(os) : y = Call(op, t, os[i])
<1>1. PICK i \in 1 .. Len(os) : y = Call(op, t, os[i])
  BY Zenon DEF Range, CallsOn
<1> QED
  BY <1>1, Zenon DEF Call

LEMMA CallMember ==
    ASSUME NEW op, NEW t, NEW o, NEW y \in Range(<<Call(op, t, o)>>)
    PROVE  y = Call(op, t, o) /\ y.op = op /\ y.thread = t
<1>1. y = Call(op, t, o)
  BY DEF Range
<1> QED
  BY <1>1, Zenon DEF Call

(* To erase a thread from a list puts none into it.                        *)
LEMMA RemoveFirstRange ==
    ASSUME NEW T, NEW s \in Seq(T), NEW e
    PROVE  \A x \in Range(RemoveFirst(s, e)) : x \in Range(s)
<1>1. CASE e \notin Range(s)
  BY <1>1 DEF RemoveFirst
<1>2. CASE e \in Range(s)
  <2> DEFINE I == {i \in 1 .. Len(s) : s[i] = e}
             k == Min(I)
             a == SubSeq(s, 1, k - 1)
             b == SubSeq(s, k + 1, Len(s))
  <2>1. I \subseteq Nat /\ I # {}
    BY <1>2 DEF Range
  <2>2. k \in 1 .. Len(s)
    BY <2>1, MinOfNaturals, Zenon
  <2>3. RemoveFirst(s, e) = a \o b
    BY <1>2, Zenon DEF RemoveFirst, RemoveAt
  <2> HIDE DEF k
  <2>4. a \in Seq(T) /\ \A i \in DOMAIN a : i \in DOMAIN s /\ a[i] = s[i]
    BY <2>2, SubSeqProperties
  <2>5. b \in Seq(T) /\ \A i \in DOMAIN b : i + k \in DOMAIN s /\ b[i] = s[i + k]
    BY <2>2, SubSeqProperties
  <2> HIDE DEF a, b
  <2>6. Range(a \o b) = Range(a) \cup Range(b)
    BY <2>4, <2>5, RangeConcat, ZenonT(40)
  <2>7. ASSUME NEW x \in Range(a) PROVE x \in Range(s)
    BY <2>4, <2>7 DEF Range
  <2>8. ASSUME NEW x \in Range(b) PROVE x \in Range(s)
    BY <2>5, <2>8 DEF Range
  <2> QED
    BY <2>3, <2>6, <2>7, <2>8, Zenon
<1> QED
  BY <1>1, <1>2

(* The thread of the next call exists.                                     *)
LEMMA CallThreadCreated ==
    ASSUME TypeOK, CreatedInv, todo # <<>>, CallThread \in Threads
    PROVE  status[CallThread] # "Dormant"
<1>1. Head(todo) \in Range(todo)
  BY RangeTail, Zenon DEF TypeOK, LoopTypeOK
<1> QED
  BY <1>1, Zenon DEF CreatedInv, CallThread

(* Thread::UpdatePriority and Mutex::UpdatePriority.                       *)
LEMMA UpdatePriorityEffect ==
    ASSUME TypeOK, NEW t \in Threads, status[t] # "Dormant", UNCHANGED status,
           NEW held \in SUBSET Mutexes, NEW mprio \in [Mutexes -> Prio],
           UpdatePriority(t, held, mprio)
    PROVE  Effect
<1> DEFINE prio == BestPriority(nominal_priority[t], {mprio[m] : m \in held})
<1>1. {mprio[m] : m \in held} \in SUBSET Prio /\ nominal_priority[t] \in Prio
  BY DEF TypeOK, ThreadTypeOK
<1>2. prio \in Prio
  BY <1>1, BestPriorityType, Zenon
<1>3. BoostPriority(t, prio)
  BY DEF UpdatePriority
<1> HIDE DEF prio
<1> QED
  BY <1>2, <1>3, Zenon DEF Effect, Boost

LEMMA MutexUpdatePriorityEffect ==
    ASSUME TypeOK, CreatedInv, UNCHANGED status, NEW m \in Mutexes,
           NEW waiters \in Seq(Threads), MutexUpdatePriority(m, waiters)
    PROVE  Effect
<1> DEFINE holder == holding_thread[m]
<1>1. CASE UNCHANGED <<priority, current_priority, ready_queue>>
  BY <1>1, Zenon DEF Effect, Calm
<1>2. CASE holder # None /\ UpdatePriority(holder, held_mutexes[holder], priority')
  <2>1. holder \in Threads /\ status[holder] # "Dormant"
    BY <1>2, Zenon DEF TypeOK, ObjectTypeOK, CreatedInv
  <2>2. held_mutexes[holder] \in SUBSET Mutexes
    BY <2>1, Zenon DEF TypeOK, ThreadTypeOK
  <2>3. priority' \in [Mutexes -> Prio]
    BY MutexUpdatePriorityType, Zenon DEF TypeOK
  <2> HIDE DEF holder
  <2> QED
    BY <1>2, <2>1, <2>2, <2>3, UpdatePriorityEffect, Zenon
<1> QED
  BY <1>1, <1>2, Zenon DEF MutexUpdatePriority

(* The calls that the kernel makes itself.                                 *)
LEMMA KernelCallEffect ==
    ASSUME TypeOK, TypeOK', SchedulerInv, KernelCall
    PROVE  Effect /\ Halting /\ UNCHANGED <<agenda, current_thread>>
<1>1. todo \in Seq(CallSet) /\ todo # <<>>
  BY Zenon DEF TypeOK, LoopTypeOK, KernelCall, AcquireMutex, AcquireEvent, AcquireSemaphore,
     AcquireThread, AddWaitingThread, RemoveWaitingThread, ResumeFromWait, WakeupNext,
     WakeupDone, Stop, ReleaseThreadMutexes, UpdatePending, NextCall
<1>2. CASE AcquireMutex
  <2>1. Head(todo).op = "acquire" /\ UNCHANGED <<status, agenda, current_thread>>
    BY <1>2, Zenon DEF AcquireMutex, NextCall
  <2>2. CallThread \in Threads /\ status[CallThread] # "Dormant"
    BY <1>1, <2>1, HeadCallType, CallThreadCreated, Zenon DEF SchedulerInv
  <2>3. held_mutexes'[CallThread] \in SUBSET Mutexes /\ priority' \in [Mutexes -> Prio]
    BY <2>2, Zenon DEF TypeOK, ThreadTypeOK, ObjectTypeOK
  <2>4. ASSUME UpdatePriority(CallThread, held_mutexes'[CallThread], priority') PROVE Effect
    BY <2>1, <2>2, <2>3, <2>4, UpdatePriorityEffect, Zenon
  <2>5. ASSUME UNCHANGED <<current_priority, ready_queue>> PROVE Effect
    BY <2>1, <2>5, Zenon DEF Effect, Calm
  <2>6. Halting
    BY <1>2, Zenon DEF AcquireMutex, PrepareReschedule, Halting
  <2> QED
    BY <1>2, <2>1, <2>4, <2>5, <2>6, Zenon DEF AcquireMutex
<1>3. CASE AddWaitingThread \/ RemoveWaitingThread
  <2>1. Head(todo).op \in {"add", "remove"} /\ UNCHANGED <<status, agenda, current_thread, halted>>
    BY <1>3, Zenon DEF AddWaitingThread, RemoveWaitingThread, NextCall
  <2>2. CallObject \in Objects
    BY <1>1, <2>1, HeadCallType
  <2>3. waiting_threads'[CallObject] \in Seq(Threads)
    BY <2>2, Zenon DEF TypeOK, ObjectTypeOK
  <2>4. CASE CallObject \in Mutexes /\ MutexUpdatePriority(CallObject, waiting_threads'[CallObject])
    BY <2>1, <2>3, <2>4, MutexUpdatePriorityEffect, Zenon DEF SchedulerInv, Halting
  <2>5. CASE UNCHANGED <<current_priority, ready_queue>>
    BY <2>1, <2>5, Zenon DEF Effect, Calm, Halting
  <2> QED
    BY <1>3, <2>4, <2>5, Zenon DEF AddWaitingThread, RemoveWaitingThread
<1>4. CASE UpdatePending
  <2>1. /\ Head(todo).op = "update" /\ UNCHANGED <<status, agenda, current_thread, halted>>
        /\ MutexUpdatePriority(CallObject, waiting_threads[CallObject])
    BY <1>4, Zenon DEF UpdatePending, NextCall
  <2>2. CallObject \in Mutexes
    BY <1>1, <2>1, HeadCallType, Zenon
  <2>3. waiting_threads[CallObject] \in Seq(Threads)
    BY <2>2, Zenon DEF TypeOK, ObjectTypeOK, Objects
  <2> QED
    BY <2>1, <2>2, <2>3, MutexUpdatePriorityEffect, Zenon DEF SchedulerInv, Halting
<1>5. CASE ResumeFromWait
  <2>1. Head(todo).op = "resume" /\ UNCHANGED <<current_priority, agenda, current_thread>>
    BY <1>5, Zenon DEF ResumeFromWait, NextCall
  <2>2. CallThread \in Threads
    BY <1>1, <2>1, HeadCallType, Zenon
  <2>3. CASE status[CallThread] \in Waits
    BY <1>5, <2>1, <2>2, <2>3, Zenon DEF ResumeFromWait, PrepareReschedule, Effect, Enter, Halting
  <2>4. CASE status[CallThread] \notin Waits
    BY <1>5, <2>1, <2>4, Zenon DEF ResumeFromWait, Effect, Calm, Halting
  <2> QED
    BY <2>3, <2>4
<1>6. CASE Stop
  <2>1. /\ Head(todo).op = "stop" /\ UNCHANGED <<current_priority, agenda, current_thread, halted>>
        /\ status' = [status EXCEPT ![CallThread] = "Dead"]
        /\ ready_queue' = ready_queue \/ status[CallThread] = "Ready"
    BY <1>6, Zenon DEF Stop, NextCall
  <2>2. CallThread \in Threads
    BY <1>1, <2>1, HeadCallType, Zenon
  <2>3. Head(todo) \in Range(todo)
    BY <1>1, RangeTail, Zenon
  <2>4. /\ status[CallThread] = "Running" /\ halted
        /\ agenda # <<>> /\ Head(agenda) = Task("run", CoreOf[CallThread])
    BY <2>1, <2>3, Zenon DEF SchedulerInv, ExitInv, CallThread
  <2>5. Leave(CallThread, "Dead")
    BY <2>1, <2>4 DEF Leave
  <2> QED
    BY <2>1, <2>2, <2>5, Zenon DEF Effect, Halting
<1>7. CASE \/ AcquireEvent \/ AcquireSemaphore \/ AcquireThread \/ WakeupNext \/ WakeupDone
           \/ ReleaseThreadMutexes
  <2>1. UNCHANGED <<status, current_priority, ready_queue, agenda, current_thread, halted>>
    BY <1>7, ZenonT(40) DEF AcquireEvent, AcquireSemaphore, AcquireThread, WakeupNext, WakeupDone,
       ReleaseThreadMutexes, threadVars, coreVars
  <2> QED
    BY <2>1, Zenon DEF Effect, Calm, Halting
<1> QED
  BY <1>2, <1>3, <1>4, <1>5, <1>6, <1>7, Zenon DEF KernelCall

\* The system calls of a thread.
SystemCallOf(t) ==
    \/ WaitSynchronization1(t) \/ WaitSynchronizationN(t)
    \/ ReleaseMutex(t) \/ SignalEvent(t) \/ ClearEvent(t) \/ ReleaseSemaphore(t)
    \/ SetThreadPriority(t) \/ SleepThread(t)
    \/ CreateThread(t) \/ ExitThread(t)
    \/ ScheduleThreadsWithoutMagic(t)

LEMMA SystemCallIsSVC ==
    ASSUME NEW t, SystemCallOf(t)
    PROVE  \E name : SVC(name, t)
BY ZenonT(40) DEF SystemCallOf, WaitSynchronization1, WaitSynchronizationN, ReleaseMutex,
   SignalEvent, ClearEvent, ReleaseSemaphore, SetThreadPriority, SleepThread, CreateThread,
   ExitThread, ScheduleThreadsWithoutMagic

(* A system call reschedules while its core executes.                      *)
LEMMA PrepareRescheduleHalts ==
    ASSUME PrepareReschedule, Head(agenda).stage = "run"
    PROVE  halted' /\ Halting
BY Zenon DEF PrepareReschedule, Halting

(* WaitSynchronization1 and WaitSynchronizationN: the thread gets the      *)
(* objects, or gives up, or goes to sleep.                                 *)
LEMMA WaitSynchronizationCases ==
    ASSUME NEW t \in Threads, WaitSynchronization1(t) \/ WaitSynchronizationN(t)
    PROVE  \E os \in WaitLists, mode \in WaitSynch, timeout \in Timeouts :
              /\ \/ /\ \E gs \in Seq(Objects) : todo' = CallsOn("acquire", t, gs)
                    /\ UNCHANGED <<status, wait_objects, armed, halted>>
                 \/ UNCHANGED <<status, wait_objects, armed, halted, todo>>
                 \/ Block(t, mode, os, timeout)
              /\ UNCHANGED <<nominal_priority, current_priority, held_mutexes, pending_mutexes,
                             objectVars, ready_queue>>
<1>1. PICK os \in WaitLists, mode \in WaitSynch, timeout \in Timeouts :
         WaitSynchronization(t, mode, os, timeout)
  BY ZenonT(40) DEF WaitSynchronization1, WaitSynchronizationN, WaitSynch
<1> DEFINE free == {i \in DOMAIN os : ~ShouldWait(os[i], t)}
           available == IF mode = "WaitSynchAll" THEN free = DOMAIN os ELSE free # {}
           gs == IF mode = "WaitSynchAll" THEN os ELSE <<os[Min(free)]>>
<1>2. os \in Seq(Objects)
  BY ConstantsAssumption
<1>3. available => gs \in Seq(Objects)
  <2>1. CASE mode = "WaitSynchAll"
    BY <1>2, <2>1, Zenon
  <2>2. CASE mode # "WaitSynchAll"
    <3>1. available => free # {}
      BY <2>2, Zenon
    <3>2. free \subseteq Nat /\ free \subseteq DOMAIN os
      BY <1>2
    <3>3. free # {} => Min(free) \in DOMAIN os
      BY <3>2, MinOfNaturals, Zenon
    <3>4. free # {} => os[Min(free)] \in Objects
      BY <1>2, <3>3
    <3>5. gs = <<os[Min(free)]>>
      BY <2>2, Zenon
    <3> HIDE DEF free, available, gs
    <3> QED
      BY <3>1, <3>4, <3>5
  <2> QED
    BY <2>1, <2>2, Zenon
<1>4. /\ \/ /\ available /\ todo' = CallsOn("acquire", t, gs)
            /\ UNCHANGED <<status, wait_objects, armed, halted>>
         \/ UNCHANGED <<status, wait_objects, armed, halted, todo>>
         \/ Block(t, mode, os, timeout)
      /\ UNCHANGED <<nominal_priority, current_priority, held_mutexes, pending_mutexes,
                     objectVars, ready_queue>>
  BY <1>1, ZenonT(40) DEF WaitSynchronization
<1> HIDE DEF gs, available
<1> QED
  BY <1>3, <1>4, Zenon

(* The system calls.                                                       *)
LEMMA SystemCallEffect ==
    ASSUME TypeOK, TypeOK', SchedulerInv, NEW t \in Threads, SystemCallOf(t)
    PROVE  Effect /\ Halting /\ UNCHANGED <<agenda, current_thread>>
<1>1. /\ todo = <<>> /\ agenda # <<>> /\ Head(agenda) = Task("run", CoreOf[t])
      /\ Head(agenda).stage = "run" /\ status[t] = "Running"
      /\ UNCHANGED <<agenda, current_thread>>
  BY SystemCallIsSVC, Executing, Zenon DEF SchedulerInv
<1>2. status[t] # "Dormant"
  BY <1>1
<1>3. CASE WaitSynchronization1(t) \/ WaitSynchronizationN(t)
  <2>1. PICK os \in WaitLists, mode \in WaitSynch, timeout \in Timeouts :
          /\ UNCHANGED <<status, halted>> \/ Block(t, mode, os, timeout)
          /\ UNCHANGED <<current_priority, ready_queue>>
    BY <1>3, WaitSynchronizationCases, ZenonT(40)
  <2>2. CASE UNCHANGED <<status, halted>>
    BY <1>1, <2>1, <2>2, Zenon DEF Effect, Calm, Halting
  <2>3. CASE Block(t, mode, os, timeout)
    <3>1. status' = [status EXCEPT ![t] = mode] /\ halted' /\ Halting
      BY <1>1, <2>3, PrepareRescheduleHalts, Zenon DEF Block
    <3>2. Leave(t, mode) /\ mode \in Waits \cup {"Dead"}
      BY <1>1, <2>1, <3>1, Zenon DEF Leave, Waits
    <3> QED
      BY <1>1, <3>1, <3>2, Zenon DEF Effect
  <2> QED
    BY <2>1, <2>2, <2>3, Zenon
<1>4. CASE ReleaseMutex(t)
  <2>1. /\ UNCHANGED <<status, priority>>
        /\ \/ UNCHANGED <<current_priority, ready_queue, halted>>
           \/ UpdatePriority(t, held_mutexes'[t], priority) /\ PrepareReschedule
    BY <1>4, ZenonT(40) DEF ReleaseMutex, Unlock
  <2>2. held_mutexes'[t] \in SUBSET Mutexes /\ priority \in [Mutexes -> Prio]
    BY Zenon DEF TypeOK, ThreadTypeOK, ObjectTypeOK
  <2>3. CASE UNCHANGED <<current_priority, ready_queue, halted>>
    BY <1>1, <2>1, <2>3, Zenon DEF Effect, Calm, Halting
  <2>4. CASE UpdatePriority(t, held_mutexes'[t], priority) /\ PrepareReschedule
    BY <1>1, <1>2, <2>1, <2>2, <2>4, UpdatePriorityEffect, PrepareRescheduleHalts, ZenonT(40)
  <2> QED
    BY <2>1, <2>3, <2>4, Zenon
<1>5. CASE SetThreadPriority(t)
  <2>1. PICK x \in Threads, n \in NewPriorities :
          Exists(x) /\ BoostPriority(x, BestPriority(n, {priority[m] : m \in held_mutexes[x]}))
    BY <1>5, ZenonT(40) DEF SetThreadPriority
  <2> DEFINE prio == BestPriority(n, {priority[m] : m \in held_mutexes[x]})
  <2>2. UNCHANGED status /\ PrepareReschedule
    BY <1>5, ZenonT(40) DEF SetThreadPriority
  <2>3. {priority[m] : m \in held_mutexes[x]} \in SUBSET Prio /\ n \in Prio
    BY ConstantsAssumption DEF TypeOK, ThreadTypeOK, ObjectTypeOK
  <2>4. prio \in Prio
    BY <2>3, BestPriorityType, Zenon
  <2>5. status[x] # "Dormant" /\ Boost(x, prio)
    BY <2>1, <2>2, Zenon DEF Exists, Boost
  <2> HIDE DEF prio
  <2> QED
    BY <1>1, <2>2, <2>4, <2>5, PrepareRescheduleHalts, Zenon DEF Effect
<1>6. CASE SleepThread(t)
  <2>1. /\ UNCHANGED <<current_priority, ready_queue>>
        /\ \/ UNCHANGED <<status, halted>>
           \/ status' = [status EXCEPT ![t] = "WaitSleep"] /\ PrepareReschedule
    BY <1>6, ZenonT(40) DEF SleepThread
  <2>2. CASE UNCHANGED <<status, halted>>
    BY <1>1, <2>1, <2>2, Zenon DEF Effect, Calm, Halting
  <2>3. CASE status' = [status EXCEPT ![t] = "WaitSleep"] /\ PrepareReschedule
    <3>1. Leave(t, "WaitSleep") /\ "WaitSleep" \in Waits \cup {"Dead"}
      BY <1>1, <2>1, <2>3, PrepareRescheduleHalts, Zenon DEF Leave, Waits
    <3> QED
      BY <1>1, <2>3, <3>1, PrepareRescheduleHalts, Zenon DEF Effect
  <2> QED
    BY <2>1, <2>2, <2>3, Zenon
<1>7. CASE CreateThread(t)
  <2>1. PICK x \in Threads :
          /\ status[x] = "Dormant" /\ status' = [status EXCEPT ![x] = "Ready"]
          /\ ready_queue' = [ready_queue EXCEPT ![CoreOf[x]][CreatePrio[x]] = Append(@, x)]
    BY <1>7, ZenonT(40) DEF CreateThread
  <2>2. UNCHANGED current_priority /\ PrepareReschedule
    BY <1>7, Zenon DEF CreateThread
  <2>3. CreatePrio[x] = current_priority[x]
    BY <2>1, Zenon DEF SchedulerInv, CreatedInv
  <2>4. Enter(x)
    BY <2>1, <2>2, <2>3 DEF Enter
  <2> QED
    BY <1>1, <2>2, <2>4, PrepareRescheduleHalts, Zenon DEF Effect
<1>8. CASE ExitThread(t)
  BY <1>1, <1>8, PrepareRescheduleHalts, Zenon DEF ExitThread, threadVars, Effect, Calm
<1>9. CASE \/ SignalEvent(t) \/ ClearEvent(t) \/ ReleaseSemaphore(t)
           \/ ScheduleThreadsWithoutMagic(t)
  <2>1. UNCHANGED <<status, current_priority, ready_queue, halted>>
    BY <1>9, ZenonT(40) DEF SignalEvent, ClearEvent, ReleaseSemaphore,
       ScheduleThreadsWithoutMagic, threadVars
  <2> QED
    BY <1>1, <2>1, Zenon DEF Effect, Calm, Halting
<1> QED
  BY <1>3, <1>4, <1>5, <1>6, <1>7, <1>8, <1>9, Zenon DEF SystemCallOf
-----------------------------------------------------------------------------
(* ThreadManager::Reschedule.                                              *)

(* PopNextReadyThread takes a thread of the core out of its queue, or      *)
(* leaves the queue as it is.                                              *)
LEMMA PopQueue ==
    ASSUME TypeOK, ReadyQueueOK, CurrentInv, NEW c \in Cores
    PROVE  LET pop == PopNextReadyThread(c) IN
           /\ pop.thread # None =>
                 /\ CoreOf[pop.thread] = c
                 /\ \/ status[pop.thread] = "Ready"
                    \/ status[pop.thread] = "Running" /\ pop.thread = current_thread[c]
           /\ \A p \in Prio : Enumerates(pop.queue[p], ReadyAt(c, p) \ {pop.thread})
<1> DEFINE cur   == current_thread[c]
           q     == ready_queue[c]
           keep  == cur # None /\ status[cur] = "Running"
           limit == IF keep THEN current_priority[cur] ELSE PrioLowest + 1
           first(p) == FirstSchedulable(q[p])
           levels == {p \in Prio : p < limit /\ first(p) # 0}
           level == IF levels = {} THEN limit ELSE Min(levels)
           thread == PopNextReadyThread(c).thread
           queue == PopNextReadyThread(c).queue
<1>1. \A p \in Prio : q[p] \in Seq(Threads) /\ Enumerates(q[p], ReadyAt(c, p))
  BY DEF ReadyQueueOK, TypeOK, CoreTypeOK
<1>2. /\ thread = CASE levels # {} -> q[level][first(level)]
                    [] levels = {} /\ keep -> cur
                    [] OTHER -> None
      /\ queue = [p \in Prio |->
                     CASE p < level -> Reverse(q[p])
                       [] p = level /\ levels # {} -> WithoutPopped(q[p], first(p))
                       [] OTHER -> q[p]]
  BY DEF PopNextReadyThread
<1>3. keep => cur \in Threads /\ CoreOf[cur] = c
  BY Zenon DEF CurrentInv, TypeOK, CoreTypeOK
<1>4. levels \subseteq Nat /\ levels \subseteq Prio
  BY DEF Prio
<1>5. levels # {} => level \in levels
  BY <1>4, MinOfNaturals, Zenon
<1> HIDE DEF thread, queue, keep, limit
<1>6. CASE levels = {}
  <2>1. thread = IF keep THEN cur ELSE None
    BY <1>2, <1>6
  <2>2. \A p \in Prio : thread \notin ReadyAt(c, p)
    BY <2>1, ConstantsAssumption DEF ReadyAt, keep, Objects
  <2>3. \A p \in Prio : queue[p] = Reverse(q[p]) \/ queue[p] = q[p]
    BY <1>2, <1>6
  <2>4. ASSUME NEW p \in Prio PROVE Enumerates(queue[p], ReadyAt(c, p) \ {thread})
    <3>1. ReadyAt(c, p) \ {thread} = ReadyAt(c, p)
      BY <2>2
    <3> QED
      BY <1>1, <2>3, <3>1, EnumeratesReverse, Zenon
  <2> QED
    BY <1>3, <2>1, <2>4, ZenonT(40) DEF keep, thread, queue
<1>7. CASE levels # {}
  <2> DEFINE k == first(level)
  <2>1. level \in Prio /\ k # 0
    BY <1>4, <1>5, <1>7
  <2> HIDE DEF level
  <2>2. k \in 1 .. Len(q[level])
    <3>1. k \in 0 .. Len(q[level])
      BY <1>1, <2>1, FirstSchedulableType, Zenon
    <3> QED
      BY <2>1, <3>1
  <2>3. thread = q[level][k]
    BY <1>2, <1>7
  <2>4. thread \in Range(q[level])
    BY <1>1, <2>1, <2>2, <2>3 DEF Range
  <2>5. thread \in ReadyAt(c, level)
    BY <1>1, <2>1, <2>4, Zenon DEF Enumerates
  <2>6. ASSUME NEW p \in Prio PROVE Enumerates(queue[p], ReadyAt(c, p) \ {thread})
    <3>1. CASE p = level
      <4>1. ~(p < level)
        BY <3>1 DEF Prio
      <4>2. queue[p] = WithoutPopped(q[p], k)
        BY <1>2, <1>7, <3>1, <4>1, Zenon
      <4> HIDE DEF k
      <4>3. /\ q[p] \in Seq(Threads) /\ Enumerates(q[p], ReadyAt(c, p)) /\ k \in 1 .. Len(q[p])
            /\ thread = q[p][k]
        BY <1>1, <2>1, <2>2, <2>3, <3>1, ZenonT(40)
      <4>4. Enumerates(WithoutPopped(q[p], k), ReadyAt(c, p) \ {q[p][k]})
        BY <4>3, EnumeratesPop
      <4> QED
        BY <4>2, <4>3, <4>4, Zenon
    <3>2. CASE p # level
      <4>1. queue[p] = Reverse(q[p]) \/ queue[p] = q[p]
        BY <1>2, <3>2
      <4>2. ReadyAt(c, p) \ {thread} = ReadyAt(c, p)
        BY <2>5, <3>2 DEF ReadyAt
      <4> QED
        BY <1>1, <4>1, <4>2, EnumeratesReverse, Zenon
    <3> QED
      BY <3>1, <3>2
  <2>7. CoreOf[thread] = c /\ status[thread] = "Ready"
    BY <2>5 DEF ReadyAt
  <2> QED
    BY <2>6, <2>7, Zenon DEF thread, queue
<1> QED
  BY <1>6, <1>7, Zenon

(* SwitchContext: the thread that yields goes to the front of its level,   *)
(* and the next thread is taken out.                                       *)
LEMMA RescheduleEffect ==
    ASSUME TypeOK, ReadyQueueOK, CurrentInv, NEW c \in Cores, Reschedule(c)
    PROVE  /\ ReadyQueueOK' /\ CurrentInv'
           /\ current_thread'[c] # None => status'[current_thread'[c]] = "Running"
           /\ \A d \in Cores \ {c} : current_thread'[d] = current_thread[d]
           /\ \A t \in Threads :
                 /\ CoreOf[t] # c => status'[t] = status[t]
                 /\ status[t] = "Dead" => status'[t] = "Dead"
                 /\ status'[t] = "Dormant" => status[t] = "Dormant"
<1> DEFINE prev == current_thread[c]
           pop  == PopNextReadyThread(c)
           next == pop.thread
           yields == prev # None /\ status[prev] = "Running"
           queue1 == IF yields THEN [pop.queue EXCEPT ![current_priority[prev]] = <<prev>> \o @]
                     ELSE pop.queue
           queue2 == IF next = None THEN queue1
                     ELSE [queue1 EXCEPT ![current_priority[next]] = RemoveFirst(@, next)]
<1>1. /\ current_thread' = [current_thread EXCEPT ![c] = next]
      /\ ready_queue' = [ready_queue EXCEPT ![c] = queue2]
      /\ status' = [t \in Threads |-> CASE t = next -> "Running"
                                        [] t = prev /\ t # next /\ yields -> "Ready"
                                        [] OTHER -> status[t]]
      /\ current_priority' = current_priority
  BY Zenon DEF Reschedule
<1>2. /\ next \in Threads \cup {None} /\ pop.queue \in [Prio -> Seq(Threads)]
      /\ next # None => /\ CoreOf[next] = c
                        /\ status[next] = "Ready" \/ (status[next] = "Running" /\ next = prev)
      /\ \A p \in Prio : Enumerates(pop.queue[p], ReadyAt(c, p) \ {next})
  BY PopNextReadyThreadType, PopQueue, ZenonT(40) DEF TypeOK
<1>3. /\ status \in [Threads -> Status] /\ current_priority \in [Threads -> Prio]
      /\ prev \in Threads \cup {None} /\ (prev # None => CoreOf[prev] = c)
      /\ current_thread \in [Cores -> Threads \cup {None}]
      /\ ready_queue \in [Cores -> [Prio -> Seq(Threads)]]
      /\ None \notin Threads
  BY ConstantsAssumption DEF TypeOK, ThreadTypeOK, CoreTypeOK, CurrentInv, Objects
<1> DEFINE queue == pop.queue
<1> HIDE DEF next, queue, prev, yields
<1>4. ASSUME NEW t \in Threads
      PROVE  status'[t] = IF t = next THEN "Running"
                          ELSE IF t = prev /\ yields THEN "Ready" ELSE status[t]
  BY <1>1, Zenon
<1>5. yields => prev \in Threads /\ status[prev] = "Running"
  BY <1>3, Zenon DEF yields
<1>6. ASSUME NEW t \in Threads
      PROVE  /\ CoreOf[t] # c => status'[t] = status[t]
             /\ status[t] = "Dead" => status'[t] = "Dead"
             /\ status'[t] = "Dormant" => status[t] = "Dormant"
  BY <1>2, <1>3, <1>4, <1>5, Zenon
<1>7. current_thread'[c] = next /\ \A d \in Cores \ {c} : current_thread'[d] = current_thread[d]
  BY <1>1, <1>3, ZenonT(40)
<1>8. current_thread'[c] # None => status'[current_thread'[c]] = "Running"
  BY <1>2, <1>4, <1>7
<1>9. CurrentInv'
  <2>1. ASSUME NEW d \in Cores, current_thread'[d] # None
        PROVE  CoreOf[current_thread'[d]] = d
    BY <1>2, <1>7, <2>1, ZenonT(40) DEF CurrentInv
  <2>2. ASSUME NEW t \in Threads, status'[t] = "Running"
        PROVE  current_thread'[CoreOf[t]] = t
    <3>1. CASE t = next
      BY <1>2, <1>3, <1>7, <3>1, Zenon
    <3>2. CASE t # next
      <4>1. status[t] = "Running" /\ ~(t = prev /\ yields)
        BY <1>4, <2>2, <3>2, ZenonT(40)
      <4>2. current_thread[CoreOf[t]] = t
        BY <4>1 DEF CurrentInv
      <4>3. CoreOf[t] # c
        BY <1>3, <4>1, <4>2 DEF prev, yields
      <4>4. CoreOf[t] \in Cores
        BY ConstantsAssumption
      <4> QED
        BY <1>7, <4>2, <4>3, <4>4, Zenon
    <3> QED
      BY <3>1, <3>2
  <2> QED
    BY <2>1, <2>2, Zenon DEF CurrentInv
<1>10. ReadyQueueOK'
  <2> SUFFICES ASSUME NEW d \in Cores, NEW p \in Prio
               PROVE  Enumerates(ready_queue'[d][p], ReadyAt(d, p)')
    BY DEF ReadyQueueOK
  <2>1. CASE d # c
    <3>1. ready_queue'[d] = ready_queue[d]
      BY <1>1, <1>3, <2>1, ZenonT(40)
    <3>2. ReadyAt(d, p)' = ReadyAt(d, p)
      BY <1>1, <1>6, <2>1 DEF ReadyAt
    <3> QED
      BY <3>1, <3>2, Zenon DEF ReadyQueueOK
  <2>2. CASE d = c
    <3> DEFINE Out == ReadyAt(c, p) \ {next}
               R1 == IF yields /\ current_priority[prev] = p THEN Out \cup {prev} ELSE Out
    <3>1. Enumerates(queue[p], Out) /\ queue[p] \in Seq(Threads) /\ DOMAIN queue = Prio
      BY <1>2, ZenonT(40) DEF queue
    <3>2. Enumerates(queue1[p], R1) /\ queue1[p] \in Seq(Threads) /\ DOMAIN queue1 = Prio
      <4>1. CASE yields /\ current_priority[prev] = p
        <5>1. queue1[p] = <<prev>> \o queue[p] /\ DOMAIN queue1 = Prio
          BY <3>1, <4>1, Zenon DEF queue
        <5>2. prev \notin Out /\ prev \in Threads
          BY <1>5, <4>1 DEF ReadyAt
        <5>3. R1 = Out \cup {prev}
          BY <4>1
        <5>4. <<prev>> \o queue[p] \in Seq(Threads)
          BY <3>1, <5>2
        <5> HIDE DEF Out
        <5>5. Enumerates(<<prev>> \o queue[p], Out \cup {prev})
          BY <3>1, <5>2, EnumeratesCons, Zenon
        <5> QED
          BY <5>1, <5>3, <5>4, <5>5, Zenon
      <4>2. CASE ~(yields /\ current_priority[prev] = p)
        <5>1. queue1[p] = queue[p] /\ DOMAIN queue1 = Prio
          BY <3>1, <4>2, Zenon DEF queue
        <5> QED
          BY <3>1, <4>2, <5>1, Zenon
      <4> QED
        BY <4>1, <4>2
    <3> HIDE DEF queue1
    <3>3. ready_queue'[c][p] = queue2[p]
      BY <1>1, <1>3, Zenon
    <3>4. Enumerates(queue2[p], R1 \ {next})
      <4>1. CASE next # None /\ current_priority[next] = p
        <5>1. queue2[p] = RemoveFirst(queue1[p], next)
          BY <3>2, <4>1, Zenon
        <5> HIDE DEF R1
        <5>2. Enumerates(RemoveFirst(queue1[p], next), R1 \ {next})
          BY <3>2, EnumeratesRemove
        <5> QED
          BY <5>1, <5>2, Zenon
      <4>2. CASE ~(next # None /\ current_priority[next] = p)
        <5>1. queue2[p] = queue1[p]
          BY <3>2, <4>2, Zenon
        <5>2. next \notin R1
          BY <1>3, <1>5, <4>2 DEF ReadyAt
        <5>3. R1 \ {next} = R1
          BY <5>2
        <5> QED
          BY <3>2, <5>1, <5>3, Zenon
      <4> QED
        BY <4>1, <4>2
    <3>5. ReadyAt(c, p)' = R1 \ {next}
      <4>1. ASSUME NEW t \in Threads
            PROVE  t \in ReadyAt(c, p)' <=> t \in R1 \ {next}
        <5>1. t \in ReadyAt(c, p)' <=>
                 status'[t] = "Ready" /\ CoreOf[t] = c /\ current_priority[t] = p
          BY <1>1 DEF ReadyAt
        <5>2. t \in R1 \ {next} <=>
                 /\ t # next
                 /\ \/ t = prev /\ yields /\ current_priority[t] = p
                    \/ status[t] = "Ready" /\ CoreOf[t] = c /\ current_priority[t] = p
          BY DEF ReadyAt
        <5>3. t = prev /\ yields => CoreOf[t] = c /\ status[t] # "Ready"
          BY <1>3, <1>5
        <5> QED
          BY <1>4, <5>1, <5>2, <5>3
      <4>2. R1 \subseteq Threads /\ ReadyAt(c, p)' \subseteq Threads
        BY <1>5 DEF ReadyAt
      <4> QED
        BY <4>1, <4>2
    <3> HIDE DEF R1, queue2
    <3> QED
      BY <2>2, <3>3, <3>4, <3>5, Zenon
  <2> QED
    BY <2>1, <2>2
<1> QED
  BY <1>6, <1>7, <1>8, <1>9, <1>10, Zenon
-----------------------------------------------------------------------------
(* The agenda of the run loop.                                             *)

\* In a new agenda a core is rescheduled before it runs, and runs at most once.
IterationOK(g) ==
    /\ \A k \in DOMAIN g : g[k].stage = "run" =>
          \E j \in 1 .. k - 1 : g[j] = Task("sched", g[k].core)
    /\ \A j, k \in DOMAIN g : g[j].stage = "run" /\ g[k] = g[j] => j = k

(* The elements of a concatenation, and of lists of tasks.                 *)
LEMMA ConcatAt ==
    ASSUME NEW T, NEW a \in Seq(T), NEW b \in Seq(T)
    PROVE  /\ a \o b \in Seq(T) /\ Len(a \o b) = Len(a) + Len(b)
           /\ \A i \in 1 .. Len(a) : (a \o b)[i] = a[i]
           /\ \A i \in 1 .. Len(b) : (a \o b)[Len(a) + i] = b[i]
OBVIOUS

LEMMA TasksAt ==
    ASSUME NEW stage \in {"sched", "run", "end", "switch"}
    PROVE  /\ Tasks(stage, AllCores) \in Seq(TaskSet) /\ Len(Tasks(stage, AllCores)) = NumCores
           /\ \A i \in 1 .. NumCores : Tasks(stage, AllCores)[i] = Task(stage, i - 1)
<1>1. NumCores \in Nat /\ AllCores \in Seq(Cores)
  BY ConstantsAssumption, CoreListsType
<1>2. Tasks(stage, AllCores) \in Seq(TaskSet)
  BY <1>1, TasksType, Zenon
<1>3. Len(AllCores) = NumCores /\ \A i \in 1 .. NumCores : AllCores[i] = i - 1
  BY <1>1 DEF AllCores
<1>4. DOMAIN Tasks(stage, AllCores) = 1 .. NumCores
  BY <1>3, Zenon DEF Tasks
<1>5. \A i \in 1 .. NumCores : Tasks(stage, AllCores)[i] = Task(stage, i - 1)
  BY <1>3, Zenon DEF Tasks
<1>6. Len(Tasks(stage, AllCores)) = NumCores
  BY <1>1, <1>2, <1>4
<1> QED
  BY <1>2, <1>5, <1>6, Zenon

LEMMA FullIterationOK ==
    ASSUME NEW A \in Seq(TaskSet), \A i \in DOMAIN A : A[i].stage # "run"
    PROVE  IterationOK(A \o FullIteration)
<1> DEFINE N == NumCores
           n == Len(A)
           F == FullIteration
           g == A \o F
           S == Tasks("sched", AllCores)
           R == Tasks("run", AllCores)
           E == <<Task("end", 0)>>
<1>1. N \in Nat \ {0} /\ n \in Nat /\ N + N \in Nat /\ N + N + 1 \in Nat /\ 1 \in Nat
  BY ConstantsAssumption
<1>2. /\ S \in Seq(TaskSet) /\ Len(S) = N /\ R \in Seq(TaskSet) /\ Len(R) = N
      /\ \A i \in 1 .. N : S[i] = Task("sched", i - 1) /\ R[i] = Task("run", i - 1)
  BY TasksAt
<1>3. E \in Seq(TaskSet) /\ Len(E) = 1 /\ E[1] = Task("end", 0)
  BY <1>1 DEF Task, TaskSet, Cores
<1>9. F = S \o R \o E
  BY DEF FullIteration
<1> HIDE DEF S, R, E, F, N
<1>10. /\ S \o R \in Seq(TaskSet) /\ Len(S \o R) = N + N
       /\ \A i \in 1 .. N : (S \o R)[i] = S[i]
       /\ \A i \in 1 .. N : (S \o R)[N + i] = R[i]
  <2>1. /\ S \o R \in Seq(TaskSet) /\ Len(S \o R) = Len(S) + Len(R)
        /\ \A i \in 1 .. Len(S) : (S \o R)[i] = S[i]
        /\ \A i \in 1 .. Len(R) : (S \o R)[Len(S) + i] = R[i]
    <3>1. S \in Seq(TaskSet) /\ R \in Seq(TaskSet)
      BY <1>2
    <3> QED
      BY <3>1, ConcatAt
  <2> QED
    BY <1>2, <2>1, Zenon
<1>11. /\ F \in Seq(TaskSet) /\ Len(F) = N + N + 1
       /\ \A i \in 1 .. N + N : F[i] = (S \o R)[i]
       /\ \A i \in 1 .. 1 : F[N + N + i] = E[i]
  <2> DEFINE SR == S \o R
  <2>1. SR \in Seq(TaskSet) /\ Len(SR) = N + N /\ F = SR \o E
    BY <1>9, <1>10
  <2> HIDE DEF SR
  <2>2. /\ F \in Seq(TaskSet) /\ Len(F) = N + N + 1
        /\ \A i \in 1 .. N + N : F[i] = SR[i]
        /\ \A i \in 1 .. 1 : F[N + N + i] = E[i]
    <3> HIDE DEF E
    <3>1. /\ SR \o E \in Seq(TaskSet) /\ Len(SR \o E) = Len(SR) + Len(E)
          /\ \A i \in 1 .. Len(SR) : (SR \o E)[i] = SR[i]
          /\ \A i \in 1 .. Len(E) : (SR \o E)[Len(SR) + i] = E[i]
      <4>1. SR \in Seq(TaskSet) /\ E \in Seq(TaskSet)
        BY <1>3, <2>1
      <4> QED
        BY <4>1, ConcatAt
    <3> QED
      BY <1>3, <2>1, <3>1, Zenon
  <2> QED
    BY <2>2, Zenon DEF SR
<1>12. \A i \in 1 .. N : i \in 1 .. N + N /\ N + i \in 1 .. N + N
  BY <1>1
<1>13. \A i \in 1 .. N : F[i] = Task("sched", i - 1) /\ F[N + i] = Task("run", i - 1)
  BY <1>2, <1>10, <1>11, <1>12, Zenon
<1>4. F[N + N + 1] = Task("end", 0)
  BY <1>3, <1>11
<1>5. /\ g \in Seq(TaskSet) /\ Len(g) = n + (N + N + 1)
      /\ \A i \in 1 .. n : g[i] = A[i]
      /\ \A i \in 1 .. N + N + 1 : g[n + i] = F[i]
  <2>1. /\ A \o F \in Seq(TaskSet) /\ Len(A \o F) = Len(A) + Len(F)
        /\ \A i \in 1 .. Len(A) : (A \o F)[i] = A[i]
        /\ \A i \in 1 .. Len(F) : (A \o F)[Len(A) + i] = F[i]
    <3>1. F \in Seq(TaskSet)
      BY <1>11
    <3> QED
      BY <3>1, ConcatAt
  <2> QED
    BY <1>11, <2>1, Zenon
<1> HIDE DEF g
<1>6. ASSUME NEW k \in DOMAIN g, g[k].stage = "run"
      PROVE  k - (n + N) \in 1 .. N /\ g[k] = Task("run", k - (n + N) - 1)
  <2>1. k \in 1 .. n + (N + N + 1)
    BY <1>5
  <2>2. k \notin 1 .. n
    BY <1>5, <1>6
  <2>3. k # n + (N + N + 1)
    <3>1. g[n + (N + N + 1)] = Task("end", 0)
      <4>1. N + N + 1 \in 1 .. N + N + 1
        BY <1>1
      <4> QED
        BY <1>4, <1>5, <4>1, Zenon
    <3> QED
      BY <1>1, <1>6, <3>1 DEF Task
  <2>4. k \notin n + 1 .. n + N
    <3> SUFFICES ASSUME k \in n + 1 .. n + N PROVE FALSE
      OBVIOUS
    <3>1. k - n \in 1 .. N /\ n + (k - n) = k /\ k - n \in 1 .. N + N + 1
      BY <1>1
    <3>2. g[k] = Task("sched", k - n - 1)
      BY <1>5, <1>13, <3>1, Zenon
    <3> QED
      BY <1>6, <3>2 DEF Task
  <2>5. k - (n + N) \in 1 .. N /\ n + (N + (k - (n + N))) = k
        /\ N + (k - (n + N)) \in 1 .. N + N + 1
    <3>1. k \in Nat /\ k > n /\ k <= n + (N + N + 1) /\ N \in Nat /\ n \in Nat
      BY <1>1, <2>1, <2>2
    <3>2. k > n + N /\ k <= n + (N + N)
      BY <2>3, <2>4, <3>1
    <3> QED
      BY <3>1, <3>2
  <2> QED
    BY <1>5, <1>13, <2>5, Zenon
<1>7. ASSUME NEW k \in DOMAIN g, g[k].stage = "run"
      PROVE  \E j \in 1 .. k - 1 : g[j] = Task("sched", g[k].core)
  <2> DEFINE i == k - (n + N)
  <2>1. i \in 1 .. N /\ g[k] = Task("run", i - 1) /\ k \in Nat
    BY <1>5, <1>6, <1>7
  <2>2. n + i \in 1 .. k - 1 /\ i \in 1 .. N + N + 1
    BY <1>1, <2>1
  <2>3. g[n + i] = Task("sched", i - 1)
    BY <1>5, <1>13, <2>1, <2>2, Zenon
  <2>4. g[k].core = i - 1
    BY <2>1 DEF Task
  <2> QED
    BY <2>2, <2>3, <2>4
<1>8. ASSUME NEW j \in DOMAIN g, NEW k \in DOMAIN g, g[j].stage = "run", g[k] = g[j]
      PROVE  j = k
  <2>1. /\ g[j] = Task("run", j - (n + N) - 1) /\ g[k] = Task("run", k - (n + N) - 1)
        /\ j \in Nat /\ k \in Nat
    BY <1>5, <1>6, <1>8
  <2>2. j - (n + N) - 1 = k - (n + N) - 1
    BY <1>8, <2>1 DEF Task
  <2> QED
    BY <1>1, <2>1, <2>2
<1> QED
  BY <1>7, <1>8, ZenonT(40) DEF IterationOK, g, F

LEMMA LateIterationOK ==
    ASSUME NEW late \in LateCores, NEW c \in Range(late)
    PROVE  IterationOK(Tasks("sched", late) \o <<Task("run", c), Task("end", 0)>>)
<1> DEFINE A == Tasks("sched", late)
           B == <<Task("run", c), Task("end", 0)>>
           g == A \o B
           n == Len(late)
<1>1. late \in Seq(Cores)
  BY CoreListsType
<1>2. c \in Cores /\ n \in Nat
  BY <1>1 DEF Range
<1>3. PICK j \in 1 .. n : late[j] = c
  BY <1>1 DEF Range
<1>4. A \in Seq(TaskSet) /\ Len(A) = n /\ \A i \in 1 .. n : A[i] = Task("sched", late[i])
  BY <1>1, TasksType DEF Tasks
<1>5. B \in Seq(TaskSet) /\ Len(B) = 2 /\ B[1] = Task("run", c) /\ B[2] = Task("end", 0)
  BY <1>2, CoreListsType
<1> HIDE DEF A, B
<1>6. /\ g \in Seq(TaskSet) /\ Len(g) = n + 2
      /\ \A i \in 1 .. n : g[i] = Task("sched", late[i])
      /\ g[n + 1] = Task("run", c) /\ g[n + 2] = Task("end", 0)
  <2>1. /\ g \in Seq(TaskSet) /\ Len(g) = n + 2
        /\ \A i \in 1 .. n : g[i] = A[i]
        /\ \A i \in 1 .. 2 : g[n + i] = B[i]
    <3>1. /\ A \o B \in Seq(TaskSet) /\ Len(A \o B) = Len(A) + Len(B)
          /\ \A i \in 1 .. Len(A) : (A \o B)[i] = A[i]
          /\ \A i \in 1 .. Len(B) : (A \o B)[Len(A) + i] = B[i]
      <4>1. A \in Seq(TaskSet) /\ B \in Seq(TaskSet)
        BY <1>4, <1>5
      <4> QED
        BY <4>1, ConcatAt
    <3> QED
      BY <1>4, <1>5, <3>1, Zenon
  <2>2. 1 \in 1 .. 2 /\ 2 \in 1 .. 2
    OBVIOUS
  <2> QED
    BY <1>4, <1>5, <2>1, <2>2, Zenon
<1> HIDE DEF g
<1>7. ASSUME NEW k \in DOMAIN g, g[k].stage = "run"
      PROVE  k = n + 1
  <2>1. k \in 1 .. n \/ k = n + 1 \/ k = n + 2
    BY <1>2, <1>6
  <2>2. \A d : Task("sched", d).stage # "run" /\ Task("end", d).stage # "run"
    BY DEF Task
  <2> QED
    BY <1>6, <1>7, <2>1, <2>2, Zenon
<1>8. j \in 1 .. (n + 1) - 1 /\ g[j] = Task("sched", g[n + 1].core)
  BY <1>2, <1>3, <1>6 DEF Task
<1> QED
  BY <1>7, <1>8, Zenon DEF IterationOK, g, A, B

(* The next task is done.                                                  *)
LEMMA AgendaTail ==
    ASSUME TypeOK, AgendaInv, agenda # <<>>, agenda' = Tail(agenda),
           \A d \in Cores : \/ current_thread'[d] = None
                            \/ status'[current_thread'[d]] = "Running"
                            \/ /\ Head(agenda) # Task("sched", d)
                               /\ current_thread'[d] = current_thread[d]
                               /\ status'[current_thread[d]] = status[current_thread[d]]
    PROVE  AgendaInv'
<1>1. /\ agenda \in Seq(TaskSet) /\ agenda[1] = Head(agenda)
      /\ \A k \in DOMAIN agenda' : /\ k + 1 \in DOMAIN agenda /\ agenda'[k] = agenda[k + 1]
                                   /\ k \in Nat \ {0}
  BY DEF TypeOK, LoopTypeOK
<1>2. ASSUME NEW k \in DOMAIN agenda', agenda'[k].stage = "run"
      PROVE  Scheduled(k)'
  <2> DEFINE d == agenda'[k].core
  <2>6. /\ agenda[k + 1].stage = "run" /\ agenda[k + 1].core = d
        /\ k \in Nat \ {0} /\ k + 1 \in DOMAIN agenda
    BY <1>1, <1>2, Zenon
  <2>7. agenda[k + 1] \in TaskSet
    BY <1>1, <2>6
  <2>1. /\ agenda[k + 1].stage = "run" /\ agenda[k + 1].core = d /\ d \in Cores
        /\ k \in Nat \ {0} /\ k + 1 \in DOMAIN agenda
    BY <2>6, <2>7 DEF TaskSet
  <2>2. Scheduled(k + 1)
    BY <1>2, <2>1 DEF AgendaInv
  <2>3. k + 1 # 1
    BY <2>1
  <2>4. CASE \E j \in 1 .. (k + 1) - 1 : agenda[j] = Task("sched", d)
    <3>1. PICK j \in 1 .. (k + 1) - 1 : agenda[j] = Task("sched", d)
      BY <2>4
    <3>2. CASE j = 1
      BY <1>1, <2>1, <3>1, <3>2, Zenon DEF Scheduled
    <3>3. CASE j # 1
      <4>1. j - 1 \in 1 .. k - 1 /\ j - 1 \in DOMAIN agenda' /\ agenda'[j - 1] = agenda[j]
        BY <1>1, <2>1, <3>1, <3>3
      <4> QED
        BY <3>1, <4>1, ZenonT(40) DEF Scheduled
    <3> QED
      BY <3>2, <3>3
  <2>5. CASE current_thread[d] = None \/ status[current_thread[d]] = "Running"
    BY <2>1, <2>5, Zenon DEF Scheduled
  <2> QED
    BY <2>1, <2>2, <2>3, <2>4, <2>5, Zenon DEF Scheduled
<1>3. ASSUME NEW j \in DOMAIN agenda', NEW k \in DOMAIN agenda', agenda'[j].stage = "run",
             agenda'[k] = agenda'[j]
      PROVE  j = k
  <2>2. /\ j + 1 \in DOMAIN agenda /\ k + 1 \in DOMAIN agenda
        /\ agenda[j + 1].stage = "run" /\ agenda[k + 1] = agenda[j + 1]
    BY <1>1, <1>3, Zenon
  <2>1. j + 1 = k + 1
    BY <2>2, Zenon DEF AgendaInv
  <2> QED
    BY <1>1, <2>1
<1> QED
  BY <1>2, <1>3, Zenon DEF AgendaInv

(* A new agenda.                                                           *)
LEMMA AgendaNew ==
    ASSUME IterationOK(agenda)
    PROVE  AgendaInv
BY Zenon DEF IterationOK, AgendaInv, Scheduled

(* The run loop keeps the ready queues and the running threads in step.    *)
LEMMA RunLoopScheduler ==
    ASSUME TypeOK, ReadyQueueOK, CurrentInv, AgendaInv, RunLoop
    PROVE  /\ ReadyQueueOK' /\ CurrentInv' /\ AgendaInv'
           /\ \A t \in Threads : /\ status[t] = "Dead" => status'[t] = "Dead"
                                 /\ status'[t] = "Dormant" => status[t] = "Dormant"
<1>1. ASSUME UNCHANGED <<status, current_priority, ready_queue, current_thread>>
      PROVE  ReadyQueueOK' /\ CurrentInv'
  BY <1>1 DEF ReadyQueueOK, ReadyAt, CurrentInv
<1>2. CASE RescheduleTask
  <2> DEFINE c == Head(agenda).core
  <2>1. /\ agenda # <<>> /\ agenda' = Tail(agenda) /\ Reschedule(c) /\ agenda \in Seq(TaskSet)
    BY <1>2, Zenon DEF RescheduleTask, InTask, TypeOK, LoopTypeOK
  <2>2. Head(agenda) \in TaskSet
    BY <2>1
  <2>3. c \in Cores /\ \A d : Head(agenda) = Task("sched", d) => d = c
    BY <2>2 DEF TaskSet, Task
  <2>4. /\ ReadyQueueOK' /\ CurrentInv'
        /\ current_thread'[c] # None => status'[current_thread'[c]] = "Running"
        /\ \A d \in Cores \ {c} : current_thread'[d] = current_thread[d]
        /\ \A t \in Threads :
              /\ CoreOf[t] # c => status'[t] = status[t]
              /\ status[t] = "Dead" => status'[t] = "Dead"
              /\ status'[t] = "Dormant" => status[t] = "Dormant"
    BY <2>1, <2>3, RescheduleEffect, Zenon
  <2> HIDE DEF c
  <2>5. ASSUME NEW d \in Cores
        PROVE  \/ current_thread'[d] = None
               \/ status'[current_thread'[d]] = "Running"
               \/ /\ Head(agenda) # Task("sched", d)
                  /\ current_thread'[d] = current_thread[d]
                  /\ status'[current_thread[d]] = status[current_thread[d]]
    <3>1. CASE d = c
      BY <2>4, <3>1, Zenon
    <3>2. CASE d # c /\ current_thread[d] # None
      <4>1. current_thread[d] \in Threads /\ CoreOf[current_thread[d]] = d
        BY <3>2, Zenon DEF CurrentInv, TypeOK, CoreTypeOK
      <4> QED
        BY <2>3, <2>4, <3>2, <4>1, Zenon
    <3>3. CASE d # c /\ current_thread[d] = None
      BY <2>4, <3>3, Zenon
    <3> QED
      BY <3>1, <3>2, <3>3
  <2>6. AgendaInv'
    BY <2>1, <2>5, AgendaTail, Zenon
  <2> QED
    BY <2>4, <2>6, Zenon
<1>3. CASE EndSlice
  <2>1. /\ agenda # <<>> /\ agenda' = Tail(agenda) /\ Head(agenda).stage = "run"
        /\ UNCHANGED <<status, current_priority, ready_queue, current_thread>>
    BY <1>3, Zenon DEF EndSlice, InTask, threadVars, coreVars
  <2>2. \A d : Head(agenda) # Task("sched", d)
    BY <2>1 DEF Task
  <2>3. AgendaInv'
    BY <2>1, <2>2, AgendaTail, Zenon
  <2> QED
    BY <1>1, <2>1, <2>3, Zenon
<1>4. CASE BeginIteration \/ BeginLateIteration \/ EndIteration
  <2>1. UNCHANGED <<status, current_priority, ready_queue, current_thread>>
    BY <1>4, Zenon DEF BeginIteration, BeginLateIteration, EndIteration, threadVars, coreVars
  <2>2. IterationOK(agenda')
    <3>1. CASE BeginIteration
      <4>1. PICK late \in LateCores : agenda' = Tasks("sched", late) \o FullIteration
        BY <3>1, Zenon DEF BeginIteration
      <4>2. late \in Seq(Cores)
        BY CoreListsType
      <4>3. /\ Tasks("sched", late) \in Seq(TaskSet)
            /\ \A i \in DOMAIN Tasks("sched", late) : Tasks("sched", late)[i].stage # "run"
        BY <4>2, TasksType DEF Tasks, Task
      <4> QED
        BY <4>1, <4>3, FullIterationOK, Zenon
    <3>2. CASE BeginLateIteration
      BY <3>2, LateIterationOK, ZenonT(40) DEF BeginLateIteration
    <3>3. CASE EndIteration
      <4>1. agenda' = Tasks("switch", AllCores) \/ agenda' = <<>>
        BY <3>3, Zenon DEF EndIteration
      <4>2. \A i \in DOMAIN agenda' : agenda'[i].stage # "run"
        BY <4>1 DEF Tasks, Task
      <4> QED
        BY <4>2, Zenon DEF IterationOK
    <3> QED
      BY <1>4, <3>1, <3>2, <3>3, Zenon
  <2>3. AgendaInv'
    BY <2>2, Zenon DEF IterationOK, AgendaInv, Scheduled
  <2> QED
    BY <1>1, <2>1, <2>3, Zenon
<1> QED
  BY <1>2, <1>3, <1>4, Zenon DEF RunLoop
=============================================================================
