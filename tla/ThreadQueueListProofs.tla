------------------------ MODULE ThreadQueueListProofs ------------------------
(***************************************************************************)
(* ThreadQueueList is a priority queue, for any number of levels and       *)
(* threads.                                                                *)
(***************************************************************************)
EXTENDS ThreadQueueList,
        FiniteSetTheorems, SequenceTheorems, WellFoundedInduction, TLAPS

(* A nonempty set of priorities or indices has a least element, which Min  *)
(* returns (BestPriority, SelectInSeq).                                    *)
LEMMA MinOfNaturals ==
    ASSUME NEW S, S \subseteq Nat, S # {}
    PROVE  Min(S) \in S /\ \A y \in S : Min(S) <= y
<1> DEFINE R == OpToRel(<, Nat)
<1>1. IsWellFoundedOn(R, Nat)
  BY NatLessThanWellFounded, Zenon
<1> HIDE DEF R
<1>2. PICK x \in S : \A y \in S : <<y, x>> \notin R
  BY <1>1, WFMin, Zenon
<1>3. \A y \in S : x <= y
  <2> SUFFICES ASSUME NEW y \in S PROVE x <= y
    OBVIOUS
  <2>1. y < x => <<y, x>> \in R
    BY DEF R, OpToRel
  <2> QED
    BY <1>2, <2>1
<1> QED
  BY <1>3, Zenon DEF Min

(* A nonempty set of naturals with an upper bound has a greatest element,  *)
(* which Max returns (ThreadQueueList::link).                              *)
LEMMA MaxOfNaturals ==
    ASSUME NEW S, S \subseteq Nat, S # {}, NEW n \in Nat, \A x \in S : x <= n
    PROVE  Max(S) \in S /\ \A y \in S : y <= Max(S)
<1> DEFINE D == {n - x : x \in S}
<1>1. D \subseteq Nat /\ D # {}
  OBVIOUS
<1>2. Min(D) \in D /\ \A d \in D : Min(D) <= d
  <2> HIDE DEF D
  <2> QED
    BY <1>1, MinOfNaturals, Zenon
<1>3. PICK x \in S : Min(D) = n - x
  BY <1>2, Zenon
<1>4. \A y \in S : y <= x
  <2> SUFFICES ASSUME NEW y \in S PROVE y <= x
    OBVIOUS
  <2>1. n - y \in D
    OBVIOUS
  <2>2. n - x <= n - y
    BY <1>2, <1>3, <2>1, Zenon
  <2> QED
    BY <2>2
<1> QED
  BY <1>4, Zenon DEF Max

(* To erase a member of a list is to leave out the element at an index     *)
(* where it is.                                                            *)
LEMMA RemoveFirstIndex ==
    ASSUME NEW S, NEW s \in Seq(S), NEW e, e \in Range(s)
    PROVE  \E i \in DOMAIN s : /\ s[i] = e
                               /\ RemoveFirst(s, e) =
                                     SubSeq(s, 1, i - 1) \o SubSeq(s, i + 1, Len(s))
<1> DEFINE I == {i \in 1 .. Len(s) : s[i] = e}
           k == Min(I)
<1>1. \E i \in 1 .. Len(s) : s[i] = e
  BY DEF Range
<1>2. I \subseteq Nat /\ I # {}
  BY <1>1
<1>3. k \in I
  BY <1>2, MinOfNaturals, Zenon
<1>4. RemoveFirst(s, e) = RemoveAt(s, k)
  BY DEF RemoveFirst
<1>5. k \in DOMAIN s /\ s[k] = e
  BY <1>3
<1> HIDE DEF k
<1> QED
  BY <1>4, <1>5, Zenon DEF RemoveAt

(* To erase a thread from a list leaves a list of threads.                 *)
LEMMA RemoveFirstType ==
    ASSUME NEW S, NEW s \in Seq(S), NEW e
    PROVE  RemoveFirst(s, e) \in Seq(S)
<1>1. CASE e \notin Range(s)
  BY <1>1 DEF RemoveFirst
<1>2. CASE e \in Range(s)
  <2> DEFINE I == {i \in 1 .. Len(s) : s[i] = e}
             k == Min(I)
  <2>1. I \subseteq Nat /\ I # {}
    BY <1>2 DEF Range
  <2>2. k \in 1 .. Len(s)
    BY <2>1, MinOfNaturals, Zenon
  <2>3. RemoveFirst(s, e) = RemoveAt(s, k)
    BY <1>2 DEF RemoveFirst
  <2> HIDE DEF k
  <2>4. SubSeq(s, 1, k - 1) \in Seq(S) /\ SubSeq(s, k + 1, Len(s)) \in Seq(S)
    BY <2>2, SubSeqProperties
  <2> QED
    BY <2>3, <2>4, ConcatProperties DEF RemoveAt
<1> QED
  BY <1>1, <1>2

(* The levels are linked in order, and a loop has seen the better ones.    *)
IInv == TypeOK /\ LinksOK /\ LoopOK

(* The level that link puts p after: the last used one before p.           *)
LEMMA LastBefore ==
    ASSUME NEW p \in Levels, {i \in Levels : i < p /\ Linked(i)} # {}
    PROVE  LET m == Max({i \in Levels : i < p /\ Linked(i)})
           IN  /\ m \in Levels /\ m < p /\ Linked(m)
               /\ \A i \in Levels : i < p /\ Linked(i) => i <= m
<1> DEFINE S == {i \in Levels : i < p /\ Linked(i)}
<1>1. S \subseteq Nat /\ p \in Nat /\ \A x \in S : x <= p
  BY QueueAssumption DEF Levels
<1>2. Max(S) \in S /\ \A y \in S : y <= Max(S)
  <2> HIDE DEF S
  <2> QED
    BY <1>1, MaxOfNaturals DEF S
<1> QED
  BY <1>2

\* The part of LinksOK that is about the links alone.
Ordered ==
    /\ first # UnlinkedTag
    /\ first # Null => Linked(first)
    /\ \A p \in Levels : Linked(p) => first # Null /\ first <= p
    /\ \A p \in Levels : next_nonempty[p] \in Levels =>
          p < next_nonempty[p] /\ Linked(next_nonempty[p])
    /\ \A p, q \in Levels : Linked(p) /\ Linked(q) /\ p < q =>
          next_nonempty[p] # Null /\ next_nonempty[p] <= q

(* prepare keeps the links in order, links the level and unlinks none.     *)
LEMMA PrepareLinks ==
    ASSUME TypeOK, LinksOK, NEW p \in Levels, Prepare(p)
    PROVE  /\ first' \in Pointers
           /\ next_nonempty' \in [Levels -> Pointers]
           /\ Ordered'
           /\ Linked(p)'
           /\ \A q \in Levels : Linked(q) => Linked(q)'
<1>1. /\ first \in Pointers /\ next_nonempty \in [Levels -> Pointers]
      /\ Levels \subseteq Int /\ Null \notin Levels /\ UnlinkedTag \notin Levels
      /\ Null # UnlinkedTag
  BY QueueAssumption DEF TypeOK, Levels
<1>2. CASE Linked(p)
  <2>1. UNCHANGED <<first, next_nonempty>>
    BY <1>2 DEF Prepare
  <2> QED
    BY <1>1, <1>2, <2>1 DEF LinksOK, Ordered, Linked
<1> DEFINE S == {i \in Levels : i < p /\ Linked(i)}
           m == Max(S)
<1>3. CASE ~Linked(p) /\ S = {}
  <2>1. next_nonempty' = [next_nonempty EXCEPT ![p] = first] /\ first' = p
    BY <1>3 DEF Prepare, Link
  <2>2. \A i \in Levels : Linked(i) => p < i
    BY <1>1, <1>3
  <2>3. first = Null \/ (first \in Levels /\ Linked(first) /\ p < first)
    BY <1>1, <2>2 DEF LinksOK, Pointers
  <2>4. first' \in Pointers /\ next_nonempty' \in [Levels -> Pointers]
    BY <1>1, <2>1 DEF Pointers
  <2>5. /\ \A q \in Levels : q # p => next_nonempty'[q] = next_nonempty[q]
        /\ next_nonempty'[p] = first
    BY <1>1, <2>1
  <2>6. \A q \in Levels : Linked(q)' <=> q = p \/ Linked(q)
    BY <1>1, <2>3, <2>5 DEF Linked
  <2>7. \A q \in Levels : Linked(q)' => first' # Null /\ first' <= q
    BY <1>1, <2>1, <2>2, <2>6
  <2>8. \A q \in Levels : next_nonempty'[q] \in Levels =>
          q < next_nonempty'[q] /\ next_nonempty'[next_nonempty'[q]] # UnlinkedTag
    <3> SUFFICES ASSUME NEW q \in Levels, next_nonempty'[q] \in Levels
                 PROVE  q < next_nonempty'[q] /\ next_nonempty'[next_nonempty'[q]] # UnlinkedTag
      OBVIOUS
    <3>1. CASE q = p
      BY <1>1, <2>3, <2>5, <2>6, <3>1, Zenon DEF Linked
    <3>2. CASE q # p
      <4>1. q < next_nonempty[q] /\ Linked(next_nonempty[q])
        BY <2>5, <3>2 DEF LinksOK
      <4> QED
        BY <2>5, <2>6, <3>2, <4>1 DEF Linked
    <3> QED
      BY <3>1, <3>2
  <2>9. \A q, r \in Levels : Linked(q)' /\ Linked(r)' /\ q < r =>
          next_nonempty'[q] # Null /\ next_nonempty'[q] <= r
    <3> SUFFICES ASSUME NEW q \in Levels, NEW r \in Levels, Linked(q)', Linked(r)', q < r
                 PROVE  next_nonempty'[q] # Null /\ next_nonempty'[q] <= r
      OBVIOUS
    <3>1. CASE q = p
      <4>1. Linked(r)
        BY <1>1, <2>6, <3>1
      <4> QED
        BY <2>5, <3>1, <4>1 DEF LinksOK
    <3>2. CASE q # p
      <4>1. Linked(q) /\ p < q
        BY <2>2, <2>6, <3>2
      <4>2. r # p
        BY <1>1, <4>1
      <4> QED
        BY <2>5, <2>6, <3>2, <4>1, <4>2 DEF LinksOK
    <3> QED
      BY <3>1, <3>2
  <2>10. Ordered'
    <3>1. first' # UnlinkedTag /\ first' # Null /\ next_nonempty'[first'] # UnlinkedTag
      BY <1>1, <2>1, <2>6 DEF Linked
    <3> QED
      BY <2>7, <2>8, <2>9, <3>1 DEF Ordered, Linked
  <2> QED
    BY <2>4, <2>6, <2>10
<1>4. CASE ~Linked(p) /\ S # {}
  <2>1. /\ next_nonempty' = [next_nonempty EXCEPT ![p] = next_nonempty[m], ![m] = p]
        /\ first' = first
    BY <1>4 DEF Prepare, Link
  <2>2. m \in Levels /\ m < p /\ Linked(m) /\ \A i \in Levels : i < p /\ Linked(i) => i <= m
    BY <1>4, LastBefore, Zenon
  <2> HIDE DEF m, S
  <2>3. /\ next_nonempty'[p] = next_nonempty[m] /\ next_nonempty'[m] = p
        /\ \A q \in Levels : q # p /\ q # m => next_nonempty'[q] = next_nonempty[q]
    BY <1>1, <2>1, <2>2
  <2>4. next_nonempty[m] = Null \/ (/\ next_nonempty[m] \in Levels /\ p < next_nonempty[m]
                                    /\ Linked(next_nonempty[m]))
    <3>1. next_nonempty[m] \in Pointers /\ next_nonempty[m] # UnlinkedTag
      BY <1>1, <2>2 DEF Linked
    <3>2. ASSUME next_nonempty[m] \in Levels
          PROVE  p < next_nonempty[m] /\ Linked(next_nonempty[m])
      <4> DEFINE n == next_nonempty[m]
      <4>1. m < n /\ Linked(n)
        BY <2>2, <3>2 DEF LinksOK
      <4>2. n < p => n <= m
        BY <2>2, <3>2, <4>1
      <4>3. n # p
        BY <1>4, <4>1
      <4>4. n \in Int /\ m \in Int /\ p \in Int
        BY <1>1, <2>2, <3>2, Zenon
      <4> HIDE DEF n
      <4>5. p < n
        BY <4>1, <4>2, <4>3, <4>4
      <4> QED
        BY <4>1, <4>5 DEF n
    <3> QED
      BY <3>1, <3>2 DEF Pointers
  <2>5. next_nonempty' \in [Levels -> Pointers]
    BY <1>1, <2>1, <2>2 DEF Pointers
  <2>6. \A q \in Levels : Linked(q)' <=> q = p \/ Linked(q)
    BY <1>1, <2>2, <2>3, <2>4 DEF Linked
  <2>7. \A q \in Levels : Linked(q)' => first # Null /\ first <= q
    <3>1. first # Null /\ first <= m /\ first \in Levels
      BY <1>1, <2>2 DEF LinksOK, Pointers
    <3>2. first <= p
      BY <1>1, <2>2, <3>1
    <3> QED
      BY <2>6, <3>1, <3>2 DEF LinksOK
  <2>8. \A q \in Levels : next_nonempty'[q] \in Levels =>
          q < next_nonempty'[q] /\ next_nonempty'[next_nonempty'[q]] # UnlinkedTag
    <3> SUFFICES ASSUME NEW q \in Levels, next_nonempty'[q] \in Levels
                 PROVE  q < next_nonempty'[q] /\ next_nonempty'[next_nonempty'[q]] # UnlinkedTag
      OBVIOUS
    <3>1. CASE q = p
      <4>1. q < next_nonempty'[q] /\ Linked(next_nonempty[m])
        BY <1>1, <2>3, <2>4, <3>1
      <4> QED
        BY <2>3, <2>4, <2>6, <3>1, <4>1 DEF Linked
    <3>2. CASE q = m
      BY <2>2, <2>3, <2>6, <3>2 DEF Linked
    <3>3. CASE q # p /\ q # m
      <4>1. q < next_nonempty[q] /\ Linked(next_nonempty[q])
        BY <2>3, <3>3 DEF LinksOK
      <4> QED
        BY <2>3, <2>6, <3>3, <4>1 DEF Linked
    <3> QED
      BY <3>1, <3>2, <3>3
  <2>9. \A q, r \in Levels : Linked(q)' /\ Linked(r)' /\ q < r =>
          next_nonempty'[q] # Null /\ next_nonempty'[q] <= r
    <3> SUFFICES ASSUME NEW q \in Levels, NEW r \in Levels, Linked(q)', Linked(r)', q < r
                 PROVE  next_nonempty'[q] # Null /\ next_nonempty'[q] <= r
      OBVIOUS
    <3>1. CASE q = p
      <4>1. Linked(r) /\ m < r
        BY <1>1, <2>2, <2>6, <3>1
      <4> QED
        BY <2>2, <2>3, <3>1, <4>1 DEF LinksOK
    <3>2. CASE q = m
      <4>1. p <= r
        <5>1. CASE r = p
          BY <1>1, <5>1
        <5>2. CASE r # p
          <6>1. Linked(r)
            BY <2>6, <5>2
          <6> QED
            BY <1>1, <2>2, <3>2, <6>1
        <5> QED
          BY <5>1, <5>2
      <4> QED
        BY <1>1, <2>3, <3>2, <4>1
    <3>3. CASE q # p /\ q # m
      <4>1. Linked(q) /\ next_nonempty'[q] = next_nonempty[q]
        BY <2>3, <2>6, <3>3
      <4>2. CASE r # p
        BY <2>6, <4>1, <4>2 DEF LinksOK
      <4>3. CASE r = p
        <5>1. q < m
          BY <1>1, <2>2, <3>3, <4>1, <4>3
        <5>2. next_nonempty[q] # Null /\ next_nonempty[q] <= m
          BY <2>2, <4>1, <5>1 DEF LinksOK
        <5>3. next_nonempty[q] \in Levels
          BY <1>1, <4>1, <5>2 DEF Linked, Pointers
        <5> DEFINE n == next_nonempty[q]
        <5>4. n \in Int /\ m \in Int /\ p \in Int /\ n <= m /\ m < p
          BY <1>1, <2>2, <5>2, <5>3, Zenon
        <5> HIDE DEF n
        <5>5. n <= p
          BY <5>4
        <5> QED
          BY <4>1, <4>3, <5>2, <5>5 DEF n
      <4> QED
        BY <4>2, <4>3
    <3> QED
      BY <3>1, <3>2, <3>3
  <2>10. Ordered'
    <3>1. first' # UnlinkedTag /\ (first' # Null => next_nonempty'[first'] # UnlinkedTag)
      BY <1>1, <2>1, <2>6 DEF Linked, LinksOK, Pointers
    <3> QED
      BY <2>1, <2>7, <2>8, <2>9, <3>1, Zenon DEF Ordered, Linked
  <2> QED
    BY <1>1, <2>1, <2>5, <2>6, <2>10
<1> QED
  BY <1>2, <1>3, <1>4

(* The lists stay lists of threads, and no list grows except at a level    *)
(* that the caller prepared.                                               *)
LEMMA ListTypes ==
    ASSUME TypeOK, NEW t \in Threads, NEW p \in Levels
    PROVE  /\ Append(data[p], t) \in Seq(Threads)
           /\ <<t>> \o data[p] \in Seq(Threads)
           /\ RemoveFirst(data[p], t) \in Seq(Threads)
           /\ data[p] = <<>> => RemoveFirst(data[p], t) = <<>>
<1>1. data[p] \in Seq(Threads)
  BY DEF TypeOK
<1>2. RemoveFirst(data[p], t) \in Seq(Threads)
  BY <1>1, RemoveFirstType
<1>3. data[p] = <<>> => RemoveFirst(data[p], t) = <<>>
  BY <1>1 DEF RemoveFirst, Range
<1>4. <<t>> \o data[p] \in Seq(Threads)
  <2>1. <<t>> \in Seq(Threads)
    OBVIOUS
  <2> QED
    BY <1>1, <2>1, ConcatProperties
<1> QED
  BY <1>1, <1>2, <1>3, <1>4

(* What LinksOK says beyond the order of the links.                        *)
LEMMA LinksParts ==
    LinksOK <=> /\ Ordered
                /\ \A p \in Levels : data[p] # <<>> => Linked(p)
                /\ \A t \in Threads : level[t] # None => Linked(level[t])
BY DEF LinksOK, Ordered

(* CreateThread and BoostPriority.                                         *)
LEMMA PreparingSteps ==
    ASSUME IInv, NEW t \in Threads, NEW p \in Levels,
           CreateThread(t, p) \/ BoostPriority(t, p)
    PROVE  IInv'
<1> USE DEF IInv
<1>1. /\ Prepare(p) /\ level' = [level EXCEPT ![t] = p]
      /\ request = Idle /\ UNCHANGED loopVars
  BY DEF CreateThread, BoostPriority
<1>2. /\ first' \in Pointers
      /\ next_nonempty' \in [Levels -> Pointers]
      /\ Ordered'
      /\ Linked(p)'
      /\ \A q \in Levels : Linked(q) => Linked(q)'
  BY <1>1, PrepareLinks, Zenon
<1>3. /\ data' \in [Levels -> Seq(Threads)]
      /\ \A q \in Levels : q # p /\ data[q] = <<>> => data'[q] = <<>>
  <2>1. CASE data' = data
    BY <2>1 DEF TypeOK
  <2>2. CASE data' = [data EXCEPT ![p] = Append(@, t)]
    BY <2>2, ListTypes DEF TypeOK
  <2>3. CASE /\ Queued(t)
             /\ data' = LET d == [data EXCEPT ![level[t]] = RemoveFirst(@, t)]
                        IN  [d EXCEPT ![p] = Append(@, t)]
    <3> DEFINE l == level[t]
               d == [data EXCEPT ![l] = RemoveFirst(@, t)]
    <3>1. l \in Levels
      BY <2>3 DEF Queued
    <3> HIDE DEF l
    <3>2. RemoveFirst(data[l], t) \in Seq(Threads) /\ (data[l] = <<>> => RemoveFirst(data[l], t) = <<>>)
      BY <3>1, ListTypes
    <3>3. d \in [Levels -> Seq(Threads)] /\ \A q \in Levels : data[q] = <<>> => d[q] = <<>>
      BY <3>1, <3>2 DEF TypeOK
    <3>4. data' = [d EXCEPT ![p] = Append(@, t)]
      BY <2>3 DEF l
    <3> HIDE DEF d
    <3>5. Append(d[p], t) \in Seq(Threads)
      BY <3>3
    <3> QED
      BY <3>3, <3>4, <3>5
  <2> QED
    BY <2>1, <2>2, <2>3 DEF CreateThread, BoostPriority
<1>4. level' \in [Threads -> Levels \cup {None}]
  BY <1>1 DEF TypeOK
<1>5. TypeOK'
  BY <1>1, <1>2, <1>3, <1>4 DEF TypeOK, loopVars, Pointers, Requests
<1>6. \A q \in Levels : data'[q] # <<>> => Linked(q)'
  BY <1>2, <1>3, LinksParts, Zenon
<1>7. \A u \in Threads : level'[u] # None => next_nonempty'[level'[u]] # UnlinkedTag
  <2> SUFFICES ASSUME NEW u \in Threads, level'[u] # None
               PROVE  next_nonempty'[level'[u]] # UnlinkedTag
    OBVIOUS
  <2>1. CASE u = t
    BY <1>1, <1>2, <2>1 DEF TypeOK, Linked
  <2>2. CASE u # t
    <3>1. level'[u] = level[u] /\ level[u] \in Levels
      BY <1>1, <2>2 DEF TypeOK
    <3>2. Linked(level[u])
      BY <3>1 DEF LinksOK
    <3> QED
      BY <1>2, <3>1, <3>2 DEF Linked
  <2> QED
    BY <2>1, <2>2
<1>8. LinksOK'
  BY <1>2, <1>6, <1>7, Zenon DEF LinksOK, Ordered, Linked
<1>9. LoopOK'
  BY <1>1 DEF LoopOK, loopVars
<1> QED
  BY <1>5, <1>8, <1>9

(* PushBack, PushFront, Stop and Rotate: the links do not change.          *)
LEMMA ListSteps ==
    ASSUME IInv,
           \/ \E t \in Threads : PushBack(t) \/ PushFront(t) \/ Stop(t)
           \/ \E p \in Levels : Rotate(p)
    PROVE  IInv'
<1> USE DEF IInv
<1>1. request = Idle /\ UNCHANGED <<first, next_nonempty, loopVars>>
  BY ZenonT(40) DEF PushBack, PushFront, Stop, Rotate
<1>2. /\ data' \in [Levels -> Seq(Threads)]
      /\ level' \in [Threads -> Levels \cup {None}]
      /\ \A q \in Levels : data'[q] # <<>> => Linked(q)
      /\ \A t \in Threads : level'[t] # None => level'[t] = level[t]
  <2>1. ASSUME NEW t \in Threads, PushBack(t) \/ PushFront(t)
        PROVE  <1>2!1 /\ <1>2!2 /\ <1>2!3 /\ <1>2!4
    <3> DEFINE l == level[t]
    <3>1. l \in Levels /\ Linked(l) /\ UNCHANGED level
      BY <2>1, Zenon DEF PushBack, PushFront, TypeOK, LinksOK
    <3>2. \/ data' = [data EXCEPT ![l] = Append(@, t)]
          \/ data' = [data EXCEPT ![l] = <<t>> \o @]
      BY <2>1, Zenon DEF PushBack, PushFront
    <3> HIDE DEF l
    <3>3. Append(data[l], t) \in Seq(Threads) /\ <<t>> \o data[l] \in Seq(Threads)
      BY <3>1, ListTypes
    <3>4. data' \in [Levels -> Seq(Threads)] /\ \A q \in Levels : q # l => data'[q] = data[q]
      BY <3>2, <3>3, Zenon DEF TypeOK
    <3> QED
      BY <3>1, <3>4, Zenon DEF TypeOK, LinksOK
  <2>2. ASSUME NEW t \in Threads, Stop(t)
        PROVE  <1>2!1 /\ <1>2!2 /\ <1>2!3 /\ <1>2!4
    <3> DEFINE l == level[t]
    <3>1. l \in Levels /\ level' = [level EXCEPT ![t] = None]
      BY <2>2 DEF Stop, TypeOK
    <3>2. data' = data \/ data' = [data EXCEPT ![l] = RemoveFirst(@, t)]
      BY <2>2 DEF Stop
    <3> HIDE DEF l
    <3>3. RemoveFirst(data[l], t) \in Seq(Threads) /\ (data[l] = <<>> => RemoveFirst(data[l], t) = <<>>)
      BY <3>1, ListTypes
    <3>4. data' \in [Levels -> Seq(Threads)] /\ \A q \in Levels : data[q] = <<>> => data'[q] = <<>>
      BY <3>1, <3>2, <3>3, Zenon DEF TypeOK
    <3> QED
      BY <3>1, <3>4 DEF TypeOK, LinksOK
  <2>3. ASSUME NEW p \in Levels, Rotate(p)
        PROVE  <1>2!1 /\ <1>2!2 /\ <1>2!3 /\ <1>2!4
    <3>1. /\ data' = [data EXCEPT ![p] = Append(Tail(@), Head(@))] /\ UNCHANGED level
          /\ data[p] # <<>> /\ data[p] \in Seq(Threads)
      BY <2>3 DEF Rotate, TypeOK
    <3>2. Append(Tail(data[p]), Head(data[p])) \in Seq(Threads)
      BY <3>1, HeadTailProperties
    <3> QED
      BY <3>1, <3>2 DEF TypeOK, LinksOK
  <2> QED
    BY <2>1, <2>2, <2>3
<1>3. TypeOK'
  BY <1>1, <1>2, Zenon DEF TypeOK, loopVars, Pointers, Requests
<1>4. LinksOK'
  BY <1>1, <1>2 DEF LinksOK, Linked
<1>5. LoopOK'
  BY <1>1 DEF LoopOK, loopVars
<1> QED
  BY <1>3, <1>4, <1>5

(* clear, save and load.                                                   *)
LEMMA ResetSteps ==
    ASSUME IInv, Clear \/ SaveLoad
    PROVE  IInv'
<1> USE DEF IInv
<1>1. LoopOK'
  BY DEF Clear, SaveLoad, LoopOK, loopVars
<1>2. CASE Clear
  <2>1. <<>> \in Seq(Threads)
    BY EmptySeq
  <2>2. data' \in [Levels -> Seq(Threads)]
    BY <1>2, <2>1 DEF Clear
  <2>3. TypeOK'
    BY <1>2, <2>2 DEF Clear, TypeOK, loopVars, Pointers, Requests
  <2>4. LinksOK'
    BY <1>2, QueueAssumption DEF Clear, LinksOK, Linked, Levels
  <2> QED
    BY <1>1, <2>3, <2>4
<1>3. CASE SaveLoad
  <2>1. \A q \in Pointers : ToPointer(ToIndex(q)) = q
    BY QueueAssumption DEF Pointers, Levels, ToPointer, ToIndex
  <2>2. first' = first /\ next_nonempty' = next_nonempty
    BY <1>3, <2>1 DEF SaveLoad, TypeOK
  <2> QED
    BY <1>1, <1>3, <2>2 DEF SaveLoad, TypeOK, LinksOK, Linked, loopVars, Pointers, Requests
<1> QED
  BY <1>2, <1>3

(* get_first, pop_first and pop_first_better begin.                        *)
LEMMA AskSteps ==
    ASSUME IInv, GetFirst \/ PopFirst \/ \E t \in Threads : PopFirstBetter(t)
    PROVE  IInv'
<1> USE DEF IInv
<1>1. PICK op \in {"pop", "get"}, limit \in 0 .. NumQueues :
        Ask(op, limit) /\ (limit < NumQueues => limit \in Levels /\ Linked(limit))
  <2>1. NumQueues \in 0 .. NumQueues /\ ~(NumQueues < NumQueues)
    BY QueueAssumption
  <2>2. CASE GetFirst \/ PopFirst
    BY <2>1, <2>2 DEF GetFirst, PopFirst
  <2>3. CASE \E t \in Threads : PopFirstBetter(t)
    <3>1. PICK t \in Threads : PopFirstBetter(t)
      BY <2>3
    <3>2. level[t] \in Levels /\ Linked(level[t])
      BY <3>1 DEF PopFirstBetter, TypeOK, LinksOK
    <3>3. level[t] \in 0 .. NumQueues
      BY <3>2, QueueAssumption DEF Levels
    <3> QED
      BY <3>1, <3>2, <3>3 DEF PopFirstBetter
  <2> QED
    BY <2>2, <2>3
<1>2. request' = [op |-> op, limit |-> limit] /\ cur' = first /\ UNCHANGED <<queueVars, answer, level>>
  BY <1>1 DEF Ask
<1>3. request' \in Requests /\ request'.limit = limit
  BY <1>2 DEF Requests
<1>4. TypeOK'
  BY <1>2, <1>3 DEF TypeOK, queueVars, Pointers, Requests
<1>5. LinksOK'
  BY <1>2 DEF LinksOK, Linked, queueVars
<1>6. Null \notin Levels /\ UnlinkedTag \notin Levels /\ Levels \subseteq Int
  BY QueueAssumption DEF Levels
<1>7. /\ first # UnlinkedTag
      /\ first = Null => \A p \in Levels : data[p] = <<>>
      /\ first \in Levels => Linked(first) /\ \A p \in Levels : p < first => data[p] = <<>>
  <2>1. first # UnlinkedTag /\ (first \in Levels => Linked(first))
    BY <1>6 DEF LinksOK
  <2>2. \A p \in Levels : data[p] # <<>> => first # Null /\ first <= p
    BY DEF LinksOK
  <2>3. ASSUME first \in Levels, NEW p \in Levels, p < first
        PROVE  data[p] = <<>>
    <3>1. p \in Int /\ first \in Int
      BY <1>6, <2>3
    <3>2. ~(first <= p)
      BY <2>3, <3>1
    <3> QED
      BY <2>2, <3>2
  <2> QED
    BY <2>1, <2>2, <2>3
<1>8. limit < NumQueues => first \in Levels /\ first <= limit
  BY <1>1, <1>6, <1>7 DEF LinksOK, TypeOK, Pointers
<1>9. LoopOK'
  BY <1>1, <1>2, <1>3, <1>7, <1>8, SMTT(30) DEF LoopOK, Linked, queueVars
<1> QED
  BY <1>4, <1>5, <1>9

(* While a loop runs it is at a level, below its limit.                    *)
LEMMA WalkingAt ==
    ASSUME IInv, Walking
    PROVE  /\ cur \in Levels /\ cur < request.limit /\ request.limit \in 0 .. NumQueues
           /\ Linked(cur) /\ \A p \in Levels : p < cur => data[p] = <<>>
<1>1. request \in Requests /\ request # Idle /\ Continues
  BY DEF IInv, TypeOK, Walking
<1>2. request.limit \in 0 .. NumQueues /\ NumQueues \in Nat
  BY <1>1, QueueAssumption DEF Requests
<1>3. CASE request.limit = NumQueues
  <2>1. cur \in Levels
    BY <1>1, <1>3 DEF IInv, TypeOK, LoopOK, Continues, Pointers
  <2> QED
    BY <1>1, <1>2, <1>3, <2>1 DEF IInv, LoopOK, Levels
<1>4. CASE request.limit # NumQueues
  <2>1. request.limit < NumQueues
    BY <1>2, <1>4
  <2>2. cur \in Levels
    BY <1>1, <2>1 DEF IInv, LoopOK
  <2>3. cur \notin {Null, UnlinkedTag}
    BY <2>2, QueueAssumption DEF Levels
  <2> QED
    BY <1>1, <1>2, <1>4, <2>2, <2>3 DEF IInv, LoopOK, Continues
<1> QED
  BY <1>3, <1>4

(* A loop that has ended without a thread saw all levels below its limit.  *)
LEMMA LoopEndAt ==
    ASSUME IInv, request # Idle, ~Continues
    PROVE  \A p \in Levels : p < request.limit => data[p] = <<>>
<1>1. request \in Requests
  BY DEF IInv, TypeOK
<1>2. request.limit \in 0 .. NumQueues /\ NumQueues \in Nat
  BY <1>1, QueueAssumption DEF Requests
<1>3. CASE request.limit = NumQueues
  BY <1>3 DEF IInv, LoopOK, Continues
<1>4. CASE request.limit # NumQueues
  <2>1. request.limit < NumQueues
    BY <1>2, <1>4
  <2>2. cur \in Levels /\ ~(cur < request.limit) /\ \A p \in Levels : p < cur => data[p] = <<>>
    BY <1>4, <2>1 DEF IInv, LoopOK, Continues
  <2>3. cur \in Int /\ request.limit \in Int /\ Levels \subseteq Int
    BY <1>2, <2>2, QueueAssumption DEF Levels
  <2>4. request.limit <= cur
    BY <2>2, <2>3
  <2> DEFINE lim == request.limit
  <2>5. \A p \in Levels : p < lim => p < cur
    <3> SUFFICES ASSUME NEW p \in Levels, p < lim PROVE p < cur
      OBVIOUS
    <3>1. p \in Int
      BY <2>3
    <3> HIDE DEF lim
    <3> QED
      BY <2>3, <2>4, <3>1 DEF lim
  <2> QED
    BY <2>2, <2>5
<1> QED
  BY <1>3, <1>4

(* The loops go on and end.                                                *)
LEMMA LoopSteps ==
    ASSUME IInv, Loop
    PROVE  IInv'
<1> USE DEF IInv
<1>1. CASE LoopFound
  <2>1. cur \in Levels /\ data[cur] # <<>> /\ data[cur] \in Seq(Threads)
    BY <1>1 DEF LoopFound, TypeOK
  <2>2. Head(data[cur]) \in Threads /\ Tail(data[cur]) \in Seq(Threads)
    BY <2>1, HeadTailProperties
  <2>3. data' = data \/ data' = [data EXCEPT ![cur] = Tail(@)]
    BY <1>1 DEF LoopFound
  <2>4. /\ data' \in [Levels -> Seq(Threads)]
        /\ \A q \in Levels : data'[q] # <<>> => Linked(q)
    BY <2>1, <2>2, <2>3, Zenon DEF TypeOK, LinksOK
  <2>5. TypeOK'
    BY <1>1, <2>2, <2>4 DEF LoopFound, TypeOK, Pointers, Requests
  <2>6. LinksOK'
    BY <1>1, <2>4 DEF LoopFound, LinksOK, Linked
  <2> QED
    BY <1>1, <2>5, <2>6 DEF LoopFound, LoopOK
<1>2. CASE LoopNext
  <2> DEFINE n == next_nonempty[cur]
  <2>1. /\ cur \in Levels /\ data[cur] = <<>> /\ cur' = n
        /\ UNCHANGED <<queueVars, request, answer, level>>
        /\ cur < request.limit /\ Linked(cur) /\ request # Idle
        /\ \A p \in Levels : p < cur => data[p] = <<>>
    BY <1>2, WalkingAt DEF LoopNext, Walking
  <2>2. n \in Pointers /\ n # UnlinkedTag
    BY <2>1 DEF TypeOK, Linked
  <2>3. /\ Levels \subseteq Int /\ Null \notin Levels /\ UnlinkedTag \notin Levels
    BY QueueAssumption DEF Levels
  <2>4. n \in Levels => Linked(n)
    BY <2>1 DEF LinksOK
  <2>5. \A q \in Levels : Linked(q) /\ cur < q => n # Null /\ n <= q
    BY <2>1 DEF LinksOK
  <2>6. \A q \in Levels : data[q] # <<>> => Linked(q) /\ cur < q
    BY <2>1, <2>3 DEF LinksOK
  <2> HIDE DEF n
  <2>7. \A q \in Levels : data[q] # <<>> => n # Null /\ n <= q
    BY <2>5, <2>6
  <2>8. n \in Levels => \A p \in Levels : p < n => data[p] = <<>>
    <3> SUFFICES ASSUME n \in Levels, NEW p \in Levels, p < n PROVE data[p] = <<>>
      OBVIOUS
    <3>1. p \in Int /\ n \in Int
      BY <2>3
    <3>2. ~(n <= p)
      BY <3>1
    <3> QED
      BY <2>7, <3>2
  <2>9. request.limit < NumQueues => Linked(request.limit) /\ n \in Levels /\ n <= request.limit
    <3>1. request.limit < NumQueues => Linked(request.limit) /\ request.limit \in Levels
      <4>1. request.limit \in 0 .. NumQueues
        BY <2>1 DEF TypeOK, Requests
      <4> QED
        BY <2>1, <4>1, QueueAssumption DEF LoopOK, Levels
    <3> QED
      BY <2>1, <2>2, <2>5, <3>1 DEF Pointers
  <2>10. LoopOK'
    BY <2>1, <2>2, <2>4, <2>7, <2>8, <2>9, Zenon DEF LoopOK, Linked, queueVars
  <2>11. TypeOK'
    BY <2>1, <2>2 DEF TypeOK, queueVars, Pointers, Requests
  <2>12. LinksOK'
    BY <2>1 DEF LinksOK, Linked, queueVars
  <2> QED
    BY <2>10, <2>11, <2>12, Zenon
<1>3. CASE LoopEnd
  BY <1>3 DEF LoopEnd, TypeOK, LinksOK, Linked, LoopOK, queueVars, Pointers, Requests
<1> QED
  BY <1>1, <1>2, <1>3 DEF Loop

(* IInv is inductive.                                                      *)
LEMMA InitIInv == Init => IInv
<1> SUFFICES ASSUME Init PROVE IInv
  OBVIOUS
<1>1. <<>> \in Seq(Threads)
  BY EmptySeq
<1>2. data \in [Levels -> Seq(Threads)]
  BY <1>1 DEF Init
<1>3. TypeOK
  BY <1>2 DEF Init, TypeOK, Pointers
<1>4. LinksOK
  BY QueueAssumption DEF Init, LinksOK, Linked, Levels
<1> QED
  BY <1>3, <1>4 DEF Init, LoopOK, IInv

LEMMA NextIInv == IInv /\ [Next]_vars => IInv'
<1> SUFFICES ASSUME IInv, [Next]_vars PROVE IInv'
  OBVIOUS
<1>1. CASE Next
  BY <1>1, PreparingSteps, ListSteps, ResetSteps, AskSteps, LoopSteps, Zenon DEF Next
<1>2. CASE UNCHANGED vars
  BY <1>2 DEF vars, queueVars, loopVars, IInv, TypeOK, LinksOK, Linked, LoopOK, Pointers,
              Requests
<1> QED
  BY <1>1, <1>2

LEMMA InductiveInvariant == Spec => []IInv
BY InitIInv, NextIInv, PTL DEF Spec

(* The links of ThreadQueueList lead, in order, through exactly the levels *)
(* that were used, for every order of prepare, push, move, pop and clear.  *)
THEOREM LinksCorrect == Spec => []LinksOK
<1>1. IInv => LinksOK
  BY DEF IInv
<1> QED
  BY <1>1, InductiveInvariant, PTL

(* pop_first_better and the other loops never follow nullptr or            *)
(* UnlinkedTag, because the level of every thread is linked.               *)
THEOREM PointersCorrect == Spec => []NoBadPointer
<1>1. IInv => NoBadPointer
  BY WalkingAt DEF NoBadPointer
<1> QED
  BY <1>1, InductiveInvariant, PTL
-----------------------------------------------------------------------------
(* The refinement of PriorityQueue.                                        *)

(* The callers' steps edit the lists or change nothing of them.            *)
LEMMA EditSteps ==
    ASSUME IInv, request = Idle, UNCHANGED loopVars,
           \/ \E t \in Threads, p \in Levels : CreateThread(t, p) \/ BoostPriority(t, p)
           \/ \E t \in Threads : PushBack(t) \/ PushFront(t) \/ Stop(t)
           \/ \E p \in Levels : Rotate(p)
           \/ Clear \/ SaveLoad
    PROVE  [PQ!Next]_<<data, request, answer>>
<1>1. UNCHANGED <<request, answer>>
  BY DEF loopVars
<1>2. ASSUME data' # data,
             \/ \E p \in Levels, t \in Threads : PQ!PushBack(p, t) \/ PQ!PushFront(p, t)
             \/ \E p \in Levels : PQ!Rotate(p)
             \/ \E p \in Levels : \E i \in DOMAIN data[p] : PQ!Erase(p, i)
             \/ \E p, new \in Levels : \E i \in DOMAIN data[p] : PQ!Move(p, i, new)
             \/ PQ!Clear
      PROVE  PQ!Next
  BY <1>1, <1>2 DEF PQ!Next, PQ!Edit, PQ!Levels, Levels
<1>3. ASSUME NEW t \in Threads, NEW p \in Levels, CreateThread(t, p)
      PROVE  PQ!PushBack(p, t)
  BY <1>3 DEF CreateThread, PQ!PushBack
<1>4. ASSUME NEW t \in Threads, Queued(t)
      PROVE  /\ level[t] \in Levels
             /\ \E i \in DOMAIN data[level[t]] :
                   /\ data[level[t]][i] = t
                   /\ RemoveFirst(data[level[t]], t) = PQ!Without(data[level[t]], i)
  <2> DEFINE s == data[level[t]]
  <2>1. level[t] \in Levels /\ s \in Seq(Threads) /\ t \in Range(s)
    BY <1>4 DEF Queued, IInv, TypeOK
  <2> HIDE DEF s
  <2>2. \E i \in DOMAIN s : /\ s[i] = t
                            /\ RemoveFirst(s, t) =
                                  SubSeq(s, 1, i - 1) \o SubSeq(s, i + 1, Len(s))
    BY <2>1, RemoveFirstIndex, Zenon
  <2> QED
    BY <2>1, <2>2, Zenon DEF PQ!Without, s
<1>5. ASSUME NEW t \in Threads, NEW p \in Levels, BoostPriority(t, p), data' # data
      PROVE  \E l, new \in Levels : \E i \in DOMAIN data[l] : PQ!Move(l, i, new)
  <2> DEFINE l == level[t]
  <2>1. /\ Queued(t)
        /\ data' = LET d == [data EXCEPT ![l] = RemoveFirst(@, t)]
                   IN  [d EXCEPT ![p] = Append(@, t)]
    BY <1>5, Zenon DEF BoostPriority
  <2>2. PICK i \in DOMAIN data[l] :
          data[l][i] = t /\ RemoveFirst(data[l], t) = PQ!Without(data[l], i)
    BY <1>4, <2>1, Zenon
  <2>3. l \in Levels
    BY <1>4, <2>1
  <2> HIDE DEF l
  <2>4. PQ!Move(l, i, p)
    BY <2>1, <2>2, Zenon DEF PQ!Move
  <2> QED
    BY <2>2, <2>3, <2>4, Zenon
<1>6. ASSUME NEW t \in Threads, PushBack(t) \/ PushFront(t)
      PROVE  level[t] \in Levels /\ (PQ!PushBack(level[t], t) \/ PQ!PushFront(level[t], t))
  BY <1>6 DEF PushBack, PushFront, PQ!PushBack, PQ!PushFront, IInv, TypeOK
<1>7. ASSUME NEW t \in Threads, Stop(t), data' # data
      PROVE  \E l \in Levels : \E i \in DOMAIN data[l] : PQ!Erase(l, i)
  <2> DEFINE l == level[t]
  <2>1. Queued(t) /\ data' = [data EXCEPT ![l] = RemoveFirst(@, t)]
    BY <1>7, Zenon DEF Stop
  <2>2. PICK i \in DOMAIN data[l] : RemoveFirst(data[l], t) = PQ!Without(data[l], i)
    BY <1>4, <2>1, Zenon
  <2>3. l \in Levels
    BY <1>4, <2>1
  <2> HIDE DEF l
  <2>4. PQ!Erase(l, i)
    BY <2>1, <2>2 DEF PQ!Erase
  <2> QED
    BY <2>2, <2>3, <2>4, Zenon
<1>8. ASSUME NEW p \in Levels, Rotate(p)
      PROVE  PQ!Rotate(p)
  BY <1>8 DEF Rotate, PQ!Rotate, IInv, TypeOK
<1>9. Clear => PQ!Clear
  BY DEF Clear, PQ!Clear, PQ!Levels, Levels
<1>10. CASE data' = data
  BY <1>1, <1>10, Zenon
<1>11. CASE data' # data
  <2>1. ~SaveLoad
    BY <1>11 DEF SaveLoad
  <2> QED
    BY <1>2, <1>3, <1>5, <1>6, <1>7, <1>8, <1>9, <1>11, <2>1, Zenon
<1> QED
  BY <1>10, <1>11

(* Every step of ThreadQueueList is a step of PriorityQueue or changes     *)
(* nothing of it.                                                          *)
LEMMA StepRefines ==
    ASSUME IInv, [Next]_vars
    PROVE  [PQ!Next]_<<data, request, answer>>
<1>1. CASE \/ \E t \in Threads, p \in Levels : CreateThread(t, p) \/ BoostPriority(t, p)
           \/ \E t \in Threads : PushBack(t) \/ PushFront(t) \/ Stop(t)
           \/ \E p \in Levels : Rotate(p)
           \/ Clear \/ SaveLoad
  <2>1. request = Idle /\ UNCHANGED loopVars
    BY <1>1, Zenon
       DEF CreateThread, BoostPriority, PushBack, PushFront, Stop, Rotate, Clear, SaveLoad
  <2> QED
    BY <1>1, <2>1, EditSteps, SMTT(30)
<1>2. CASE GetFirst \/ PopFirst \/ \E t \in Threads : PopFirstBetter(t)
  <2>1. IInv'
    BY <1>2, AskSteps, Zenon
  <2>2. request = Idle /\ request' # Idle /\ UNCHANGED <<data, answer>>
    BY <1>2, QueueAssumption DEF GetFirst, PopFirst, PopFirstBetter, Ask, queueVars, IInv,
                                 TypeOK, Levels
  <2>3. request' \in Requests
    BY <2>1, <2>2 DEF IInv, TypeOK, Requests
  <2>4. PQ!Ask
    BY <2>2, <2>3 DEF PQ!Ask, PQ!Requests, Requests
  <2> QED
    BY <2>4 DEF PQ!Next
<1>3. CASE LoopFound
  <2>1. /\ cur \in Levels /\ cur < request.limit
        /\ \A p \in Levels : p < cur => data[p] = <<>>
    BY <1>3, WalkingAt DEF LoopFound
  <2>2. PQ!Found(cur)
    BY <1>3, <2>1 DEF LoopFound, Walking, PQ!Found, PQ!Best, PQ!Levels, Levels
  <2> QED
    BY <2>1, <2>2 DEF PQ!Next, PQ!Levels, Levels
<1>4. CASE LoopNext
  BY <1>4 DEF LoopNext, queueVars
<1>5. CASE LoopEnd
  <2>1. \A p \in Levels : p < request.limit => data[p] = <<>>
    BY <1>5, LoopEndAt DEF LoopEnd
  <2>2. PQ!NotFound
    BY <1>5, <2>1 DEF LoopEnd, queueVars, PQ!NotFound, PQ!Levels, Levels
  <2> QED
    BY <2>2 DEF PQ!Next
<1>6. CASE UNCHANGED vars
  BY <1>6 DEF vars, queueVars, loopVars
<1> QED
  BY <1>1, <1>2, <1>3, <1>4, <1>5, <1>6, Zenon DEF Next, Loop

(* The linked structure implements the priority queue: whatever levels     *)
(* were used before, get_first, pop_first and pop_first_better return the  *)
(* first thread of the best level that has one, below the limit.           *)
THEOREM QueueRefinement == Spec => IsPriorityQueue
<1>1. Init => PQ!Init
  BY DEF Init, PQ!Init, PQ!Levels, Levels
<1>2. IInv /\ [Next]_vars => [PQ!Next]_<<data, request, answer>>
  BY StepRefines
<1>3. <<data, request, answer>> = PQ!abstractVars
  BY DEF PQ!abstractVars
<1> QED
  BY <1>1, <1>2, <1>3, InductiveInvariant, PTL DEF Spec, IsPriorityQueue, PQ!Spec, PQ!abstractVars
=============================================================================
