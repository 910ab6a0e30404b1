---------------------------- MODULE KernelProofs ----------------------------
(***************************************************************************)
(* The type invariant of Kernel holds for any number of threads, objects,  *)
(* cores and priorities: first the calls the kernel makes itself, then     *)
(* the system calls, the run loop and the timers.  Then the bookkeeping of *)
(* mutexes: the inductive invariant is TypeOK and MutexOK, and the last    *)
(* conjunct of MutexOK, on threads whose mutexes are being released, is    *)
(* what makes it inductive.                                                *)
(***************************************************************************)
EXTENDS Kernel, FiniteSetTheorems, WellFoundedInduction, TLAPS

-----------------------------------------------------------------------------
(* Lists and calls.                                                        *)

(* The parts and the elements of a list.                                   *)
LEMMA EmptySeq == \A S : <<>> \in Seq(S)
OBVIOUS

LEMMA HeadTailProperties ==
    ASSUME NEW S, NEW s \in Seq(S), s # <<>>
    PROVE  Head(s) \in S /\ Tail(s) \in Seq(S)
OBVIOUS

LEMMA ConcatProperties ==
    ASSUME NEW S, NEW a \in Seq(S), NEW b \in Seq(S)
    PROVE  /\ a \o b \in Seq(S) /\ Len(a \o b) = Len(a) + Len(b)
           /\ \A i \in 1 .. Len(a) + Len(b) :
                  (a \o b)[i] = IF i <= Len(a) THEN a[i] ELSE b[i - Len(a)]
OBVIOUS

LEMMA SubSeqProperties ==
    ASSUME NEW S, NEW s \in Seq(S), NEW m \in Nat \ {0}, NEW n \in 0 .. Len(s), m <= n + 1
    PROVE  /\ SubSeq(s, m, n) \in Seq(S) /\ Len(SubSeq(s, m, n)) = n - m + 1
           /\ \A i \in 1 .. n - m + 1 : SubSeq(s, m, n)[i] = s[m + i - 1]
OBVIOUS

(* A nonempty set of priorities or indices has a least element, which Min  *)
(* returns (BestPriority, SelectInSeq).                                    *)
LEMMA MinOfNaturals ==
    ASSUME NEW S, S \subseteq Nat, S # {}
    PROVE  Min(S) \in S /\ \A y \in S : Min(S) <= y
<1> DEFINE R == OpToRel(<, Nat)
<1>1. IsWellFoundedOn(R, Nat)
  BY NatLessThanWellFounded, Zenon
<1> HIDE DEF R
<1>2. PICK x \in S : \A y \in S : <<y, x>> \notin R
  BY <1>1, WFMin, Zenon
<1>3. \A y \in S : x <= y
  <2> SUFFICES ASSUME NEW y \in S PROVE x <= y
    OBVIOUS
  <2>1. y < x => <<y, x>> \in R
    BY DEF R, OpToRel
  <2> QED
    BY <1>2, <2>1
<1> QED
  BY <1>3, Zenon DEF Min

(* To erase a thread from a list leaves a list of threads.                 *)
LEMMA RemoveFirstType ==
    ASSUME NEW S, NEW s \in Seq(S), NEW e
    PROVE  RemoveFirst(s, e) \in Seq(S)
<1>1. CASE e \notin Range(s)
  BY <1>1 DEF RemoveFirst
<1>2. CASE e \in Range(s)
  <2> DEFINE I == {i \in 1 .. Len(s) : s[i] = e}
             k == Min(I)
  <2>1. I \subseteq Nat /\ I # {}
    BY <1>2 DEF Range
  <2>2. k \in 1 .. Len(s)
    BY <2>1, MinOfNaturals, Zenon
  <2>3. RemoveFirst(s, e) = RemoveAt(s, k)
    BY <1>2 DEF RemoveFirst
  <2> HIDE DEF k
  <2>4. SubSeq(s, 1, k - 1) \in Seq(S) /\ SubSeq(s, k + 1, Len(s)) \in Seq(S)
    BY <2>2, SubSeqProperties
  <2> QED
    BY <2>3, <2>4, ConcatProperties DEF RemoveAt
<1> QED
  BY <1>1, <1>2

(* To reverse a list of threads gives a list of threads.                   *)
LEMMA ReverseType ==
    ASSUME NEW S, NEW s \in Seq(S)
    PROVE  Reverse(s) \in Seq(S)
BY DEF Reverse

(* Any enumeration of a finite set is a list of its members.               *)
LEMMA SetToSeqType ==
    ASSUME NEW S, IsFiniteSet(S)
    PROVE  SetToSeq(S) \in Seq(S)
<1>1. ExistsBijection(1 .. Cardinality(S), S)
  BY FS_CardinalityType
<1>2. \E f \in [1 .. Cardinality(S) -> S] : IsInjective(f)
  BY <1>1 DEF ExistsBijection, Bijection, Injection, IsInjective
<1>3. SetToSeq(S) \in [1 .. Cardinality(S) -> S]
  BY <1>2 DEF SetToSeq
<1>4. Cardinality(S) \in Nat
  BY FS_CardinalityType
<1> QED
  BY <1>3, <1>4

(* The next call is on a thread and an object of the right kind.           *)
LEMMA HeadCallType ==
    ASSUME todo \in Seq(CallSet), todo # <<>>
    PROVE  /\ Tail(todo) \in Seq(CallSet)
           /\ Head(todo) \in CallSet
           /\ Head(todo).op \in {"acquire", "add", "remove"}
                 => CallThread \in Threads /\ CallObject \in Objects
           /\ Head(todo).op \in {"resume", "release", "stop"} => CallThread \in Threads
           /\ Head(todo).op = "wake" => CallObject \in Objects
           /\ Head(todo).op = "update" => CallObject \in Mutexes
<1>1. Head(todo) \in CallSet /\ Tail(todo) \in Seq(CallSet)
  BY HeadTailProperties
<1> QED
  BY <1>1 DEF CallSet, CallThread, CallObject

(* Calls on each object of a list.                                         *)
LEMMA CallsOnType ==
    ASSUME NEW op \in {"acquire", "add", "remove"}, NEW t \in Threads, NEW os \in Seq(Objects)
    PROVE  CallsOn(op, t, os) \in Seq(CallSet)
<1>1. \A i \in 1 .. Len(os) : Call(op, t, os[i]) \in CallSet
  BY DEF Call, CallSet
<1> QED
  BY <1>1 DEF CallsOn

(* Single calls.                                                           *)
LEMMA CallType ==
    /\ \A t \in Threads : /\ Call("resume", t, None) \in CallSet
                          /\ Call("release", t, None) \in CallSet
                          /\ Call("stop", t, None) \in CallSet
    /\ \A o \in Objects : Call("wake", None, o) \in CallSet
    /\ \A m \in Mutexes : Call("update", None, m) \in CallSet
BY DEF Call, CallSet

-----------------------------------------------------------------------------
(* Priorities.                                                             *)

(* The best of a priority and of those of some mutexes is a priority.      *)
LEMMA BestPriorityType ==
    ASSUME NEW n \in Prio, NEW P \in SUBSET Prio
    PROVE  BestPriority(n, P) \in Prio
<1>1. {n} \cup P \subseteq Nat /\ {n} \cup P # {}
  BY DEF Prio
<1>2. Min({n} \cup P) \in {n} \cup P
  BY <1>1, MinOfNaturals
<1> QED
  BY <1>2 DEF BestPriority

(* BoostPriority keeps priorities and queues typed.                        *)
LEMMA BoostPriorityType ==
    ASSUME ThreadTypeOK, CoreTypeOK, NEW t \in Threads, NEW prio \in Prio,
           BoostPriority(t, prio)
    PROVE  /\ current_priority' \in [Threads -> Prio]
           /\ ready_queue' \in [Cores -> [Prio -> Seq(Threads)]]
<1>1. current_priority' \in [Threads -> Prio]
  BY DEF BoostPriority, ThreadTypeOK
<1>2. CASE status[t] # "Ready"
  BY <1>1, <1>2 DEF BoostPriority, CoreTypeOK
<1>3. CASE status[t] = "Ready"
  <2>1. CoreOf[t] \in Cores /\ current_priority[t] \in Prio
    BY ConstantsAssumption DEF ThreadTypeOK
  <2> DEFINE q == ready_queue[CoreOf[t]]
             r == [q EXCEPT ![current_priority[t]] = RemoveFirst(@, t)]
  <2>2. q \in [Prio -> Seq(Threads)]
    BY <2>1 DEF CoreTypeOK
  <2>3. r \in [Prio -> Seq(Threads)]
    BY <2>1, <2>2, RemoveFirstType
  <2>4. QueueMove(q, t, current_priority[t], prio) = [r EXCEPT ![prio] = Append(@, t)]
    BY DEF QueueMove
  <2> HIDE DEF r, q
  <2>5. [r EXCEPT ![prio] = Append(@, t)] \in [Prio -> Seq(Threads)]
    BY <2>3
  <2>6. ready_queue' = [ready_queue EXCEPT ![CoreOf[t]] =
                          QueueMove(q, t, current_priority[t], prio)]
    BY <1>3 DEF BoostPriority, q
  <2>7. ready_queue' \in [Cores -> [Prio -> Seq(Threads)]]
    BY <2>1, <2>4, <2>5, <2>6, SMTT(30) DEF CoreTypeOK
  <2> QED
    BY <1>1, <2>7
<1> QED
  BY <1>2, <1>3

(* UpdatePriority keeps priorities and queues typed.                       *)
LEMMA UpdatePriorityType ==
    ASSUME ThreadTypeOK, CoreTypeOK, NEW t \in Threads, NEW held \in SUBSET Mutexes,
           NEW mprio \in [Mutexes -> Prio], UpdatePriority(t, held, mprio)
    PROVE  /\ current_priority' \in [Threads -> Prio]
           /\ ready_queue' \in [Cores -> [Prio -> Seq(Threads)]]
<1>1. {mprio[m] : m \in held} \in SUBSET Prio /\ nominal_priority[t] \in Prio
  BY DEF ThreadTypeOK
<1>2. BestPriority(nominal_priority[t], {mprio[m] : m \in held}) \in Prio
  BY <1>1, BestPriorityType
<1> QED
  BY <1>2, BoostPriorityType DEF UpdatePriority

(* Mutex::UpdatePriority keeps priorities and queues typed.                *)
LEMMA MutexUpdatePriorityType ==
    ASSUME ThreadTypeOK, ObjectTypeOK, CoreTypeOK, NEW m \in Mutexes,
           NEW waiters \in Seq(Threads), MutexUpdatePriority(m, waiters)
    PROVE  /\ priority' \in [Mutexes -> Prio]
           /\ current_priority' \in [Threads -> Prio]
           /\ ready_queue' \in [Cores -> [Prio -> Seq(Threads)]]
<1> DEFINE holder == holding_thread[m]
           B == {PrioLowest} \cup {current_priority[w] : w \in Range(waiters)}
<1>1. CASE holder = None \/ Min(B) = priority[m]
  BY <1>1 DEF MutexUpdatePriority, ThreadTypeOK, ObjectTypeOK, CoreTypeOK
<1>2. CASE ~(holder = None \/ Min(B) = priority[m])
  <2>1. holder \in Threads
    BY <1>2 DEF ObjectTypeOK
  <2>2. Range(waiters) \subseteq Threads
    BY DEF Range
  <2>3. B \subseteq Prio /\ B \subseteq Nat /\ B # {}
    BY <2>2, ConstantsAssumption DEF Prio, ThreadTypeOK
  <2>4. Min(B) \in Prio
    BY <2>3, MinOfNaturals
  <2>5. /\ priority' = [priority EXCEPT ![m] = Min(B)]
        /\ UpdatePriority(holder, held_mutexes[holder], priority')
    BY <1>2 DEF MutexUpdatePriority
  <2>6. priority' \in [Mutexes -> Prio]
    BY <2>4, <2>5 DEF ObjectTypeOK
  <2>7. held_mutexes[holder] \in SUBSET Mutexes
    BY <2>1 DEF ThreadTypeOK
  <2> HIDE DEF holder, B
  <2> QED
    BY <2>1, <2>5, <2>6, <2>7, UpdatePriorityType, Zenon
<1> QED
  BY <1>1, <1>2
-----------------------------------------------------------------------------
(* Every step keeps the types: the kernel calls.                           *)

(* Mutex::Acquire.                                                         *)
LEMMA AcquireMutexType ==
    ASSUME TypeOK, AcquireMutex
    PROVE  TypeOK'
<1> DEFINE t == CallThread
           m == CallObject
<1> USE DEF TypeOK
<1>1. /\ todo \in Seq(CallSet) /\ todo # <<>> /\ Head(todo).op = "acquire"
      /\ m \in Mutexes
  BY DEF AcquireMutex, NextCall, LoopTypeOK
<1>2. t \in Threads /\ Tail(todo) \in Seq(CallSet)
  BY <1>1, HeadCallType
<1> HIDE DEF t, m
<1>3. LoopTypeOK'
  BY <1>1, <1>2, Zenon DEF AcquireMutex, LoopTypeOK, PrepareReschedule
<1>4. lock_count' \in [Mutexes -> Nat]
  BY <1>1 DEF AcquireMutex, ObjectTypeOK, m
<1>5. CASE lock_count[m] = 0
  <2>1. /\ priority' = [priority EXCEPT ![m] = current_priority[t]]
        /\ held_mutexes' = [held_mutexes EXCEPT ![t] = @ \cup {m}]
        /\ holding_thread' = [holding_thread EXCEPT ![m] = t]
        /\ UpdatePriority(t, held_mutexes'[t], priority')
    BY <1>5 DEF AcquireMutex, m, t
  <2>2. priority' \in [Mutexes -> Prio] /\ held_mutexes' \in [Threads -> SUBSET Mutexes]
    BY <1>1, <1>2, <2>1 DEF ThreadTypeOK, ObjectTypeOK
  <2>3. holding_thread' \in [Mutexes -> Threads \cup {None}]
    BY <1>1, <1>2, <2>1 DEF ObjectTypeOK
  <2>4. held_mutexes'[t] \in SUBSET Mutexes
    BY <1>2, <2>2
  <2>5. /\ current_priority' \in [Threads -> Prio]
        /\ ready_queue' \in [Cores -> [Prio -> Seq(Threads)]]
    BY <1>2, <2>1, <2>2, <2>4, UpdatePriorityType, ZenonT(40)
  <2>6. ThreadTypeOK'
    BY <2>2, <2>5 DEF AcquireMutex, ThreadTypeOK
  <2>7. ObjectTypeOK'
    BY <1>4, <2>2, <2>3 DEF AcquireMutex, ObjectTypeOK
  <2>8. CoreTypeOK'
    BY <2>5, Zenon DEF AcquireMutex, CoreTypeOK
  <2> QED
    BY <1>3, <2>6, <2>7, <2>8
<1>6. CASE lock_count[m] # 0
  <2>1. UNCHANGED <<priority, held_mutexes, holding_thread, current_priority, ready_queue>>
    BY <1>6 DEF AcquireMutex, m
  <2> QED
    BY <1>3, <1>4, <2>1 DEF AcquireMutex, ThreadTypeOK, ObjectTypeOK, CoreTypeOK
<1> QED
  BY <1>5, <1>6

(* Event::Acquire, Semaphore::Acquire and Thread::Acquire.                 *)
LEMMA AcquireOtherType ==
    ASSUME TypeOK, AcquireEvent \/ AcquireSemaphore \/ AcquireThread
    PROVE  TypeOK'
<1> USE DEF TypeOK
<1>1. /\ todo \in Seq(CallSet) /\ todo # <<>> /\ todo' = Tail(todo)
      /\ UNCHANGED <<threadVars, waiting_threads, lock_count, holding_thread, priority,
                     coreVars, reschedule_pending, halted, agenda, signalled_wake>>
  BY DEF AcquireEvent, AcquireSemaphore, AcquireThread, NextCall, LoopTypeOK, objectVars
<1>2. todo' \in Seq(CallSet)
  BY <1>1, HeadCallType
<1>3. signaled' \in [Events -> BOOLEAN]
  BY ZenonT(40) DEF AcquireEvent, AcquireSemaphore, AcquireThread, ObjectTypeOK, objectVars
<1>4. available_count' \in [Semaphores -> Nat]
  BY DEF AcquireEvent, AcquireSemaphore, AcquireThread, ObjectTypeOK, objectVars
<1>5. \A s \in Semaphores : available_count'[s] <= MaxCount[s]
  BY ConstantsAssumption
     DEF AcquireEvent, AcquireSemaphore, AcquireThread, ObjectTypeOK, objectVars
<1> QED
  BY <1>1, <1>2, <1>3, <1>4, <1>5, Zenon
     DEF ThreadTypeOK, ObjectTypeOK, CoreTypeOK, LoopTypeOK, threadVars, coreVars

(* AddWaitingThread and RemoveWaitingThread.                               *)
LEMMA WaitListType ==
    ASSUME TypeOK, AddWaitingThread \/ RemoveWaitingThread
    PROVE  TypeOK'
<1> DEFINE t == CallThread
           o == CallObject
<1> USE DEF TypeOK
<1>1. /\ todo \in Seq(CallSet) /\ todo # <<>> /\ Head(todo).op \in {"add", "remove"}
      /\ todo' = Tail(todo)
  BY DEF AddWaitingThread, RemoveWaitingThread, NextCall, LoopTypeOK
<1>2. t \in Threads /\ o \in Objects /\ todo' \in Seq(CallSet)
  BY <1>1, HeadCallType
<1> HIDE DEF t, o
<1>3. /\ Append(waiting_threads[o], t) \in Seq(Threads)
      /\ RemoveFirst(waiting_threads[o], t) \in Seq(Threads)
  BY <1>2, RemoveFirstType DEF ObjectTypeOK
<1>4. \/ waiting_threads' = waiting_threads
      \/ waiting_threads' = [waiting_threads EXCEPT ![o] = Append(@, t)]
      \/ waiting_threads' = [waiting_threads EXCEPT ![o] = RemoveFirst(@, t)]
  BY DEF AddWaitingThread, RemoveWaitingThread, t, o
<1>5. waiting_threads' \in [Objects -> Seq(Threads)]
  BY <1>2, <1>3, <1>4, ZenonT(40) DEF ObjectTypeOK
<1>6. /\ pending_mutexes' \in [Threads -> SUBSET Mutexes]
      /\ priority' \in [Mutexes -> Prio]
      /\ current_priority' \in [Threads -> Prio]
      /\ ready_queue' \in [Cores -> [Prio -> Seq(Threads)]]
  <2>1. CASE o \in Mutexes
    <3>1. /\ \/ pending_mutexes' = [pending_mutexes EXCEPT ![t] = @ \cup {o}]
             \/ pending_mutexes' = [pending_mutexes EXCEPT ![t] = @ \ {o}]
          /\ MutexUpdatePriority(o, waiting_threads'[o])
      BY <2>1 DEF AddWaitingThread, RemoveWaitingThread, t, o
    <3>2. pending_mutexes' \in [Threads -> SUBSET Mutexes]
      <4>1. /\ pending_mutexes[t] \cup {o} \in SUBSET Mutexes
            /\ pending_mutexes[t] \ {o} \in SUBSET Mutexes
        BY <1>2, <2>1 DEF ThreadTypeOK
      <4>2. CASE pending_mutexes' = [pending_mutexes EXCEPT ![t] = @ \cup {o}]
        BY <4>1, <4>2, Zenon DEF ThreadTypeOK
      <4>3. CASE pending_mutexes' = [pending_mutexes EXCEPT ![t] = @ \ {o}]
        BY <4>1, <4>3, ZenonT(40) DEF ThreadTypeOK
      <4> QED
        BY <3>1, <4>2, <4>3
    <3>3. waiting_threads'[o] \in Seq(Threads)
      BY <1>2, <1>5, Zenon
    <3> QED
      BY <2>1, <3>1, <3>2, <3>3, MutexUpdatePriorityType, Zenon
  <2>2. CASE o \notin Mutexes
    BY <2>2, Zenon DEF AddWaitingThread, RemoveWaitingThread, ThreadTypeOK, ObjectTypeOK,
                CoreTypeOK, o
  <2> QED
    BY <2>1, <2>2
<1>7. UNCHANGED <<status, nominal_priority, wait_objects, held_mutexes, wakeup_callback,
                  can_schedule, context, armed, lock_count, holding_thread, signaled,
                  available_count, current_thread, r0, reschedule_pending, halted,
                  agenda, signalled_wake>>
  BY DEF AddWaitingThread, RemoveWaitingThread
<1>8. ThreadTypeOK'
  BY <1>6, <1>7, Zenon DEF ThreadTypeOK
<1>9. ObjectTypeOK'
  BY <1>5, <1>6, <1>7 DEF ObjectTypeOK
<1> QED
  BY <1>2, <1>6, <1>7, <1>8, <1>9, Zenon DEF CoreTypeOK, LoopTypeOK

(* A level of a ready queue may be replaced by another list of threads.    *)
LEMMA QueueLevelType ==
    ASSUME CoreTypeOK, NEW c \in Cores, NEW p \in Prio, NEW level \in Seq(Threads)
    PROVE  [ready_queue EXCEPT ![c][p] = level] \in [Cores -> [Prio -> Seq(Threads)]]
<1>1. [ready_queue[c] EXCEPT ![p] = level] \in [Prio -> Seq(Threads)]
  BY DEF CoreTypeOK
<1> QED
  BY <1>1 DEF CoreTypeOK

(* Thread::ResumeFromWait.                                                 *)
LEMMA ResumeFromWaitType ==
    ASSUME TypeOK, ResumeFromWait
    PROVE  TypeOK'
<1> DEFINE t == CallThread
           c == CoreOf[t]
           p == current_priority[t]
<1> USE DEF TypeOK
<1>1. todo \in Seq(CallSet) /\ todo # <<>> /\ Head(todo).op = "resume" /\ todo' = Tail(todo)
  BY DEF ResumeFromWait, NextCall, LoopTypeOK
<1>2. t \in Threads /\ todo' \in Seq(CallSet)
  BY <1>1, HeadCallType, Zenon
<1>3. c \in Cores /\ p \in Prio /\ ready_queue[c][p] \in Seq(Threads)
  BY <1>2, ConstantsAssumption DEF ThreadTypeOK, CoreTypeOK
<1>4. Append(ready_queue[c][p], t) \in Seq(Threads)
  BY <1>2, <1>3
<1>5. ready_queue' \in [Cores -> [Prio -> Seq(Threads)]]
  <2>1. \/ ready_queue' = ready_queue
        \/ ready_queue' = [ready_queue EXCEPT ![c][p] = Append(ready_queue[c][p], t)]
    BY DEF ResumeFromWait
  <2> HIDE DEF t, c, p
  <2>2. [ready_queue EXCEPT ![c][p] = Append(ready_queue[c][p], t)]
          \in [Cores -> [Prio -> Seq(Threads)]]
    BY <1>3, <1>4, QueueLevelType
  <2> QED
    BY <2>1, <2>2, ZenonT(40) DEF CoreTypeOK
<1>6. /\ status' \in [Threads -> Status]
      /\ wait_objects' \in [Threads -> Seq(Objects)]
      /\ wakeup_callback' \in [Threads -> BOOLEAN]
  <2>1. status' \in [Threads -> Status]
    BY ZenonT(40) DEF ResumeFromWait, ThreadTypeOK, Status
  <2>2. wait_objects' \in [Threads -> Seq(Objects)]
    <3>1. wait_objects' = [wait_objects EXCEPT ![t] = <<>>] /\ <<>> \in Seq(Objects)
      BY EmptySeq DEF ResumeFromWait
    <3> HIDE DEF t
    <3> QED
      BY <3>1, Zenon DEF ThreadTypeOK
  <2>3. wakeup_callback' \in [Threads -> BOOLEAN]
    BY ZenonT(40) DEF ResumeFromWait, ThreadTypeOK
  <2> QED
    BY <2>1, <2>2, <2>3, Zenon
<1>7. ThreadTypeOK'
  BY <1>6, Zenon DEF ResumeFromWait, ThreadTypeOK
<1>8. ObjectTypeOK'
  BY Zenon DEF ResumeFromWait, ObjectTypeOK, objectVars
<1>9. CoreTypeOK'
  BY <1>5 DEF ResumeFromWait, CoreTypeOK
<1>10. LoopTypeOK'
  BY <1>2, Zenon DEF ResumeFromWait, LoopTypeOK, PrepareReschedule
<1> QED
  BY <1>7, <1>8, <1>9, <1>10, Zenon

(* A thread that an object wakes is one that waits for it.                 *)
LEMMA CandidateType ==
    ASSUME ThreadTypeOK, ObjectTypeOK, NEW o \in Objects,
           GetHighestPriorityReadyThread(o) # None
    PROVE  /\ GetHighestPriorityReadyThread(o) \in Threads
           /\ GetHighestPriorityReadyThread(o) \in Range(waiting_threads[o])
<1> DEFINE list == waiting_threads[o]
           prio(i) == current_priority[list[i]]
           candidates == {i \in DOMAIN list : ReadyToRun(o, list[i])}
           best(i) == \A j \in candidates :
                         prio(i) < prio(j) \/ (prio(i) = prio(j) /\ i <= j)
<1>1. list \in Seq(Threads)
  BY Zenon DEF ObjectTypeOK
<1>2. \A i \in DOMAIN list : i \in Nat /\ list[i] \in Threads /\ prio(i) \in Nat
  BY <1>1 DEF ThreadTypeOK, Prio
<1>3. /\ candidates # {}
      /\ GetHighestPriorityReadyThread(o) = list[CHOOSE i \in candidates : best(i)]
  BY DEF GetHighestPriorityReadyThread
<1>4. candidates \subseteq DOMAIN list
  BY SMTT(30)
<1> HIDE DEF candidates
<1>5. \E i \in candidates : best(i)
  <2> DEFINE P == {prio(i) : i \in candidates}
             C == {i \in candidates : prio(i) = Min(P)}
  <2>1. P \subseteq Nat /\ P # {}
    BY <1>2, <1>3, <1>4, Zenon
  <2>2. Min(P) \in P /\ \A y \in P : Min(P) <= y
    BY <2>1, MinOfNaturals, Zenon
  <2>3. C \subseteq Nat /\ C # {}
    BY <1>2, <1>4, <2>2, Zenon
  <2>4. Min(C) \in C /\ \A y \in C : Min(C) <= y
    BY <2>3, MinOfNaturals, ZenonT(40)
  <2>5. ASSUME NEW j \in candidates
        PROVE  prio(Min(C)) < prio(j) \/ (prio(Min(C)) = prio(j) /\ Min(C) <= j)
    <3>1. prio(Min(C)) = Min(P) /\ Min(C) \in candidates
      BY <2>4, Zenon
    <3>2. Min(P) <= prio(j) /\ prio(j) \in Nat /\ Min(P) \in Nat
      BY <1>2, <1>4, <2>1, <2>2, Zenon
    <3>3. prio(j) = Min(P) => Min(C) <= j
      BY <2>4, Zenon
    <3> HIDE DEF C, P, prio
    <3> QED
      BY <3>1, <3>2, <3>3
  <2> QED
    BY <2>4, <2>5, ZenonT(40)
<1>6. (CHOOSE i \in candidates : best(i)) \in candidates
  BY <1>5
<1> QED
  BY <1>2, <1>3, <1>4, <1>6, Zenon DEF Range

(* One iteration of WakeupAllWaitingThreads, and its end.                  *)
LEMMA WakeupType ==
    ASSUME TypeOK, WakeupNext \/ WakeupDone
    PROVE  TypeOK'
<1> DEFINE o == CallObject
           t == GetHighestPriorityReadyThread(o)
<1> USE DEF TypeOK
<1>1. todo \in Seq(CallSet) /\ todo # <<>> /\ Head(todo).op = "wake"
  BY DEF WakeupNext, WakeupDone, NextCall, LoopTypeOK
<1>2. o \in Objects /\ Tail(todo) \in Seq(CallSet)
  BY <1>1, HeadCallType, Zenon
<1>3. CASE WakeupNext
  <2>1. t \in Threads
    BY <1>2, <1>3, CandidateType, SMTT(30) DEF WakeupNext
  <2> HIDE DEF t, o
  <2>2. wait_objects[t] \in Seq(Objects) /\ <<o>> \in Seq(Objects)
    BY <1>2, <2>1 DEF ThreadTypeOK
  <2> DEFINE os == IF status[t] = "WaitSynchAll" THEN wait_objects[t] ELSE <<o>>
             A == CallsOn("acquire", t, os)
             B == CallsOn("remove", t, wait_objects[t])
             R == <<Call("resume", t, None)>>
  <2>3. os \in Seq(Objects)
    BY <2>2
  <2>4. A \in Seq(CallSet) /\ B \in Seq(CallSet) /\ R \in Seq(CallSet)
    <3> HIDE DEF os
    <3> QED
      BY <2>1, <2>2, <2>3, CallsOnType, CallType
  <2>5. todo' = A \o B \o R \o todo
    BY <1>3 DEF WakeupNext, WakeupCalls, t, o
  <2> HIDE DEF A, B, R
  <2>6. todo' \in Seq(CallSet)
    BY <1>1, <2>4, <2>5, ConcatProperties, SMTT(30)
  <2>7. context' \in [Threads -> Results]
    BY <1>3, Zenon DEF WakeupNext, ThreadTypeOK, Results
  <2>8. signalled_wake' \in [Threads -> BOOLEAN]
    BY <1>3, ZenonT(40) DEF WakeupNext, LoopTypeOK
  <2>9. ThreadTypeOK'
    BY <1>3, <2>7, Zenon DEF WakeupNext, ThreadTypeOK
  <2>10. LoopTypeOK'
    BY <1>3, <2>6, <2>8, Zenon DEF WakeupNext, LoopTypeOK
  <2> QED
    BY <1>3, <2>9, <2>10, Zenon DEF WakeupNext, ObjectTypeOK, CoreTypeOK, objectVars, coreVars
<1>4. CASE WakeupDone
  <2>1. signaled' \in [Events -> BOOLEAN]
    BY <1>4 DEF WakeupDone, ObjectTypeOK
  <2>2. todo' \in Seq(CallSet)
    BY <1>2, <1>4, Zenon DEF WakeupDone
  <2> QED
    BY <1>4, <2>1, <2>2, Zenon DEF WakeupDone, ThreadTypeOK, ObjectTypeOK, CoreTypeOK, LoopTypeOK,
                            threadVars, coreVars
<1> QED
  BY <1>3, <1>4

(* ReleaseThreadMutexes.                                                   *)
LEMMA ReleaseThreadMutexesType ==
    ASSUME TypeOK, ReleaseThreadMutexes
    PROVE  TypeOK'
<1> DEFINE t == CallThread
<1> USE DEF TypeOK
<1>1. todo \in Seq(CallSet) /\ todo # <<>> /\ Head(todo).op = "release"
  BY DEF ReleaseThreadMutexes, NextCall, LoopTypeOK
<1>2. t \in Threads /\ Tail(todo) \in Seq(CallSet)
  BY <1>1, HeadCallType
<1> HIDE DEF t
<1>3. held_mutexes' \in [Threads -> SUBSET Mutexes]
  BY Zenon DEF ReleaseThreadMutexes, ThreadTypeOK, t
<1>4. lock_count' \in [Mutexes -> Nat]
  <2>1. lock_count' = lock_count \/ \E m : lock_count' = [lock_count EXCEPT ![m] = 0]
    BY Zenon DEF ReleaseThreadMutexes
  <2> QED
    BY <2>1 DEF ObjectTypeOK
<1>5. holding_thread' \in [Mutexes -> Threads \cup {None}]
  BY Zenon DEF ReleaseThreadMutexes, ObjectTypeOK
<1>6. todo' \in Seq(CallSet)
  <2>1. \A m \in Mutexes : <<Call("wake", None, m)>> \o todo \in Seq(CallSet)
    BY <1>1, CallType, ConcatProperties DEF Objects
  <2>2. held_mutexes[t] \subseteq Mutexes
    BY <1>2, Zenon DEF ThreadTypeOK
  <2> QED
    BY <1>2, <2>1, <2>2, ZenonT(40) DEF ReleaseThreadMutexes, t
<1>7. UNCHANGED <<status, nominal_priority, current_priority, wait_objects,
                  pending_mutexes, wakeup_callback, can_schedule, context, armed,
                  waiting_threads, priority, signaled, available_count, coreVars,
                  reschedule_pending, halted, agenda, signalled_wake>>
  BY DEF ReleaseThreadMutexes
<1>8. ThreadTypeOK'
  BY <1>3, <1>7, Zenon DEF ThreadTypeOK
<1>9. ObjectTypeOK'
  BY <1>4, <1>5, <1>7, Zenon DEF ObjectTypeOK
<1> QED
  BY <1>6, <1>7, <1>8, <1>9, Zenon DEF CoreTypeOK, LoopTypeOK, coreVars

(* Thread::Stop.                                                           *)
LEMMA StopType ==
    ASSUME TypeOK, Stop
    PROVE  TypeOK'
<1> DEFINE t == CallThread
           c == CoreOf[t]
           p == current_priority[t]
<1> USE DEF TypeOK
<1>1. todo \in Seq(CallSet) /\ todo # <<>> /\ Head(todo).op = "stop"
  BY DEF Stop, NextCall, LoopTypeOK
<1>2. t \in Threads /\ Tail(todo) \in Seq(CallSet)
  BY <1>1, HeadCallType, Zenon
<1>3. c \in Cores /\ p \in Prio /\ ready_queue[c][p] \in Seq(Threads)
  BY <1>2, ConstantsAssumption, SMTT(30) DEF ThreadTypeOK, CoreTypeOK
<1>4. RemoveFirst(ready_queue[c][p], t) \in Seq(Threads)
  BY <1>3, RemoveFirstType
<1>5. ready_queue' \in [Cores -> [Prio -> Seq(Threads)]]
  <2>1. \/ ready_queue' = ready_queue
        \/ ready_queue' = [ready_queue EXCEPT ![c][p] = RemoveFirst(ready_queue[c][p], t)]
    BY DEF Stop
  <2> HIDE DEF t, c, p
  <2>2. [ready_queue EXCEPT ![c][p] = RemoveFirst(ready_queue[c][p], t)]
          \in [Cores -> [Prio -> Seq(Threads)]]
    BY <1>3, <1>4, QueueLevelType, Zenon
  <2> QED
    BY <2>1, <2>2, ZenonT(40) DEF CoreTypeOK
<1> HIDE DEF t, c, p
<1>6. todo' \in Seq(CallSet)
  <2> DEFINE W == <<Call("wake", None, t)>>
             D == CallsOn("remove", t, wait_objects[t])
             R == <<Call("release", t, None)>>
  <2>1. W \in Seq(CallSet) /\ R \in Seq(CallSet)
    BY <1>2, CallType DEF Objects
  <2>2. wait_objects[t] \in Seq(Objects)
    BY <1>2 DEF ThreadTypeOK
  <2>3. D \in Seq(CallSet)
    BY <1>2, <2>2, CallsOnType, Zenon
  <2>4. todo' = W \o D \o R \o Tail(todo)
    BY DEF Stop, t
  <2> HIDE DEF W, D, R
  <2> QED
    BY <1>2, <2>1, <2>3, <2>4, ConcatProperties, Zenon
<1>7. armed' \in [Threads -> BOOLEAN]
  BY Zenon DEF Stop, ThreadTypeOK
<1>8. status' \in [Threads -> Status]
  BY ZenonT(40) DEF Stop, ThreadTypeOK, Status
<1>9. wait_objects' \in [Threads -> Seq(Objects)]
  <2>1. wait_objects' = [wait_objects EXCEPT ![t] = <<>>] /\ <<>> \in Seq(Objects)
    BY EmptySeq, Zenon DEF Stop, t
  <2> QED
    BY <2>1, Zenon DEF ThreadTypeOK
<1>10. ThreadTypeOK'
  BY <1>7, <1>8, <1>9, Zenon DEF Stop, ThreadTypeOK
<1> QED
  <2>1. UNCHANGED <<objectVars, current_thread, r0, reschedule_pending, halted, agenda,
                    signalled_wake>>
    BY Zenon DEF Stop
  <2>2. ObjectTypeOK'
    BY <2>1 DEF ObjectTypeOK, objectVars
  <2>3. CoreTypeOK'
    BY <1>5, <2>1, Zenon DEF CoreTypeOK
  <2>4. LoopTypeOK'
    BY <1>6, <2>1, Zenon DEF LoopTypeOK
  <2> QED
    BY <1>10, <2>2, <2>3, <2>4 DEF TypeOK

(* The loop over pending_mutexes in SetThreadPriority.                     *)
LEMMA UpdatePendingType ==
    ASSUME TypeOK, UpdatePending
    PROVE  TypeOK'
<1> DEFINE m == CallObject
<1> USE DEF TypeOK
<1>1. todo \in Seq(CallSet) /\ todo # <<>> /\ Head(todo).op = "update" /\ todo' = Tail(todo)
  BY DEF UpdatePending, NextCall, LoopTypeOK
<1>2. m \in Mutexes /\ todo' \in Seq(CallSet)
  BY <1>1, HeadCallType, Zenon
<1>3. waiting_threads[m] \in Seq(Threads)
  BY <1>2 DEF ObjectTypeOK, Objects
<1>4. MutexUpdatePriority(m, waiting_threads[m])
  BY DEF UpdatePending
<1> HIDE DEF m
<1>5. /\ priority' \in [Mutexes -> Prio]
      /\ current_priority' \in [Threads -> Prio]
      /\ ready_queue' \in [Cores -> [Prio -> Seq(Threads)]]
  BY <1>2, <1>3, <1>4, MutexUpdatePriorityType, Zenon
<1>6. ThreadTypeOK'
  BY <1>5, Zenon DEF UpdatePending, ThreadTypeOK
<1>7. ObjectTypeOK'
  BY <1>5 DEF UpdatePending, ObjectTypeOK
<1> QED
  BY <1>2, <1>5, <1>6, <1>7, Zenon DEF UpdatePending, CoreTypeOK, LoopTypeOK

(* All kernel calls.                                                       *)
LEMMA KernelCallType ==
    ASSUME TypeOK, KernelCall
    PROVE  TypeOK'
BY AcquireMutexType, AcquireOtherType, WaitListType, ResumeFromWaitType, WakeupType,
   StopType, ReleaseThreadMutexesType, UpdatePendingType, Zenon
   DEF KernelCall
-----------------------------------------------------------------------------
(* System calls, the run loop and the timers.                              *)


(* The first index at which a list has a given property is an index of it. *)
LEMMA FirstSchedulableType ==
    ASSUME NEW s \in Seq(Threads)
    PROVE  FirstSchedulable(s) \in 0 .. Len(s)
<1> DEFINE I == {i \in 1 .. Len(s) : can_schedule[s[i]]}
<1>1. FirstSchedulable(s) = IF I # {} THEN Min(I) ELSE 0
  BY DEF FirstSchedulable, SelectInSeq
<1>2. I \subseteq Nat
  OBVIOUS
<1>3. I # {} => Min(I) \in I
  BY <1>2, MinOfNaturals, Zenon
<1> QED
  BY <1>1, <1>3

-----------------------------------------------------------------------------
(* Every step keeps the types: the system calls.                           *)

(* What every system call does.                                            *)
LEMMA SVCType ==
    ASSUME TypeOK, NEW name, NEW t \in Threads, SVC(name, t)
    PROVE  /\ signalled_wake' \in [Threads -> BOOLEAN]
           /\ agenda' \in Seq(TaskSet)
           /\ current_thread' \in [Cores -> Threads \cup {None}]
           /\ todo = <<>>
BY DEF SVC, InTask, TypeOK, LoopTypeOK, CoreTypeOK

(* The result register.                                                    *)
LEMMA ReturnType ==
    ASSUME TypeOK, NEW t \in Threads, NEW result \in Results, Return(t, result)
    PROVE  r0' \in [Cores -> Results]
BY Zenon DEF Return, TypeOK, CoreTypeOK

(* WaitSynchronization1 and WaitSynchronizationN.                          *)
LEMMA WaitSynchronizationType ==
    ASSUME TypeOK, NEW name, NEW t \in Threads, SVC(name, t),
           NEW mode \in WaitSynch, NEW os \in WaitLists, NEW timeout \in Timeouts,
           WaitSynchronization(t, mode, os, timeout)
    PROVE  TypeOK'
<1> DEFINE free == {i \in DOMAIN os : ~ShouldWait(os[i], t)}
           available == IF mode = "WaitSynchAll" THEN free = DOMAIN os ELSE free # {}
<1>1. os \in Seq(Objects)
  BY ConstantsAssumption
<1>2. "Other" \in Results /\ "Timeout" \in Results
  BY DEF Results
<1>3. todo \in Seq(CallSet)
  BY Zenon DEF TypeOK, LoopTypeOK
<1>4. UNCHANGED <<nominal_priority, current_priority, held_mutexes, pending_mutexes,
                  can_schedule, context, objectVars, ready_queue>>
  BY Zenon DEF WaitSynchronization
<1>5. ObjectTypeOK'
  BY <1>4 DEF objectVars, TypeOK, ObjectTypeOK
<1>6. /\ signalled_wake' \in [Threads -> BOOLEAN]
      /\ agenda' \in Seq(TaskSet)
      /\ current_thread' \in [Cores -> Threads \cup {None}]
  BY SVCType
<1>7. ASSUME status' \in [Threads -> Status], wait_objects' \in [Threads -> Seq(Objects)],
             wakeup_callback' \in [Threads -> BOOLEAN], armed' \in [Threads -> BOOLEAN],
             halted' \in BOOLEAN, reschedule_pending' \in BOOLEAN,
             todo' \in Seq(CallSet), r0' \in [Cores -> Results]
      PROVE  TypeOK'
  <2>1. ThreadTypeOK'
    BY <1>4, <1>7, Zenon DEF TypeOK, ThreadTypeOK
  <2>2. CoreTypeOK'
    BY <1>4, <1>6, <1>7, Zenon DEF TypeOK, CoreTypeOK
  <2>3. LoopTypeOK'
    BY <1>6, <1>7, Zenon DEF LoopTypeOK
  <2> QED
    BY <1>5, <2>1, <2>2, <2>3, Zenon DEF TypeOK
<1>8. CASE /\ available
           /\ todo' = CallsOn("acquire", t, IF mode = "WaitSynchAll" THEN os
                                            ELSE <<os[Min(free)]>>)
           /\ Return(t, "Other")
           /\ UNCHANGED <<status, wait_objects, armed, wakeup_callback, halted,
                          reschedule_pending>>
  <2> DEFINE got == IF mode = "WaitSynchAll" THEN os ELSE <<os[Min(free)]>>
  <2>1. got \in Seq(Objects)
    <3>1. CASE mode = "WaitSynchAll"
      BY <1>1, <3>1
    <3>2. CASE mode # "WaitSynchAll"
      <4>1. free # {} /\ free \subseteq Nat /\ free \subseteq 1 .. Len(os)
        BY <1>1, <1>8, <3>2
      <4>2. Min(free) \in 1 .. Len(os)
        BY <4>1, MinOfNaturals, Zenon
      <4>3. os[Min(free)] \in Objects
        <5> HIDE DEF free
        <5> QED
          BY <1>1, <4>2
      <4> QED
        BY <3>2, <4>3
    <3> QED
      BY <3>1, <3>2
  <2> HIDE DEF got
  <2>2. todo' \in Seq(CallSet)
    BY <1>8, <2>1, CallsOnType, ZenonT(40) DEF got
  <2>3. r0' \in [Cores -> Results]
    BY <1>2, <1>8, ReturnType, Zenon
  <2> QED
    BY <1>7, <1>8, <2>2, <2>3, Zenon DEF TypeOK, ThreadTypeOK, LoopTypeOK
<1>9. CASE /\ Return(t, "Timeout")
           /\ UNCHANGED <<status, wait_objects, armed, wakeup_callback, halted,
                          reschedule_pending, todo>>
  <2>1. r0' \in [Cores -> Results]
    BY <1>2, <1>9, ReturnType, Zenon
  <2> QED
    BY <1>3, <1>7, <1>9, <2>1, Zenon DEF TypeOK, ThreadTypeOK, LoopTypeOK
<1>10. CASE Block(t, mode, os, timeout)
  <2>1. r0' \in [Cores -> Results]
    BY <1>2, <1>10, ReturnType, Zenon DEF Block
  <2>2. todo' \in Seq(CallSet)
    BY <1>1, <1>10, CallsOnType, Zenon DEF Block
  <2>3. status' \in [Threads -> Status]
    BY <1>10, Zenon DEF Block, TypeOK, ThreadTypeOK, Status, Waits, WaitSynch
  <2>4. wait_objects' \in [Threads -> Seq(Objects)]
    BY <1>1, <1>10, Zenon DEF Block, TypeOK, ThreadTypeOK
  <2>5. armed' \in [Threads -> BOOLEAN]
    BY <1>10, Zenon DEF Block, TypeOK, ThreadTypeOK
  <2>6. wakeup_callback' \in [Threads -> BOOLEAN]
    BY <1>10 DEF Block, TypeOK, ThreadTypeOK
  <2>7. halted' \in BOOLEAN /\ reschedule_pending' \in BOOLEAN
    BY <1>10, Zenon DEF Block, PrepareReschedule
  <2> QED
    BY <1>7, <2>1, <2>2, <2>3, <2>4, <2>5, <2>6, <2>7, Zenon
<1> QED
  BY <1>8, <1>9, <1>10, Zenon DEF WaitSynchronization

(* Mutex::Release.                                                         *)
LEMMA ReleaseMutexType ==
    ASSUME TypeOK, NEW t \in Threads, ReleaseMutex(t)
    PROVE  TypeOK'
<1>1. /\ signalled_wake' \in [Threads -> BOOLEAN]
      /\ agenda' \in Seq(TaskSet)
      /\ current_thread' \in [Cores -> Threads \cup {None}]
  BY SVCType DEF ReleaseMutex
<1>2. "Other" \in Results
  BY Zenon DEF Results
<1>3. UNCHANGED <<status, nominal_priority, wait_objects, pending_mutexes,
                  wakeup_callback, can_schedule, context, armed, waiting_threads,
                  priority, signaled, available_count>>
  BY Zenon DEF ReleaseMutex
<1>4. PICK m \in Mutexes :
        \/ /\ Return(t, "Other")
           /\ UNCHANGED <<lock_count, holding_thread, held_mutexes, current_priority,
                          ready_queue, todo, halted, reschedule_pending>>
        \/ /\ lock_count[m] > 1
           /\ lock_count' = [lock_count EXCEPT ![m] = @ - 1]
           /\ Return(t, "Other")
           /\ UNCHANGED <<holding_thread, held_mutexes, current_priority, ready_queue,
                          todo, halted, reschedule_pending>>
        \/ /\ Unlock(t, m)
           /\ todo' = <<Call("wake", None, m)>>
           /\ Return(t, "Other")
           /\ PrepareReschedule
  BY DEF ReleaseMutex
<1>5. r0' \in [Cores -> Results]
  BY <1>2, <1>4, ReturnType, Zenon
<1>6. lock_count' \in [Mutexes -> Nat]
  BY <1>4 DEF TypeOK, ObjectTypeOK, Unlock
<1>7. holding_thread' \in [Mutexes -> Threads \cup {None}]
  BY <1>4, Zenon DEF TypeOK, ObjectTypeOK, Unlock
<1>8. held_mutexes' \in [Threads -> SUBSET Mutexes]
  BY <1>4 DEF TypeOK, ThreadTypeOK, Unlock
<1>9. /\ current_priority' \in [Threads -> Prio]
      /\ ready_queue' \in [Cores -> [Prio -> Seq(Threads)]]
  <2>1. CASE UNCHANGED <<current_priority, ready_queue>>
    BY <2>1 DEF TypeOK, ThreadTypeOK, CoreTypeOK
  <2>2. CASE UpdatePriority(t, held_mutexes'[t], priority)
    <3>1. held_mutexes'[t] \in SUBSET Mutexes /\ priority \in [Mutexes -> Prio]
      BY <1>8 DEF TypeOK, ObjectTypeOK
    <3> QED
      BY <2>2, <3>1, UpdatePriorityType, Zenon DEF TypeOK
  <2> QED
    BY <1>4, <2>1, <2>2, Zenon DEF Unlock
<1>10. halted' \in BOOLEAN /\ reschedule_pending' \in BOOLEAN
  BY <1>4, Zenon DEF TypeOK, LoopTypeOK, PrepareReschedule
<1>11. todo' \in Seq(CallSet)
  <2>1. CASE UNCHANGED todo
    BY <2>1 DEF TypeOK, LoopTypeOK
  <2>2. CASE todo' = <<Call("wake", None, m)>>
    BY <2>2, CallType DEF Objects
  <2> QED
    BY <1>4, <2>1, <2>2
<1>12. ThreadTypeOK'
  BY <1>3, <1>8, <1>9, Zenon DEF TypeOK, ThreadTypeOK
<1>13. ObjectTypeOK'
  BY <1>3, <1>6, <1>7, Zenon DEF TypeOK, ObjectTypeOK
<1> QED
  BY <1>1, <1>5, <1>9, <1>10, <1>11, <1>12, <1>13, Zenon DEF TypeOK, CoreTypeOK, LoopTypeOK

(* Event::Signal, Event::Clear and Semaphore::Release.                     *)
LEMMA SignalType ==
    ASSUME TypeOK, NEW t \in Threads,
           SignalEvent(t) \/ ClearEvent(t) \/ ReleaseSemaphore(t)
    PROVE  TypeOK'
<1>1. PICK name : SVC(name, t)
  BY DEF SignalEvent, ClearEvent, ReleaseSemaphore
<1>2. /\ signalled_wake' \in [Threads -> BOOLEAN]
      /\ agenda' \in Seq(TaskSet)
      /\ current_thread' \in [Cores -> Threads \cup {None}]
  BY <1>1, SVCType
<1>3. r0' \in [Cores -> Results]
  <2>1. Return(t, "Other") /\ "Other" \in Results
    BY Zenon DEF SignalEvent, ClearEvent, ReleaseSemaphore, Results
  <2> QED
    BY <2>1, ReturnType, Zenon
<1>4. UNCHANGED <<threadVars, waiting_threads, lock_count, holding_thread, priority,
                  ready_queue, halted, reschedule_pending>>
  BY DEF SignalEvent, ClearEvent, ReleaseSemaphore
<1>5. todo' \in Seq(CallSet)
  <2>1. UNCHANGED todo \/ \E o \in Events \cup Semaphores : todo' = <<Call("wake", None, o)>>
    BY DEF SignalEvent, ClearEvent, ReleaseSemaphore
  <2>2. \A o \in Events \cup Semaphores : <<Call("wake", None, o)>> \in Seq(CallSet)
    BY CallType DEF Objects
  <2> QED
    BY <2>1, <2>2, ZenonT(40) DEF TypeOK, LoopTypeOK
<1>6. signaled' \in [Events -> BOOLEAN]
  BY ZenonT(40) DEF SignalEvent, ClearEvent, ReleaseSemaphore, TypeOK, ObjectTypeOK
<1>7. /\ available_count' \in [Semaphores -> Nat]
      /\ \A s \in Semaphores : available_count'[s] <= MaxCount[s]
  <2>1. CASE UNCHANGED available_count
    BY <2>1 DEF TypeOK, ObjectTypeOK
  <2>2. CASE ReleaseSemaphore(t) /\ ~UNCHANGED available_count
    <3>1. PICK s \in Semaphores, n \in ReleaseCounts :
            /\ MaxCount[s] - available_count[s] >= n
            /\ available_count' = [available_count EXCEPT ![s] = @ + n]
      BY <2>2 DEF ReleaseSemaphore
    <3>2. n \in Nat /\ MaxCount \in [Semaphores -> Nat]
      BY ConstantsAssumption
    <3>3. /\ available_count[s] + n \in Nat
          /\ available_count[s] + n <= MaxCount[s]
      <4>1. available_count[s] \in Nat /\ MaxCount[s] \in Nat
        BY <3>2 DEF TypeOK, ObjectTypeOK
      <4>2. MaxCount[s] - available_count[s] >= n
        BY <3>1
      <4> QED
        BY <3>2, <4>1, <4>2, SMTT(30)
    <3>4. available_count' \in [Semaphores -> Nat]
      BY <3>1, <3>3, Zenon DEF TypeOK, ObjectTypeOK
    <3>5. \A x \in Semaphores : available_count'[x] <= MaxCount[x]
      BY <3>1, <3>3, Zenon DEF TypeOK, ObjectTypeOK
    <3> QED
      BY <3>4, <3>5, Zenon
  <2> QED
    BY <2>1, <2>2 DEF SignalEvent, ClearEvent
<1>8. ThreadTypeOK'
  BY <1>4, Zenon DEF TypeOK, ThreadTypeOK, threadVars
<1>9. ObjectTypeOK'
  BY <1>4, <1>6, <1>7, Zenon DEF TypeOK, ObjectTypeOK
<1> QED
  BY <1>2, <1>3, <1>4, <1>5, <1>8, <1>9, Zenon DEF TypeOK, CoreTypeOK, LoopTypeOK

(* SetThreadPriority.                                                      *)
LEMMA SetThreadPriorityType ==
    ASSUME TypeOK, NEW t \in Threads, SetThreadPriority(t)
    PROVE  TypeOK'
<1>1. /\ signalled_wake' \in [Threads -> BOOLEAN]
      /\ agenda' \in Seq(TaskSet)
      /\ current_thread' \in [Cores -> Threads \cup {None}]
  BY SVCType, Zenon DEF SetThreadPriority
<1>2. r0' \in [Cores -> Results]
  <2>1. Return(t, "Other") /\ "Other" \in Results
    BY Zenon DEF SetThreadPriority, Results
  <2> QED
    BY <2>1, ReturnType, Zenon
<1>3. /\ halted' \in BOOLEAN /\ reschedule_pending' \in BOOLEAN
      /\ UNCHANGED <<status, wait_objects, held_mutexes, pending_mutexes, wakeup_callback,
                     can_schedule, context, armed, objectVars>>
  BY DEF SetThreadPriority, PrepareReschedule
<1>4. PICK x \in Threads, prio \in NewPriorities :
        /\ nominal_priority' = [nominal_priority EXCEPT ![x] = prio]
        /\ BoostPriority(x, BestPriority(prio, {priority[m] : m \in held_mutexes[x]}))
        /\ \E ms \in SetToSeqs(pending_mutexes[x]) : todo' = CallsOn("update", None, ms)
  BY ZenonT(40) DEF SetThreadPriority
<1>5. prio \in Prio
  BY ConstantsAssumption, Zenon
<1>6. nominal_priority' \in [Threads -> Prio]
  BY <1>4, <1>5, Zenon DEF TypeOK, ThreadTypeOK
<1>7. /\ current_priority' \in [Threads -> Prio]
      /\ ready_queue' \in [Cores -> [Prio -> Seq(Threads)]]
  <2> DEFINE P == {priority[m] : m \in held_mutexes[x]}
  <2>1. P \in SUBSET Prio
    BY DEF TypeOK, ThreadTypeOK, ObjectTypeOK
  <2> HIDE DEF P
  <2>2. BestPriority(prio, P) \in Prio
    BY <1>5, <2>1, BestPriorityType, Zenon
  <2>3. BoostPriority(x, BestPriority(prio, P)) /\ ThreadTypeOK /\ CoreTypeOK
    BY <1>4, Zenon DEF P, TypeOK
  <2> QED
    BY <2>2, <2>3, BoostPriorityType, Zenon
<1>8. todo' \in Seq(CallSet)
  <2>1. PICK ms \in SetToSeqs(pending_mutexes[x]) : todo' = CallsOn("update", None, ms)
    BY <1>4, Zenon
  <2>2. ms \in [1 .. Cardinality(pending_mutexes[x]) -> pending_mutexes[x]]
    BY <2>1, Zenon DEF SetToSeqs
  <2>3. pending_mutexes[x] \subseteq Mutexes
    BY Zenon DEF TypeOK, ThreadTypeOK
  <2>4. IsFiniteSet(pending_mutexes[x])
    BY <2>3, ConstantsAssumption, FS_Subset, Zenon
  <2>5. Cardinality(pending_mutexes[x]) \in Nat
    BY <2>4, FS_CardinalityType
  <2>6. ms \in Seq(Mutexes)
    <3> DEFINE n == Cardinality(pending_mutexes[x])
    <3>1. n \in Nat /\ ms \in [1 .. n -> Mutexes]
      BY <2>2, <2>3, <2>5, Zenon
    <3> HIDE DEF n
    <3> QED
      BY <3>1
  <2>7. \A i \in 1 .. Len(ms) : Call("update", None, ms[i]) \in CallSet
    BY <2>6, CallType
  <2> QED
    BY <2>1, <2>6, <2>7 DEF CallsOn
<1>9. ThreadTypeOK'
  BY <1>3, <1>6, <1>7, Zenon DEF TypeOK, ThreadTypeOK
<1>10. ObjectTypeOK'
  BY <1>3, Zenon DEF TypeOK, ObjectTypeOK, objectVars
<1> QED
  BY <1>1, <1>2, <1>3, <1>7, <1>8, <1>9, <1>10, Zenon DEF TypeOK, CoreTypeOK, LoopTypeOK

(* SleepThread and ExitThread.                                             *)
LEMMA SleepExitType ==
    ASSUME TypeOK, NEW t \in Threads, SleepThread(t) \/ ExitThread(t)
    PROVE  TypeOK'
<1>1. PICK name : SVC(name, t)
  BY DEF SleepThread, ExitThread
<1>2. /\ signalled_wake' \in [Threads -> BOOLEAN]
      /\ agenda' \in Seq(TaskSet)
      /\ current_thread' \in [Cores -> Threads \cup {None}]
  BY <1>1, SVCType, SMTT(30)
<1>3. /\ halted' \in BOOLEAN /\ reschedule_pending' \in BOOLEAN
      /\ UNCHANGED <<nominal_priority, current_priority, wait_objects, held_mutexes,
                     pending_mutexes, wakeup_callback, can_schedule, context, objectVars,
                     ready_queue, r0>>
  BY Zenon DEF SleepThread, ExitThread, PrepareReschedule, threadVars, TypeOK, LoopTypeOK
<1>4. status' \in [Threads -> Status] /\ armed' \in [Threads -> BOOLEAN]
  <2>1. CASE UNCHANGED <<status, armed>>
    BY <2>1 DEF TypeOK, ThreadTypeOK
  <2>2. CASE \E timeout \in Timeouts :
                /\ status' = [status EXCEPT ![t] = "WaitSleep"]
                /\ armed' = [armed EXCEPT ![t] = @ \/ timeout # "forever"]
    <3>1. PICK timeout \in Timeouts :
                /\ status' = [status EXCEPT ![t] = "WaitSleep"]
                /\ armed' = [armed EXCEPT ![t] = @ \/ timeout # "forever"]
      BY <2>2, ZenonT(40)
    <3>2. status' \in [Threads -> Status]
      BY <3>1, Zenon DEF TypeOK, ThreadTypeOK, Status, Waits
    <3>3. armed' \in [Threads -> BOOLEAN]
      BY <3>1 DEF TypeOK, ThreadTypeOK
    <3> QED
      BY <3>2, <3>3
  <2> QED
    BY <2>1, <2>2, Zenon DEF SleepThread, ExitThread, threadVars
<1>5. todo' \in Seq(CallSet)
  <2>1. UNCHANGED todo \/ todo' = <<Call("stop", t, None)>>
    BY Zenon DEF SleepThread, ExitThread
  <2>2. <<Call("stop", t, None)>> \in Seq(CallSet)
    BY CallType
  <2> QED
    BY <2>1, <2>2, Zenon DEF TypeOK, LoopTypeOK
<1>6. ThreadTypeOK'
  BY <1>3, <1>4, Zenon DEF TypeOK, ThreadTypeOK
<1>7. ObjectTypeOK'
  BY <1>3, Zenon DEF TypeOK, ObjectTypeOK, objectVars
<1> QED
  BY <1>2, <1>3, <1>5, <1>6, <1>7, ZenonT(40) DEF TypeOK, CoreTypeOK, LoopTypeOK

(* CreateThread and ControlProcess.                                        *)
LEMMA CreateControlType ==
    ASSUME TypeOK, NEW t \in Threads, CreateThread(t) \/ ScheduleThreadsWithoutMagic(t)
    PROVE  TypeOK'
<1>1. PICK name : SVC(name, t)
  BY DEF CreateThread, ScheduleThreadsWithoutMagic
<1>2. /\ signalled_wake' \in [Threads -> BOOLEAN]
      /\ agenda' \in Seq(TaskSet)
      /\ current_thread' \in [Cores -> Threads \cup {None}]
  BY <1>1, SVCType
<1>3. r0' \in [Cores -> Results]
  <2>1. Return(t, "Other") /\ "Other" \in Results
    BY DEF CreateThread, ScheduleThreadsWithoutMagic, Results
  <2> QED
    BY <2>1, ReturnType, Zenon
<1>4. /\ halted' \in BOOLEAN /\ reschedule_pending' \in BOOLEAN
      /\ UNCHANGED <<nominal_priority, current_priority, wait_objects, held_mutexes,
                     pending_mutexes, wakeup_callback, context, armed, objectVars, todo>>
  BY Zenon DEF CreateThread, ScheduleThreadsWithoutMagic, PrepareReschedule, TypeOK, LoopTypeOK
<1>5. /\ status' \in [Threads -> Status] /\ can_schedule' \in [Threads -> BOOLEAN]
      /\ ready_queue' \in [Cores -> [Prio -> Seq(Threads)]]
  <2>1. CASE CreateThread(t)
    <3>1. PICK x \in Threads :
            /\ status' = [status EXCEPT ![x] = "Ready"]
            /\ ready_queue' = [ready_queue EXCEPT ![CoreOf[x]][CreatePrio[x]] = Append(@, x)]
      BY <2>1, ZenonT(40) DEF CreateThread
    <3>2. UNCHANGED can_schedule
      BY <2>1, Zenon DEF CreateThread
    <3> DEFINE c == CoreOf[x]
               p == CreatePrio[x]
    <3>3. c \in Cores /\ p \in Prio
      BY ConstantsAssumption, Zenon
    <3>4. ready_queue' = [ready_queue EXCEPT ![c][p] = Append(ready_queue[c][p], x)]
      BY <3>1
    <3> HIDE DEF c, p
    <3>5. Append(ready_queue[c][p], x) \in Seq(Threads)
      BY <3>3 DEF TypeOK, CoreTypeOK
    <3>6. ready_queue' \in [Cores -> [Prio -> Seq(Threads)]]
      BY <3>3, <3>4, <3>5, QueueLevelType, Zenon DEF TypeOK
    <3> QED
      <4>1. status' \in [Threads -> Status]
        BY <3>1 DEF TypeOK, ThreadTypeOK, Status
      <4> QED
        BY <3>2, <3>6, <4>1, Zenon DEF TypeOK, ThreadTypeOK
  <2>2. CASE ScheduleThreadsWithoutMagic(t)
    BY <2>2, Zenon DEF ScheduleThreadsWithoutMagic, TypeOK, ThreadTypeOK, CoreTypeOK
  <2> QED
    BY <2>1, <2>2
<1>6. ThreadTypeOK'
  BY <1>4, <1>5, Zenon DEF TypeOK, ThreadTypeOK
<1>7. ObjectTypeOK'
  BY <1>4, Zenon DEF TypeOK, ObjectTypeOK, objectVars
<1> QED
  BY <1>2, <1>3, <1>4, <1>5, <1>6, <1>7, ZenonT(40) DEF TypeOK, CoreTypeOK, LoopTypeOK

(* All system calls.                                                       *)
LEMMA SystemCallType ==
    ASSUME TypeOK, SystemCall
    PROVE  TypeOK'
<1>1. PICK t \in Threads :
        \/ WaitSynchronization1(t) \/ WaitSynchronizationN(t)
        \/ ReleaseMutex(t) \/ SignalEvent(t) \/ ClearEvent(t) \/ ReleaseSemaphore(t)
        \/ SetThreadPriority(t) \/ SleepThread(t)
        \/ CreateThread(t) \/ ExitThread(t)
        \/ ScheduleThreadsWithoutMagic(t)
  BY DEF SystemCall
<1>2. CASE WaitSynchronization1(t)
  <2>1. "WaitSynchAny" \in WaitSynch
    BY DEF WaitSynch
  <2> QED
    BY <1>2, <2>1, WaitSynchronizationType DEF WaitSynchronization1
<1>3. CASE WaitSynchronizationN(t)
  BY <1>3, WaitSynchronizationType DEF WaitSynchronizationN
<1> QED
  BY <1>1, <1>2, <1>3, ReleaseMutexType, SignalType, SetThreadPriorityType, SleepExitType,
     CreateControlType, Zenon
-----------------------------------------------------------------------------
(* Every step keeps the types: the run loop.                               *)

(* Lists of tasks.                                                         *)
LEMMA TasksType ==
    ASSUME NEW stage \in {"sched", "run", "end", "switch"}, NEW cs \in Seq(Cores)
    PROVE  Tasks(stage, cs) \in Seq(TaskSet)
<1>1. \A i \in 1 .. Len(cs) : Task(stage, cs[i]) \in TaskSet
  BY DEF Task, TaskSet
<1> QED
  BY <1>1 DEF Tasks

(* The cores in the order in which the run loop visits them.               *)
LEMMA CoreListsType ==
    /\ AllCores \in Seq(Cores)
    /\ \A late \in LateCores : late \in Seq(Cores)
    /\ \A c \in Cores : <<Task("run", c), Task("end", 0)>> \in Seq(TaskSet)
    /\ FullIteration \in Seq(TaskSet)
<1>1. NumCores \in Nat \ {0}
  BY ConstantsAssumption
<1>2. AllCores \in Seq(Cores)
  BY <1>1 DEF AllCores, Cores
<1>3. \A late \in LateCores : late \in Seq(Cores)
  BY <1>1 DEF LateCores
<1>4. \A c \in Cores : Task("run", c) \in TaskSet /\ Task("end", 0) \in TaskSet
  BY <1>1 DEF Task, TaskSet, Cores
<1>5. 0 \in Cores
  BY <1>1 DEF Cores
<1>6. FullIteration \in Seq(TaskSet)
  <2> DEFINE A == Tasks("sched", AllCores)
             B == Tasks("run", AllCores)
             C == <<Task("end", 0)>>
  <2>1. A \in Seq(TaskSet) /\ B \in Seq(TaskSet)
    BY <1>2, TasksType
  <2>2. C \in Seq(TaskSet)
    BY <1>4, <1>5
  <2>3. FullIteration = A \o B \o C
    BY DEF FullIteration
  <2> HIDE DEF A, B, C
  <2> QED
    BY <2>1, <2>2, <2>3, ConcatProperties, Zenon
<1> QED
  BY <1>2, <1>3, <1>4, <1>6, SMTT(30)

(* BeginIteration, BeginLateIteration, EndSlice and EndIteration.          *)
LEMMA IterationType ==
    ASSUME TypeOK, BeginIteration \/ BeginLateIteration \/ EndSlice \/ EndIteration
    PROVE  TypeOK'
<1>1. UNCHANGED <<threadVars, objectVars, coreVars, todo, signalled_wake>>
  BY DEF BeginIteration, BeginLateIteration, EndSlice, EndIteration
<1>2. reschedule_pending' \in BOOLEAN /\ halted' \in BOOLEAN
  BY ZenonT(40) DEF BeginIteration, BeginLateIteration, EndSlice, EndIteration, TypeOK, LoopTypeOK
<1>3. agenda' \in Seq(TaskSet)
  <2>1. CASE BeginIteration
    <3>1. PICK late \in LateCores : agenda' = Tasks("sched", late) \o FullIteration
      BY <2>1 DEF BeginIteration
    <3> DEFINE A == Tasks("sched", late)
    <3>2. A \in Seq(TaskSet) /\ FullIteration \in Seq(TaskSet)
      BY CoreListsType, TasksType, SMTT(30)
    <3>3. agenda' = A \o FullIteration
      BY <3>1, Zenon
    <3> HIDE DEF A
    <3> QED
      BY <3>2, <3>3, ConcatProperties, Zenon
  <2>2. CASE BeginLateIteration
    <3>1. PICK late \in LateCores : \E c \in Range(late) :
            agenda' = Tasks("sched", late) \o <<Task("run", c), Task("end", 0)>>
      BY <2>2, Zenon DEF BeginLateIteration
    <3>2. PICK c \in Range(late) :
            agenda' = Tasks("sched", late) \o <<Task("run", c), Task("end", 0)>>
      BY <3>1, ZenonT(40)
    <3> DEFINE A == Tasks("sched", late)
               B == <<Task("run", c), Task("end", 0)>>
    <3>3. late \in Seq(Cores)
      BY CoreListsType
    <3>4. c \in Cores
      BY <3>3 DEF Range
    <3>5. A \in Seq(TaskSet) /\ B \in Seq(TaskSet)
      BY <3>3, <3>4, CoreListsType, TasksType
    <3>6. agenda' = A \o B
      BY <3>2, SMTT(30)
    <3> HIDE DEF A, B
    <3> QED
      BY <3>5, <3>6, ConcatProperties
  <2>3. CASE EndSlice
    BY <2>3, HeadTailProperties, ZenonT(40) DEF EndSlice, InTask, TypeOK, LoopTypeOK
  <2>4. CASE EndIteration
    <3>1. Tasks("switch", AllCores) \in Seq(TaskSet) /\ <<>> \in Seq(TaskSet)
      BY CoreListsType, TasksType, EmptySeq, Zenon
    <3> QED
      BY <2>4, <3>1, Zenon DEF EndIteration
  <2> QED
    BY <2>1, <2>2, <2>3, <2>4, Zenon
<1>4. ThreadTypeOK'
  BY <1>1, Zenon DEF TypeOK, ThreadTypeOK, threadVars
<1>5. ObjectTypeOK'
  BY <1>1 DEF TypeOK, ObjectTypeOK, objectVars
<1>6. CoreTypeOK'
  BY <1>1 DEF TypeOK, CoreTypeOK, coreVars
<1> QED
  BY <1>1, <1>2, <1>3, <1>4, <1>5, <1>6, Zenon DEF TypeOK, LoopTypeOK

(* PopNextReadyThread returns a thread or none, and a queue of threads.    *)
LEMMA PopNextReadyThreadType ==
    ASSUME ThreadTypeOK, CoreTypeOK, NEW c \in Cores
    PROVE  /\ PopNextReadyThread(c).thread \in Threads \cup {None}
           /\ PopNextReadyThread(c).queue \in [Prio -> Seq(Threads)]
<1> DEFINE cur   == current_thread[c]
           q     == ready_queue[c]
           keep  == cur # None /\ status[cur] = "Running"
           limit == IF keep THEN current_priority[cur] ELSE PrioLowest + 1
           first(p) == FirstSchedulable(q[p])
           levels == {p \in Prio : p < limit /\ first(p) # 0}
           level == IF levels = {} THEN limit ELSE Min(levels)
           thread == CASE levels # {} -> q[level][first(level)]
                       [] levels = {} /\ keep -> cur
                       [] OTHER -> None
           queue == [p \in Prio |->
                       CASE p < level -> Reverse(q[p])
                         [] p = level /\ levels # {} -> WithoutPopped(q[p], first(p))
                         [] OTHER -> q[p]]
<1>1. PopNextReadyThread(c) = [thread |-> thread, queue |-> queue]
  BY DEF PopNextReadyThread
<1>2. cur \in Threads \cup {None} /\ q \in [Prio -> Seq(Threads)]
  BY Zenon DEF CoreTypeOK
<1>3. levels \subseteq Prio /\ \A p \in levels : first(p) # 0
  OBVIOUS
<1>4. levels # {} => level \in levels
  <2>1. levels \subseteq Nat
    BY <1>3 DEF Prio
  <2> HIDE DEF levels
  <2> QED
    BY <2>1, MinOfNaturals, Zenon
<1> HIDE DEF q, cur
<1>5. \A p \in Prio : q[p] \in Seq(Threads) /\ first(p) \in 0 .. Len(q[p])
  BY <1>2, FirstSchedulableType
<1> HIDE DEF first, keep, levels, level
<1>6. thread \in Threads \cup {None}
  <2>1. CASE levels # {}
    <3>1. level \in Prio /\ first(level) # 0
      BY <1>3, <1>4, <2>1, Zenon
    <3>2. q[level] \in Seq(Threads) /\ first(level) \in 1 .. Len(q[level])
      BY <1>5, <3>1
    <3>3. q[level][first(level)] \in Threads
      BY <3>2
    <3> QED
      BY <2>1, <3>3
  <2>2. CASE levels = {}
    BY <1>2, <2>2
  <2> QED
    BY <2>1, <2>2
<1>7. queue \in [Prio -> Seq(Threads)]
  <2>1. ASSUME NEW p \in Prio
        PROVE  /\ Reverse(q[p]) \in Seq(Threads)
               /\ p = level /\ levels # {} => WithoutPopped(q[p], first(p)) \in Seq(Threads)
    <3>1. q[p] \in Seq(Threads) /\ first(p) \in 0 .. Len(q[p])
      BY <1>5
    <3>2. Reverse(q[p]) \in Seq(Threads)
      BY <3>1, ReverseType
    <3>3. ASSUME p = level, levels # {}
          PROVE  WithoutPopped(q[p], first(p)) \in Seq(Threads)
      <4> DEFINE s == q[p]
                 i == first(p)
                 A == SubSeq(s, i + 1, Len(s))
                 B == SubSeq(s, 1, i - 1)
      <4>1. i \in 1 .. Len(s)
        BY <1>3, <1>4, <3>1, <3>3, SMTT(30)
      <4> HIDE DEF s, i
      <4>2. s \in Seq(Threads)
        BY <3>1, Zenon DEF s
      <4>3. A \in Seq(Threads) /\ B \in Seq(Threads)
        BY <4>1, <4>2, SubSeqProperties, SMTT(30)
      <4> HIDE DEF A, B
      <4>4. A \o Reverse(B) \in Seq(Threads)
        BY <4>3, ReverseType, ConcatProperties, Zenon
      <4> QED
        BY <4>4 DEF WithoutPopped, A, B, s, i
    <3> QED
      BY <3>2, <3>3
  <2> QED
    BY <1>2, <2>1, Zenon
<1> QED
  BY <1>1, <1>6, <1>7

(* Reschedule and SwitchContext.                                           *)
LEMMA RescheduleType ==
    ASSUME TypeOK, NEW c \in Cores, Reschedule(c)
    PROVE  /\ ThreadTypeOK' /\ ObjectTypeOK' /\ CoreTypeOK'
           /\ signalled_wake' \in [Threads -> BOOLEAN]
<1> DEFINE prev == current_thread[c]
           pop  == PopNextReadyThread(c)
           next == pop.thread
           yields == prev # None /\ status[prev] = "Running"
           saved  == IF prev = None THEN context ELSE [context EXCEPT ![prev] = r0[c]]
           queue1 == IF yields THEN [pop.queue EXCEPT ![current_priority[prev]] = <<prev>> \o @]
                     ELSE pop.queue
           queue2 == IF next = None THEN queue1
                     ELSE [queue1 EXCEPT ![current_priority[next]] = RemoveFirst(@, next)]
<1>1. /\ context' = saved
      /\ current_thread' = [current_thread EXCEPT ![c] = next]
      /\ ready_queue' = [ready_queue EXCEPT ![c] = queue2]
      /\ status' = [t \in Threads |-> CASE t = next -> "Running"
                                        [] t = prev /\ t # next /\ yields -> "Ready"
                                        [] OTHER -> status[t]]
      /\ LoadContext(c, next, saved)
      /\ UNCHANGED <<nominal_priority, current_priority, wait_objects, held_mutexes,
                     pending_mutexes, wakeup_callback, can_schedule, objectVars,
                     signalled_wake>>
  BY Zenon DEF Reschedule
<1>2. prev \in Threads \cup {None} /\ r0[c] \in Results
  BY Zenon DEF TypeOK, CoreTypeOK
<1>3. next \in Threads \cup {None} /\ pop.queue \in [Prio -> Seq(Threads)]
  BY PopNextReadyThreadType, Zenon DEF TypeOK
<1> HIDE DEF pop, next, prev
<1>4. saved \in [Threads -> Results]
  BY <1>2, Zenon DEF TypeOK, ThreadTypeOK
<1>5. queue1 \in [Prio -> Seq(Threads)]
  <2>1. CASE yields
    <3>1. prev \in Threads /\ current_priority[prev] \in Prio
      BY <1>2, <2>1, Zenon DEF TypeOK, ThreadTypeOK
    <3> DEFINE p == current_priority[prev]
    <3> HIDE DEF p
    <3>2. <<prev>> \o pop.queue[p] \in Seq(Threads)
      <4>1. <<prev>> \in Seq(Threads) /\ pop.queue[p] \in Seq(Threads)
        BY <1>3, <3>1 DEF p
      <4> QED
        BY <4>1, ConcatProperties, Zenon
    <3>3. queue1 = [pop.queue EXCEPT ![p] = <<prev>> \o pop.queue[p]]
      BY <2>1, Zenon DEF p
    <3> QED
      BY <1>3, <3>2, <3>3, Zenon
  <2>2. CASE ~yields
    BY <1>3, <2>2, Zenon
  <2> QED
    BY <2>1, <2>2, SMTT(30)
<1> HIDE DEF queue1
<1>6. queue2 \in [Prio -> Seq(Threads)]
  <2>1. CASE next = None
    BY <1>5, <2>1
  <2>2. CASE next # None
    <3>1. current_priority[next] \in Prio
      BY <1>3, <2>2, Zenon DEF TypeOK, ThreadTypeOK
    <3>2. RemoveFirst(queue1[current_priority[next]], next) \in Seq(Threads)
      BY <1>5, <3>1, RemoveFirstType
    <3> QED
      BY <1>5, <2>2, <3>1, <3>2, Zenon
  <2> QED
    BY <2>1, <2>2
<1> HIDE DEF queue2, saved
<1>7. ready_queue' \in [Cores -> [Prio -> Seq(Threads)]]
  BY <1>1, <1>6 DEF TypeOK, CoreTypeOK
<1>8. current_thread' \in [Cores -> Threads \cup {None}]
  BY <1>1, <1>3 DEF TypeOK, CoreTypeOK
<1>9. status' \in [Threads -> Status]
  BY <1>1 DEF TypeOK, ThreadTypeOK, Status
<1>10. armed' \in [Threads -> BOOLEAN] /\ r0' \in [Cores -> Results]
  <2>1. CASE next = None
    BY <1>1, <2>1 DEF LoadContext, TypeOK, ThreadTypeOK, CoreTypeOK
  <2>2. CASE next # None
    <3>1. saved[next] \in Results
      BY <1>3, <1>4, <2>2
    <3>2. armed' = [armed EXCEPT ![next] = FALSE] /\ r0' = [r0 EXCEPT ![c] = saved[next]]
      BY <1>1, <2>2 DEF LoadContext
    <3> QED
      BY <3>1, <3>2, Zenon DEF TypeOK, ThreadTypeOK, CoreTypeOK
  <2> QED
    BY <2>1, <2>2
<1>11. ThreadTypeOK'
  BY <1>1, <1>4, <1>9, <1>10, Zenon DEF TypeOK, ThreadTypeOK
<1>12. ObjectTypeOK' /\ signalled_wake' \in [Threads -> BOOLEAN]
  BY <1>1 DEF TypeOK, ObjectTypeOK, LoopTypeOK, objectVars
<1> QED
  BY <1>7, <1>8, <1>10, <1>11, <1>12, Zenon DEF CoreTypeOK

(* All steps of the run loop.                                              *)
LEMMA RunLoopType ==
    ASSUME TypeOK, RunLoop
    PROVE  TypeOK'
<1>1. CASE RescheduleTask
  <2>1. agenda # <<>> /\ agenda \in Seq(TaskSet)
    BY <1>1 DEF RescheduleTask, InTask, TypeOK, LoopTypeOK
  <2>2. Head(agenda) \in TaskSet /\ Tail(agenda) \in Seq(TaskSet)
    BY <2>1, HeadTailProperties
  <2>3. Head(agenda).core \in Cores
    BY <2>2, Zenon DEF TaskSet
  <2>4. /\ ThreadTypeOK' /\ ObjectTypeOK' /\ CoreTypeOK'
        /\ signalled_wake' \in [Threads -> BOOLEAN]
    BY <1>1, <2>3, RescheduleType, Zenon DEF RescheduleTask
  <2>5. LoopTypeOK'
    BY <1>1, <2>2, <2>4, SMTT(30) DEF RescheduleTask, TypeOK, LoopTypeOK
  <2> QED
    BY <2>4, <2>5 DEF TypeOK
<1> QED
  BY <1>1, IterationType DEF RunLoop

(* ThreadWakeupCallback.                                                   *)
LEMMA ThreadWakeupCallbackType ==
    ASSUME TypeOK, NEW t \in Threads, ThreadWakeupCallback(t)
    PROVE  TypeOK'
<1>1. armed' \in [Threads -> BOOLEAN]
  <2>1. armed' = [armed EXCEPT ![t] = FALSE]
    BY Zenon DEF ThreadWakeupCallback
  <2> QED
    BY <2>1 DEF TypeOK, ThreadTypeOK
<1>2. context' \in [Threads -> Results]
  BY Zenon DEF ThreadWakeupCallback, TypeOK, ThreadTypeOK, Results
<1>3. todo' \in Seq(CallSet)
  <2> DEFINE D == CallsOn("remove", t, wait_objects[t])
             R == <<Call("resume", t, None)>>
  <2>1. wait_objects[t] \in Seq(Objects)
    BY Zenon DEF TypeOK, ThreadTypeOK
  <2>2. D \in Seq(CallSet) /\ R \in Seq(CallSet)
    BY <2>1, CallsOnType, CallType, SMTT(30)
  <2>3. todo' = D \o R \/ todo' = R
    BY Zenon DEF ThreadWakeupCallback
  <2> HIDE DEF D, R
  <2> QED
    BY <2>2, <2>3, ConcatProperties, Zenon
<1>4. ThreadTypeOK'
  <2>1. UNCHANGED <<status, nominal_priority, current_priority, wait_objects, held_mutexes,
                    pending_mutexes, wakeup_callback, can_schedule>>
    BY Zenon DEF ThreadWakeupCallback
  <2> QED
    BY <1>1, <1>2, <2>1 DEF TypeOK, ThreadTypeOK
<1>5. ObjectTypeOK' /\ CoreTypeOK'
  <2>1. UNCHANGED <<objectVars, coreVars>>
    BY Zenon DEF ThreadWakeupCallback
  <2>2. ObjectTypeOK'
    BY <2>1 DEF TypeOK, ObjectTypeOK, objectVars
  <2>3. CoreTypeOK'
    BY <2>1 DEF TypeOK, CoreTypeOK, coreVars
  <2> QED
    BY <2>2, <2>3
<1>6. LoopTypeOK'
  <2>1. UNCHANGED <<reschedule_pending, halted, agenda, signalled_wake>>
    BY Zenon DEF ThreadWakeupCallback
  <2> QED
    BY <1>3, <2>1 DEF TypeOK, LoopTypeOK
<1> QED
  BY <1>4, <1>5, <1>6, Zenon DEF TypeOK
-----------------------------------------------------------------------------
(* Init satisfies the types.                                               *)
LEMMA InitType == Init => TypeOK
<1> SUFFICES ASSUME Init PROVE TypeOK
  BY Zenon
<1>1. ThreadTypeOK
  <2>1. <<>> \in Seq(Objects)
    BY EmptySeq, SMTT(30)
  <2>2. wait_objects \in [Threads -> Seq(Objects)]
    BY <2>1, ZenonT(40) DEF Init
  <2> QED
    BY <2>2, ConstantsAssumption DEF Init, ThreadTypeOK, Status, Results
<1>2. ObjectTypeOK
  <2>1. <<>> \in Seq(Threads)
    BY EmptySeq, SMTT(30)
  <2>2. waiting_threads \in [Objects -> Seq(Threads)]
    BY <2>1, ZenonT(40) DEF Init
  <2>3. PrioLowest \in Prio
    BY ConstantsAssumption, SMTT(30) DEF Prio
  <2> QED
    BY <2>2, <2>3, ConstantsAssumption DEF Init, ObjectTypeOK
<1>3. CoreTypeOK
  <2>1. ASSUME NEW c \in Cores, NEW p \in Prio
        PROVE  SetToSeq({t \in Started : CoreOf[t] = c /\ CreatePrio[t] = p}) \in Seq(Threads)
    <3> DEFINE S == {t \in Started : CoreOf[t] = c /\ CreatePrio[t] = p}
    <3>1. S \subseteq Threads
      BY ConstantsAssumption, Zenon
    <3> HIDE DEF S
    <3>2. IsFiniteSet(S)
      BY <3>1, ConstantsAssumption, FS_Subset, Zenon
    <3>3. SetToSeq(S) \in Seq(S)
      BY <3>2, SetToSeqType, Zenon
    <3>4. SetToSeq(S) \in Seq(Threads)
      BY <3>1, <3>3, SMTT(30)
    <3> QED
      BY <3>4, Zenon DEF S
  <2>2. ready_queue \in [Cores -> [Prio -> Seq(Threads)]]
    BY <2>1, ZenonT(40) DEF Init
  <2>3. current_thread = [c \in Cores |-> None] /\ r0 = [c \in Cores |-> "Other"]
    BY Zenon DEF Init
  <2> QED
    BY <2>2, <2>3, Zenon DEF CoreTypeOK, Results
<1>4. LoopTypeOK
  <2>1. <<>> \in Seq(CallSet) /\ FullIteration \in Seq(TaskSet)
    BY EmptySeq, CoreListsType
  <2> QED
    BY <2>1, ZenonT(40) DEF Init, LoopTypeOK
<1> QED
  BY <1>1, <1>2, <1>3, <1>4 DEF TypeOK

(* Every step keeps the types.                                             *)
LEMMA NextType == TypeOK /\ [Next]_vars => TypeOK'
<1> SUFFICES ASSUME TypeOK, [Next]_vars PROVE TypeOK'
  OBVIOUS
<1>1. CASE Next
  BY <1>1, KernelCallType, SystemCallType, RunLoopType, ThreadWakeupCallbackType, Zenon DEF Next
<1>2. CASE UNCHANGED vars
  BY <1>2, Zenon DEF vars, threadVars, objectVars, coreVars, TypeOK, ThreadTypeOK, ObjectTypeOK,
              CoreTypeOK, LoopTypeOK
<1> QED
  BY <1>1, <1>2

(* Type correctness of the kernel: the fields keep their ranges in every   *)
(* behaviour of Spec; a semaphore never has more free slots than max_count *)
(* nor a negative number, a priority never leaves 0 .. ThreadPrioLowest,   *)
(* and every nested call of a wakeup, timeout or exit is made on a thread  *)
(* and an object of the kind the callee expects.                           *)
THEOREM TypeCorrect == Spec => []TypeOK
BY InitType, NextType, PTL DEF Spec
-----------------------------------------------------------------------------
(* The bookkeeping of mutexes.                                             *)

\* A call of ReleaseThreadMutexes for t is still to be made or to be finished.
Releasing(t) == \E i \in DOMAIN todo : todo[i] = Call("release", t, None)

(* The next call returns: the releases that come after it stay.            *)
LEMMA ReleasingTail ==
    ASSUME TypeOK, todo # <<>>, todo' = Tail(todo), NEW u,
           Head(todo) # Call("release", u, None), Releasing(u)
    PROVE  Releasing(u)'
<1>1. todo \in Seq(CallSet)
  BY DEF TypeOK, LoopTypeOK
<1>2. PICK i \in DOMAIN todo : todo[i] = Call("release", u, None)
  BY DEF Releasing
<1>3. i \in 2 .. Len(todo)
  BY <1>1, <1>2
<1>4. i - 1 \in DOMAIN Tail(todo) /\ Tail(todo)[i - 1] = todo[i]
  BY <1>1, <1>3
<1> QED
  BY <1>2, <1>4 DEF Releasing

(* Calls are put before the others: the releases stay.                     *)
LEMMA ReleasingConcat ==
    ASSUME NEW before \in Seq(CallSet), NEW after \in Seq(CallSet),
           todo' = before \o after, NEW u,
           \E i \in DOMAIN after : after[i] = Call("release", u, None)
    PROVE  Releasing(u)'
<1>1. PICK i \in DOMAIN after : after[i] = Call("release", u, None)
  OBVIOUS
<1>2. i + Len(before) \in DOMAIN todo' /\ todo'[i + Len(before)] = after[i]
  BY <1>1
<1> QED
  BY <1>1, <1>2 DEF Releasing

(* Steps that leave the mutexes alone and forget no release keep MutexOK.  *)
LEMMA MutexesUnchanged ==
    ASSUME MutexOK, UNCHANGED <<lock_count, holding_thread, held_mutexes>>,
           \A u \in Threads : Releasing(u) => Releasing(u)'
    PROVE  MutexOK'
BY DEF MutexOK, Releasing

(* The call at the head of todo is no release.                             *)
LEMMA HeadNotRelease ==
    ASSUME Head(todo).op # "release", NEW u
    PROVE  Head(todo) # Call("release", u, None)
BY DEF Call

(* Kernel calls that only return.                                          *)
LEMMA ReturningCallsMutex ==
    ASSUME TypeOK, MutexOK,
           \/ AcquireEvent \/ AcquireSemaphore \/ AcquireThread
           \/ AddWaitingThread \/ RemoveWaitingThread \/ ResumeFromWait
           \/ WakeupDone \/ UpdatePending
    PROVE  MutexOK'
<1>1. todo # <<>> /\ Head(todo).op # "release" /\ todo' = Tail(todo)
  <2>1. /\ NextCall("acquire") \/ NextCall("add") \/ NextCall("remove") \/ NextCall("resume")
           \/ NextCall("wake") \/ NextCall("update")
        /\ todo' = Tail(todo)
    BY Zenon DEF AcquireEvent, AcquireSemaphore, AcquireThread, AddWaitingThread,
         RemoveWaitingThread, ResumeFromWait, WakeupDone, UpdatePending
  <2> QED
    BY <2>1 DEF NextCall
<1>2. UNCHANGED <<lock_count, holding_thread, held_mutexes>>
  BY Zenon DEF AcquireEvent, AcquireSemaphore, AcquireThread, AddWaitingThread,
         RemoveWaitingThread, ResumeFromWait, WakeupDone, UpdatePending,
         threadVars, objectVars
<1>3. \A u \in Threads : Releasing(u) => Releasing(u)'
  BY <1>1, HeadNotRelease, ReleasingTail
<1> QED
  BY <1>2, <1>3, MutexesUnchanged, Zenon

(* Wakeups and exits put calls before the others.                          *)
LEMMA NestingCallsMutex ==
    ASSUME TypeOK, MutexOK, WakeupNext \/ Stop
    PROVE  MutexOK'
<1>1. todo \in Seq(CallSet) /\ todo # <<>> /\ Head(todo).op # "release"
  BY Zenon DEF WakeupNext, Stop, NextCall, TypeOK, LoopTypeOK
<1>2. UNCHANGED <<lock_count, holding_thread, held_mutexes>>
  BY Zenon DEF WakeupNext, Stop, objectVars
<1>3. todo' \in Seq(CallSet)
  <2>1. KernelCall
    BY DEF KernelCall
  <2> QED
    BY <2>1, KernelCallType DEF TypeOK, LoopTypeOK
<1>4. ASSUME NEW u \in Threads, Releasing(u)
      PROVE  Releasing(u)'
  <2>1. \E i \in DOMAIN todo : todo[i] = Call("release", u, None)
    BY <1>4 DEF Releasing
  <2>2. \E i \in DOMAIN Tail(todo) : Tail(todo)[i] = Call("release", u, None)
    <3>1. PICK i \in DOMAIN todo : todo[i] = Call("release", u, None)
      BY <2>1
    <3>2. Head(todo) # Call("release", u, None)
      BY <1>1, HeadNotRelease
    <3>3. i \in 2 .. Len(todo)
      BY <1>1, <3>1, <3>2, SMTT(30)
    <3>4. i - 1 \in DOMAIN Tail(todo) /\ Tail(todo)[i - 1] = todo[i]
      BY <1>1, <3>3
    <3> QED
      BY <3>1, <3>4
  <2>3. CASE WakeupNext
    <3> DEFINE o == CallObject
               t == GetHighestPriorityReadyThread(o)
    <3>1. o \in Objects
      BY <1>1, <2>3, HeadCallType DEF WakeupNext, NextCall
    <3>2. t \in Threads
      BY <2>3, <3>1, CandidateType DEF WakeupNext, TypeOK
    <3> HIDE DEF t, o
    <3> DEFINE os == IF status[t] = "WaitSynchAll" THEN wait_objects[t] ELSE <<o>>
               A == CallsOn("acquire", t, os)
               B == CallsOn("remove", t, wait_objects[t])
               R == <<Call("resume", t, None)>>
    <3>3. wait_objects[t] \in Seq(Objects) /\ os \in Seq(Objects)
      BY <3>1, <3>2 DEF TypeOK, ThreadTypeOK
    <3>4. A \in Seq(CallSet) /\ B \in Seq(CallSet) /\ R \in Seq(CallSet)
      <4> HIDE DEF os
      <4> QED
        BY <3>2, <3>3, CallsOnType, CallType
    <3>5. todo' = A \o B \o R \o todo
      BY <2>3 DEF WakeupNext, WakeupCalls, t, o
    <3> DEFINE X == A \o B \o R
    <3>6. X \in Seq(CallSet) /\ todo' = X \o todo
      <4> HIDE DEF A, B, R
      <4> QED
        BY <3>4, <3>5, ConcatProperties
    <3> HIDE DEF X
    <3> QED
      BY <1>1, <2>1, <3>6, ReleasingConcat, ZenonT(40)
  <2>4. CASE Stop
    <3> DEFINE t == CallThread
               W == <<Call("wake", None, t)>>
               D == CallsOn("remove", t, wait_objects[t])
               R == <<Call("release", t, None)>>
    <3>1. t \in Threads /\ Tail(todo) \in Seq(CallSet)
      BY <1>1, <2>4, HeadCallType DEF Stop, NextCall
    <3> HIDE DEF t
    <3>2. wait_objects[t] \in Seq(Objects)
      BY <3>1 DEF TypeOK, ThreadTypeOK
    <3>3. W \in Seq(CallSet) /\ D \in Seq(CallSet) /\ R \in Seq(CallSet)
      BY <3>1, <3>2, CallsOnType, CallType, SMTT(30) DEF Objects
    <3>4. todo' = W \o D \o R \o Tail(todo)
      BY <2>4 DEF Stop, t
    <3> DEFINE X == W \o D \o R
    <3>5. X \in Seq(CallSet) /\ todo' = X \o Tail(todo)
      <4> HIDE DEF W, D, R
      <4> QED
        BY <3>3, <3>4, ConcatProperties, SMTT(30)
    <3> HIDE DEF X
    <3> QED
      BY <2>2, <3>1, <3>5, ReleasingConcat, ZenonT(40)
  <2> QED
    BY <2>3, <2>4
<1> QED
  BY <1>2, <1>4, MutexesUnchanged

(* Mutex::Acquire.                                                         *)
LEMMA AcquireMutexMutex ==
    ASSUME TypeOK, MutexOK, AcquireMutex
    PROVE  MutexOK'
<1> DEFINE t == CallThread
           m == CallObject
<1>1. /\ todo \in Seq(CallSet) /\ todo # <<>> /\ Head(todo).op = "acquire"
      /\ todo' = Tail(todo) /\ m \in Mutexes
  BY DEF AcquireMutex, NextCall, TypeOK, LoopTypeOK
<1>2. t \in Threads
  BY <1>1, HeadCallType
<1>3. \A u \in Threads : Releasing(u) => Releasing(u)'
  BY <1>1, HeadNotRelease, ReleasingTail, Zenon
<1>4. /\ lock_count \in [Mutexes -> Nat]
      /\ holding_thread \in [Mutexes -> Threads \cup {None}]
      /\ held_mutexes \in [Threads -> SUBSET Mutexes]
  BY DEF TypeOK, ThreadTypeOK, ObjectTypeOK
<1>5. t # None
  BY <1>2, ConstantsAssumption DEF Objects
<1> HIDE DEF t, m
<1>6. lock_count' = [lock_count EXCEPT ![m] = @ + 1]
  BY Zenon DEF AcquireMutex, m
<1>7. CASE lock_count[m] = 0
  <2>1. /\ held_mutexes' = [held_mutexes EXCEPT ![t] = @ \cup {m}]
        /\ holding_thread' = [holding_thread EXCEPT ![m] = t]
    BY <1>7 DEF AcquireMutex, t, m
  <2>2. holding_thread[m] = None
    BY <1>1, <1>7 DEF MutexOK
  <2>3. ASSUME NEW n \in Mutexes
        PROVE  /\ (lock_count'[n] > 0) <=> (holding_thread'[n] # None)
               /\ holding_thread'[n] # None => n \in held_mutexes'[holding_thread'[n]]
    <3>1. CASE n = m
      <4>1. /\ lock_count'[n] = lock_count[m] + 1 /\ lock_count[m] \in Nat
            /\ holding_thread'[n] = t /\ n \in held_mutexes'[t]
        BY <1>1, <1>2, <1>4, <1>6, <2>1, <3>1, Zenon
      <4> QED
        BY <1>5, <4>1
    <3>2. CASE n # m
      <4>1. lock_count'[n] = lock_count[n] /\ holding_thread'[n] = holding_thread[n]
        BY <1>4, <1>6, <2>1, <3>2
      <4>2. \A u \in Threads : held_mutexes[u] \subseteq held_mutexes'[u]
        BY <1>4, <2>1, Zenon
      <4>3. /\ lock_count[n] > 0 <=> holding_thread[n] # None
            /\ holding_thread[n] # None => n \in held_mutexes[holding_thread[n]]
        BY ZenonT(40) DEF MutexOK
      <4> QED
        BY <1>4, <4>1, <4>2, <4>3, Zenon
    <3> QED
      BY <3>1, <3>2
  <2>4. ASSUME NEW u \in Threads, NEW n \in held_mutexes'[u]
        PROVE  holding_thread'[n] = u \/ Releasing(u)'
    <3>1. CASE u = t /\ n = m
      BY <1>1, <1>4, <2>1, <3>1, Zenon
    <3>2. CASE ~(u = t /\ n = m)
      <4>1. n \in held_mutexes[u]
        BY <1>4, <2>1, <2>4, <3>2, Zenon
      <4>2. holding_thread[n] = u \/ Releasing(u)
        BY <4>1, ZenonT(40) DEF MutexOK, Releasing
      <4>3. n = m => u # None /\ holding_thread[n] # u
        BY <2>2, ConstantsAssumption DEF Objects
      <4>4. n # m => holding_thread'[n] = holding_thread[n]
        BY <1>4, <2>1, <4>1, Zenon
      <4> QED
        BY <1>3, <4>2, <4>3, <4>4, Zenon
    <3> QED
      BY <3>1, <3>2
  <2> QED
    BY <2>3, <2>4, Zenon DEF MutexOK, Releasing
<1>8. CASE lock_count[m] # 0
  <2>1. UNCHANGED <<holding_thread, held_mutexes>>
    BY <1>8 DEF AcquireMutex, m
  <2>2. \A n \in Mutexes : lock_count'[n] > 0 <=> lock_count[n] > 0
    BY <1>4, <1>6, <1>8, SMTT(30)
  <2> QED
    BY <1>3, <2>1, <2>2, Zenon DEF MutexOK, Releasing
<1> QED
  BY <1>7, <1>8

(* ReleaseThreadMutexes.                                                   *)
LEMMA ReleaseThreadMutexesMutex ==
    ASSUME TypeOK, MutexOK, ReleaseThreadMutexes
    PROVE  MutexOK'
<1> DEFINE t == CallThread
           left == {m \in held_mutexes[t] : holding_thread[m] = t}
<1>1. todo \in Seq(CallSet) /\ todo # <<>> /\ Head(todo).op = "release"
  BY DEF ReleaseThreadMutexes, NextCall, TypeOK, LoopTypeOK
<1>2. t \in Threads /\ Head(todo) \in CallSet
  BY <1>1, HeadCallType, Zenon
<1>3. Head(todo) = Call("release", t, None)
  BY <1>1, <1>2, ZenonT(40) DEF CallSet, Call, CallThread
<1>4. /\ lock_count \in [Mutexes -> Nat]
      /\ holding_thread \in [Mutexes -> Threads \cup {None}]
      /\ held_mutexes \in [Threads -> SUBSET Mutexes]
  BY DEF TypeOK, ThreadTypeOK, ObjectTypeOK
<1>5. CASE \E m \in left :
             /\ lock_count' = [lock_count EXCEPT ![m] = 0]
             /\ holding_thread' = [holding_thread EXCEPT ![m] = None]
             /\ todo' = <<Call("wake", None, m)>> \o todo
             /\ UNCHANGED held_mutexes
  <2>1. PICK m \in left :
             /\ lock_count' = [lock_count EXCEPT ![m] = 0]
             /\ holding_thread' = [holding_thread EXCEPT ![m] = None]
             /\ todo' = <<Call("wake", None, m)>> \o todo
             /\ UNCHANGED held_mutexes
    BY <1>5, ZenonT(40)
  <2>2. m \in Mutexes /\ m \in held_mutexes[t] /\ holding_thread[m] = t
    BY <1>2, <1>4, Zenon
  <2>3. <<Call("wake", None, m)>> \in Seq(CallSet)
    BY <2>2, CallType DEF Objects
  <2>4. \A u \in Threads : Releasing(u) => Releasing(u)'
    BY <1>1, <2>1, <2>3, ReleasingConcat, ZenonT(40) DEF Releasing
  <2>5. Releasing(t)
    BY <1>1, <1>3 DEF Releasing
  <2> HIDE DEF t, left
  <2>6. ASSUME NEW n \in Mutexes
        PROVE  /\ (lock_count'[n] > 0) <=> (holding_thread'[n] # None)
               /\ holding_thread'[n] # None => n \in held_mutexes'[holding_thread'[n]]
    <3>1. CASE n = m
      BY <1>4, <2>1, <2>2, <3>1
    <3>2. CASE n # m
      BY <1>4, <2>1, <3>2, Zenon DEF MutexOK
    <3> QED
      BY <3>1, <3>2
  <2>7. ASSUME NEW u \in Threads, NEW n \in held_mutexes'[u]
        PROVE  holding_thread'[n] = u \/ Releasing(u)'
    <3>1. n \in held_mutexes[u] /\ n \in Mutexes
      BY <1>4, <2>1
    <3>2. holding_thread[n] = u \/ Releasing(u)
      BY <3>1 DEF MutexOK, Releasing
    <3>3. CASE n = m /\ u = t
      BY <1>2, <2>4, <2>5, <3>3, ZenonT(40)
    <3>4. CASE n = m /\ u # t
      BY <2>2, <2>4, <3>2, <3>4
    <3>5. CASE n # m
      BY <1>4, <2>1, <2>4, <3>1, <3>2, <3>5, Zenon
    <3> QED
      BY <3>3, <3>4, <3>5, Zenon
  <2> QED
    BY <2>6, <2>7 DEF MutexOK, Releasing
<1>6. CASE /\ left = {}
           /\ held_mutexes' = [held_mutexes EXCEPT ![t] = {}]
           /\ todo' = Tail(todo)
           /\ UNCHANGED <<lock_count, holding_thread>>
  <2>1. ASSUME NEW u \in Threads, u # t, Releasing(u)
        PROVE  Releasing(u)'
    <3>1. Head(todo) # Call("release", u, None)
      BY <1>3, <2>1 DEF Call
    <3> QED
      BY <1>1, <1>6, <2>1, <3>1, ReleasingTail, Zenon
  <2>2. \A m \in held_mutexes[t] : holding_thread[m] # t
    BY <1>6
  <2> HIDE DEF t, left
  <2>3. ASSUME NEW n \in Mutexes, holding_thread'[n] # None
        PROVE  n \in held_mutexes'[holding_thread'[n]]
    <3>1. n \in held_mutexes[holding_thread[n]] /\ holding_thread[n] \in Threads
      BY <1>4, <1>6, <2>3, Zenon DEF MutexOK
    <3>2. holding_thread[n] # t
      BY <2>2, <3>1
    <3> QED
      BY <1>4, <1>6, <3>1, <3>2, Zenon
  <2>4. ASSUME NEW u \in Threads, NEW n \in held_mutexes'[u]
        PROVE  holding_thread'[n] = u \/ Releasing(u)'
    <3>1. u # t /\ n \in held_mutexes[u]
      BY <1>4, <1>6, <2>4, Zenon
    <3>2. holding_thread[n] = u \/ Releasing(u)
      BY <3>1 DEF MutexOK, Releasing
    <3> QED
      BY <1>6, <2>1, <3>1, <3>2, Zenon
  <2>5. \A n \in Mutexes : (lock_count'[n] > 0) <=> (holding_thread'[n] # None)
    BY <1>6 DEF MutexOK
  <2> QED
    BY <2>3, <2>4, <2>5, Zenon DEF MutexOK, Releasing
<1> QED
  BY <1>5, <1>6, Zenon DEF ReleaseThreadMutexes

(* Mutex::Release, when no call is pending.                                *)
LEMMA ReleaseMutexMutex ==
    ASSUME TypeOK, MutexOK, NEW t \in Threads, ReleaseMutex(t)
    PROVE  MutexOK'
<1>1. todo = <<>>
  BY Zenon DEF ReleaseMutex, SVC, InTask
<1>2. \A u \in Threads : ~Releasing(u)
  BY <1>1 DEF Releasing
<1>3. /\ lock_count \in [Mutexes -> Nat]
      /\ holding_thread \in [Mutexes -> Threads \cup {None}]
      /\ held_mutexes \in [Threads -> SUBSET Mutexes]
  BY DEF TypeOK, ThreadTypeOK, ObjectTypeOK
<1>4. PICK m \in Mutexes :
        \/ UNCHANGED <<lock_count, holding_thread, held_mutexes>>
        \/ /\ lock_count[m] > 1
           /\ lock_count' = [lock_count EXCEPT ![m] = @ - 1]
           /\ UNCHANGED <<holding_thread, held_mutexes>>
        \/ /\ holding_thread[m] = t
           /\ lock_count' = [lock_count EXCEPT ![m] = 0]
           /\ held_mutexes' = [held_mutexes EXCEPT ![t] = @ \ {m}]
           /\ holding_thread' = [holding_thread EXCEPT ![m] = None]
  BY Zenon DEF ReleaseMutex, Unlock
<1>5. \A u \in Threads : \A n \in held_mutexes[u] : holding_thread[n] = u
  BY <1>2, Zenon DEF MutexOK, Releasing
<1>6. CASE UNCHANGED <<lock_count, holding_thread, held_mutexes>>
  BY <1>2, <1>6, MutexesUnchanged, Zenon
<1>7. CASE /\ lock_count[m] > 1
           /\ lock_count' = [lock_count EXCEPT ![m] = @ - 1]
           /\ UNCHANGED <<holding_thread, held_mutexes>>
  <2>1. \A n \in Mutexes : lock_count'[n] > 0 <=> lock_count[n] > 0
    BY <1>3, <1>7, SMTT(30)
  <2> QED
    BY <1>5, <1>7, <2>1, Zenon DEF MutexOK
<1>8. CASE /\ holding_thread[m] = t
           /\ lock_count' = [lock_count EXCEPT ![m] = 0]
           /\ held_mutexes' = [held_mutexes EXCEPT ![t] = @ \ {m}]
           /\ holding_thread' = [holding_thread EXCEPT ![m] = None]
  <2>1. ASSUME NEW n \in Mutexes
        PROVE  /\ (lock_count'[n] > 0) <=> (holding_thread'[n] # None)
               /\ holding_thread'[n] # None => n \in held_mutexes'[holding_thread'[n]]
    <3>1. CASE n = m
      <4>1. lock_count'[n] = 0 /\ holding_thread'[n] = None
        BY <1>3, <1>8, <3>1, Zenon
      <4> QED
        BY <4>1
    <3>2. CASE n # m
      BY <1>3, <1>8, <3>2, Zenon DEF MutexOK
    <3> QED
      BY <3>1, <3>2, Zenon
  <2>2. ASSUME NEW u \in Threads, NEW n \in held_mutexes'[u]
        PROVE  holding_thread'[n] = u
    <3>1. n \in held_mutexes[u] /\ n \in Mutexes /\ (u = t => n # m)
      BY <1>3, <1>8, Zenon
    <3>2. holding_thread[n] = u
      BY <1>5, <3>1
    <3>3. n # m
      BY <1>8, <3>1, <3>2
    <3> QED
      BY <1>3, <1>8, <3>2, <3>3, Zenon
  <2> QED
    BY <2>1, <2>2, Zenon DEF MutexOK
<1> QED
  BY <1>4, <1>6, <1>7, <1>8, Zenon

(* The other system calls, timeouts and the run loop: nothing is being     *)
(* released, and no mutex changes.                                         *)
LEMMA OtherStepsMutex ==
    ASSUME TypeOK, MutexOK, todo = <<>>,
           UNCHANGED <<lock_count, holding_thread, held_mutexes>>
    PROVE  MutexOK'
<1>1. \A u \in Threads : ~Releasing(u)
  BY DEF Releasing
<1> QED
  BY <1>1, MutexesUnchanged

(* Every step keeps MutexOK.                                               *)
LEMMA NextMutex == TypeOK /\ MutexOK /\ [Next]_vars => MutexOK'
<1> SUFFICES ASSUME TypeOK, MutexOK, [Next]_vars PROVE MutexOK'
  OBVIOUS
<1>1. CASE KernelCall
  BY <1>1, ReturningCallsMutex, NestingCallsMutex, AcquireMutexMutex,
     ReleaseThreadMutexesMutex, Zenon DEF KernelCall
<1>2. CASE SystemCall
  <2>1. PICK t \in Threads :
        \/ WaitSynchronization1(t) \/ WaitSynchronizationN(t)
        \/ ReleaseMutex(t) \/ SignalEvent(t) \/ ClearEvent(t) \/ ReleaseSemaphore(t)
        \/ SetThreadPriority(t) \/ SleepThread(t)
        \/ CreateThread(t) \/ ExitThread(t)
        \/ ScheduleThreadsWithoutMagic(t)
    BY <1>2 DEF SystemCall
  <2>2. CASE WaitSynchronization1(t) \/ WaitSynchronizationN(t)
    <3>1. todo = <<>> /\ UNCHANGED <<lock_count, holding_thread, held_mutexes>>
      BY <2>2, ZenonT(40) DEF WaitSynchronization1, WaitSynchronizationN, WaitSynchronization, SVC,
                  InTask, objectVars
    <3> QED
      BY <3>1, OtherStepsMutex, Zenon
  <2>3. CASE ReleaseMutex(t)
    BY <2>3, ReleaseMutexMutex
  <2>4. CASE \/ SignalEvent(t) \/ ClearEvent(t) \/ ReleaseSemaphore(t)
             \/ SetThreadPriority(t) \/ SleepThread(t) \/ CreateThread(t) \/ ExitThread(t)
             \/ ScheduleThreadsWithoutMagic(t)
    <3>1. todo = <<>>
      BY <2>4, ZenonT(40)
         DEF SignalEvent, ClearEvent, ReleaseSemaphore, SetThreadPriority, SleepThread,
                  CreateThread, ExitThread, ScheduleThreadsWithoutMagic, SVC, InTask
    <3>2. UNCHANGED <<lock_count, holding_thread, held_mutexes>>
      BY <2>4, ZenonT(40)
         DEF SignalEvent, ClearEvent, ReleaseSemaphore, SetThreadPriority, SleepThread,
                  CreateThread, ExitThread, ScheduleThreadsWithoutMagic, threadVars, objectVars
    <3> QED
      BY <3>1, <3>2, OtherStepsMutex, Zenon
  <2> QED
    BY <2>1, <2>2, <2>3, <2>4, Zenon
<1>3. CASE RunLoop \/ \E t \in Threads : ThreadWakeupCallback(t)
  <2>1. todo = <<>>
    BY <1>3, ZenonT(40) DEF RunLoop, BeginIteration, BeginLateIteration, RescheduleTask, EndSlice,
                EndIteration, ThreadWakeupCallback, InTask
  <2>2. UNCHANGED <<lock_count, holding_thread, held_mutexes>>
    BY <1>3, Zenon DEF RunLoop, BeginIteration, BeginLateIteration, RescheduleTask, Reschedule,
                EndSlice, EndIteration, ThreadWakeupCallback, threadVars, objectVars
  <2> QED
    BY <2>1, <2>2, OtherStepsMutex
<1>4. CASE UNCHANGED vars
  BY <1>4, Zenon DEF vars, threadVars, objectVars, MutexOK
<1> QED
  BY <1>1, <1>2, <1>3, <1>4, Zenon DEF Next

(* Mutual exclusion of the emulated mutexes, whatever the threads, timers  *)
(* and exits do: a mutex is locked exactly when it has a holder, which is  *)
(* what the assertion in Mutex::Release says, the holder lists it, and no  *)
(* other thread does except while its mutexes are being released.          *)
THEOREM MutexCorrect == Spec => []MutexOK
<1>1. Init => MutexOK
  <2> SUFFICES ASSUME Init PROVE MutexOK
    BY Zenon
  <2>1. /\ \A m \in Mutexes : lock_count[m] = 0 /\ holding_thread[m] = None
        /\ \A t \in Threads : held_mutexes[t] = {}
    BY Zenon DEF Init
  <2>2. ~(0 > 0)
    OBVIOUS
  <2> QED
    BY <2>1, <2>2, Zenon DEF MutexOK
<1>2. TypeOK /\ MutexOK /\ [Next]_vars => MutexOK'
  BY NextMutex
<1> QED
  BY <1>1, <1>2, TypeCorrect, PTL DEF Spec
=============================================================================
