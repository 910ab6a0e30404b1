------------------------- MODULE KernelStatusProofs -------------------------
(***************************************************************************)
(* The status of a thread agrees with the ready queues, with what the      *)
(* cores run and with its priority, for any number of threads, objects and *)
(* cores.  The inductive invariant SchedulerInv adds what the calls still  *)
(* to be made and the tasks still to be done rely on: a core is            *)
(* rescheduled before it runs, no call concerns a thread that is not       *)
(* created yet, and only a thread that executes is stopped.                *)
(***************************************************************************)
EXTENDS KernelSchedulerProofs

(* The calls still to be made.                                             *)

(* The calls that a kernel call leaves or makes.                           *)
LEMMA KernelNewCalls ==
    ASSUME TypeOK, KernelCall, NEW x \in Range(todo')
    PROVE  \/ x \in Range(todo) /\ (Stop => x \in Range(Tail(todo)))
           \/ x.op = "wake" /\ x.thread = None
           \/ /\ WakeupNext /\ x.op \in {"acquire", "remove", "resume"}
              /\ \E o \in Objects : x.thread \in Range(waiting_threads[o])
           \/ Stop /\ x.op \in {"remove", "release"} /\ x.thread = CallThread
<1>1. /\ todo \in Seq(CallSet) /\ todo' \in Seq(CallSet)
      /\ todo # <<>> /\ Range(Tail(todo)) \subseteq Range(todo)
  <2>1. todo # <<>>
    BY Zenon DEF KernelCall, AcquireMutex, AcquireEvent, AcquireSemaphore,
       AcquireThread, AddWaitingThread, RemoveWaitingThread, ResumeFromWait, WakeupNext,
       WakeupDone, Stop, ReleaseThreadMutexes, UpdatePending, NextCall
  <2>2. TypeOK'
    BY KernelCallType
  <2> QED
    BY <2>1, <2>2, RangeTail, Zenon DEF TypeOK, LoopTypeOK
<1>2. CASE todo' = Tail(todo) /\ ~Stop
  BY <1>1, <1>2, Zenon
<1>3. CASE WakeupNext
  <2> DEFINE o == CallObject
             t == GetHighestPriorityReadyThread(o)
  <2>1. o \in Objects
    BY <1>1, <1>3, HeadCallType DEF WakeupNext, NextCall
  <2>2. t \in Threads /\ t \in Range(waiting_threads[o])
    BY <1>3, <2>1, CandidateType DEF WakeupNext, TypeOK
  <2>3. ~Stop
    BY <1>3 DEF WakeupNext, Stop, NextCall
  <2> HIDE DEF t, o
  <2> DEFINE os == IF status[t] = "WaitSynchAll" THEN wait_objects[t] ELSE <<o>>
             A == CallsOn("acquire", t, os)
             B == CallsOn("remove", t, wait_objects[t])
             R == <<Call("resume", t, None)>>
  <2>4. wait_objects[t] \in Seq(Objects) /\ os \in Seq(Objects)
    BY <2>1, <2>2 DEF TypeOK, ThreadTypeOK
  <2>5. A \in Seq(CallSet) /\ B \in Seq(CallSet) /\ R \in Seq(CallSet)
    <3> HIDE DEF os
    <3> QED
      BY <2>2, <2>4, CallsOnType, CallType
  <2>6. todo' = A \o B \o R \o todo
    BY <1>3, Zenon DEF WakeupNext, WakeupCalls, t, o
  <2>7. \A y \in Range(A) \cup Range(B) \cup Range(R) :
           y.op \in {"acquire", "remove", "resume"} /\ y.thread = t
    <3> HIDE DEF os
    <3>1. \A y \in Range(A) : y.op = "acquire" /\ y.thread = t
      BY CallsOnMember
    <3>2. \A y \in Range(B) : y.op = "remove" /\ y.thread = t
      BY CallsOnMember
    <3>3. \A y \in Range(R) : y.op = "resume" /\ y.thread = t
      BY CallMember, Zenon
    <3> QED
      BY <3>1, <3>2, <3>3
  <2> HIDE DEF A, B, R
  <2>8. x \in Range(A) \cup Range(B) \cup Range(R) \/ x \in Range(todo)
    <3>1. A \o B \in Seq(CallSet) /\ (A \o B) \o R \in Seq(CallSet)
      BY <2>5, ConcatProperties, Zenon
    <3>2. Range(A \o B) = Range(A) \cup Range(B)
      BY <2>5, RangeConcat, ZenonT(40)
    <3>3. Range((A \o B) \o R) = Range(A \o B) \cup Range(R)
      <4> DEFINE AB == A \o B
      <4>1. AB \in Seq(CallSet) /\ R \in Seq(CallSet)
        BY <2>5, <3>1, Zenon
      <4> HIDE DEF AB
      <4>2. Range(AB \o R) = Range(AB) \cup Range(R)
        BY <4>1, RangeConcat
      <4> QED
        BY <4>2 DEF AB
    <3> DEFINE P == (A \o B) \o R
    <3>5. P \in Seq(CallSet) /\ todo' = P \o todo
      BY <2>6, <3>1
    <3> HIDE DEF P
    <3>6. Range(P \o todo) = Range(P) \cup Range(todo)
      BY <1>1, <3>5, RangeConcat
    <3>4. Range(todo') = Range((A \o B) \o R) \cup Range(todo)
      BY <3>5, <3>6, Zenon DEF P
    <3> QED
      BY <3>2, <3>3, <3>4, Zenon
  <2> QED
    BY <1>3, <2>1, <2>2, <2>3, <2>7, <2>8, ZenonT(40)
<1>4. CASE ReleaseThreadMutexes /\ todo' # Tail(todo)
  <2>1. PICK m : /\ m \in held_mutexes[CallThread]
                 /\ todo' = <<Call("wake", None, m)>> \o todo
    BY <1>4, ZenonT(40) DEF ReleaseThreadMutexes
  <2>2. Head(todo).op = "release" /\ ~Stop
    BY <1>4 DEF ReleaseThreadMutexes, Stop, NextCall
  <2>3. CallThread \in Threads
    BY <1>1, <2>2, HeadCallType, Zenon
  <2>4. m \in Mutexes
    BY <2>1, <2>3, ZenonT(40) DEF TypeOK, ThreadTypeOK
  <2>5. <<Call("wake", None, m)>> \in Seq(CallSet)
    BY <2>4, CallType DEF Objects
  <2> DEFINE W == <<Call("wake", None, m)>>
  <2>7. Range(W) = {Call("wake", None, m)}
    BY RangeCalls, Zenon
  <2> HIDE DEF W
  <2>8. Range(W \o todo) = Range(W) \cup Range(todo)
    <3>1. W \in Seq(CallSet) /\ todo \in Seq(CallSet)
      BY <1>1, <2>5, Zenon DEF W
    <3> QED
      BY <3>1, RangeConcat
  <2>6. Range(todo') = {Call("wake", None, m)} \cup Range(todo)
    BY <2>1, <2>7, <2>8, Zenon DEF W
  <2>9. CASE x = Call("wake", None, m)
    BY <2>9, Zenon DEF Call
  <2> QED
    BY <2>2, <2>6, <2>9, Zenon
<1>5. CASE Stop
  <2> DEFINE t == CallThread
             W == <<Call("wake", None, t)>>
             D == CallsOn("remove", t, wait_objects[t])
             R == <<Call("release", t, None)>>
  <2>1. t \in Threads /\ Tail(todo) \in Seq(CallSet)
    BY <1>1, <1>5, HeadCallType DEF Stop, NextCall
  <2> HIDE DEF t
  <2>2. wait_objects[t] \in Seq(Objects)
    BY <2>1 DEF TypeOK, ThreadTypeOK
  <2>3. W \in Seq(CallSet) /\ D \in Seq(CallSet) /\ R \in Seq(CallSet)
    <3>1. t \in Objects
      BY <2>1 DEF Objects
    <3> QED
      BY <2>1, <2>2, <3>1, CallsOnType, CallType
  <2>4. todo' = W \o D \o R \o Tail(todo)
    BY <1>5, Zenon DEF Stop, t
  <2>5. /\ \A y \in Range(W) : y.op = "wake" /\ y.thread = None
        /\ \A y \in Range(D) \cup Range(R) : y.op \in {"remove", "release"} /\ y.thread = t
    <3>1. \A y \in Range(W) : y.op = "wake" /\ y.thread = None
      BY CallMember, Zenon
    <3>2. \A y \in Range(D) : y.op = "remove" /\ y.thread = t
      BY CallsOnMember
    <3>3. \A y \in Range(R) : y.op = "release" /\ y.thread = t
      BY CallMember, Zenon
    <3> QED
      BY <3>1, <3>2, <3>3
  <2> HIDE DEF W, D, R
  <2>6. x \in Range(W) \cup Range(D) \cup Range(R) \/ x \in Range(Tail(todo))
    <3>1. W \o D \in Seq(CallSet) /\ (W \o D) \o R \in Seq(CallSet)
      BY <2>3, ConcatProperties, Zenon
    <3>2. Range(W \o D) = Range(W) \cup Range(D)
      BY <2>3, RangeConcat, Zenon
    <3>3. Range((W \o D) \o R) = Range(W \o D) \cup Range(R)
      <4> DEFINE WD == W \o D
      <4>1. WD \in Seq(CallSet) /\ R \in Seq(CallSet)
        BY <2>3, <3>1, Zenon
      <4> HIDE DEF WD
      <4>2. Range(WD \o R) = Range(WD) \cup Range(R)
        BY <4>1, RangeConcat
      <4> QED
        BY <4>2 DEF WD
    <3> DEFINE P == (W \o D) \o R
               Q == Tail(todo)
    <3>5. P \in Seq(CallSet) /\ Q \in Seq(CallSet) /\ todo' = P \o Q
      BY <2>1, <2>4, <3>1
    <3> HIDE DEF P, Q
    <3>6. Range(P \o Q) = Range(P) \cup Range(Q)
      BY <3>5, RangeConcat
    <3>4. Range(todo') = Range((W \o D) \o R) \cup Range(Tail(todo))
      BY <3>5, <3>6, Zenon DEF P, Q
    <3> QED
      BY <3>2, <3>3, <3>4, ZenonT(40)
  <2> QED
    BY <1>1, <1>5, <2>5, <2>6, ZenonT(40) DEF t
<1> QED
  <2>1. KernelCall => todo' = Tail(todo) \/ WakeupNext \/ Stop \/ ReleaseThreadMutexes
    BY ZenonT(40) DEF KernelCall, AcquireMutex, AcquireEvent, AcquireSemaphore, AcquireThread,
       AddWaitingThread, RemoveWaitingThread, ResumeFromWait, WakeupDone, UpdatePending
  <2> QED
    BY <1>2, <1>3, <1>4, <1>5, <2>1, Zenon

(* The calls that a system call makes.                                     *)
LEMMA SystemNewCalls ==
    ASSUME TypeOK, NEW t \in Threads, SystemCallOf(t), todo = <<>>, NEW x \in Range(todo')
    PROVE  \/ x.op \in {"wake", "update"} /\ x.thread = None
           \/ x.op \in {"acquire", "add"} /\ x.thread = t
           \/ ExitThread(t) /\ x = Call("stop", t, None)
<1>1. todo' # <<>> /\ todo' # todo
  BY RangeCalls, Zenon
<1>2. CASE WaitSynchronization1(t) \/ WaitSynchronizationN(t)
  <2>1. \E os : todo' = CallsOn("acquire", t, os) \/ todo' = CallsOn("add", t, os)
    BY <1>1, <1>2, WaitSynchronizationCases, ZenonT(40) DEF Block
  <2>2. PICK os : todo' = CallsOn("acquire", t, os) \/ todo' = CallsOn("add", t, os)
    BY <2>1
  <2>3. CASE todo' = CallsOn("acquire", t, os)
    BY <2>3, CallsOnMember
  <2>4. CASE todo' = CallsOn("add", t, os)
    BY <2>4, CallsOnMember
  <2> QED
    BY <2>2, <2>3, <2>4
<1>3. CASE ReleaseMutex(t) \/ SignalEvent(t) \/ ReleaseSemaphore(t)
  <2>1. PICK o : todo' = <<Call("wake", None, o)>>
    BY <1>1, <1>3, ZenonT(40) DEF ReleaseMutex, SignalEvent, ReleaseSemaphore
  <2> QED
    BY <2>1, CallMember
<1>4. CASE SetThreadPriority(t)
  <2>1. PICK ms : todo' = CallsOn("update", None, ms)
    BY <1>4, ZenonT(40) DEF SetThreadPriority
  <2> QED
    BY <2>1, CallsOnMember
<1>5. CASE ExitThread(t)
  BY <1>5, RangeCalls, Zenon DEF ExitThread
<1>6. CASE ClearEvent(t) \/ SleepThread(t) \/ CreateThread(t) \/ ScheduleThreadsWithoutMagic(t)
  BY <1>1, <1>6, ZenonT(40) DEF ClearEvent, SleepThread, CreateThread, ScheduleThreadsWithoutMagic
<1> QED
  BY <1>2, <1>3, <1>4, <1>5, <1>6, ZenonT(40) DEF SystemCallOf

(* Nothing gets to know a thread before it is created: the calls.          *)
LEMMA KernelCallCreated ==
    ASSUME TypeOK, TypeOK', SchedulerInv, KernelCall
    PROVE  CreatedInv' /\ ExitInv'
<1>1. Effect
  BY KernelCallEffect
<1>2. todo \in Seq(CallSet) /\ todo # <<>> /\ None \notin Threads
  BY ConstantsAssumption, Zenon DEF TypeOK, LoopTypeOK, KernelCall, AcquireMutex, AcquireEvent,
     AcquireSemaphore, AcquireThread, AddWaitingThread, RemoveWaitingThread, ResumeFromWait,
     WakeupNext, WakeupDone, Stop, ReleaseThreadMutexes, UpdatePending, NextCall, Objects
<1>3. ASSUME NEW u \in Threads, status[u] = "Dormant"
      PROVE  /\ ~armed'[u]
             /\ \A m \in Mutexes : holding_thread'[m] # u
             /\ \A o \in Objects : u \notin Range(waiting_threads'[o])
             /\ \A x \in Range(todo') : x.thread # u
  <2>1. /\ ~armed[u]
        /\ \A m \in Mutexes : holding_thread[m] # u
        /\ \A o \in Objects : u \notin Range(waiting_threads[o])
        /\ \A x \in Range(todo) : x.thread # u
    BY <1>3, Zenon DEF SchedulerInv, CreatedInv
  <2>2. CallThread # u
    BY <1>2, <2>1, RangeTail, Zenon DEF CallThread
  <2>3. ~armed'[u]
    <3>1. armed' = armed \/ armed' = [armed EXCEPT ![CallThread] = FALSE]
      BY ZenonT(40) DEF KernelCall, AcquireMutex, AcquireEvent,
         AcquireSemaphore, AcquireThread, AddWaitingThread, RemoveWaitingThread, ResumeFromWait,
         WakeupNext, WakeupDone, Stop, ReleaseThreadMutexes, UpdatePending, threadVars
    <3>2. armed \in [Threads -> BOOLEAN]
      BY DEF TypeOK, ThreadTypeOK
    <3> QED
      BY <2>1, <3>1, <3>2, Zenon
  <2>4. \A m \in Mutexes : holding_thread'[m] # u
    <3>1. \/ holding_thread' = holding_thread
          \/ \E n \in Mutexes : \E h \in {CallThread, None} :
                holding_thread' = [holding_thread EXCEPT ![n] = h]
      <4>1. CASE AcquireMutex
        BY <4>1, ZenonT(40) DEF AcquireMutex
      <4>2. CASE ReleaseThreadMutexes
        <5>1. Head(todo).op = "release"
          BY <4>2 DEF ReleaseThreadMutexes, NextCall
        <5>2. held_mutexes[CallThread] \subseteq Mutexes
          BY <1>2, <5>1, HeadCallType, ZenonT(40) DEF TypeOK, ThreadTypeOK
        <5> QED
          BY <4>2, <5>2, ZenonT(40) DEF ReleaseThreadMutexes
      <4> QED
        BY <4>1, <4>2, ZenonT(40) DEF KernelCall, AcquireEvent,
           AcquireSemaphore, AcquireThread, AddWaitingThread, RemoveWaitingThread, ResumeFromWait,
           WakeupNext, WakeupDone, Stop, UpdatePending, objectVars
    <3>2. holding_thread \in [Mutexes -> Threads \cup {None}]
      BY DEF TypeOK, ObjectTypeOK
    <3> QED
      BY <1>2, <2>1, <2>2, <3>1, <3>2, ZenonT(40)
  <2>5. \A o \in Objects : u \notin Range(waiting_threads'[o])
    <3> SUFFICES ASSUME NEW o \in Objects PROVE u \notin Range(waiting_threads'[o])
      OBVIOUS
    <3>1. waiting_threads \in [Objects -> Seq(Threads)] /\ waiting_threads[o] \in Seq(Threads)
      BY DEF TypeOK, ObjectTypeOK
    <3>2. \/ waiting_threads'[o] = waiting_threads[o]
          \/ Head(todo).op = "add" /\ waiting_threads'[o] = Append(waiting_threads[o], CallThread)
          \/ waiting_threads'[o] = RemoveFirst(waiting_threads[o], CallThread)
      <4>1. \/ waiting_threads' = waiting_threads
            \/ /\ Head(todo).op = "add"
               /\ waiting_threads' = [waiting_threads EXCEPT ![CallObject] = Append(@, CallThread)]
            \/ waiting_threads' = [waiting_threads EXCEPT ![CallObject] =
                                      RemoveFirst(@, CallThread)]
        BY ZenonT(40) DEF KernelCall, AcquireMutex, AcquireEvent,
           AcquireSemaphore, AcquireThread, AddWaitingThread, RemoveWaitingThread, ResumeFromWait,
           WakeupNext, WakeupDone, Stop, ReleaseThreadMutexes, UpdatePending, objectVars, NextCall
      <4> QED
        BY <3>1, <4>1, Zenon
    <3>3. Head(todo).op = "add" => CallThread \in Threads
      BY <1>2, HeadCallType, Zenon
    <3>4. Head(todo).op = "add" =>
             \A w \in Range(Append(waiting_threads[o], CallThread)) :
                w \in Range(waiting_threads[o]) \/ w = CallThread
      BY <3>1, <3>3 DEF Range
    <3>5. \A w \in Range(RemoveFirst(waiting_threads[o], CallThread)) : w \in Range(waiting_threads[o])
      BY <3>1, RemoveFirstRange, Zenon
    <3> QED
      BY <2>1, <2>2, <3>2, <3>4, <3>5, ZenonT(40)
  <2>6. ASSUME NEW x \in Range(todo') PROVE x.thread # u
    BY <1>2, <2>1, <2>2, KernelNewCalls, ZenonT(40)
  <2> QED
    BY <2>3, <2>4, <2>5, <2>6, Zenon
<1>4. CreatedInv'
  BY <1>1, <1>3, EffectStatus, ZenonT(40) DEF CreatedInv, SchedulerInv
<1>5. ASSUME NEW x \in Range(todo')
      PROVE  x.op # "stop" /\ (x.op = "release" => status'[x.thread] = "Dead")
  <2>1. ASSUME x \in Range(todo), x.op = "stop", Stop => x \in Range(Tail(todo))
        PROVE  FALSE
    <3>1. todo = <<x>>
      BY <2>1, Zenon DEF SchedulerInv, ExitInv
    <3>2. Head(todo) = x /\ Tail(todo) = <<>>
      BY <3>1
    <3>3. Stop
      BY <2>1, <3>2, ZenonT(40) DEF KernelCall, AcquireMutex, AcquireEvent,
         AcquireSemaphore, AcquireThread, AddWaitingThread, RemoveWaitingThread, ResumeFromWait,
         WakeupNext, WakeupDone, ReleaseThreadMutexes, UpdatePending, NextCall
    <3> QED
      BY <2>1, <3>2, <3>3, RangeCalls, Zenon
  <2>2. ASSUME x \in Range(todo), x.op = "release" PROVE status'[x.thread] = "Dead"
    <3>1. status[x.thread] = "Dead" /\ x \in CallSet
      <4>1. status[x.thread] = "Dead"
        BY <1>2, <2>2, Zenon DEF SchedulerInv, ExitInv
      <4>2. todo \in Seq(CallSet)
        BY <1>2, Zenon
      <4> QED
        BY <2>2, <4>1, <4>2 DEF Range
    <3>2. x.thread \in Threads
      BY <2>2, <3>1 DEF CallSet
    <3> QED
      BY <1>1, <3>1, <3>2, EffectStatus, ZenonT(40)
  <2>3. ASSUME Stop, x.thread = CallThread PROVE status'[x.thread] = "Dead"
    <3>1. CallThread \in Threads
      BY <1>2, <2>3, HeadCallType DEF Stop, NextCall
    <3> QED
      BY <2>3, <3>1 DEF Stop, TypeOK, ThreadTypeOK
  <2> QED
    BY <2>1, <2>2, <2>3, KernelNewCalls
<1> QED
  BY <1>4, <1>5, Zenon DEF ExitInv

LEMMA SystemCallCreated ==
    ASSUME TypeOK, TypeOK', SchedulerInv, NEW t \in Threads, SystemCallOf(t)
    PROVE  CreatedInv' /\ ExitInv'
<1>1. Effect
  BY SystemCallEffect, Zenon
<1>2. /\ todo = <<>> /\ agenda # <<>> /\ Head(agenda) = Task("run", CoreOf[t])
      /\ Head(agenda).stage = "run" /\ status[t] = "Running"
      /\ UNCHANGED <<agenda, current_thread>>
  BY SystemCallIsSVC, Executing, Zenon DEF SchedulerInv
<1>3. None \notin Threads
  BY ConstantsAssumption DEF Objects
<1>4. ASSUME NEW u \in Threads, status[u] = "Dormant"
      PROVE  /\ ~armed'[u]
             /\ \A m \in Mutexes : holding_thread'[m] # u
             /\ \A o \in Objects : u \notin Range(waiting_threads'[o])
             /\ \A x \in Range(todo') : x.thread # u
  <2>1. /\ ~armed[u]
        /\ \A m \in Mutexes : holding_thread[m] # u
        /\ \A o \in Objects : u \notin Range(waiting_threads[o])
        /\ u # t
    BY <1>2, <1>4, Zenon DEF SchedulerInv, CreatedInv
  <2>2. /\ armed' = armed \/ \E b : armed' = [armed EXCEPT ![t] = b]
        /\ waiting_threads' = waiting_threads
        /\ \/ holding_thread' = holding_thread
           \/ \E n \in Mutexes : holding_thread' = [holding_thread EXCEPT ![n] = None]
    <3>1. CASE WaitSynchronization1(t) \/ WaitSynchronizationN(t)
      <4>1. /\ armed' = armed \/ \E mode, os, timeout : Block(t, mode, os, timeout)
            /\ UNCHANGED objectVars
        BY <3>1, WaitSynchronizationCases, ZenonT(40)
      <4> QED
        BY <4>1, Zenon DEF Block, objectVars
    <3>2. CASE ReleaseMutex(t)
      BY <3>2, ZenonT(40) DEF ReleaseMutex, Unlock
    <3>3. CASE SignalEvent(t) \/ ClearEvent(t) \/ ReleaseSemaphore(t)
      BY <3>3, ZenonT(40) DEF SignalEvent, ClearEvent, ReleaseSemaphore, threadVars
    <3>4. CASE \/ SetThreadPriority(t) \/ SleepThread(t) \/ CreateThread(t) \/ ExitThread(t)
               \/ ScheduleThreadsWithoutMagic(t)
      BY <3>4, ZenonT(40) DEF SetThreadPriority, SleepThread, CreateThread, ExitThread,
         ScheduleThreadsWithoutMagic, threadVars, objectVars
    <3> QED
      BY <3>1, <3>2, <3>3, <3>4, ZenonT(40) DEF SystemCallOf
  <2>3. armed \in [Threads -> BOOLEAN] /\ holding_thread \in [Mutexes -> Threads \cup {None}]
    BY DEF TypeOK, ThreadTypeOK, ObjectTypeOK
  <2>4. ~armed'[u]
    BY <2>1, <2>2, <2>3, Zenon
  <2>5. \A m \in Mutexes : holding_thread'[m] # u
    BY <1>3, <2>1, <2>2, <2>3, ZenonT(40)
  <2>6. ASSUME NEW x \in Range(todo') PROVE x.thread # u
    <3>1. \/ x.thread = None \/ x.thread = t
          \/ x = Call("stop", t, None)
      BY <1>2, <2>6, SystemNewCalls
    <3>2. Call("stop", t, None).thread = t
      BY Zenon DEF Call
    <3> QED
      BY <1>3, <2>1, <3>1, <3>2, ZenonT(40)
  <2> QED
    BY <2>1, <2>2, <2>4, <2>5, <2>6, ZenonT(40)
<1>5. CreatedInv'
  BY <1>1, <1>4, EffectStatus, Zenon DEF CreatedInv, SchedulerInv
<1>6. ASSUME NEW x \in Range(todo')
      PROVE  /\ x.op # "release"
             /\ x.op = "stop" =>
                  /\ todo' = <<x>> /\ status'[x.thread] = "Running" /\ halted'
                  /\ agenda' # <<>> /\ Head(agenda') = Task("run", CoreOf[x.thread])
  <2>1. CASE ExitThread(t) /\ x = Call("stop", t, None)
    <3>1. /\ todo' = <<x>> /\ status' = status /\ halted'
      BY <1>2, <2>1, PrepareRescheduleHalts, ZenonT(40) DEF ExitThread, threadVars
    <3>2. x.thread = t /\ x.op # "release"
      BY <2>1 DEF Call
    <3> QED
      BY <1>2, <3>1, <3>2, Zenon
  <2>2. CASE x.op \in {"wake", "update", "acquire", "add"}
    BY <2>2
  <2> QED
    BY <1>2, <2>1, <2>2, SystemNewCalls, Zenon
<1> QED
  BY <1>5, <1>6, Zenon DEF ExitInv

(* A timeout.                                                              *)
LEMMA WakeupCallbackScheduler ==
    ASSUME TypeOK, SchedulerInv, NEW t \in Threads, ThreadWakeupCallback(t)
    PROVE  SchedulerInv'
<1>1. /\ UNCHANGED <<status, current_priority, ready_queue, agenda, current_thread, halted,
                     waiting_threads, holding_thread>>
      /\ armed' = [armed EXCEPT ![t] = FALSE] /\ armed[t] /\ todo = <<>>
  BY Zenon DEF ThreadWakeupCallback, InTask, objectVars, coreVars
<1>2. ReadyQueueOK' /\ CurrentInv' /\ AgendaInv'
  BY <1>1, EffectInv, Zenon DEF SchedulerInv, Effect, Calm, Halting
<1>3. ASSUME NEW x \in Range(todo') PROVE x.op \in {"remove", "resume"} /\ x.thread = t
  <2> DEFINE D == CallsOn("remove", t, wait_objects[t])
             R == <<Call("resume", t, None)>>
  <2>1. todo' = D \o R \/ todo' = R
    BY Zenon DEF ThreadWakeupCallback
  <2>2. D \in Seq(CallSet) /\ R \in Seq(CallSet)
    BY CallsOnType, CallType DEF TypeOK, ThreadTypeOK
  <2>3. \A y \in Range(D) \cup Range(R) : y.op \in {"remove", "resume"} /\ y.thread = t
    <3>1. \A y \in Range(D) : y.op = "remove" /\ y.thread = t
      BY CallsOnMember
    <3>2. \A y \in Range(R) : y.op = "resume" /\ y.thread = t
      BY CallMember, Zenon
    <3> QED
      BY <3>1, <3>2
  <2> HIDE DEF D, R
  <2>4. Range(D \o R) = Range(D) \cup Range(R)
    BY <2>2, RangeConcat, ZenonT(40)
  <2> QED
    BY <2>1, <2>3, <2>4, Zenon
<1>4. status[t] # "Dormant" /\ armed \in [Threads -> BOOLEAN]
  BY <1>1, Zenon DEF SchedulerInv, CreatedInv, TypeOK, ThreadTypeOK
<1>5. \A u \in Threads : ~armed[u] => ~armed'[u]
  BY <1>1, <1>4, Zenon
<1>6. CreatedInv'
  BY <1>1, <1>3, <1>4, <1>5, Zenon DEF SchedulerInv, CreatedInv
<1>7. ExitInv'
  BY <1>3 DEF ExitInv
<1> QED
  BY <1>2, <1>6, <1>7, Zenon DEF SchedulerInv

(* The run loop.                                                           *)
LEMMA RunLoopCreated ==
    ASSUME TypeOK, SchedulerInv, RunLoop
    PROVE  SchedulerInv'
<1>1. /\ ReadyQueueOK' /\ CurrentInv' /\ AgendaInv'
      /\ \A t \in Threads : status'[t] = "Dormant" => status[t] = "Dormant"
  BY RunLoopScheduler, Zenon DEF SchedulerInv
<1>2. /\ todo = <<>> /\ todo' = <<>>
      /\ UNCHANGED <<current_priority, waiting_threads, holding_thread>>
      /\ armed' = armed \/ \E u \in Threads : armed' = [armed EXCEPT ![u] = FALSE]
  <2>1. CASE RescheduleTask
    <3> DEFINE c == Head(agenda).core
               next == PopNextReadyThread(c).thread
    <3>1. /\ todo = <<>> /\ todo' = <<>> /\ Reschedule(c) /\ agenda # <<>>
          /\ agenda \in Seq(TaskSet)
      BY <2>1, Zenon DEF RescheduleTask, InTask, TypeOK, LoopTypeOK
    <3>6. Head(agenda) \in TaskSet
      BY <3>1
    <3>2. c \in Cores
      BY <3>6 DEF TaskSet
    <3>3. next \in Threads \cup {None}
      BY <3>2, PopNextReadyThreadType, Zenon DEF TypeOK
    <3>4. armed' = armed \/ (next # None /\ armed' = [armed EXCEPT ![next] = FALSE])
      BY <3>1, Zenon DEF Reschedule, LoadContext
    <3>5. UNCHANGED <<current_priority, waiting_threads, holding_thread>>
      BY <3>1, Zenon DEF Reschedule, objectVars
    <3> HIDE DEF next
    <3> QED
      BY <3>1, <3>3, <3>4, <3>5, Zenon
  <2>2. CASE BeginIteration \/ BeginLateIteration \/ EndSlice \/ EndIteration
    BY <2>2, Zenon DEF BeginIteration, BeginLateIteration, EndSlice, EndIteration, InTask,
       threadVars, objectVars
  <2> QED
    BY <2>1, <2>2, Zenon DEF RunLoop
<1>3. \A u \in Threads : ~armed[u] => ~armed'[u]
  BY <1>2, Zenon DEF TypeOK, ThreadTypeOK
<1>4. CreatedInv'
  BY <1>1, <1>2, <1>3, RangeCalls, Zenon DEF SchedulerInv, CreatedInv
<1>5. ExitInv'
  BY <1>2, RangeCalls, Zenon DEF ExitInv
<1> QED
  BY <1>1, <1>4, <1>5, Zenon DEF SchedulerInv

(* The system starts with its threads in their queues.                     *)
LEMMA InitScheduler == Init => SchedulerInv
<1> SUFFICES ASSUME Init PROVE SchedulerInv
  OBVIOUS
<1>1. ReadyQueueOK
  <2> SUFFICES ASSUME NEW c \in Cores, NEW p \in Prio
               PROVE  Enumerates(ready_queue[c][p], ReadyAt(c, p))
    BY DEF ReadyQueueOK
  <2> DEFINE S == {t \in Started : CoreOf[t] = c /\ CreatePrio[t] = p}
  <2>1. ready_queue[c][p] = SetToSeq(S)
    BY Zenon DEF Init
  <2>2. ReadyAt(c, p) = S
    BY ConstantsAssumption DEF Init, ReadyAt
  <2>3. IsFiniteSet(S)
    <3>1. IsFiniteSet(Threads) /\ S \subseteq Threads
      BY ConstantsAssumption, ZenonT(40)
    <3> QED
      BY <3>1, FS_Subset, Zenon
  <2> QED
    BY <2>1, <2>2, <2>3, EnumeratesSet, Zenon
<1>2. CurrentInv
  BY DEF Init, CurrentInv
<1>3. AgendaInv
  <2>1. <<>> \in Seq(TaskSet) /\ <<>> \o FullIteration = FullIteration
    BY CoreListsType
  <2>2. \A i \in DOMAIN <<>> : <<>>[i].stage # "run"
    OBVIOUS
  <2>3. IterationOK(<<>> \o FullIteration)
    BY <2>1, <2>2, FullIterationOK, Zenon
  <2>4. IterationOK(agenda)
    BY <2>1, <2>3, Zenon DEF Init
  <2> QED
    BY <2>4, AgendaNew, Zenon
<1>4. CreatedInv
  <2>1. None \notin Threads
    BY ConstantsAssumption DEF Objects
  <2> QED
    BY <2>1, RangeCalls, Zenon DEF Init, CreatedInv
<1>5. ExitInv
  BY RangeCalls, Zenon DEF Init, ExitInv
<1> QED
  BY <1>1, <1>2, <1>3, <1>4, <1>5, Zenon DEF SchedulerInv

(* Every step keeps the invariant of the scheduler.                        *)
LEMMA NextScheduler == TypeOK /\ TypeOK' /\ SchedulerInv /\ [Next]_vars => SchedulerInv'
<1> SUFFICES ASSUME TypeOK, TypeOK', SchedulerInv, [Next]_vars PROVE SchedulerInv'
  BY Zenon
<1>1. CASE KernelCall
  BY <1>1, KernelCallEffect, EffectInv, KernelCallCreated, Zenon DEF SchedulerInv
<1>2. CASE SystemCall
  <2>1. PICK t \in Threads : SystemCallOf(t)
    BY <1>2, Zenon DEF SystemCall, SystemCallOf
  <2> QED
    BY <2>1, SystemCallEffect, EffectInv, SystemCallCreated, Zenon DEF SchedulerInv
<1>3. CASE UNCHANGED vars
  BY <1>3, ZenonT(40) DEF vars, threadVars, objectVars, coreVars, SchedulerInv, ReadyQueueOK, ReadyAt,
     CurrentInv, AgendaInv, Scheduled, CreatedInv, ExitInv
<1> QED
  BY <1>1, <1>2, <1>3, RunLoopCreated, WakeupCallbackScheduler, Zenon DEF Next
-----------------------------------------------------------------------------
(* Priority inheritance.                                                   *)

(* A thread that is not dead holds the mutexes it lists.                   *)
LEMMA HeldByHolder ==
    ASSUME MutexOK, ExitInv, NEW u \in Threads, NEW m \in held_mutexes[u],
           status[u] # "Dead"
    PROVE  holding_thread[m] = u
<1>1. ASSUME NEW i \in DOMAIN todo, todo[i] = Call("release", u, None)
      PROVE  FALSE
  <2>1. Call("release", u, None) \in Range(todo)
    BY <1>1, Zenon DEF Range
  <2>2. Call("release", u, None).op = "release" /\ Call("release", u, None).thread = u
    BY Zenon DEF Call
  <2> QED
    BY <2>1, <2>2, Zenon DEF ExitInv
<1> QED
  BY <1>1, Zenon DEF MutexOK

\* The priority of a thread is computed again, or nothing it depends on changes.
Recomputed(u) ==
    \/ current_priority'[u] = BestPriority(nominal_priority'[u],
                                           {priority'[m] : m \in held_mutexes'[u]})
    \/ /\ current_priority'[u] = current_priority[u]
       /\ nominal_priority'[u] = nominal_priority[u]
       /\ held_mutexes'[u] = held_mutexes[u]
       /\ \A m \in held_mutexes[u] : priority'[m] = priority[m]

LEMMA RecomputedInherits ==
    ASSUME InheritedPriorityOK,
           \A u \in Threads : status'[u] # "Dead" => status[u] # "Dead" /\ Recomputed(u)
    PROVE  InheritedPriorityOK'
<1> SUFFICES ASSUME NEW u \in Threads, status'[u] # "Dead"
             PROVE  current_priority'[u] = BestPriority(nominal_priority'[u],
                                               {priority'[m] : m \in held_mutexes'[u]})
  BY Zenon DEF InheritedPriorityOK
<1>1. status[u] # "Dead" /\ Recomputed(u)
  OBVIOUS
<1>2. ASSUME \A m \in held_mutexes[u] : priority'[m] = priority[m],
             held_mutexes'[u] = held_mutexes[u]
      PROVE  {priority'[m] : m \in held_mutexes'[u]} = {priority[m] : m \in held_mutexes[u]}
  BY <1>2, Zenon
<1> QED
  BY <1>1, <1>2, Zenon DEF Recomputed, InheritedPriorityOK

(* Thread::UpdatePriority changes the priority of one thread.              *)
LEMMA UpdatePriorityInherits ==
    ASSUME TypeOK, NEW t \in Threads, NEW held, NEW mprio, UpdatePriority(t, held, mprio)
    PROVE  /\ current_priority'[t] = BestPriority(nominal_priority[t], {mprio[m] : m \in held})
           /\ \A u \in Threads \ {t} : current_priority'[u] = current_priority[u]
BY DEF UpdatePriority, BoostPriority, TypeOK, ThreadTypeOK

(* Mutex::UpdatePriority: the holder is told.                              *)
LEMMA MutexUpdatePriorityInherits ==
    ASSUME TypeOK, MutexOK, ExitInv, UNCHANGED <<nominal_priority, held_mutexes>>,
           NEW m \in Mutexes, NEW waiters, MutexUpdatePriority(m, waiters),
           NEW u \in Threads, status[u] # "Dead"
    PROVE  Recomputed(u)
<1> DEFINE holder == holding_thread[m]
<1>1. CASE UNCHANGED <<priority, current_priority>>
  BY <1>1, Zenon DEF Recomputed
<1>2. CASE /\ holder # None
           /\ \E best : priority' = [priority EXCEPT ![m] = best]
           /\ UpdatePriority(holder, held_mutexes[holder], priority')
  <2>1. holder \in Threads
    BY <1>2, Zenon DEF TypeOK, ObjectTypeOK
  <2>2. /\ current_priority'[holder] = BestPriority(nominal_priority[holder],
                                          {priority'[n] : n \in held_mutexes[holder]})
        /\ \A v \in Threads \ {holder} : current_priority'[v] = current_priority[v]
    BY <1>2, <2>1, UpdatePriorityInherits, Zenon
  <2>3. CASE u = holder
    BY <2>2, <2>3, Zenon DEF Recomputed
  <2>4. CASE u # holder
    <3>1. m \notin held_mutexes[u]
      BY <2>4, HeldByHolder, Zenon
    <3>2. \A n \in held_mutexes[u] : priority'[n] = priority[n]
      <4>1. held_mutexes[u] \subseteq Mutexes /\ priority \in [Mutexes -> Prio]
        BY DEF TypeOK, ThreadTypeOK, ObjectTypeOK
      <4> QED
        BY <1>2, <3>1, <4>1, ZenonT(40)
    <3> QED
      BY <2>2, <2>4, <3>2, Zenon DEF Recomputed
  <2> QED
    BY <2>3, <2>4
<1> QED
  BY <1>1, <1>2, Zenon DEF MutexUpdatePriority

LEMMA KernelCallInherits ==
    ASSUME TypeOK, TypeOK', SchedulerInv, MutexOK, InheritedPriorityOK, KernelCall
    PROVE  InheritedPriorityOK'
<1>1. \A u \in Threads : status'[u] # "Dead" => status[u] # "Dead"
  BY KernelCallEffect, EffectStatus, ZenonT(40)
<1>2. todo \in Seq(CallSet) /\ todo # <<>> /\ ExitInv
  BY Zenon DEF SchedulerInv, TypeOK, LoopTypeOK, KernelCall, AcquireMutex, AcquireEvent,
     AcquireSemaphore, AcquireThread, AddWaitingThread, RemoveWaitingThread, ResumeFromWait,
     WakeupNext, WakeupDone, Stop, ReleaseThreadMutexes, UpdatePending, NextCall
<1>3. ASSUME NEW u \in Threads, status[u] # "Dead" PROVE Recomputed(u)
  <2>1. CASE AcquireMutex
    <3> DEFINE t == CallThread
               m == CallObject
    <3>1. /\ Head(todo).op = "acquire" /\ m \in Mutexes /\ UNCHANGED nominal_priority
      BY <2>1, Zenon DEF AcquireMutex, NextCall
    <3>2. t \in Threads
      BY <1>2, <3>1, HeadCallType, Zenon
    <3> HIDE DEF t, m
    <3>3. CASE lock_count[m] = 0
      <4>1. /\ priority' = [priority EXCEPT ![m] = current_priority[t]]
            /\ held_mutexes' = [held_mutexes EXCEPT ![t] = @ \cup {m}]
            /\ UpdatePriority(t, held_mutexes'[t], priority')
        BY <2>1, <3>3, ZenonT(40) DEF AcquireMutex, t, m
      <4>2. /\ current_priority'[t] = BestPriority(nominal_priority[t],
                                         {priority'[n] : n \in held_mutexes'[t]})
            /\ \A v \in Threads \ {t} : current_priority'[v] = current_priority[v]
        <5> DEFINE held == held_mutexes'[t]
        <5>1. UpdatePriority(t, held, priority')
          BY <4>1, Zenon
        <5> HIDE DEF held
        <5>2. /\ current_priority'[t] = BestPriority(nominal_priority[t],
                                           {priority'[n] : n \in held})
              /\ \A v \in Threads \ {t} : current_priority'[v] = current_priority[v]
          BY <3>2, <5>1, UpdatePriorityInherits, Zenon
        <5> QED
          BY <5>2 DEF held
      <4>3. CASE u = t
        BY <3>1, <4>2, <4>3, Zenon DEF Recomputed
      <4>4. CASE u # t
        <5>1. holding_thread[m] = None /\ u # None
          <6>1. lock_count[m] > 0 <=> holding_thread[m] # None
            BY <3>1, Zenon DEF MutexOK
          <6>2. u # None
            BY ConstantsAssumption, Zenon DEF Objects
          <6> QED
            BY <3>3, <6>1, <6>2
        <5>2. m \notin held_mutexes[u]
          BY <1>2, <1>3, <5>1, HeldByHolder, ZenonT(40)
        <5>3. held_mutexes \in [Threads -> SUBSET Mutexes] /\ priority \in [Mutexes -> Prio]
          BY DEF TypeOK, ThreadTypeOK, ObjectTypeOK
        <5>4. held_mutexes'[u] = held_mutexes[u]
          BY <4>1, <4>4, <5>3, Zenon
        <5>5. \A n \in held_mutexes[u] : priority'[n] = priority[n]
          BY <4>1, <5>2, <5>3, Zenon
        <5> QED
          BY <3>1, <4>2, <4>4, <5>4, <5>5, ZenonT(40) DEF Recomputed
      <4> QED
        BY <4>3, <4>4
    <3>4. CASE lock_count[m] # 0
      <4>1. UNCHANGED <<priority, held_mutexes, current_priority>>
        BY <2>1, <3>4, Zenon DEF AcquireMutex, m
      <4> QED
        BY <3>1, <4>1, Zenon DEF Recomputed
    <3> QED
      BY <3>3, <3>4
  <2>2. CASE AddWaitingThread \/ RemoveWaitingThread \/ UpdatePending
    <3>1. /\ UNCHANGED <<nominal_priority, held_mutexes>>
          /\ \/ UNCHANGED <<priority, current_priority>>
             \/ CallObject \in Mutexes /\ \E waiters : MutexUpdatePriority(CallObject, waiters)
      <4>1. CASE UpdatePending
        <5>1. CallObject \in Mutexes
          BY <1>2, <4>1, HeadCallType DEF UpdatePending, NextCall
        <5> QED
          BY <4>1, <5>1, Zenon DEF UpdatePending
      <4> QED
        BY <2>2, <4>1, ZenonT(40) DEF AddWaitingThread, RemoveWaitingThread
    <3>2. CASE UNCHANGED <<priority, current_priority>>
      BY <3>1, <3>2, Zenon DEF Recomputed
    <3>3. CASE CallObject \in Mutexes /\ \E waiters : MutexUpdatePriority(CallObject, waiters)
      BY <1>2, <1>3, <3>1, <3>3, MutexUpdatePriorityInherits, ZenonT(40)
    <3> QED
      BY <3>1, <3>2, <3>3, Zenon
  <2>3. CASE ReleaseThreadMutexes
    <3>1. /\ UNCHANGED <<nominal_priority, current_priority, priority>>
          /\ held_mutexes' = held_mutexes \/ held_mutexes' = [held_mutexes EXCEPT ![CallThread] = {}]
          /\ Head(todo).op = "release"
      BY <2>3, ZenonT(40) DEF ReleaseThreadMutexes, NextCall
    <3>2. Head(todo) \in Range(todo)
      BY <1>2, RangeTail, Zenon
    <3>3. status[CallThread] = "Dead"
      BY <1>2, <3>1, <3>2, ZenonT(40) DEF ExitInv, CallThread
    <3>4. held_mutexes'[u] = held_mutexes[u]
      BY <1>3, <3>1, <3>3, ZenonT(40) DEF TypeOK, ThreadTypeOK
    <3> QED
      BY <3>1, <3>4, Zenon DEF Recomputed
  <2>4. CASE \/ AcquireEvent \/ AcquireSemaphore \/ AcquireThread \/ ResumeFromWait
             \/ WakeupNext \/ WakeupDone \/ Stop
    <3>1. UNCHANGED <<nominal_priority, current_priority, priority, held_mutexes>>
      BY <2>4, ZenonT(40) DEF AcquireEvent, AcquireSemaphore, AcquireThread, ResumeFromWait,
         WakeupNext, WakeupDone, Stop, threadVars, objectVars
    <3> QED
      BY <3>1, Zenon DEF Recomputed
  <2> QED
    BY <2>1, <2>2, <2>3, <2>4, ZenonT(40) DEF KernelCall
<1> QED
  BY <1>1, <1>3, RecomputedInherits, Zenon

LEMMA SystemCallInherits ==
    ASSUME TypeOK, TypeOK', SchedulerInv, InheritedPriorityOK, NEW t \in Threads, SystemCallOf(t)
    PROVE  InheritedPriorityOK'
<1>1. \A u \in Threads : status'[u] # "Dead" => status[u] # "Dead"
  BY SystemCallEffect, EffectStatus, ZenonT(40)
<1>2. /\ held_mutexes \in [Threads -> SUBSET Mutexes] /\ nominal_priority \in [Threads -> Prio]
      /\ current_priority \in [Threads -> Prio]
  BY DEF TypeOK, ThreadTypeOK
<1>3. ASSUME NEW u \in Threads PROVE Recomputed(u)
  <2>1. CASE ReleaseMutex(t)
    <3>1. /\ UNCHANGED <<nominal_priority, priority>>
          /\ \/ UNCHANGED <<current_priority, held_mutexes>>
             \/ \E m : Unlock(t, m)
      BY <2>1, ZenonT(40) DEF ReleaseMutex
    <3>2. CASE UNCHANGED <<current_priority, held_mutexes>>
      BY <3>1, <3>2, Zenon DEF Recomputed
    <3>3. CASE \E m : Unlock(t, m)
      <4>1. PICK m : /\ held_mutexes' = [held_mutexes EXCEPT ![t] = @ \ {m}]
                     /\ UpdatePriority(t, held_mutexes'[t], priority)
        BY <3>3, Zenon DEF Unlock
      <4>2. /\ current_priority'[t] = BestPriority(nominal_priority[t],
                                         {priority[n] : n \in held_mutexes'[t]})
            /\ \A v \in Threads \ {t} : current_priority'[v] = current_priority[v]
        BY <4>1, UpdatePriorityInherits, Zenon
      <4>3. u # t => held_mutexes'[u] = held_mutexes[u]
        BY <1>2, <4>1, Zenon
      <4> QED
        BY <3>1, <4>2, <4>3, Zenon DEF Recomputed
    <3> QED
      BY <3>1, <3>2, <3>3, ZenonT(40)
  <2>2. CASE SetThreadPriority(t)
    <3>1. PICK x \in Threads, prio \in NewPriorities :
            /\ nominal_priority' = [nominal_priority EXCEPT ![x] = prio]
            /\ BoostPriority(x, BestPriority(prio, {priority[m] : m \in held_mutexes[x]}))
      BY <2>2, ZenonT(40) DEF SetThreadPriority
    <3>2. UNCHANGED <<held_mutexes, priority>>
      BY <2>2, Zenon DEF SetThreadPriority, objectVars
    <3>3. current_priority' = [current_priority EXCEPT ![x] =
                                  BestPriority(prio, {priority[m] : m \in held_mutexes[x]})]
      BY <3>1, Zenon DEF BoostPriority
    <3>4. CASE u = x
      <4>1. /\ nominal_priority'[u] = prio
            /\ current_priority'[u] = BestPriority(prio, {priority[m] : m \in held_mutexes[u]})
        BY <1>2, <3>1, <3>3, <3>4, Zenon
      <4> QED
        BY <3>2, <4>1, Zenon DEF Recomputed
    <3>5. CASE u # x
      BY <1>2, <3>1, <3>2, <3>3, <3>5, ZenonT(40) DEF Recomputed
    <3> QED
      BY <3>4, <3>5
  <2>3. CASE ~ReleaseMutex(t) /\ ~SetThreadPriority(t)
    <3>1. UNCHANGED <<nominal_priority, current_priority, priority, held_mutexes>>
      <4>1. CASE WaitSynchronization1(t) \/ WaitSynchronizationN(t)
        BY <4>1, WaitSynchronizationCases, ZenonT(40) DEF objectVars
      <4>2. CASE \/ SignalEvent(t) \/ ClearEvent(t) \/ ReleaseSemaphore(t) \/ SleepThread(t)
                 \/ CreateThread(t) \/ ExitThread(t) \/ ScheduleThreadsWithoutMagic(t)
        BY <4>2, ZenonT(40) DEF SignalEvent, ClearEvent, ReleaseSemaphore, SleepThread,
           CreateThread, ExitThread, ScheduleThreadsWithoutMagic, threadVars, objectVars
      <4> QED
        BY <2>3, <4>1, <4>2, Zenon DEF SystemCallOf
    <3> QED
      BY <3>1, Zenon DEF Recomputed
  <2> QED
    BY <2>1, <2>2, <2>3
<1> QED
  BY <1>1, <1>3, RecomputedInherits, Zenon

LEMMA NextInherits ==
    TypeOK /\ TypeOK' /\ SchedulerInv /\ MutexOK /\ InheritedPriorityOK /\ [Next]_vars
        => InheritedPriorityOK'
<1> SUFFICES ASSUME TypeOK, TypeOK', SchedulerInv, MutexOK, InheritedPriorityOK, [Next]_vars
             PROVE  InheritedPriorityOK'
  BY Zenon
<1>1. CASE SystemCall
  <2>1. PICK t \in Threads : SystemCallOf(t)
    BY <1>1, Zenon DEF SystemCall, SystemCallOf
  <2> QED
    BY <2>1, SystemCallInherits, Zenon
<1>2. CASE RunLoop \/ (\E t \in Threads : ThreadWakeupCallback(t)) \/ UNCHANGED vars
  <2>1. UNCHANGED <<nominal_priority, current_priority, priority, held_mutexes>>
    BY <1>2, ZenonT(40) DEF RunLoop, BeginIteration, BeginLateIteration, RescheduleTask, Reschedule,
       EndSlice, EndIteration, ThreadWakeupCallback, vars, threadVars, objectVars
  <2>2. \A u \in Threads : status'[u] # "Dead" => status[u] # "Dead"
    <3>1. CASE RunLoop
      BY <3>1, RunLoopScheduler, Zenon DEF SchedulerInv
    <3>2. CASE (\E t \in Threads : ThreadWakeupCallback(t)) \/ UNCHANGED vars
      BY <3>2, Zenon DEF ThreadWakeupCallback, vars, threadVars
    <3> QED
      BY <1>2, <3>1, <3>2, Zenon
  <2>3. \A u \in Threads : Recomputed(u)
    BY <2>1, Zenon DEF Recomputed
  <2> QED
    BY <2>2, <2>3, RecomputedInherits, Zenon
<1> QED
  BY <1>1, <1>2, KernelCallInherits, Zenon DEF Next

LEMMA InitInherits == Init => InheritedPriorityOK
<1> SUFFICES ASSUME Init, NEW t \in Threads
             PROVE  current_priority[t] = BestPriority(nominal_priority[t],
                                              {priority[m] : m \in held_mutexes[t]})
  BY Zenon DEF InheritedPriorityOK
<1> DEFINE n == CreatePrio[t]
<1>1. /\ current_priority[t] = n /\ nominal_priority[t] = n /\ held_mutexes[t] = {}
  BY Zenon DEF Init
<1>2. n \in Nat
  BY ConstantsAssumption DEF Prio
<1>3. {n} \cup {priority[m] : m \in {}} = {n}
  OBVIOUS
<1>4. Min({n}) = n
  BY <1>2, MinOfNaturals
<1> QED
  BY <1>1, <1>3, <1>4, Zenon DEF BestPriority
-----------------------------------------------------------------------------
(* SchedulerInv and InheritedPriorityOK, together with TypeOK and MutexOK, *)
(* are inductive.                                                          *)
THEOREM SchedulerInvariance == Spec => [](TypeOK /\ MutexOK /\ SchedulerInv /\ InheritedPriorityOK)
<1>1. Init => SchedulerInv /\ InheritedPriorityOK
  BY InitScheduler, InitInherits, Zenon
<1>2. TypeOK /\ TypeOK' /\ MutexOK /\ SchedulerInv /\ InheritedPriorityOK /\ [Next]_vars
      => SchedulerInv' /\ InheritedPriorityOK'
  BY NextScheduler, NextInherits, Zenon
<1> QED
  BY <1>1, <1>2, TypeCorrect, MutexCorrect, PTL DEF Spec

(* A thread runs at the best of its nominal priority and the priorities of *)
(* the mutexes it holds, for any number of threads, mutexes and cores: no  *)
(* order of locking, unlocking, waiting, timing out, exiting and           *)
(* SetThreadPriority leaves a priority behind (Thread::UpdatePriority,     *)
(* Mutex::UpdatePriority).                                                 *)
THEOREM InheritedPriorityCorrect == Spec => []InheritedPriorityOK
BY SchedulerInvariance, PTL

(* The ready queues hold exactly the Ready threads, each once, on its core *)
(* at the level of its current priority; a Running thread is the current   *)
(* thread of its core, and a core executes only a Running thread           *)
(* (ThreadManager::Reschedule, Thread::BoostPriority, ResumeFromWait).     *)
THEOREM ReadyQueueCorrect == Spec => [](ReadyQueueOK /\ RunningOK)
<1>1. SchedulerInv => ReadyQueueOK
  BY DEF SchedulerInv
<1>2. TypeOK /\ SchedulerInv => RunningOK
  <2> SUFFICES ASSUME TypeOK, SchedulerInv, InTask("run"), ~halted,
                      current_thread[Head(agenda).core] # None
               PROVE  status[current_thread[Head(agenda).core]] = "Running"
    BY Zenon DEF RunningOK, SchedulerInv, CurrentInv
  <2>1. agenda \in Seq(TaskSet) /\ agenda # <<>> /\ Head(agenda).stage = "run"
    BY Zenon DEF InTask, TypeOK, LoopTypeOK
  <2>2. 1 \in DOMAIN agenda /\ agenda[1] = Head(agenda) /\ 1 .. 1 - 1 = {}
    BY <2>1
  <2>3. Scheduled(1)
    BY <2>1, <2>2, Zenon DEF SchedulerInv, AgendaInv
  <2> QED
    BY <2>2, <2>3, Zenon DEF Scheduled
<1> QED
  BY <1>1, <1>2, SchedulerInvariance, PTL
=============================================================================
