-------------------------- MODULE HandleTableProofs --------------------------
(***************************************************************************)
(* Proofs about HandleTable, for every number of slots and every size of   *)
(* the generation field.                                                   *)
(***************************************************************************)
EXTENDS HandleTable, FiniteSetTheorems, TLAPS

(* GenInv: generations are totally ordered by the pair (wrap count,        *)
(* generation).  Every open or closed handle is older than the next one,   *)
(* and every closed handle is older than what its slot holds now.          *)
Older(w1, g1, w2, g2) == w1 < w2 \/ (w1 = w2 /\ g1 < g2)

GenInv ==
    /\ \A s \in Occupied : /\ generations[s] \in 1 .. GenLimit - 1
                           /\ Older(wrapOf[s], generations[s], wraps, next_generation)
    /\ \A c \in closed :
          /\ c.handle.index \in Slots
          /\ Older(c.wrap, c.handle.generation, wraps, next_generation)
          /\ c.handle.index \in Occupied =>
                Older(c.wrap, c.handle.generation,
                      wrapOf[c.handle.index], generations[c.handle.index])

(* IInv: the inductive invariant.                                          *)
IInv == TypeOK /\ FreeListOK /\ GenInv
-----------------------------------------------------------------------------
(* An occupied slot is not on the free list, so the list can grow by it    *)
(* without exceeding MAX_COUNT.                                            *)
LEMMA RoomOnFreeList ==
    ASSUME NEW n \in 0 .. MAX_COUNT, NEW f \in [1 .. n -> Slots], NEW t \in Slots,
           \A i, j \in 1 .. n : f[i] = f[j] => i = j,
           \A i \in 1 .. n : f[i] # t
    PROVE  n + 1 \in 0 .. MAX_COUNT
<1> DEFINE g == [i \in 1 .. n + 1 |-> IF i = n + 1 THEN t ELSE f[i]]
<1>1. g \in Injection(1 .. n + 1, Slots)
  BY ConstantsAssumption DEF Injection, IsInjective, Slots
<1>2. IsFiniteSet(Slots) /\ Cardinality(Slots) = MAX_COUNT
  BY FS_Interval, ConstantsAssumption DEF Slots
<1>3. Cardinality(1 .. n + 1) = n + 1
  BY FS_Interval, ConstantsAssumption
<1>4. Cardinality(1 .. n + 1) <= Cardinality(Slots)
  BY <1>1, <1>2, FS_Injection
<1> QED
  BY <1>2, <1>3, <1>4, ConstantsAssumption

LEMMA InitIInv == Init => IInv
<1> SUFFICES ASSUME Init PROVE IInv
  OBVIOUS
<1> USE ConstantsAssumption DEF Init, Slots
<1>1. TypeOK
  BY DEF TypeOK
<1>2. FreeListOK
  <2> DEFINE f == [i \in 1 .. MAX_COUNT |-> i - 1]
  <2>1. MAX_COUNT \in 0 .. MAX_COUNT /\ f \in [1 .. MAX_COUNT -> Slots]
    OBVIOUS
  <2>2. FreeList(MAX_COUNT, f)
    BY DEF FreeList
  <2> QED
    BY <2>1, <2>2, Zenon DEF FreeListOK
<1>3. GenInv
  BY DEF GenInv, Occupied
<1> QED
  BY <1>1, <1>2, <1>3 DEF IInv

LEMMA CreateStep ==
    ASSUME IInv, NEW obj \in Objects, Create(obj)
    PROVE  IInv'
<1> USE ConstantsAssumption DEF Slots
<1>0. TypeOK /\ GenInv
  BY DEF IInv
<1>1. PICK n \in 0 .. MAX_COUNT : \E f \in [1 .. n -> Slots] : FreeList(n, f)
  BY DEF IInv, FreeListOK
<1>2. PICK f \in [1 .. n -> Slots] : FreeList(n, f)
  BY <1>1
<1> DEFINE s0 == next_free_slot
<1>3. n > 0 /\ s0 = f[1] /\ s0 \in Slots /\ objects[s0] = NoObject
  BY <1>2 DEF Create, FreeList
<1>4. next_free_slot' \in 0 .. MAX_COUNT
  BY <1>2, <1>3 DEF Create, FreeList
<1>5. TypeOK'
  <2>1. objects' \in [Slots -> Objects \cup {NoObject}]
    BY <1>0, <1>3 DEF Create, TypeOK
  <2>2. generations' \in [Slots -> Nat] /\ wrapOf' \in [Slots -> 0 .. MaxWraps]
    <3>1. next_generation \in Nat /\ wraps \in 0 .. MaxWraps
      BY <1>0 DEF TypeOK
    <3>2. generations \in [Slots -> Nat] /\ wrapOf \in [Slots -> 0 .. MaxWraps]
      BY <1>0 DEF TypeOK
    <3>3. /\ generations' = [generations EXCEPT ![s0] = next_generation]
          /\ wrapOf' = [wrapOf EXCEPT ![s0] = wraps]
      BY DEF Create
    <3> HIDE DEF s0, Slots
    <3> QED
      BY <3>1, <3>2, <3>3, Zenon
  <2>3. next_generation' \in 1 .. GenLimit - 1 /\ wraps' \in 0 .. MaxWraps
    <3>1. next_generation \in 1 .. GenLimit - 1 /\ wraps \in 0 .. MaxWraps /\ wraps < MaxWraps
      BY <1>0 DEF TypeOK, Create
    <3>2. CASE next_generation + 1 >= GenLimit
      BY <3>1, <3>2 DEF Create
    <3>3. CASE ~(next_generation + 1 >= GenLimit)
      BY <3>1, <3>3 DEF Create
    <3> QED
      BY <3>2, <3>3
  <2>4. closed' \subseteq [handle : Handle, wrap : 0 .. MaxWraps]
    BY <1>0 DEF Create, TypeOK
  <2> QED
    BY <1>4, <2>1, <2>2, <2>3, <2>4, Zenon DEF TypeOK
<1>6. FreeListOK'
  <2> DEFINE g == [i \in 1 .. n - 1 |-> f[i + 1]]
  <2>1. n - 1 \in 0 .. MAX_COUNT /\ g \in [1 .. n - 1 -> Slots]
    BY <1>3
  <2>2. \A i, j \in 1 .. n - 1 : g[i] = g[j] => i = j
    BY <1>2, <1>3 DEF FreeList
  <2>3. ASSUME NEW s \in Slots
        PROVE  (objects'[s] = NoObject) <=> (\E i \in 1 .. n - 1 : g[i] = s)
    <3>1. CASE s = s0
      <4>1. objects'[s] # NoObject
        BY <3>1, <1>0 DEF Create, TypeOK
      <4>2. \A i \in 1 .. n - 1 : g[i] # s
        BY <3>1, <1>2, <1>3 DEF FreeList
      <4> QED
        BY <4>1, <4>2
    <3>2. CASE s # s0
      <4>1. objects'[s] = objects[s]
        BY <3>2, <1>0 DEF Create, TypeOK
      <4>2. ASSUME NEW i \in 1 .. n, f[i] = s PROVE i - 1 \in 1 .. n - 1 /\ g[i - 1] = s
        BY <3>2, <4>2, <1>3
      <4>3. ASSUME NEW i \in 1 .. n - 1, g[i] = s PROVE i + 1 \in 1 .. n /\ f[i + 1] = s
        BY <4>3
      <4> QED
        BY <4>1, <4>2, <4>3, <1>2, ZenonT(40) DEF FreeList
    <3> QED
      BY <3>1, <3>2
  <2>4. next_free_slot' = IF n - 1 = 0 THEN MAX_COUNT ELSE g[1]
    BY <1>2, <1>3 DEF Create, FreeList
  <2>5. ASSUME NEW i \in 1 .. n - 1
        PROVE  generations'[g[i]] = IF i = n - 1 THEN MAX_COUNT ELSE g[i + 1]
    <3>1. i + 1 \in 1 .. n /\ g[i] = f[i + 1] /\ g[i] # s0 /\ g[i] \in Slots
      BY <1>2, <1>3 DEF FreeList
    <3>2. generations'[g[i]] = generations[f[i + 1]]
      BY <3>1, <1>0 DEF Create, TypeOK
    <3> QED
      BY <3>1, <3>2, <1>2 DEF FreeList
  <2>6. FreeList(n - 1, g)'
    BY <2>2, <2>3, <2>4, <2>5, Zenon DEF FreeList
  <2> QED
    BY <2>1, <2>6 DEF FreeListOK
<1>7. GenInv'
  <2>1. \A s \in Slots \ {s0} : /\ objects'[s] = objects[s]
                                 /\ generations'[s] = generations[s]
                                 /\ wrapOf'[s] = wrapOf[s]
    BY <1>0 DEF Create, TypeOK
  <2>2. /\ generations'[s0] = next_generation
        /\ wrapOf'[s0] = wraps
        /\ s0 \in Slots
    BY <1>0, <1>3 DEF Create, TypeOK
  <2>3. Older(wraps, next_generation, wraps', next_generation')
    BY <1>0 DEF Create, TypeOK, Older
  <2>4. \A w, g \in Nat : Older(w, g, wraps, next_generation)
                              => Older(w, g, wraps', next_generation')
    BY <1>0, <2>3, <1>5 DEF TypeOK, Older
  <2>5. closed' = closed
    BY DEF Create
  <2>6. \A s \in Occupied' : s \in Slots /\ (s # s0 => s \in Occupied)
    BY <2>1 DEF Occupied
  <2>7. ASSUME NEW s \in Occupied'
        PROVE  /\ generations'[s] \in 1 .. GenLimit - 1
               /\ Older(wrapOf'[s], generations'[s], wraps', next_generation')
    <3>1. CASE s = s0
      BY <3>1, <2>2, <2>3, <1>0 DEF TypeOK
    <3>2. CASE s # s0
      <4>1. s \in Slots /\ s \in Occupied
        BY <3>2, <2>6
      <4>2. /\ generations[s] \in 1 .. GenLimit - 1
            /\ Older(wrapOf[s], generations[s], wraps, next_generation)
        BY <4>1, <1>0 DEF GenInv
      <4>3. wrapOf[s] \in Nat /\ generations[s] \in Nat
        BY <4>1, <1>0 DEF TypeOK
      <4> QED
        BY <3>2, <4>1, <4>2, <4>3, <2>1, <2>4
    <3> QED
      BY <3>1, <3>2
  <2>8. ASSUME NEW c \in closed
        PROVE  /\ c.handle.index \in Slots
               /\ Older(c.wrap, c.handle.generation, wraps', next_generation')
               /\ c.handle.index \in Occupied' =>
                    Older(c.wrap, c.handle.generation,
                          wrapOf'[c.handle.index], generations'[c.handle.index])
    <3>1. c.wrap \in Nat /\ c.handle.generation \in Nat
      BY <1>0 DEF TypeOK, Handle
    <3>2. c.handle.index \in Slots
      BY <1>0 DEF GenInv
    <3>3. Older(c.wrap, c.handle.generation, wraps, next_generation)
      BY <1>0 DEF GenInv
    <3> QED
      BY <2>1, <2>2, <2>4, <2>6, <3>1, <3>2, <3>3, <1>0, Zenon DEF GenInv
  <2> QED
    BY <2>5, <2>7, <2>8 DEF GenInv
<1> QED
  BY <1>5, <1>6, <1>7 DEF IInv

(* A handle that Close accepts designates an occupied slot.                *)
LEMMA ValidSlot ==
    ASSUME NEW handle \in Handle, IsValid(handle)
    PROVE  GetSlot(handle) \in Occupied
BY ConstantsAssumption DEF Handle, IsValid, GetSlot, Occupied, Slots

LEMMA CloseStep ==
    ASSUME IInv, NEW handle \in Handle, Close(handle)
    PROVE  IInv'
<1> DEFINE s0 == GetSlot(handle)
<1>0. TypeOK /\ GenInv /\ s0 \in Occupied /\ s0 \in Slots
  BY ValidSlot DEF IInv, Close, Occupied
<1>1. /\ objects' = [objects EXCEPT ![s0] = NoObject]
      /\ generations' = [generations EXCEPT ![s0] = next_free_slot]
      /\ next_free_slot' = s0
      /\ closed' = closed \cup Closing({s0})
      /\ UNCHANGED <<next_generation, wraps, wrapOf>>
  BY DEF Close
<1> HIDE DEF s0
<1> USE ConstantsAssumption DEF Slots
<1>2. PICK n \in 0 .. MAX_COUNT : \E f \in [1 .. n -> Slots] : FreeList(n, f)
  BY DEF IInv, FreeListOK
<1>3. PICK f \in [1 .. n -> Slots] : FreeList(n, f)
  BY <1>2
<1>4. \A i \in 1 .. n : f[i] # s0
  BY <1>0, <1>3 DEF FreeList, Occupied
<1>5. n + 1 \in 0 .. MAX_COUNT
  <2>1. \A i, j \in 1 .. n : f[i] = f[j] => i = j
    BY <1>3 DEF FreeList
  <2> HIDE DEF Slots
  <2> QED
    BY <1>0, <1>4, <2>1, RoomOnFreeList
<1>6. Closing({s0}) = {[handle |-> HandleOf(s0), wrap |-> wrapOf[s0]]}
  BY DEF Closing
<1>7. /\ generations[s0] \in 1 .. GenLimit - 1
      /\ wrapOf[s0] \in 0 .. MaxWraps
      /\ Older(wrapOf[s0], generations[s0], wraps, next_generation)
  BY <1>0 DEF GenInv, TypeOK
<1>8. TypeOK'
  <2>1. objects' \in [Slots -> Objects \cup {NoObject}]
    BY <1>0, <1>1 DEF TypeOK
  <2>2. next_free_slot \in Nat /\ generations \in [Slots -> Nat]
    BY <1>0 DEF TypeOK
  <2>3. generations' \in [Slots -> Nat]
    BY <1>1, <2>2, Zenon
  <2>4. Closing({s0}) \subseteq [handle : Handle, wrap : 0 .. MaxWraps]
    <3>1. HandleOf(s0) \in Handle
      BY <1>0, <1>7 DEF HandleOf, Handle
    <3>2. wrapOf[s0] \in 0 .. MaxWraps
      BY <1>7
    <3>3. [handle |-> HandleOf(s0), wrap |-> wrapOf[s0]]
            \in [handle : Handle, wrap : 0 .. MaxWraps]
      BY ONLY <3>1, <3>2
    <3> QED
      BY ONLY <3>3, <1>6, Zenon
  <2>5. closed' \subseteq [handle : Handle, wrap : 0 .. MaxWraps]
    BY <1>0, <1>1, <2>4, Zenon DEF TypeOK
  <2>6. next_free_slot' \in 0 .. MAX_COUNT
    BY <1>0, <1>1
  <2> QED
    BY <1>0, <1>1, <2>1, <2>3, <2>5, <2>6, Zenon DEF TypeOK
<1>9. FreeListOK'
  <2> DEFINE g == [i \in 1 .. n + 1 |-> IF i = 1 THEN s0 ELSE f[i - 1]]
  <2>1. g \in [1 .. n + 1 -> Slots]
    BY <1>0
  <2>2. \A i, j \in 1 .. n + 1 : g[i] = g[j] => i = j
    BY <1>3, <1>4 DEF FreeList
  <2>3. ASSUME NEW s \in Slots
        PROVE  (objects'[s] = NoObject) <=> (\E i \in 1 .. n + 1 : g[i] = s)
    <3>1. CASE s = s0
      <4>1. objects'[s] = NoObject
        BY <3>1, <1>0, <1>1 DEF TypeOK
      <4>2. 1 \in 1 .. n + 1 /\ g[1] = s
        BY <3>1
      <4> QED
        BY <4>1, <4>2
    <3>2. CASE s # s0
      <4>1. objects'[s] = objects[s]
        BY <3>2, <1>0, <1>1 DEF TypeOK
      <4>2. ASSUME NEW i \in 1 .. n, f[i] = s PROVE i + 1 \in 1 .. n + 1 /\ g[i + 1] = s
        BY <4>2
      <4>3. ASSUME NEW i \in 1 .. n + 1, g[i] = s PROVE i - 1 \in 1 .. n /\ f[i - 1] = s
        BY <4>3, <3>2
      <4> QED
        BY <4>1, <4>2, <4>3, <1>3, ZenonT(40) DEF FreeList
    <3> QED
      BY <3>1, <3>2
  <2>4. next_free_slot' = IF n + 1 = 0 THEN MAX_COUNT ELSE g[1]
    BY <1>1
  <2>5. ASSUME NEW i \in 1 .. n + 1
        PROVE  generations'[g[i]] = IF i = n + 1 THEN MAX_COUNT ELSE g[i + 1]
    <3>1. CASE i = 1
      <4>1. generations'[g[i]] = next_free_slot
        BY <3>1, <1>0, <1>1 DEF TypeOK
      <4> QED
        BY <3>1, <4>1, <1>3 DEF FreeList
    <3>2. CASE i # 1
      <4>1. i - 1 \in 1 .. n /\ g[i] = f[i - 1] /\ g[i] # s0
        BY <3>2, <1>4
      <4>2. generations'[g[i]] = generations[f[i - 1]]
        BY <4>1, <1>0, <1>1 DEF TypeOK
      <4> QED
        BY <3>2, <4>1, <4>2, <1>3 DEF FreeList
    <3> QED
      BY <3>1, <3>2
  <2>6. FreeList(n + 1, g)'
    BY <2>2, <2>3, <2>4, <2>5 DEF FreeList
  <2> QED
    BY <1>5, <2>1, <2>6, Zenon DEF FreeListOK
<1>10. GenInv'
  <2>1. \A s \in Slots \ {s0} : objects'[s] = objects[s] /\ generations'[s] = generations[s]
    BY <1>0, <1>1 DEF TypeOK
  <2>2. objects'[s0] = NoObject
    BY <1>0, <1>1 DEF TypeOK
  <2>3. \A s \in Occupied' : s \in Occupied /\ s # s0 /\ s \in Slots
    BY <2>1, <2>2 DEF Occupied
  <2>4. ASSUME NEW s \in Occupied'
        PROVE  /\ generations'[s] \in 1 .. GenLimit - 1
               /\ Older(wrapOf'[s], generations'[s], wraps', next_generation')
    BY <2>1, <2>3, <1>0, <1>1 DEF GenInv
  <2>5. ASSUME NEW c \in closed'
        PROVE  /\ c.handle.index \in Slots
               /\ Older(c.wrap, c.handle.generation, wraps', next_generation')
               /\ c.handle.index \in Occupied' =>
                    Older(c.wrap, c.handle.generation,
                          wrapOf'[c.handle.index], generations'[c.handle.index])
    <3>1. CASE c \in closed
      BY <3>1, <2>1, <2>3, <1>0, <1>1 DEF GenInv
    <3>2. CASE c \in Closing({s0})
      <4>1. /\ c.handle.index = s0
            /\ c.handle.generation = generations[s0]
            /\ c.wrap = wrapOf[s0]
        <5>1. c = [handle |-> HandleOf(s0), wrap |-> wrapOf[s0]]
          BY <3>2, <1>6, Zenon
        <5>2. c.handle = HandleOf(s0) /\ c.wrap = wrapOf[s0]
          BY <5>1
        <5> QED
          BY <5>2 DEF HandleOf
      <4> QED
        BY <4>1, <2>3, <1>0, <1>1, <1>7
    <3> QED
      BY <3>1, <3>2, <1>1
  <2> QED
    BY <2>4, <2>5 DEF GenInv
<1> QED
  BY <1>8, <1>9, <1>10 DEF IInv

LEMMA ClearStep ==
    ASSUME IInv, Clear
    PROVE  IInv'
<1>0. TypeOK /\ GenInv
  BY DEF IInv
<1>1. ASSUME NEW c \in Closing(Occupied)
      PROVE  \E s \in Occupied : /\ c = [handle |-> HandleOf(s), wrap |-> wrapOf[s]]
                                  /\ c.handle = HandleOf(s)
                                  /\ c.handle.index = s
                                  /\ c.handle.generation = generations[s]
                                  /\ c.wrap = wrapOf[s]
  <2>1. PICK s \in Occupied : c = [handle |-> HandleOf(s), wrap |-> wrapOf[s]]
    BY <1>1 DEF Closing
  <2>2. c.handle = HandleOf(s) /\ c.wrap = wrapOf[s]
    BY <2>1
  <2>3. HandleOf(s).index = s /\ HandleOf(s).generation = generations[s]
    BY DEF HandleOf
  <2> QED
    BY <2>1, <2>2, <2>3
<1>2. Occupied' = {}
  BY DEF Clear, Occupied
<1> USE ConstantsAssumption DEF Slots
<1>3. closed' \subseteq [handle : Handle, wrap : 0 .. MaxWraps]
  <2>1. ASSUME NEW s \in Occupied
        PROVE  [handle |-> HandleOf(s), wrap |-> wrapOf[s]]
                  \in [handle : Handle, wrap : 0 .. MaxWraps]
    <3>1. HandleOf(s) \in Handle
      BY <1>0 DEF HandleOf, Handle, GenInv, Occupied
    <3>2. wrapOf[s] \in 0 .. MaxWraps
      BY <1>0 DEF TypeOK, Occupied
    <3> QED
      BY ONLY <3>1, <3>2
  <2> QED
    BY <1>0, <2>1 DEF Clear, TypeOK, Closing
<1>4. TypeOK'
  BY <1>0, <1>3 DEF Clear, TypeOK
<1>5. FreeListOK'
  <2> DEFINE f == [i \in 1 .. MAX_COUNT |-> i - 1]
  <2>1. MAX_COUNT \in 0 .. MAX_COUNT /\ f \in [1 .. MAX_COUNT -> Slots]
    OBVIOUS
  <2>2. FreeList(MAX_COUNT, f)'
    BY DEF FreeList, Clear
  <2> QED
    BY <2>1, <2>2 DEF FreeListOK
<1>6. GenInv'
  <2>1. ASSUME NEW c \in closed'
        PROVE  /\ c.handle.index \in Slots
               /\ Older(c.wrap, c.handle.generation, wraps', next_generation')
    <3>1. CASE c \in closed
      BY <3>1, <1>0 DEF Clear, GenInv
    <3>2. CASE c \in Closing(Occupied)
      BY <3>2, <1>0, <1>1 DEF Clear, GenInv, Occupied
    <3> QED
      BY <3>1, <3>2 DEF Clear
  <2> QED
    BY <2>1, <1>2 DEF GenInv
<1> QED
  BY <1>4, <1>5, <1>6 DEF IInv
-----------------------------------------------------------------------------
(* What a handle resolves to, when it resolves.                            *)
LEMMA ResolvedObject ==
    ASSUME IInv, NEW handle \in Handle, GetGeneric(handle) # NoObject
    PROVE  GetGeneric(handle) \in Objects
<1>1. CASE handle \in {CurrentThread, CurrentProcess}
  BY <1>1, ConstantsAssumption DEF GetGeneric
<1>2. CASE handle \notin {CurrentThread, CurrentProcess}
  <2>1. GetGeneric(handle) = IF IsValid(handle) THEN objects[GetSlot(handle)] ELSE NoObject
    BY <1>2 DEF GetGeneric
  <2>2. IsValid(handle)
    BY <2>1
  <2>3. GetSlot(handle) \in Slots /\ objects[GetSlot(handle)] # NoObject
    BY <2>2, ValidSlot DEF Occupied
  <2> QED
    BY <2>1, <2>2, <2>3 DEF IInv, TypeOK
<1> QED
  BY <1>1, <1>2

LEMMA InductiveStep == IInv /\ [Next]_vars => IInv'
<1> SUFFICES ASSUME IInv, [Next]_vars PROVE IInv'
  OBVIOUS
<1>1. ASSUME NEW obj \in Objects, Create(obj) PROVE IInv'
  BY <1>1, CreateStep
<1>2. ASSUME NEW handle \in Handle, Duplicate(handle) PROVE IInv'
  <2>1. GetGeneric(handle) \in Objects
    BY <1>2, ResolvedObject DEF Duplicate
  <2> QED
    BY <1>2, <2>1, CreateStep DEF Duplicate
<1>3. ASSUME NEW handle \in Handle, Close(handle) PROVE IInv'
  BY <1>3, CloseStep
<1>4. CASE Clear
  BY <1>4, ClearStep
<1>5. CASE UNCHANGED vars
  <2>1. TypeOK'
    BY <1>5 DEF vars, table, history, IInv, TypeOK
  <2>2. FreeListOK'
    BY <1>5 DEF vars, table, history, IInv, FreeListOK, FreeList
  <2>3. GenInv'
    BY <1>5 DEF vars, table, history, IInv, GenInv, Occupied
  <2> QED
    BY <2>1, <2>2, <2>3 DEF IInv
<1> QED
  BY <1>1, <1>2, <1>3, <1>4, <1>5 DEF Next

(* The fields keep their ranges, the free list stays well formed and the   *)
(* generations stay ordered, whatever calls the emulated program makes.    *)
THEOREM HandleTableInvariant == Spec => []IInv
<1>1. Init => IInv
  BY InitIInv
<1>2. IInv /\ [Next]_vars => IInv'
  BY InductiveStep
<1> QED
  BY <1>1, <1>2, PTL DEF Spec

(* TypeOK holds in every reachable state, for every size of the table.     *)
THEOREM TypeCorrect == Spec => []TypeOK
<1>1. IInv => TypeOK
  BY DEF IInv
<1> QED
  BY <1>1, HandleTableInvariant, PTL

(* The free list threaded through generations is a permutation of the      *)
(* empty slots in every reachable state.                                   *)
THEOREM FreeListCorrect == Spec => []FreeListOK
<1>1. IInv => FreeListOK
  BY DEF IInv
<1> QED
  BY <1>1, HandleTableInvariant, PTL

(* Create runs out of handles exactly when all MAX_COUNT slots are in use. *)
THEOREM CapacityCorrect == Spec => []OutOfHandlesOnlyWhenFull
<1>1. IInv => OutOfHandlesOnlyWhenFull
  <2> SUFFICES ASSUME IInv PROVE OutOfHandlesOnlyWhenFull
    OBVIOUS
  <2>1. PICK n \in 0 .. MAX_COUNT : \E f \in [1 .. n -> Slots] : FreeList(n, f)
    BY DEF IInv, FreeListOK
  <2>2. PICK f \in [1 .. n -> Slots] : FreeList(n, f)
    BY <2>1
  <2>3. CASE n = 0
    BY <2>2, <2>3, ConstantsAssumption DEF FreeList, OutOfHandlesOnlyWhenFull, Occupied
  <2>4. CASE n # 0
    <3>1. next_free_slot = f[1] /\ f[1] \in Slots /\ objects[f[1]] = NoObject
      BY <2>2, <2>4 DEF FreeList
    <3> QED
      BY <3>1, ConstantsAssumption DEF OutOfHandlesOnlyWhenFull, Occupied, Slots
  <2> QED
    BY <2>3, <2>4
<1> QED
  BY <1>1, HandleTableInvariant, PTL

(* A closed handle is not accepted again before the generation counter has *)
(* wrapped around.                                                         *)
THEOREM StaleHandlesRejected == Spec => []StaleHandleNeedsWrap
<1>1. IInv => StaleHandleNeedsWrap
  <2> SUFFICES ASSUME IInv, NEW c \in closed, IsValid(c.handle)
               PROVE  wrapOf[GetSlot(c.handle)] > c.wrap
    BY DEF StaleHandleNeedsWrap
  <2>1. c.handle.index \in Slots /\ c.handle \in Handle /\ c.wrap \in Nat
    BY DEF IInv, TypeOK, GenInv
  <2>2. GetSlot(c.handle) = c.handle.index
    BY <2>1, ConstantsAssumption DEF GetSlot, Slots
  <2>3. c.handle.index \in Occupied
    BY <2>1, <2>2, ValidSlot
  <2>4. generations[c.handle.index] = c.handle.generation
    BY <2>2 DEF IsValid, GetGeneration
  <2>5. Older(c.wrap, c.handle.generation,
              wrapOf[c.handle.index], generations[c.handle.index])
    BY <2>3 DEF IInv, GenInv
  <2>6. c.handle.generation \in Nat /\ wrapOf[c.handle.index] \in Nat
    BY <2>1, ConstantsAssumption DEF IInv, TypeOK, Handle
  <2> QED
    BY <2>1, <2>2, <2>4, <2>5, <2>6 DEF Older
<1> QED
  BY <1>1, HandleTableInvariant, PTL
-----------------------------------------------------------------------------
(* The refinement: how each operation changes the map of open handles.     *)
MapOf == [h \in OpenHandles |-> objects[h.index]]

LEMMA OpenHandleFacts ==
    ASSUME NEW s \in Occupied
    PROVE  /\ HandleOf(s).index = s
           /\ HandleOf(s).generation = generations[s]
           /\ HandleOf(s) \in OpenHandles
BY DEF HandleOf, OpenHandles

LEMMA CreateRefines ==
    ASSUME IInv, NEW obj \in Objects, Create(obj)
    PROVE  \E h \in Handle : Abstract!Create(h, obj)
<1> DEFINE s0 == next_free_slot
           h0 == [index |-> s0, generation |-> next_generation]
<1>1. /\ s0 \in Slots
      /\ next_generation \in 1 .. GenLimit - 1
      /\ objects \in [Slots -> Objects \cup {NoObject}]
      /\ generations \in [Slots -> Nat]
  BY ConstantsAssumption DEF Create, IInv, TypeOK, Slots
<1>2. objects[s0] = NoObject
  <2>1. PICK n \in 0 .. MAX_COUNT : \E f \in [1 .. n -> Slots] : FreeList(n, f)
    BY DEF IInv, FreeListOK
  <2>2. PICK f \in [1 .. n -> Slots] : FreeList(n, f)
    BY <2>1
  <2>3. n # 0
    BY <1>1, <2>2, ConstantsAssumption DEF FreeList, Slots
  <2>4. 1 \in 1 .. n /\ f[1] = s0
    BY <2>2, <2>3 DEF FreeList
  <2> QED
    BY <2>2, <2>4, <1>1 DEF FreeList
<1>3. /\ objects' = [objects EXCEPT ![s0] = obj]
      /\ generations' = [generations EXCEPT ![s0] = next_generation]
  BY DEF Create
<1>4. obj # NoObject
  BY ConstantsAssumption
<1>5. Occupied' = Occupied \cup {s0} /\ s0 \notin Occupied
  BY <1>1, <1>2, <1>3, <1>4 DEF Occupied
<1>6. h0 \in Handle /\ h0.index = s0
  BY <1>1, ConstantsAssumption DEF Handle, Slots
<1>7. ASSUME NEW s \in Occupied
      PROVE  HandleOf(s)' = HandleOf(s) /\ objects'[s] = objects[s]
  BY <1>1, <1>3, <1>5 DEF HandleOf, Occupied
<1>8. [index |-> s0, generation |-> generations'[s0]] = h0
  BY <1>1, <1>3, Zenon
<1>9. OpenHandles' = OpenHandles \cup {h0}
  <2>1. OpenHandles' = {[index |-> s, generation |-> generations'[s]] : s \in Occupied \cup {s0}}
    BY <1>5 DEF OpenHandles, HandleOf
  <2>2. ASSUME NEW s \in Occupied
        PROVE  [index |-> s, generation |-> generations'[s]] = HandleOf(s)
    BY <1>7 DEF HandleOf
  <2> QED
    BY <2>1, <2>2, <1>8 DEF OpenHandles
<1>10. ASSUME NEW h \in OpenHandles
       PROVE  h.index \in Occupied /\ h.index # s0 /\ objects'[h.index] = objects[h.index]
  BY <1>5, <1>7, OpenHandleFacts DEF OpenHandles
<1>11. h0 \notin OpenHandles
  BY <1>10, <1>6
<1>12. objects'[s0] = obj
  BY <1>1, <1>3
<1>13. MapOf' = [g \in OpenHandles \cup {h0} |-> IF g = h0 THEN obj ELSE MapOf[g]]
  BY <1>6, <1>9, <1>10, <1>11, <1>12 DEF MapOf
<1>14. DOMAIN MapOf = OpenHandles
  BY DEF MapOf
<1>15. Abstract!Create(h0, obj)
  BY <1>11, <1>13, <1>14 DEF Abstract!Create, MapOf
<1> QED
  BY <1>6, <1>15

LEMMA CloseRefines ==
    ASSUME IInv, NEW handle \in Handle, Close(handle)
    PROVE  \E h \in Handle : Abstract!Close(h)
<1> DEFINE s0 == GetSlot(handle)
           h0 == HandleOf(s0)
<1>1. /\ s0 \in Occupied
      /\ s0 \in Slots
      /\ objects \in [Slots -> Objects \cup {NoObject}]
      /\ generations \in [Slots -> Nat]
  BY ValidSlot DEF Close, IInv, TypeOK, Occupied
<1>2. /\ objects' = [objects EXCEPT ![s0] = NoObject]
      /\ generations' = [generations EXCEPT ![s0] = next_free_slot]
  BY DEF Close
<1>3. Occupied' = Occupied \ {s0}
  BY <1>1, <1>2 DEF Occupied
<1>4. ASSUME NEW s \in Occupied \ {s0}
      PROVE  HandleOf(s)' = HandleOf(s) /\ objects'[s] = objects[s]
  BY <1>1, <1>2 DEF HandleOf, Occupied
<1>5. h0 \in Handle /\ h0 \in OpenHandles /\ h0.index = s0
  <2>1. generations[s0] \in 0 .. GenLimit - 1 /\ s0 \in 0 .. IndexLimit - 1
    BY <1>1, ConstantsAssumption DEF IInv, GenInv, Slots
  <2> QED
    BY <2>1, <1>1, OpenHandleFacts DEF Handle, HandleOf
<1>6. ASSUME NEW s \in Occupied \ {s0}
      PROVE  HandleOf(s) # h0
  BY <1>1, OpenHandleFacts
<1>7. OpenHandles' = OpenHandles \ {h0}
  <2>1. OpenHandles' = {HandleOf(s) : s \in Occupied \ {s0}}
    BY <1>3, <1>4 DEF OpenHandles
  <2> QED
    BY <2>1, <1>1, <1>6, Zenon DEF OpenHandles
<1>8. ASSUME NEW h \in OpenHandles \ {h0}
      PROVE  objects'[h.index] = objects[h.index]
  <2>1. PICK s \in Occupied : h = HandleOf(s)
    BY DEF OpenHandles
  <2>2. s # s0 /\ h.index = s
    BY <2>1, <1>8, OpenHandleFacts
  <2> QED
    BY <2>2, <1>4
<1>9. MapOf' = [g \in OpenHandles \ {h0} |-> MapOf[g]]
  BY <1>7, <1>8 DEF MapOf
<1>10. DOMAIN MapOf = OpenHandles
  BY DEF MapOf
<1>11. PICK h \in Handle : h = h0
  BY <1>5
<1>12. Abstract!Close(h)
  BY <1>5, <1>9, <1>10, <1>11 DEF Abstract!Close, MapOf
<1> QED
  BY <1>12

LEMMA EmptyMap ==
    ASSUME Occupied = {}
    PROVE  MapOf = [h \in {} |-> {}]
<1>1. OpenHandles = {}
  BY DEF OpenHandles
<1> QED
  BY <1>1 DEF MapOf

(* Every behaviour of the table is a behaviour of the map of open handles. *)
THEOREM Refinement == Spec => AbstractSpec
<1>1. Init => Abstract!Init
  <2>1. Init => Occupied = {}
    BY DEF Init, Occupied
  <2> QED
    BY <2>1, EmptyMap DEF Abstract!Init, MapOf
<1>2. IInv /\ [Next]_vars => [Abstract!Next]_MapOf
  <2> SUFFICES ASSUME IInv, [Next]_vars PROVE [Abstract!Next]_MapOf
    OBVIOUS
  <2>1. ASSUME NEW obj \in Objects, Create(obj) PROVE Abstract!Next
    BY <2>1, CreateRefines DEF Abstract!Next
  <2>2. ASSUME NEW handle \in Handle, Duplicate(handle) PROVE Abstract!Next
    BY <2>1, <2>2, ResolvedObject DEF Duplicate
  <2>3. ASSUME NEW handle \in Handle, Close(handle) PROVE Abstract!Next
    BY <2>3, CloseRefines DEF Abstract!Next
  <2>4. CASE Clear
    <3>1. (Occupied = {})'
      BY <2>4 DEF Clear, Occupied
    <3>2. MapOf' = [h \in {} |-> {}]
      <4>1. OpenHandles' = {}
        BY <3>1 DEF OpenHandles
      <4> QED
        BY <4>1 DEF MapOf
    <3> QED
      BY <3>2 DEF Abstract!Next, Abstract!Clear, MapOf
  <2>5. CASE UNCHANGED vars
    <3>1. OpenHandles' = OpenHandles
      BY <2>5 DEF vars, table, OpenHandles, Occupied, HandleOf
    <3> QED
      BY <2>5, <3>1 DEF vars, table, MapOf
  <2> QED
    BY <2>1, <2>2, <2>3, <2>4, <2>5 DEF Next
<1>3. MapOf = [h \in OpenHandles |-> objects[h.index]]
  BY DEF MapOf
<1> QED
  BY <1>1, <1>2, HandleTableInvariant, PTL DEF Spec, AbstractSpec, Abstract!Spec, MapOf
=============================================================================
