----------------------------- MODULE HandleTable -----------------------------
(***************************************************************************)
(* Kernel::HandleTable (core/hle/kernel/handle_table.{h,cpp}).             *)
(*                                                                         *)
(* A handle is a 32-bit word of two fields, here a record: the slot index  *)
(* (bits 31:15, 17 bits) and the generation (bits 14:0).  The free slots   *)
(* form a linked list that is threaded through the generations array.      *)
(*                                                                         *)
(* The history variables wraps, wrapOf and closed only serve to state      *)
(* what happens to a handle after it was closed: wraps counts how often    *)
(* next_generation wrapped around, wrapOf[s] is its value when slot s was  *)
(* filled, and closed holds every handle that was closed, with the wrap    *)
(* count of its creation.                                                  *)
(***************************************************************************)
EXTENDS Integers

CONSTANTS
    Objects,       \* the kernel objects
    NoObject,      \* nullptr
    ThreadObject,  \* what the pseudo-handle CurrentThread resolves to
    ProcessObject, \* what the pseudo-handle CurrentProcess resolves to
    MAX_COUNT,     \* number of slots (4096)
    GenLimit,      \* 1 << 15, the size of the generation field
    SlotModulus,   \* 1 << 16: GetSlot returns a u16
    IndexLimit,    \* 1 << 17, the size of the index field of a handle
    MaxWraps       \* bound on the history: how often the generations wrap

ASSUME ConstantsAssumption ==
    /\ NoObject \notin Objects
    /\ {ThreadObject, ProcessObject} \subseteq Objects
    /\ MAX_COUNT \in Nat \ {0}
    /\ GenLimit \in Nat /\ GenLimit > 1
    /\ SlotModulus \in Nat /\ MAX_COUNT < SlotModulus
    /\ IndexLimit \in Nat /\ SlotModulus <= IndexLimit
    /\ MaxWraps \in Nat

Slots  == 0 .. MAX_COUNT - 1
Handle == [index : 0 .. IndexLimit - 1, generation : 0 .. GenLimit - 1]

CurrentThread  == [index |-> IndexLimit - 1, generation |-> 0]
CurrentProcess == [index |-> IndexLimit - 1, generation |-> 1]

VARIABLES objects, generations, next_generation, next_free_slot,
          wraps, wrapOf, closed

table   == <<objects, generations, next_generation, next_free_slot>>
history == <<wraps, wrapOf, closed>>
vars    == <<table, history>>
-----------------------------------------------------------------------------
GetSlot(handle)       == handle.index % SlotModulus
GetGeneration(handle) == handle.generation

\* A mutant: the generation is not compared.
IsValid_AnyGeneration(handle) ==
    /\ GetSlot(handle) < MAX_COUNT
    /\ objects[GetSlot(handle)] # NoObject

IsValid(handle) ==
    /\ GetSlot(handle) < MAX_COUNT
    /\ objects[GetSlot(handle)] # NoObject
    /\ generations[GetSlot(handle)] = GetGeneration(handle)

GetGeneric(handle) ==
    CASE handle = CurrentThread  -> ThreadObject
      [] handle = CurrentProcess -> ProcessObject
      [] OTHER -> IF IsValid(handle) THEN objects[GetSlot(handle)] ELSE NoObject

\* The handle that Create returned for an occupied slot.
HandleOf(s) == [index |-> s, generation |-> generations[s]]

Occupied == {s \in Slots : objects[s] # NoObject}

\* The handles of the slots in S, as they enter the history when S is emptied.
Closing(S) == {[handle |-> HandleOf(s), wrap |-> wrapOf[s]] : s \in S}
-----------------------------------------------------------------------------
Init ==
    /\ objects = [s \in Slots |-> NoObject]
    /\ generations = [s \in Slots |-> s + 1]
    /\ next_generation = 1
    /\ next_free_slot = 0
    /\ wraps = 0
    /\ wrapOf = [s \in Slots |-> 0]
    /\ closed = {}

\* Create pops the head of the free list; it fails when the list is empty.
\* The guard on wraps is the bound of the history, not a condition of the code.
Create(obj) ==
    /\ wraps < MaxWraps
    /\ next_free_slot < MAX_COUNT
    /\ next_free_slot' = generations[next_free_slot]
    /\ IF next_generation + 1 >= GenLimit
       THEN next_generation' = 1 /\ wraps' = wraps + 1
       ELSE next_generation' = next_generation + 1 /\ UNCHANGED wraps
    /\ generations' = [generations EXCEPT ![next_free_slot] = next_generation]
    /\ objects' = [objects EXCEPT ![next_free_slot] = obj]
    /\ wrapOf' = [wrapOf EXCEPT ![next_free_slot] = wraps]
    /\ UNCHANGED closed

Duplicate(handle) ==
    /\ GetGeneric(handle) # NoObject
    /\ Create(GetGeneric(handle))

\* Mutants: the slot is not linked to the free list; the object is not released.
Close_NoRelink(handle) ==
    LET slot == GetSlot(handle) IN
    /\ IsValid(handle)
    /\ objects' = [objects EXCEPT ![slot] = NoObject]
    /\ next_free_slot' = slot
    /\ closed' = closed \cup Closing({slot})
    /\ UNCHANGED <<generations, next_generation, wraps, wrapOf>>

Close_KeepObject(handle) ==
    LET slot == GetSlot(handle) IN
    /\ IsValid(handle)
    /\ generations' = [generations EXCEPT ![slot] = next_free_slot]
    /\ next_free_slot' = slot
    /\ closed' = closed \cup Closing({slot})
    /\ UNCHANGED <<objects, next_generation, wraps, wrapOf>>

\* Close pushes the slot on the free list.
Close(handle) ==
    LET slot == GetSlot(handle) IN
    /\ IsValid(handle)
    /\ objects' = [objects EXCEPT ![slot] = NoObject]
    /\ generations' = [generations EXCEPT ![slot] = next_free_slot]
    /\ next_free_slot' = slot
    /\ closed' = closed \cup Closing({slot})
    /\ UNCHANGED <<next_generation, wraps, wrapOf>>

\* Clear rebuilds the free list and keeps next_generation.
Clear ==
    /\ generations' = [s \in Slots |-> s + 1]
    /\ objects' = [s \in Slots |-> NoObject]
    /\ next_free_slot' = 0
    /\ closed' = closed \cup Closing(Occupied)
    /\ UNCHANGED <<next_generation, wraps, wrapOf>>

Next ==
    \/ \E obj \in Objects : Create(obj)
    \/ \E handle \in Handle : Duplicate(handle)
    \/ \E handle \in Handle : Close(handle)
    \/ Clear

Spec == Init /\ [][Next]_vars
-----------------------------------------------------------------------------
(* TypeOK: the ranges of the fields; next_generation is never 0 and fits   *)
(* the 15-bit field.                                                       *)
TypeOK ==
    /\ objects \in [Slots -> Objects \cup {NoObject}]
    /\ generations \in [Slots -> Nat]
    /\ next_generation \in 1 .. GenLimit - 1
    /\ next_free_slot \in 0 .. MAX_COUNT
    /\ wraps \in 0 .. MaxWraps
    /\ wrapOf \in [Slots -> 0 .. MaxWraps]
    /\ closed \subseteq [handle : Handle, wrap : 0 .. MaxWraps]

(* The free list is well formed: starting at next_free_slot and following  *)
(* the generations array it visits every empty slot exactly once, visits   *)
(* no occupied slot, and ends at MAX_COUNT.                                *)
FreeList(n, f) ==
    /\ \A i, j \in 1 .. n : f[i] = f[j] => i = j
    /\ \A s \in Slots : (objects[s] = NoObject) <=> (\E i \in 1 .. n : f[i] = s)
    /\ next_free_slot = IF n = 0 THEN MAX_COUNT ELSE f[1]
    /\ \A i \in 1 .. n :
          generations[f[i]] = IF i = n THEN MAX_COUNT ELSE f[i + 1]

FreeListOK == \E n \in 0 .. MAX_COUNT : \E f \in [1 .. n -> Slots] : FreeList(n, f)

(* Create reports ERR_OUT_OF_HANDLES exactly when every slot is occupied:  *)
(* no sequence of Create, Duplicate, Close and Clear loses a slot.         *)
OutOfHandlesOnlyWhenFull == (next_free_slot >= MAX_COUNT) <=> (Occupied = Slots)

(* A closed handle is rejected at least until the generation counter has   *)
(* wrapped around: when it is accepted again, its slot was refilled after  *)
(* a later wrap (so at least GenLimit - 1 handles were created meanwhile). *)
StaleHandleNeedsWrap ==
    \A c \in closed : IsValid(c.handle) => wrapOf[GetSlot(c.handle)] > c.wrap

(* Only handles that Create returned and that are still open are accepted: *)
(* the header describes bits 31:15 of a handle as its slot index.          *)
OnlyIssuedHandlesValid ==
    \A h \in Handle : IsValid(h) => \E s \in Occupied : h = HandleOf(s)
-----------------------------------------------------------------------------
(* The table implements the map of its open handles.                       *)
OpenHandles == {HandleOf(s) : s \in Occupied}
Abstract == INSTANCE HandleMap WITH
                map <- [h \in OpenHandles |-> objects[h.index]]

(* AbstractSpec: every step of the table is a step of a map from handles   *)
(* to objects; Create never returns a handle that is already open, and     *)
(* Close and Clear drop exactly the handles they name.                     *)
AbstractSpec == Abstract!Spec
=============================================================================
