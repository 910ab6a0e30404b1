---------------------------- MODULE AddressSpace ----------------------------
(***************************************************************************)
(* The address space of a process (core/hle/kernel/vm_manager.cpp): a map  *)
(* of areas that calls split, change and merge.  Addresses and sizes are   *)
(* counted in pages.  Memory is a row of host pages; an area of backing    *)
(* memory or of registers (MMIO) begins at one of them.                    *)
(***************************************************************************)
EXTENDS Integers, FiniteSets, Sequences, SequencesExt, FiniteSetsExt

CONSTANTS
    MAX_ADDRESS,   \* bound: the pages of the address space
    States,        \* bound: the memory states of mapped areas
    Perms,         \* bound: the permissions
    Memory         \* bound: the host pages a mapping may begin at

AddressAssumption ==
    MAX_ADDRESS \in Nat \ {0} /\ Memory \subseteq Nat /\ Perms \subseteq SUBSET {"r", "w"}
    /\ {"r", "w"} \in Perms

VARIABLE vma_map

Pages == 0 .. MAX_ADDRESS - 1
FreeArea(base, size) ==
    [base |-> base, size |-> size, type |-> "Free", perm |-> {}, state |-> "Free", mem |-> 0]
End(v) == v.base + v.size

\* FindVMA
FindVMA(areas, a) == CHOOSE v \in areas : v.base <= a /\ a < End(v)

\* VirtualMemoryArea::CanBeMergedWith
CanBeMergedWith(v, next) ==
    /\ End(v) = next.base
    /\ v.perm = next.perm /\ v.state = next.state /\ v.type = next.type
    /\ v.type # "Free" => v.mem + v.size = next.mem

\* MergeAdjacent
MergeAdjacent(areas, v) ==
    LET right == {n \in areas : CanBeMergedWith(v, n)}
        wide  == [v EXCEPT !.size = @ + SumSet({n.size : n \in right})]
        left  == {p \in areas : CanBeMergedWith(p, wide)}
    IN  (areas \ ({v} \cup right \cup left)) \cup
            {IF left = {} THEN wide
             ELSE LET p == CHOOSE p \in left : TRUE IN [p EXCEPT !.size = @ + wide.size]}

\* A mutant: both halves begin at the same memory.
Split_SameMemory(areas, a) ==
    IF a = MAX_ADDRESS \/ \E v \in areas : v.base = a THEN areas
    ELSE LET v == FindVMA(areas, a)
             n == a - v.base
         IN  (areas \ {v}) \cup {[v EXCEPT !.size = n], [v EXCEPT !.base = a, !.size = @ - n]}

\* SplitVMA, unless an area begins at the address already
Split(areas, a) ==
    IF a = MAX_ADDRESS \/ \E v \in areas : v.base = a THEN areas
    ELSE LET v == FindVMA(areas, a)
             n == a - v.base
         IN  (areas \ {v}) \cup
                 {[v EXCEPT !.size = n],
                  [v EXCEPT !.base = a, !.size = @ - n,
                            !.mem = IF v.type = "Free" THEN @ ELSE @ + n]}

\* CarveVMA succeeds if the range lies in one free area.
CanCarve(areas, a, n) == LET v == FindVMA(areas, a) IN v.type = "Free" /\ a + n <= End(v)

\* CarveVMARange succeeds if no area in the range is free.
CanCarveRange(areas, a, n) == \A v \in areas : End(v) > a /\ v.base < a + n => v.type # "Free"

\* Split at both ends, then give the areas the new fields one by one, each merged at
\* once.  An area that was merged into its neighbour has no turn.
ChangeRange(areas, a, n, fields) ==
    LET carved  == Split(Split(areas, a), a + n)
        bases   == SetToSortSeq({v.base : v \in {w \in carved : w.base >= a /\ w.base < a + n}},
                                LAMBDA x, y : x < y)
        Turn(m, b) == IF \A v \in m : v.base # b THEN m
                      ELSE LET v == FindVMA(m, b)
                               w == fields @@ v
                           IN  MergeAdjacent((m \ {v}) \cup {w}, w)
    IN  FoldLeft(Turn, carved, bases)

\* MapBackingMemory, MapMMIO
Map(areas, a, n, type, state, mem) ==
    ChangeRange(areas, a, n, [type |-> type, perm |-> {"r", "w"}, state |-> state, mem |-> mem])

\* UnmapRange
UnmapPages(areas, a, n) ==
    ChangeRange(areas, a, n, [type |-> "Free", perm |-> {}, state |-> "Free", mem |-> 0])

\* Reprotect of the area that holds an address
ReprotectArea(areas, a, perm) ==
    LET v == FindVMA(areas, a)
        w == [v EXCEPT !.perm = perm]
    IN  MergeAdjacent((areas \ {v}) \cup {w}, w)

\* The comparison of ChangeMemoryState with what is expected
CanChangeState(areas, a, n, from, atLeast) ==
    \A v \in areas : End(v) > a /\ v.base < a + n => v.state = from /\ atLeast \subseteq v.perm

\* The rest of ChangeMemoryState
ChangeState(areas, a, n, to, perm) ==
    ChangeRange(areas, a, n, [state |-> to, perm |-> perm])

\* The search of MapBackingMemoryToBase in the region from base; -1 for failure.
FirstFree(areas, base, region, n) ==
    LET found == {v \in areas : v.type = "Free" /\ End(v) > base /\ End(v) >= base + n}
        v     == CHOOSE w \in found : \A u \in found : w.base <= u.base
        t     == Max({base, v.base})
    IN  IF found = {} THEN -1
        ELSE IF t + n > base + region \/ ~CanCarve(areas, t, n) THEN -1
        ELSE t
-----------------------------------------------------------------------------
MapBackingMemory(a, n, type, state, mem) ==
    /\ CanCarve(vma_map, a, n)
    /\ vma_map' = Map(vma_map, a, n, type, state, mem)

MapBackingMemoryToBase(base, region, n, state, mem) ==
    LET t == FirstFree(vma_map, base, region, n) IN
    /\ t # -1
    /\ vma_map' = Map(vma_map, t, n, "BackingMemory", state, mem)

UnmapRange(a, n) ==
    /\ CanCarveRange(vma_map, a, n)
    /\ vma_map' = UnmapPages(vma_map, a, n)

ReprotectRange(a, n, perm) ==
    /\ CanCarveRange(vma_map, a, n)
    /\ vma_map' = ChangeRange(vma_map, a, n, [perm |-> perm])

ChangeMemoryState(a, n, from, atLeast, to, perm) ==
    /\ CanChangeState(vma_map, a, n, from, atLeast)
    /\ CanCarveRange(vma_map, a, n)
    /\ vma_map' = ChangeState(vma_map, a, n, to, perm)

\* Reset
Init == vma_map = {FreeArea(0, MAX_ADDRESS)}

Next ==
    \E a \in Pages : \E n \in 1 .. MAX_ADDRESS - a :
        \/ \E type \in {"BackingMemory", "MMIO"}, state \in States, mem \in Memory :
              MapBackingMemory(a, n, type, state, mem)
        \/ \E state \in States, mem \in Memory, k \in 1 .. n :
              MapBackingMemoryToBase(a, n, k, state, mem)
        \/ UnmapRange(a, n)
        \/ \E perm \in Perms : ReprotectRange(a, n, perm)
        \/ \E from, to \in States, atLeast, perm \in Perms :
              ChangeMemoryState(a, n, from, atLeast, to, perm)

Spec == Init /\ [][Next]_vma_map
-----------------------------------------------------------------------------
(* "the invariant `elem.base + elem.size == next.base` is preserved": the  *)
(* areas cover the address space without gap or overlap.                   *)
AreasTile ==
    \A p \in Pages : Cardinality({v \in vma_map : v.base <= p /\ p < End(v)}) = 1

(* Neighbouring free areas are always one, whatever was mapped and unmapped *)
(* there in whatever pieces: CarveVMA maps only inside one free area, and    *)
(* UnmapRange asserts that its range ends up in one.                       *)
FreeMerged ==
    \A v, w \in vma_map : v.type = "Free" /\ w.type = "Free" => ~CanBeMergedWith(v, w)

(* "mergeable regions must always be merged when possible so that no two   *)
(* similar and adjacent regions exist that have not been merged".          *)
AreasMerged == \A v, w \in vma_map : ~CanBeMergedWith(v, w)

(* "at the first free address after the given base": memory is mapped      *)
(* whenever the region has a hole that is large enough.                    *)
MapsWhereItFits ==
    \A base \in Pages : \A region \in 1 .. MAX_ADDRESS - base : \A n \in 1 .. region :
        (\E t \in base .. base + region - n : CanCarve(vma_map, t, n))
        => FirstFree(vma_map, base, region, n) # -1

\* The page that the areas show at p
PageAt(p) ==
    LET v == FindVMA(vma_map, p) IN
    [type |-> v.type, perm |-> v.perm, state |-> v.state,
     mem |-> IF v.type = "Free" THEN 0 ELSE v.mem + p - v.base]
PagesNow == [p \in Pages |-> PageAt(p)]
PM == INSTANCE PageMap WITH page <- PagesNow

(* The map of areas is a map of pages: every call changes exactly the      *)
(* pages of its range, wherever the areas begin and end.                   *)
PageInit == PM!Init
PageStep == [PM!Next]_PagesNow
=============================================================================
