--------------------------- MODULE ProcessMemory ---------------------------
(***************************************************************************)
(* The memory calls of a process (process.cpp, shared_memory.cpp, the      *)
(* regions of memory.cpp, svc.cpp ControlMemory and the memory-block       *)
(* calls).  The pages 0 .. HEAP-1 of the address space are its heap; the   *)
(* FCRAM pages of its region follow as the linear heap.  Allocated pages   *)
(* are taken from free_blocks and mapped; Map makes an alias in the heap;  *)
(* a memory block shares pages of the heap or pages of its own.            *)
(***************************************************************************)
EXTENDS AddressSpace

CONSTANTS
    HEAP,          \* bound: pages of the heap
    FCRAM,         \* bound: pages of the process's region
    Blocks         \* bound: the SharedMemory objects

HeapAssumption == HEAP \in Nat \ {0} /\ FCRAM \in Nat \ {0} /\ MAX_ADDRESS = HEAP + FCRAM

VARIABLES
    free_blocks,   \* the free pages each region lists
    memory_used,   \* Process::memory_used
    block,         \* the SharedMemory objects: base_address, backing_blocks, holding_memory
    asserted       \* the ASSERT that failed, if one did: the emulator stops

vars == <<vma_map, free_blocks, memory_used, block, asserted>>

RW == {"r", "w"}
Region == 0 .. FCRAM - 1
NoBlock == [alive |-> FALSE, base |-> -1, size |-> 0, backing |-> <<>>, holding |-> {}]
Ranges(from, to) == {r \in (from .. to) \X (1 .. to - from) : r[1] + r[2] <= to}
Attr(p) == FindVMA(vma_map, p)
MemoryOf(p) == Attr(p).mem + p - Attr(p).base
AllIn(a, n, state) == \A p \in a .. a + n - 1 : Attr(p).state = state

\* GetBackingBlocksForRange: the pieces of memory behind a range, in order
BackingBlocks(areas, a, n) ==
    LET parts == {v \in areas : End(v) > a /\ v.base < a + n}
        Piece(v) == [mem  |-> v.mem + Max({a, v.base}) - v.base,
                     size |-> Min({a + n, End(v)}) - Max({a, v.base})]
        order == SetToSortSeq(parts, LAMBDA v, w : v.base < w.base)
    IN  [i \in DOMAIN order |-> Piece(order[i])]
IsBacked(areas, a, n) ==
    \A v \in areas : End(v) > a /\ v.base < a + n => v.type = "BackingMemory"

\* An interval_set as its intervals in order
Intervals(pages) ==
    LET lows  == {p \in pages : p - 1 \notin pages}
        Size(p) == Min({m \in 1 .. FCRAM : p + m \notin pages})
        order == SetToSortSeq(lows, LAMBDA p, q : p < q)
    IN  [i \in DOMAIN order |-> [mem |-> order[i], size |-> Size(order[i])]]
PagesOf(pieces) == UNION {p.mem .. p.mem + p.size - 1 : p \in ToSet(pieces)}

\* Map the pieces one after the other, each followed by Reprotect of the area
\* MapBackingMemory returned.
MapPieces(areas, target, pieces, state, perm) ==
    LET One(acc, p) == [at  |-> acc.at + p.size,
                        map |-> ReprotectArea(Map(acc.map, acc.at, p.size, "BackingMemory",
                                                  state, p.mem), acc.at, perm)]
    IN  FoldLeft(One, [at |-> target, map |-> areas], pieces).map

\* MemoryRegionInfo::HeapAllocate: the highest free pages
HeapPages(n) == {p \in free_blocks["APPLICATION"] :
                    Cardinality({q \in free_blocks["APPLICATION"] : q > p}) < n}
\* MemoryRegionInfo::LinearAllocate: the low ends of sufficient free blocks
LinearFits(n) == {p \in Region : p .. p + n - 1 \subseteq free_blocks["APPLICATION"]}
Take(pages) == free_blocks' = [free_blocks EXCEPT !["APPLICATION"] = @ \ pages]
Give(region, pages) == free_blocks' = [free_blocks EXCEPT ![region] = @ \cup pages]
Fail(what) == asserted' = what /\ UNCHANGED <<vma_map, free_blocks, memory_used, block>>
-----------------------------------------------------------------------------
HeapAllocate(a, n, perm) ==
    /\ CanCarve(vma_map, a, n)
    /\ Cardinality(free_blocks["APPLICATION"]) >= n
    /\ Take(HeapPages(n))
    /\ vma_map' = MapPieces(vma_map, a, Intervals(HeapPages(n)), "Private", perm)
    /\ memory_used' = memory_used + n
    /\ UNCHANGED <<block, asserted>>


\* Free asserts that the pages "must be allocated blocks", one piece after the
\* other.
HeapFree(a, n) ==
    LET pages == PagesOf(BackingBlocks(vma_map, a, n)) IN
    /\ IsBacked(vma_map, a, n)
    /\ IF Cardinality(pages) < n \/ pages \cap free_blocks["APPLICATION"] # {}
       THEN Fail("must be allocated blocks")
       ELSE /\ Give("APPLICATION", pages)
            /\ vma_map' = UnmapPages(vma_map, a, n)
            /\ memory_used' = memory_used - n
            /\ UNCHANGED <<block, asserted>>

\* Where the linear heap lets the pages go; asserts that the address is free.
LinearMap(p, n, perm) ==
    IF ~CanCarve(vma_map, HEAP + p, n) THEN Fail("vma.Succeeded")
    ELSE /\ Take(p .. p + n - 1)
         /\ vma_map' = MapPieces(vma_map, HEAP + p, <<[mem |-> p, size |-> n]>>, "Continuous", perm)
         /\ memory_used' = memory_used + n
         /\ UNCHANGED <<block, asserted>>

LinearAllocate(n, perm) ==
    LinearFits(n) # {} /\ LinearMap(Min(LinearFits(n)), n, perm)

LinearAllocateAt(a, n, perm) ==
    a - HEAP \in LinearFits(n) /\ LinearMap(a - HEAP, n, perm)

LinearFree(a, n) ==
    LET pages == a - HEAP .. a - HEAP + n - 1 IN
    /\ CanCarveRange(vma_map, a, n)
    /\ IF pages \cap free_blocks["APPLICATION"] # {}
       THEN Fail("must be allocated blocks")
       ELSE /\ vma_map' = UnmapPages(vma_map, a, n)
            /\ memory_used' = memory_used - n
            /\ Give("APPLICATION", pages)
            /\ UNCHANGED <<block, asserted>>

Apart(a, b, n) == a + n <= b \/ b + n <= a

\* Process::Map, not privileged
MapAlias(target, source, n, perm) ==
    LET aliased == ChangeState(vma_map, source, n, "Aliased", RW) IN
    /\ Apart(target, source, n)
    /\ CanCarve(vma_map, target, n)
    /\ CanChangeState(vma_map, source, n, "Private", RW)
    /\ vma_map' = MapPieces(aliased, target, BackingBlocks(aliased, source, n), "Alias", perm)
    /\ UNCHANGED <<free_blocks, memory_used, block, asserted>>

\* Process::Unmap, not privileged: the target is gone even if the source is
\* not what it should be.
UnmapAlias(target, source, n, perm) ==
    LET gone == UnmapPages(vma_map, target, n) IN
    /\ Apart(target, source, n)
    /\ CanCarveRange(vma_map, target, n)
    /\ vma_map' = IF CanChangeState(gone, source, n, "Aliased", {})
                  THEN ChangeState(gone, source, n, "Private", perm) ELSE gone
    /\ UNCHANGED <<free_blocks, memory_used, block, asserted>>

Protect(a, n, perm) ==
    ReprotectRange(a, n, perm) /\ UNCHANGED <<free_blocks, memory_used, block, asserted>>
-----------------------------------------------------------------------------
\* CreateMemoryBlock with an address: heap pages, locked
CreateMemoryBlock(b, a, n) ==
    /\ ~block[b].alive
    /\ CanChangeState(vma_map, a, n, "Private", RW)
    /\ vma_map' = ChangeState(vma_map, a, n, "Locked", RW)
    /\ block' = [block EXCEPT ![b] = [alive |-> TRUE, base |-> a, size |-> n, holding |-> {},
                                      backing |-> BackingBlocks(vma_map', a, n)]]
    /\ UNCHANGED <<free_blocks, memory_used, asserted>>

\* CreateMemoryBlock with address 0, by a process with shared_device_mem
CreateOwnBlock(b, n) ==
    LET p == Min(LinearFits(n)) IN
    /\ ~block[b].alive
    /\ IF LinearFits(n) = {} THEN Fail("Not enough space")
       ELSE /\ Take(p .. p + n - 1)
            /\ memory_used' = memory_used + n
            /\ block' = [block EXCEPT ![b] = [alive |-> TRUE, base |-> -1, size |-> n,
                                              holding |-> p .. p + n - 1,
                                              backing |-> <<[mem |-> p, size |-> n]>>]]
            /\ UNCHANGED <<vma_map, asserted>>

\* MapMemoryBlock with rights the block grants
MapMemoryBlock(b, a, perm) ==
    /\ block[b].alive
    /\ CanCarve(vma_map, a, block[b].size)
    /\ vma_map' = MapPieces(vma_map, a, block[b].backing, "Shared", perm)
    /\ UNCHANGED <<free_blocks, memory_used, block, asserted>>

UnmapMemoryBlock(b, a) ==
    /\ block[b].alive
    /\ UnmapRange(a, block[b].size)
    /\ UNCHANGED <<free_blocks, memory_used, block, asserted>>

\* ~SharedMemory: what it holds goes to the SYSTEM region, what it borrowed is
\* private again if it still can be.
DestroyBlock(b) ==
    LET o == block[b] IN
    /\ o.alive
    /\ Give("SYSTEM", o.holding)
    /\ vma_map' = IF o.base # -1 /\ CanChangeState(vma_map, o.base, o.size, "Locked", {})
                  THEN ChangeState(vma_map, o.base, o.size, "Private", RW) ELSE vma_map
    /\ block' = [block EXCEPT ![b] = NoBlock]
    /\ UNCHANGED <<memory_used, asserted>>
-----------------------------------------------------------------------------
MemoryInit ==
    /\ vma_map = {FreeArea(0, MAX_ADDRESS)}
    /\ free_blocks = [APPLICATION |-> Region, SYSTEM |-> {}]
    /\ memory_used = 0
    /\ block = [b \in Blocks |-> NoBlock]
    /\ asserted = "none"

Heap == Ranges(0, HEAP)
Linear == Ranges(HEAP, MAX_ADDRESS)

Allocation ==
    \E perm \in Perms :
        \/ \E r \in Heap : HeapAllocate(r[1], r[2], perm)
        \/ \E n \in 1 .. FCRAM : LinearAllocate(n, perm)
        \/ \E r \in Linear : LinearAllocateAt(r[1], r[2], perm)
        \/ \E r \in Heap \cup Linear : Protect(r[1], r[2], perm)
BlockCalls ==
    \E b \in Blocks :
        \/ \E r \in Heap : CreateMemoryBlock(b, r[1], r[2])
        \/ \E n \in 1 .. FCRAM : LinearFits(n) # {} /\ CreateOwnBlock(b, n)
        \/ \E r \in Heap, perm \in Perms : r[2] = block[b].size /\ MapMemoryBlock(b, r[1], perm)

\* Whatever a program asks for
AnyCall ==
    \/ \E r \in Heap : HeapFree(r[1], r[2])
    \/ \E r \in Linear : LinearFree(r[1], r[2])
    \/ \E t \in Heap \cup Linear, s \in Heap, perm \in Perms :
          s[2] = t[2] /\ (MapAlias(t[1], s[1], s[2], perm) \/ UnmapAlias(t[1], s[1], s[2], perm))
    \/ \E b \in Blocks :
          \/ \E r \in Heap : r[2] = block[b].size /\ UnmapMemoryBlock(b, r[1])
          \/ \E n \in 1 .. FCRAM : CreateOwnBlock(b, n)
          \/ DestroyBlock(b)

\* A program that frees only what it allocated and does not share, undoes an
\* alias with its own source, and a block before it lets go of it
StillMapped(b) ==
    \E p \in Pages : Attr(p).state = "Shared" /\ MemoryOf(p) \in PagesOf(block[b].backing)
PairedCall ==
    \/ \E r \in Heap : AllIn(r[1], r[2], "Private") /\ HeapFree(r[1], r[2])
    \/ \E r \in Linear : AllIn(r[1], r[2], "Continuous") /\ LinearFree(r[1], r[2])
    \/ \E t \in Heap, s \in Heap, perm \in Perms :
          /\ s[2] = t[2]
          /\ \/ MapAlias(t[1], s[1], s[2], perm)
             \/ /\ AllIn(t[1], t[2], "Alias") /\ AllIn(s[1], s[2], "Aliased")
                /\ \A i \in 0 .. s[2] - 1 : MemoryOf(t[1] + i) = MemoryOf(s[1] + i)
                /\ UnmapAlias(t[1], s[1], s[2], perm)
    \/ \E b \in Blocks :
          \/ \E r \in Heap : /\ r[2] = block[b].size /\ AllIn(r[1], r[2], "Shared")
                             /\ UnmapMemoryBlock(b, r[1])
          \/ ~StillMapped(b) /\ DestroyBlock(b)

MemoryNext == asserted = "none" /\ (Allocation \/ BlockCalls \/ AnyCall)
PairedNext == asserted = "none" /\ (Allocation \/ BlockCalls \/ PairedCall)
MemorySpec == MemoryInit /\ [][MemoryNext]_vars
PairedSpec == MemoryInit /\ [][PairedNext]_vars
-----------------------------------------------------------------------------
(* A page a region lists as free is mapped nowhere, so that no two calls   *)
(* ever own the same memory.                                               *)
FreeIsUnmapped ==
    \A p \in Pages : Attr(p).type # "Free" =>
        \A r \in DOMAIN free_blocks : MemoryOf(p) \notin free_blocks[r]

(* memory_used, which GetProcessInfo reports, is what the region has lost, *)
(* through every order of heap, linear and block allocations.              *)
MemoryAccounted == memory_used = FCRAM - Cardinality(free_blocks["APPLICATION"])

(* An alias and the heap page it shows are a pair for as long as either is *)
(* marked: Unmap can always make the source private again.                 *)
AliasPaired ==
    \A p \in Pages : \A this, other \in {"Alias", "Aliased"} :
        Attr(p).state = this /\ other # this =>
            \E q \in Pages : Attr(q).state = other /\ MemoryOf(q) = MemoryOf(p)

(* The assertions hold: memory that is freed was allocated, and a linear   *)
(* page that is free has its address free.                                 *)
NoAssertFails == asserted = "none"

(* "must be allocated blocks": memory is returned to a region once, by any *)
(* sequence of calls.                                                      *)
FreedOnce == asserted # "must be allocated blocks"

(* "The region size this allocator manages": a region lists only its own   *)
(* pages as free.                                                          *)
RegionsApart == free_blocks["APPLICATION"] \subseteq Region /\ free_blocks["SYSTEM"] \cap Region = {}

(* "This is the appropriately sized VMA that will turn into our            *)
(* allocation": the permissions asked for an allocation change those of no *)
(* page that was mapped before.                                            *)
PermsKept ==
    [][memory_used' > memory_used =>
        \A p \in Pages : Attr(p).type # "Free" => Attr(p)'.perm = Attr(p).perm]_vars
=============================================================================
