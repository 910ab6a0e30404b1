----------------------------- MODULE IpcBuffers -----------------------------
(***************************************************************************)
(* The mapped buffers of TranslateCommandBuffer (core/hle/kernel/ipc.cpp). *)
(* A request copies each buffer into the IPC area of the server's address  *)
(* space, between two reserved pages; the reply takes the three pieces     *)
(* away again.  Every piece goes to the first free address of the area.    *)
(* Several sessions of one server share the area.                          *)
(***************************************************************************)
EXTENDS AddressSpace

CONSTANTS
    Sessions,     \* the sessions of the server
    MaxBuffers,   \* bound: mapped buffers in one request
    Sizes         \* bound: the buffers' sizes in pages

BuffersAssumption == MaxBuffers \in Nat /\ Sizes \subseteq Nat \ {0}

VARIABLES
    context,      \* mapped_buffer_context of each session
    busy,         \* the session's request is with the server
    failed        \* an ASSERT or Unwrap failed: the emulator stops

vars == <<vma_map, context, busy, failed>>

\* MapBackingMemoryToBase over the area; a failure maps nothing.
ToBase(areas, n, state, mem) ==
    LET t == FirstFree(areas, 0, MAX_ADDRESS, n) IN
    IF t = -1 THEN areas ELSE Map(areas, t, n, "BackingMemory", state, mem)

\* The memory of one buffer: of the reserve page and of its contents.  Fresh
\* memory is never next to other memory.
Fresh(used) == CHOOSE k \in {10 * j : j \in 1 .. 9} : \A c \in used : c.mem # k
Used == UNION {ToSet(context[s]) : s \in Sessions}


\* One mapped buffer of a request.  The reserve pages are one block of memory,
\* and a failure to map them is ignored.
MapBuffer(acc, n) ==
    LET k      == Fresh(Used \cup ToSet(acc.list))
        prev   == ToBase(acc.map, 1, "Reserved", k)
        target == FirstFree(prev, 0, MAX_ADDRESS, n)
        buffer == Map(prev, target, n, "BackingMemory", "Shared", k + 2)
    IN  IF ~acc.ok \/ target = -1 THEN [acc EXCEPT !.ok = FALSE]
        ELSE [map  |-> ToBase(buffer, 1, "Reserved", k),
              list |-> Append(acc.list, [target |-> target, size |-> n, mem |-> k]),
              ok   |-> TRUE]

\* The pages on both sides are reserved, as the reply asserts.
Guarded(areas, c) ==
    /\ c.target > 0 /\ FindVMA(areas, c.target - 1).state = "Reserved"
    /\ c.target + c.size < MAX_ADDRESS /\ FindVMA(areas, c.target + c.size).state = "Reserved"

\* One mapped buffer of a reply
UnmapBuffer(acc, c) ==
    IF ~acc.ok \/ ~Guarded(acc.map, c) \/ ~CanCarveRange(acc.map, c.target - 1, c.size + 2)
    THEN [acc EXCEPT !.ok = FALSE]
    ELSE [acc EXCEPT !.map = UnmapPages(acc.map, c.target - 1, c.size + 2)]

Request(s, sizes) ==
    LET r == FoldLeft(MapBuffer, [map |-> vma_map, list |-> context[s], ok |-> TRUE], sizes) IN
    /\ ~busy[s]
    /\ vma_map' = r.map
    /\ context' = [context EXCEPT ![s] = r.list]
    /\ busy' = [busy EXCEPT ![s] = TRUE]
    /\ failed' = ~r.ok

\* The reply names every buffer of the request, in an order of its own.
Reply(s, order) ==
    LET r == FoldLeft(UnmapBuffer, [map |-> vma_map, ok |-> TRUE], order) IN
    /\ busy[s]
    /\ vma_map' = r.map
    /\ context' = [context EXCEPT ![s] = <<>>]
    /\ busy' = [busy EXCEPT ![s] = FALSE]
    /\ failed' = ~r.ok

BuffersInit ==
    /\ vma_map = {FreeArea(0, MAX_ADDRESS)}
    /\ context = [s \in Sessions |-> <<>>]
    /\ busy = [s \in Sessions |-> FALSE]
    /\ failed = FALSE

BuffersNext ==
    /\ ~failed
    /\ \E s \in Sessions :
          \/ \E m \in 0 .. MaxBuffers : \E sizes \in [1 .. m -> Sizes] : Request(s, sizes)
          \/ \E order \in SetToSeqs(ToSet(context[s])) : Reply(s, order)

BuffersSpec == BuffersInit /\ [][BuffersNext]_vars
-----------------------------------------------------------------------------
(* Each buffer lies between two reserved pages for as long as the server   *)
(* has it: neither a neighbour nor the end of another request takes them.  *)
(* The reply asserts it.                                                   *)
BuffersGuarded == \A s \in Sessions : \A c \in ToSet(context[s]) : Guarded(vma_map, c)

(* When the server has answered everything, its IPC area is one free area: *)
(* requests leave nothing behind, and no mapping or unmapping ever failed. *)
AreaFreeWhenIdle ==
    ~failed /\ (\A s \in Sessions : ~busy[s]) => vma_map = {FreeArea(0, MAX_ADDRESS)}
=============================================================================
