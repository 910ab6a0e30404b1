------------------------------ MODULE MCMemory ------------------------------
(***************************************************************************)
(* Memory on small instances: address spaces, the memory of a process, and *)
(* the surfaces that the GPU keeps of memory.  They share no state here,   *)
(* so a behaviour runs one part and leaves the others alone; TLC explores  *)
(* the sum of their states.                                                *)
(***************************************************************************)
EXTENDS Naturals

VARIABLES
    part,                                           \* what this behaviour runs
    vma_map, state_map, perm_map,                   \* AddressSpace
    process_map, free_blocks, memory_used, block, asserted,     \* ProcessMemory
    c, found                                        \* RasterizerCache

spaceVars == <<vma_map, state_map, perm_map>>
processVars == <<process_map, free_blocks, memory_used, block, asserted>>
cacheVars == <<c, found>>

ReadOnly == {"r"}
ReadWrite == {"r", "w"}

\* Four pages, with two permissions; three pages, with two states or two permissions
Space == INSTANCE AddressSpace WITH MAX_ADDRESS <- 4, States <- {"Private"},
             Perms <- {ReadOnly, ReadWrite}, Memory <- {1}
ByState == INSTANCE AddressSpace WITH MAX_ADDRESS <- 3, States <- {"Private", "Aliased"},
             Perms <- {ReadWrite}, Memory <- {1}, vma_map <- state_map
ByPerm == INSTANCE AddressSpace WITH MAX_ADDRESS <- 3, States <- {"Private"},
             Perms <- {ReadOnly, ReadWrite}, Memory <- {1}, vma_map <- perm_map
\* A heap and a linear heap of three pages each, and a shared memory block
Process == INSTANCE ProcessMemory WITH MAX_ADDRESS <- 6, HEAP <- 3, FCRAM <- 3,
             States <- {"Private"}, Perms <- {ReadOnly, ReadWrite}, Memory <- {0},
             Blocks <- {"b1"}, vma_map <- process_map

Area(units, format) == [units |-> units, format |-> format]

\* Each part of memory has one use: a texture, a framebuffer over two pages, a screen.
Texture == Area({0}, "tiled")
Framebuffer == Area(1 .. 2, "tiled")
Screen == Area({3}, "linear")
Apart == INSTANCE RasterizerCache WITH Units <- 0 .. 3, PageSize <- 2,
             Areas <- {Texture, Framebuffer, Screen},
             Pairs <- {<<Framebuffer, Texture>>, <<Texture, Framebuffer>>, <<Framebuffer, Screen>>},
             Reinterpretable <- {}, Convertible <- {}, Fills <- FALSE, Scale <- 2,
             MaxSurfaces <- 4
\* The same memory as depth and as colour.
Shared == INSTANCE RasterizerCache WITH Units <- 0 .. 1, PageSize <- 1,
             Areas <- {Area(0 .. 1, "depth"), Area(0 .. 1, "color")}, Pairs <- {},
             Reinterpretable <- {<<"depth", "color">>, <<"color", "depth">>},
             Convertible <- {<<"depth", "color">>}, Fills <- TRUE, Scale <- 1, MaxSurfaces <- 3

ASSUME InstancesOK ==
    /\ Space!AddressAssumption /\ ByState!AddressAssumption /\ ByPerm!AddressAssumption
    /\ Process!HeapAssumption /\ Apart!CacheAssumption /\ Shared!CacheAssumption

Init ==
    /\ part \in {"areas", "by state", "by perm", "process", "apart", "shared"}
    /\ Space!Init /\ ByState!Init /\ ByPerm!Init /\ Process!MemoryInit
    /\ IF part = "shared" THEN Shared!Init ELSE Apart!Init

InSpace(name, step, other, another) ==
    part = name /\ step /\ UNCHANGED <<part, other, another, processVars, cacheVars>>
InProcess(step) ==
    part = "process" /\ step /\ UNCHANGED <<part, spaceVars, cacheVars>>
InCache(name, step) ==
    part = name /\ step /\ UNCHANGED <<part, spaceVars, processVars>>

Next ==
    \/ InSpace("areas", Space!Next, state_map, perm_map)
    \/ InSpace("by state", ByState!Next, vma_map, perm_map)
    \/ InSpace("by perm", ByPerm!Next, vma_map, state_map)
    \/ InProcess(Process!PairedNext)
    \/ InCache("apart", Apart!Next)
    \/ InCache("shared", Shared!Next)

vars == <<part, spaceVars, processVars, cacheVars>>
Spec == Init /\ [][Next]_vars
-----------------------------------------------------------------------------
\* The areas cover the address space without gap or overlap, neighbouring free areas
\* are one, and every call changes the areas as it changes a map of pages.
IsPageMap ==
    /\ [](Space!AreasTile /\ Space!FreeMerged)
    /\ ByState!PageInit /\ ByPerm!PageInit
    /\ [][/\ part = "by state" => ByState!PageStep
          /\ part = "by perm" => ByPerm!PageStep]_vars


\* A dirty unit belongs to a registered surface that is valid there, and a page is
\* marked as cached exactly while a surface touches it; if each area has one use, what
\* a surface calls valid is current, and so is memory where no surface is dirty.
CacheOK ==
    CASE part = "shared" -> Shared!DirtyOwned /\ Shared!PagesMarked
      [] part = "apart" -> /\ Apart!DirtyOwned /\ Apart!PagesMarked
                           /\ Apart!SurfacesCurrent /\ Apart!MemoryCurrent
      [] OTHER -> TRUE
=============================================================================
