--------------------------- MODULE RasterizerCache ---------------------------
(***************************************************************************)
(* The cache of GPU surfaces (video_core/rasterizer_cache).  The same      *)
(* memory is seen by the emulated CPU and, as surfaces of some format, by  *)
(* the host's GPU; the cache copies between them when somebody looks.      *)
(* Memory is a row of units, the pieces all surfaces are made of: a unit   *)
(* is a line of tiles, and surfaces have the same stride.  Of the data     *)
(* there is only whether a copy is current, that is, holds what the memory *)
(* of the console would hold.  Levels, cubes and custom textures are left  *)
(* out.                                                                    *)
(***************************************************************************)
EXTENDS Integers, SequencesExt, FiniteSetsExt

CONSTANTS
    Units,              \* 0 .. n
    PageSize,           \* units in a page
    Areas,              \* what programs use: [units, format] records
    Pairs,              \* the areas <<from, to>> they transfer between
    Reinterpretable,    \* format pairs <<from, to>> of the same width
    Convertible,        \* and those that runtime.Reinterpret implements
    Fills,              \* whether memory is filled by the GPU
    Scale,              \* resolution_scale_factor
    MaxSurfaces         \* a bound: surfaces after a step

CacheAssumption ==
    /\ 0 \in Units /\ Units \subseteq Nat /\ Units = 0..Max(Units)
    /\ \A a \in Areas : a.units \subseteq Units
    /\ Pairs \subseteq Areas \X Areas /\ Convertible \subseteq Reinterpretable
    /\ PageSize \in Nat \ {0} /\ Scale \in Nat \ {0}

FillFormat == "fill"    \* PixelFormat::Invalid
FillScale == 9          \* the greatest res_scale
\* A surface's slot is named by what was created in it; of fills of the same units an old
\* one may still be there when a new one is made, and has the other colour.
Slot(units, format, scale, fits, colour) ==
    [units |-> units, format |-> format, scale |-> scale, fits |-> fits, colour |-> colour]
None == Slot({}, "none", 0, FALSE, 0)   \* SurfaceId{}

Pages == {u \div PageSize : u \in Units}

VARIABLES
    c,          \* the cache and memory, see below
    found       \* whether the last step found its surfaces in their slots

vars == <<c, found>>

\* slot_surfaces: for every slot in use the units not in invalid_regions, and those
\* whose data is current.  The slot's name has the surface's units, format and scale, and
\* of a fill whether its value fits any format (CanFill).
\* page_table: for every page the registered surfaces that touch it.
\* dirty_regions: for every unit the surface that wrote it last, or None.
\* cached_pages: how many surfaces touch a page; marked: the pages marked as cached.
\* memory: the units whose data is current in memory.
Init ==
    /\ c = [slot_surfaces |-> << >>, page_table |-> [p \in Pages |-> {}],
            dirty_regions |-> [u \in Units |-> None], cached_pages |-> [p \in Pages |-> 0],
            marked |-> {}, memory |-> Units]
    /\ found = TRUE
-----------------------------------------------------------------------------
(* Intervals *)

Intervals(S) == {I \in {a..b : a, b \in S} : I # {} /\ I \subseteq S}

\* The intervals a set of units falls into.
Runs(S) == {I \in Intervals(S) : Min(I) - 1 \notin S /\ Max(I) + 1 \notin S}
FirstRun(S) == CHOOSE I \in Runs(S) : Min(I) = Min(S)

PagesOf(I) == {u \div PageSize : u \in I}

\* The surfaces ForEachSurfaceInRegion meets.
Visited(k, I) == {id \in UNION {k.page_table[p] : p \in PagesOf(I)} : id.units \cap I # {}}

Surface(k, id) == k.slot_surfaces[id]
IsFill(id) == id.format = FillFormat

\* The first longest valid interval (GetCopyableInterval).
FirstLongest(R) ==
    IF R = {} THEN {}
    ELSE CHOOSE r \in R : \A q \in R :
             \/ Cardinality(q) < Cardinality(r)
             \/ Cardinality(q) = Cardinality(r) /\ Min(r) <= Min(q)
Copyable(k, id, I) == FirstLongest(Runs(I \cap Surface(k, id).valid))

\* FindMatch: of the matches, the one of the greatest scale, then a valid one, then the
\* one of the longest interval, then the first met (here: any).  None if there is none.
Best(rank) ==
    IF rank = << >> THEN None
    ELSE CHOOSE i \in DOMAIN rank : \A j \in DOMAIN rank : rank[j] <= rank[i]
FindMatch(matches, valid, length) ==
    Best([id \in matches |->
              100 * id.scale + (IF id \in valid THEN 10 ELSE 0) + length[id]])
\* The surfaces of a set where an interval is valid, and how much of it they can give.
ValidIn(k, ids, I) == {id \in ids : I \subseteq Surface(k, id).valid}
CopyLength(k, ids, I) == [id \in ids |-> Cardinality(Copyable(k, id, I))]

\* The scales a match may have, for a ScaleMatch.
ScaleMatched(id, v, match) ==
    \/ match = "Ignore" \/ IsFill(id)
    \/ match = "Exact" /\ id.scale = v.scale
    \/ match = "Upscale" /\ v.scale <= id.scale

\* ExactMatch, CanSubRect and CanExpand of the surface that occupies I
Fits(I, v, flag) ==
    \/ flag = "Exact" /\ I = v.units
    \/ flag = "SubRect" /\ v.units \subseteq I
    \/ flag = "Expand"

\* A match of the whole of a view, a [units, format, scale] record.
MatchView(k, v, match, flag) ==
    LET matches == {id \in Visited(k, v.units) : /\ id.format = v.format
                                                 /\ Fits(id.units, v, flag)
                                                 /\ ScaleMatched(id, v, match)}
    IN FindMatch(matches, ValidIn(k, matches, v.units),
                 [id \in matches |-> Cardinality(id.units)])

FindExact(k, v, match) == MatchView(k, v, match, "Exact")
FindSubRect(k, v, match) == MatchView(k, v, match, "SubRect")
FindExpand(k, v, match) == MatchView(k, v, match, "Expand")
-----------------------------------------------------------------------------
(* Operations on the cache, each from a state k of it to the next *)

MarkValid(k, id, I, current) ==
    [k EXCEPT !.slot_surfaces[id].valid = @ \union I,
              !.slot_surfaces[id].current = (@ \ I) \union (current \cap I)]

\* What a download brings to memory.  DownloadFillSurface starts as far from the
\* beginning of the interval as the interval starts from the beginning of the surface.
Downloaded(k, id, I) ==
    IF IsFill(id) THEN {u \in I : u >= Min(I) + (Min(I) - Min(id.units))} ELSE I

\* The dirty unit next to others of the same surface.
Region(k, u) == CHOOSE I \in Runs({w \in Units : k.dirty_regions[w] = k.dirty_regions[u]}) : u \in I

\* What is written goes to memory, and what is cleared is not dirty any more.
WriteBack(k, written, cleared) ==
    [k EXCEPT !.memory = (@ \ written) \union
                         {u \in written : u \in Surface(k, k.dirty_regions[u]).current},
              !.dirty_regions = [u \in Units |-> IF u \in cleared THEN None ELSE @[u]]]
FlushRegions(k, regions) ==
    WriteBack(k, UNION {Downloaded(k, k.dirty_regions[Min(J)], J) : J \in regions},
              UNION regions)

\* The regions that FlushRegion flushes, for one surface or for all of them (None).  Small
\* accesses, of at most 8 bytes, flush whole regions.
DirtyRegions(k, I, flush_id, small) ==
    {IF small THEN Region(k, u) ELSE Region(k, u) \cap I :
         u \in {u \in I : k.dirty_regions[u] # None
                           /\ flush_id \in {None, k.dirty_regions[u]}}}

\* A mutant: a small access clears a region of which it downloads only a part.
FlushRegion_Narrow(k, I, flush_id, small) ==
    LET cleared == UNION DirtyRegions(k, I, flush_id, small)
    IN WriteBack(k, I \cap cleared, cleared)

FlushRegion(k, I, flush_id, small) == FlushRegions(k, DirtyRegions(k, I, flush_id, small))

FlushAll(k) == FlushRegion(k, Units, None, FALSE)

\* UpdatePagesCachedCount marks a page with its first surface and unmarks it with its last.
RegisterSurface(k, id) ==
    LET P == PagesOf(id.units)
    IN [k EXCEPT !.page_table = [p \in Pages |-> IF p \in P THEN @[p] \union {id} ELSE @[p]],
                 !.cached_pages = [p \in Pages |-> IF p \in P THEN @[p] + 1 ELSE @[p]],
                 !.marked = @ \union {p \in P : k.cached_pages[p] = 0}]

UnregisterSurface(k, id) ==
    LET P == PagesOf(id.units)
    IN [k EXCEPT !.page_table = [p \in Pages |-> @[p] \ {id}],
                 !.cached_pages = [p \in Pages |-> IF p \in P THEN @[p] - 1 ELSE @[p]],
                 !.marked = @ \ {p \in P : k.cached_pages[p] = 1},
                 !.slot_surfaces = Restrict(@, DOMAIN @ \ {id})]

UnregisterSurfaces(k, ids) == FoldLeft(UnregisterSurface, k, SetToSeq(ids))

\* InvalidateRegion by the surface that now holds the region (None: by memory).  Other
\* surfaces lose it; one that has nothing valid left is removed, as is every surface that
\* a small access of the CPU touches, after it is flushed.
GiveTo(k, I, owner, removed) ==
    UnregisterSurfaces(
        [k EXCEPT !.dirty_regions = [u \in Units |-> IF u \in I THEN owner ELSE @[u]]], removed)
FlushEach(k, ids) == FoldLeft(LAMBDA j, id : FlushRegion(j, id.units, id, FALSE), k, SetToSeq(ids))
InvalidateOthers(k, I, owner, small, others) ==
    LET k2 == [k EXCEPT !.slot_surfaces = [id \in DOMAIN @ |->
                  IF id = owner THEN [@[id] EXCEPT !.valid = @ \union I]
                  ELSE IF id \in others THEN [@[id] EXCEPT !.valid = @ \ I, !.current = @ \ I]
                  ELSE @[id]]]
    IN IF owner = None /\ small THEN GiveTo(FlushEach(k, others), I, owner, others)
       ELSE GiveTo(k2, I, owner, {id \in others : Surface(k2, id).valid = {}})
InvalidateRegion(k, I, owner, small) ==
    InvalidateOthers(k, I, owner, small, Visited(k, I) \ {owner})

\* New data for a region, in the given surface or in memory: every other copy is old.
\* Where the writer did not see current data it has not got the new data either.
Write(k, I, owner, seen) ==
    [k EXCEPT !.memory = IF owner = None THEN (@ \ I) \union (I \cap seen) ELSE @ \ I,
              !.slot_surfaces = [id \in DOMAIN @ |->
                  [@[id] EXCEPT !.current =
                      IF id = owner THEN (@ \ I) \union (I \cap seen) ELSE @ \ I]]]
-----------------------------------------------------------------------------
(* Looking for surfaces *)

\* CreateSurface: nothing is valid yet.
CreateSurface(k, id) == [k EXCEPT !.slot_surfaces = (id :> [valid |-> {}, current |-> {}]) @@ @]
SlotOf(v) == Slot(v.units, v.format, v.scale, FALSE, 0)

\* A new surface and its slot.
CreateRegistered(k, v) ==
    [k |-> RegisterSurface(CreateSurface(k, SlotOf(v)), SlotOf(v)), id |-> SlotOf(v)]

\* The surface to copy an interval from, of the same format or a fill.
FindCopy(k, s, I) ==
    LET matches == {id \in Visited(k, I) : /\ Copyable(k, id, I) # {}
                                           /\ id.format = s.format \/ id.fits}
    IN FindMatch(matches, matches, CopyLength(k, matches, I))

FindReinterpret(k, s, I) ==
    LET matches == {id \in Visited(k, I) : /\ <<id.format, s.format>> \in Reinterpretable
                                           /\ I \subseteq id.units /\ Copyable(k, id, I) # {}}
    IN FindMatch(matches, ValidIn(k, matches, I), CopyLength(k, matches, I))

\* Without a surface to reinterpret, what only the GPU wrote is left as it is, unless it
\* was a fill.
SkipsValidation(k, I) ==
    /\ \A id \in Visited(k, I) : ~IsFill(id)
    /\ \A u \in I : k.dirty_regions[u] # None

\* One round of ValidateSurface, for the first interval I that is not valid: it is copied
\* from a surface, reinterpreted, left as it is, or loaded from memory.
LoadSurface(k, id, I) == MarkValid(k, id, I, k.memory)
ValidateFrom(k, id, I, copy, other) ==
    CASE copy # None -> MarkValid(k, id, Copyable(k, copy, I), Surface(k, copy).current)
      [] copy = None /\ other # None /\ <<other.format, id.format>> \in Convertible ->
             MarkValid(k, id, I, Surface(k, other).current \cap Copyable(k, other, I))
      [] copy = None /\ other = None /\ SkipsValidation(k, I) -> MarkValid(k, id, I, {})
      [] OTHER -> LoadSurface(FlushRegion(k, I, None, FALSE), id, I)
Validated(k, id, I) == ValidateFrom(k, id, I, FindCopy(k, id, I), FindReinterpret(k, id, I))

RECURSIVE ValidateSurface(_, _, _)
ValidateSurface(k, id, I) ==
    LET invalid == I \ Surface(k, id).valid
    IN IF invalid = {} \/ IsFill(id) THEN k
       ELSE ValidateSurface(Validated(k, id, FirstRun(invalid)), id, I)

\* What a lookup returns, the cache and the surface, with the view valid if it is asked to.
Loaded(g, I, load) == IF load THEN [g EXCEPT !.k = ValidateSurface(g.k, g.id, I)] ELSE g

\* GetSurface: an exact match or a new surface, of the scale of one it could expand.
Create(k, v, match, expandable) ==
    CreateRegistered(k, IF match # "Exact" /\ expandable # None
                        THEN [v EXCEPT !.scale = Max({@, expandable.scale})] ELSE v)
GetExact(k, v, match, exact) ==
    IF exact # None THEN [k |-> k, id |-> exact]
    ELSE Create(k, v, match, FindExpand(k, v, match))
GetSurface(k, v, match, load) == Loaded(GetExact(k, v, match, FindExact(k, v, match)), v.units, load)

DuplicateSurface(k, src, dst) ==
    [k EXCEPT !.slot_surfaces[dst].valid = Surface(k, src).valid,
              !.slot_surfaces[dst].current = Surface(k, src).current,
              !.dirty_regions = [u \in Units |-> IF @[u] = src THEN dst ELSE @[u]]]

\* The surface that overlaps the view is replaced by a larger one.
Expand(k, v, old) ==
    LET both == v.units \union old.units
        id == SlotOf([old EXCEPT !.units = Min(both)..Max(both)])
        k1 == DuplicateSurface(CreateSurface(k, id), old, id)
    IN [k |-> RegisterSurface(UnregisterSurface(k1, old), id), id |-> id]

\* GetSurfaceSubRect: a surface that contains the view, a new one like it if only its
\* scale is wrong, an expanded one, or a new one.
GetFitting(k, v, match, fitting, unscaled, expandable) ==
    CASE fitting # None -> [k |-> k, id |-> fitting]
      [] fitting = None /\ unscaled # None ->
             CreateRegistered(k, [v EXCEPT !.units = unscaled.units])
      [] fitting = None /\ unscaled = None /\ expandable # None -> Expand(k, v, expandable)
      [] OTHER -> GetExact(k, v, match, FindExact(k, v, match))
GetSurfaceSubRect(k, v, match, load) ==
    Loaded(GetFitting(k, v, match, FindSubRect(k, v, match), FindSubRect(k, v, "Ignore"),
                      FindExpand(k, v, match)),
           v.units, load)
-----------------------------------------------------------------------------
(* Steps: of the GPU *)

Views(scale) == UNION {{[units |-> I, format |-> a.format, scale |-> scale] :
                            I \in Intervals(a.units)} : a \in Areas}
Targets == Views(Scale)
Textures == Views(1)

\* The views that programs transfer between.
Transfers ==
    UNION {{<<v, w>> \in Textures \X Textures :
               /\ v.units \subseteq p[1].units /\ v.format = p[1].format
               /\ w.units \subseteq p[2].units /\ w.format = p[2].format
               /\ Cardinality(v.units) = Cardinality(w.units) /\ v.units \cap w.units = {}} :
           p \in Pairs}

\* The end of a step, within the bound.
Becomes(k) == Cardinality(DOMAIN k.slot_surfaces) <= MaxSurfaces /\ c' = k /\ UNCHANGED found

\* A draw to a framebuffer, within the viewport: GetFramebufferSurfaces loads the viewport,
\* and what was drawn is invalidated elsewhere.
DrawOver(k, I, id) ==
    InvalidateRegion(Write(k, I, id, Surface(k, id).current), I, id, FALSE)
DrawTo(g, part) == Becomes(DrawOver(ValidateSurface(g.k, g.id, part), part, g.id))
Draw(v, part) == DrawTo(GetSurfaceSubRect(c, v, "Exact", FALSE), part)

\* A texture is read, or a screen shown.
GetTextureSurface(v) == Becomes(GetSurface(c, v, "Ignore", TRUE).k)
AccelerateDisplay(v) == Becomes(GetSurfaceSubRect(c, v, "Ignore", TRUE).k)

AccelerateFill(I, fits) ==
    LET id == CHOOSE id \in {Slot(I, FillFormat, FillScale, fits, n) : n \in 0..1} :
                  id \notin DOMAIN c.slot_surfaces
        k == RegisterSurface(MarkValid(CreateSurface(c, id), id, I, {}), id)
    IN Becomes(InvalidateRegion(Write(k, I, id, I), I, id, FALSE))

\* The copy from a surface to another; it is as current as what it copies and copies over.
Copied(k, src, I, dst, J, seen) ==
    InvalidateRegion(Write(k, J, dst, IF I \subseteq Surface(k, src).current THEN seen ELSE {}),
                     J, dst, FALSE)

\* Both surfaces are used after both lookups.
Copy(src, I, dst, J, gap) ==
    IF src \in DOMAIN dst.k.slot_surfaces
    THEN Becomes(Copied(dst.k, src, I, dst.id, J, IF gap THEN Surface(dst.k, dst.id).current ELSE J))
    ELSE found' = FALSE /\ UNCHANGED c

\* AccelerateDisplayTransfer looks both surfaces up, the source first.
TransferFrom(src, v, w) ==
    Copy(src.id, v.units,
         GetSurfaceSubRect(src.k, [w EXCEPT !.scale = src.id.scale], "Upscale", FALSE),
         w.units, FALSE)
AccelerateDisplayTransfer(v, w) == TransferFrom(GetSurfaceSubRect(c, v, "Ignore", TRUE), v, w)

\* The transfer in software: through memory.  With a gap in the output, memory is written
\* in parts.
WriteOver(k, J, copied, gap) ==
    Becomes(Write(k, J, None, IF ~copied THEN {} ELSE IF gap THEN k.memory ELSE J))
TransferFlushed(k, I, J, gap) ==
    WriteOver(InvalidateRegion(IF gap THEN FlushRegion(k, J, None, FALSE) ELSE k, J, None, FALSE),
              J, I \subseteq k.memory, gap)
TransferInMemory(I, J, gap) == TransferFlushed(FlushRegion(c, I, None, FALSE), I, J, gap)

\* A texture copy uses a surface, of any format, only if there is one that contains the
\* source; the destination is then of its format, and loaded if it has gaps.
CopyFrom(id, I, J, gap) ==
    IF id = None THEN TransferInMemory(I, J, gap)
    ELSE Copy(id, I, GetSurfaceSubRect(ValidateSurface(c, id, I), [id EXCEPT !.units = J],
                                       "Upscale", gap), J, gap)
TextureCopy(I, J, gap) ==
    LET matches == {id \in Visited(c, I) : ~IsFill(id) /\ I \subseteq id.units}
    IN CopyFrom(FindMatch(matches, ValidIn(c, matches, I),
                          [id \in matches |-> Cardinality(id.units)]),
                I, J, gap)
-----------------------------------------------------------------------------
(* Steps: of the CPU and of services, and of the cache itself *)

\* Only pages marked as cached tell the cache.
CpuRead(u) ==
    /\ u \div PageSize \in c.marked
    /\ Becomes(FlushRegion(c, {u}, None, TRUE))

\* The CPU writes a part of a unit.
CpuWrite(u) ==
    LET k == IF u \div PageSize \in c.marked THEN InvalidateRegion(c, {u}, None, TRUE) ELSE c
    IN Becomes(Write(k, {u}, None, k.memory))

\* Blocks within a page.
ReadBlock(I) ==
    /\ PagesOf(I) \subseteq c.marked
    /\ Becomes(FlushRegion(c, I, None, FALSE))

WriteBlock(I) ==
    LET k == IF PagesOf(I) \subseteq c.marked THEN InvalidateRegion(c, I, None, FALSE) ELSE c
    IN Becomes(Write(k, I, None, I))

\* A state is saved (flushed first) or loaded: then all of memory is new.
ClearAll(flush) ==
    LET k == IF flush THEN FlushAll(c) ELSE c
        cleared == [k EXCEPT !.slot_surfaces = << >>, !.page_table = [p \in Pages |-> {}],
                             !.dirty_regions = [u \in Units |-> None],
                             !.cached_pages = [p \in Pages |-> 0],
                             !.marked = @ \ {p \in Pages : k.cached_pages[p] # 0}]
    IN Becomes(IF flush THEN cleared ELSE [cleared EXCEPT !.memory = Units])

\* TickFrame after a change of the settings.
UnregisterAll ==
    LET k == FlushAll(c) IN Becomes(UnregisterSurfaces(k, DOMAIN k.slot_surfaces))

Next ==
    /\ found
    /\ \/ \E v \in Targets : \E part \in Intervals(v.units) : Draw(v, part)
       \/ \E v \in Textures : GetTextureSurface(v) \/ AccelerateDisplay(v)
       \/ Fills /\ \E I \in Intervals(Units), fits \in BOOLEAN : AccelerateFill(I, fits)
       \/ \E t \in Transfers :
              \/ AccelerateDisplayTransfer(t[1], t[2])
              \/ t[1].format = t[2].format
                 /\ \E gap \in BOOLEAN : TextureCopy(t[1].units, t[2].units, gap)
       \/ \E u \in Units : CpuRead(u) \/ CpuWrite(u)
       \/ \E p \in Pages : \E I \in Intervals({u \in Units : u \div PageSize = p}) :
              ReadBlock(I) \/ WriteBlock(I)
       \/ \E flush \in BOOLEAN : ClearAll(flush)
       \/ UnregisterAll

Spec == Init /\ [][Next]_vars
-----------------------------------------------------------------------------
Registered(id) == \A p \in PagesOf(id.units) : id \in c.page_table[p]

\* A dirty unit belongs to a surface that is registered and valid there: what FlushRegion
\* asserts before it downloads.
DirtyOwned ==
    \A u \in Units : c.dirty_regions[u] # None =>
        /\ c.dirty_regions[u] \in DOMAIN c.slot_surfaces /\ Registered(c.dirty_regions[u])
        /\ u \in Surface(c, c.dirty_regions[u]).valid

\* A page is marked as cached exactly while some surface touches it, so that the CPU's
\* accesses to surfaces, and only those, go through the cache.
PagesMarked ==
    \A p \in Pages : p \in c.marked <=>
        \E id \in DOMAIN c.slot_surfaces : p \in PagesOf(id.units)

\* What a surface calls valid is current: the GPU never works on old data.
SurfacesCurrent ==
    \A id \in DOMAIN c.slot_surfaces : Surface(c, id).valid \subseteq Surface(c, id).current

\* Where no surface is dirty, memory is current: what FlushRegion wrote back and what the
\* CPU may read.
MemoryCurrent == \A u \in Units : c.dirty_regions[u] = None => u \in c.memory

\* A surface looked up is in its slot when it is used.
StoredSurface == found
=============================================================================
