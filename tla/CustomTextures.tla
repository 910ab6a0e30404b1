--------------------------- MODULE CustomTextures ---------------------------
(***************************************************************************)
(* Replacement textures (video_core/custom_textures): the emulation thread *)
(* finds that a surface has a replacement, has a worker of the pool decode *)
(* the files of its material, and uploads it in the first frame in which   *)
(* the material is decoded.  Surfaces come and go meanwhile (the surface   *)
(* cache's CreateSurface and UnregisterSurface, in slots that are reused), *)
(* and a file may belong to several materials.  After a preload everything *)
(* is decoded in place.                                                    *)
(***************************************************************************)
EXTENDS Integers, SequencesExt

CONSTANTS
    Materials, Textures,
    Maps,           \* of each material, the sequence of its textures
    Unreadable,     \* the textures whose file cannot be read or decoded
    Mismatched,     \* the materials whose maps differ in size or format
    Slots,          \* the surface cache's slots
    NumWorkers,
    AsyncLoading,   \* the values of the async_custom_loading setting considered
    Preload,        \* whether textures may be preloaded
    MaxUploadsPerTick,
    MaxQueued       \* a bound on the uploads waiting at a time

MapsAssumption == \A m \in Materials : Maps[m] \in Seq(Textures)

Workers == 1 .. NumWorkers
Idle == [material |-> "none", at |-> 0, step |-> "idle"]

VARIABLES
    async_custom_loading,
    texture,        \* empty; filling: data is there, but not all of it; whole
    state,          \* of every material
    jobs, worker,   \* the materials queued for the pool; where each worker stands
    async_uploads,
    frame,          \* the loop of TickFrame: the next upload, and how many were done
    stored, custom, \* the slots that hold a surface; those with the Custom flag
    shown,          \* the replacement uploaded to each surface
    stray           \* an upload has gone to a slot that holds no surface

decoding == <<texture, state, jobs, worker>>
surfaces == <<stored, custom, shown, stray>>
vars == <<async_custom_loading, decoding, async_uploads, frame, surfaces>>

NoFrame == [next |-> 0, num_uploads |-> 0]

Init ==
    /\ async_custom_loading \in AsyncLoading
    /\ texture = [t \in Textures |-> "empty"] /\ state = [m \in Materials |-> "None"]
    /\ jobs = << >> /\ worker = [w \in Workers |-> Idle]
    /\ async_uploads = << >> /\ frame = NoFrame
    /\ stored = {} /\ custom = {} /\ shown = [s \in Slots |-> "none"] /\ stray = FALSE

\* CustomTexture::IsLoaded looks only at whether there is data.
IsLoaded(t) == texture[t] # "empty"

Loaded(m) == \A i \in DOMAIN Maps[m] : texture[Maps[m][i]] = "whole"

\* What the comparison of the other maps with the colour map may come to: sizes and
\* formats that have not been read yet have arbitrary values.
Outcomes(m) ==
    IF m \in Mismatched THEN {"Failed"}
    ELSE IF Loaded(m) \/ Len(Maps[m]) = 1 THEN {"Decoded"} ELSE {"Decoded", "Failed"}
-----------------------------------------------------------------------------
(* Material::LoadFromDisk and CustomTexture::LoadFromDisk in a worker *)

Advance(w) == worker' = [worker EXCEPT ![w].at = @ + 1, ![w].step = "scan"]
Texture(w) == Maps[worker[w].material][worker[w].at]


Take(w) ==
    /\ worker[w] = Idle /\ jobs # << >> /\ jobs' = Tail(jobs)
    /\ worker' = [worker EXCEPT ![w] =
           IF state[Head(jobs)] = "Decoded" THEN Idle
           ELSE [material |-> Head(jobs), at |-> 1, step |-> "scan"]]
    /\ UNCHANGED <<async_custom_loading, texture, state, async_uploads, frame, surfaces>>

\* The first look at the texture is without its lock.
Scan(w) ==
    /\ worker[w].step = "scan" /\ worker[w].at <= Len(Maps[worker[w].material])
    /\ IF IsLoaded(Texture(w)) THEN Advance(w)
                               ELSE worker' = [worker EXCEPT ![w].step = "lock"]
    /\ UNCHANGED <<async_custom_loading, texture, state, jobs, async_uploads, frame, surfaces>>

LockTexture(w) ==
    /\ worker[w].step = "lock"
    /\ \A v \in Workers : worker[v].step = "fill" => Texture(v) # Texture(w)
    /\ IF IsLoaded(Texture(w)) \/ Texture(w) \in Unreadable
       THEN Advance(w) /\ UNCHANGED texture
       ELSE /\ worker' = [worker EXCEPT ![w].step = "fill"]
            /\ texture' = [texture EXCEPT ![Texture(w)] = "filling"]
    /\ UNCHANGED <<async_custom_loading, state, jobs, async_uploads, frame, surfaces>>

FillTexture(w) ==
    /\ worker[w].step = "fill" /\ Advance(w)
    /\ texture' = [texture EXCEPT ![Texture(w)] = "whole"]
    /\ UNCHANGED <<async_custom_loading, state, jobs, async_uploads, frame, surfaces>>

Settle(w) ==
    LET m == worker[w].material IN
    /\ worker[w].step = "scan" /\ worker[w].at > Len(Maps[m])
    /\ \E outcome \in Outcomes(m) : state' = [state EXCEPT ![m] = outcome]
    /\ worker' = [worker EXCEPT ![w] = Idle]
    /\ UNCHANGED <<async_custom_loading, texture, jobs, async_uploads, frame, surfaces>>
-----------------------------------------------------------------------------
(* The emulation thread *)

\* Readable textures and their materials, loaded by one thread while no other runs.
LoadAll(ms) ==
    LET read == UNION {ToSet(Maps[m]) : m \in ms} \ Unreadable IN
    /\ texture' = [t \in Textures |-> IF t \in read THEN "whole" ELSE texture[t]]
    /\ state' \in [Materials -> {"None", "Pending", "Decoded", "Failed"}]
    /\ \A m \in Materials :
           IF m \notin ms \/ state[m] = "Decoded" THEN state'[m] = state[m]
                                                ELSE state'[m] \in Outcomes(m)'

\* At start; the preload may end early, when memory runs out.  Its caller waits.
PreloadTextures ==
    /\ Preload /\ stored = {} /\ jobs = << >> /\ async_uploads = << >>
    /\ \A w \in Workers : worker[w] = Idle
    /\ async_custom_loading' = FALSE
    /\ \E ms \in SUBSET Materials : LoadAll(ms)
    /\ UNCHANGED <<jobs, worker, async_uploads, frame, surfaces>>

CreateSurface(s) ==
    /\ frame = NoFrame /\ s \notin stored
    /\ stored' = stored \union {s} /\ custom' = custom \ {s}
    /\ shown' = [shown EXCEPT ![s] = "none"]
    /\ UNCHANGED <<async_custom_loading, decoding, async_uploads, frame, stray>>

UnregisterSurface(s) ==
    /\ frame = NoFrame /\ s \in stored /\ stored' = stored \ {s}
    /\ UNCHANGED <<async_custom_loading, decoding, async_uploads, frame, custom, shown, stray>>

\* The upload that UploadCustomSurface passes on: only the flag of what the slot
\* holds is looked at.
Upload(s, content) ==
    /\ shown' = IF s \in stored /\ s \in custom' THEN [shown EXCEPT ![s] = content] ELSE shown
    /\ stray' = (stray \/ s \notin stored)
    /\ UNCHANGED stored

Content(m, whole) == IF whole THEN m ELSE "incomplete"

\* UploadCustomSurface and Decode.
DecodeLater(s, m) ==
    /\ frame = NoFrame /\ s \in stored /\ async_custom_loading
    /\ Len(async_uploads) < MaxQueued
    /\ custom' = custom \union {s}
    /\ IF state[m] = "None"
       THEN state' = [state EXCEPT ![m] = "Pending"] /\ jobs' = Append(jobs, m)
       ELSE UNCHANGED <<state, jobs>>
    /\ async_uploads' = Append(async_uploads, [surface |-> s, material |-> m])
    /\ UNCHANGED <<async_custom_loading, texture, worker, frame, stored, shown, stray>>

DecodeNow(s, m) ==
    /\ frame = NoFrame /\ s \in stored /\ ~async_custom_loading
    /\ custom' = custom \union {s}
    /\ LoadAll({m})
    /\ Upload(s, Content(m, state'[m] = "Decoded" /\ Loaded(m)'))
    /\ UNCHANGED <<async_custom_loading, jobs, worker, async_uploads, frame>>

TickFrame ==
    /\ frame = NoFrame /\ async_uploads # << >>
    /\ frame' = [next |-> 1, num_uploads |-> 0]
    /\ UNCHANGED <<async_custom_loading, decoding, async_uploads, surfaces>>

\* One turn of its loop; workers may settle a material between two.
TickUpload ==
    LET u == async_uploads[frame.next] IN
    /\ frame # NoFrame
    /\ frame.next <= Len(async_uploads) /\ frame.num_uploads < MaxUploadsPerTick
    /\ CASE state[u.material] = "Decoded" ->
                /\ UNCHANGED custom
                /\ Upload(u.surface, Content(u.material, Loaded(u.material)))
                /\ async_uploads' = RemoveAt(async_uploads, frame.next)
                /\ frame' = [frame EXCEPT !.num_uploads = @ + 1]
         [] state[u.material] = "Failed" ->
                /\ async_uploads' = RemoveAt(async_uploads, frame.next)
                /\ UNCHANGED <<frame, surfaces>>
         [] OTHER ->
                /\ frame' = [frame EXCEPT !.next = @ + 1]
                /\ UNCHANGED <<async_uploads, surfaces>>
    /\ UNCHANGED <<async_custom_loading, decoding>>

TickEnd ==
    /\ frame # NoFrame
    /\ frame.next > Len(async_uploads) \/ frame.num_uploads >= MaxUploadsPerTick
    /\ frame' = NoFrame
    /\ UNCHANGED <<async_custom_loading, decoding, async_uploads, surfaces>>
-----------------------------------------------------------------------------
Load(w) == Take(w) \/ Scan(w) \/ LockTexture(w) \/ FillTexture(w) \/ Settle(w)
Tick == TickFrame \/ TickUpload \/ TickEnd

Next ==
    \/ \E w \in Workers : Load(w)
    \/ Tick \/ PreloadTextures
    \/ \E s \in Slots : CreateSurface(s) \/ UnregisterSurface(s)
    \/ \E s \in Slots, m \in Materials : DecodeLater(s, m) \/ DecodeNow(s, m)

\* Workers run, and frames keep coming.
Spec ==
    /\ Init /\ [][Next]_vars
    /\ \A w \in Workers : WF_vars(Load(w))
    /\ SF_vars(TickFrame) /\ WF_vars(TickUpload \/ TickEnd)

\* Only a material that was decoded, every texture of it completely, is uploaded.
UploadedWhole == \A s \in Slots : shown[s] # "incomplete"

\* An upload that waits for its material goes to a surface the cache still holds.
StoredSlot == ~stray

\* Unless uploads keep being added, all of them leave the queue: materials are
\* settled, decoded or failed, and the limit per frame keeps none back for ever.
UploadsEnd ==
    <>[][Len(async_uploads') <= Len(async_uploads)]_vars => []<>(async_uploads = << >>)
=============================================================================
