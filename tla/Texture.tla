------------------------------- MODULE Texture -------------------------------
(***************************************************************************)
(* The pictures of the selected items: texture_state, with the load, the   *)
(* raw and the render threads and the UI thread, which is the only one to  *)
(* touch a texture.                                                        *)
(*                                                                         *)
(* A raw photo is first loaded as the preview in the file; if previews are *)
(* not wanted its full rendering follows on another thread.  A preview is  *)
(* large and made a surface on a third thread, a full rendering is one.    *)
(* What is in a file is the number of times it was written; its date is    *)
(* what the writer gave it, the time or an earlier one, as when a copy of  *)
(* an older photo takes its place.                                         *)
(***************************************************************************)
EXTENDS Naturals, Sequences

CONSTANTS
    Photo,          \* the raw photos that are shown, each by its texture
    MaxEvents,      \* bound: how often a file is written, a thumbnail loaded or the user asks
                    \* for something
    MaxTime         \* bound on the time

ASSUME TextureAssumption == MaxEvents \in Nat /\ MaxTime \in Nat \ {0}

VARIABLES
    clock,      \* the time; platform::now
    version, date,      \* what is in the file, and its modification date
    modified, thumbed,  \* item_element::file_modified, as last listed, and
                        \* thumbnail_timestamp, 0 for null
    timestamp,  \* _photo_timestamp, 0 for null
    since,      \* a history: when the last load was posted
    loaded,     \* _loaded
    invalid,    \* _tex_invalid, or another scale
    staged,     \* _staged_surface
    tex,        \* _tex
    rawPreview, \* setting.raw_preview
    loads, loading,     \* the load queue, and what its thread has read
    raws, rawing,       \* the raw queue and its thread
    renders,    \* the render queue
    posted,     \* the UI queue
    failed,     \* photos that could not be read or rendered
    dropped,    \* photos whose rendering was thrown away for another photo's
    overtaken,  \* photos that were given an older result after a newer one
    missed,     \* photos whose file was last written with a date that is not after since
    kept,       \* photos whose preview came when previews were wanted, and whose rendering
                \* was not asked for since
    events      \* what MaxEvents bounds

threads == <<loads, loading, raws, rawing, renders, posted>>
faults == <<failed, dropped, overtaken, missed>>
file == <<clock, version, date, modified, thumbed>>
stamps == <<timestamp, since>>
textureVars == <<file, stamps, loaded, invalid, staged, tex, rawPreview, threads, faults, kept, events>>

MaxVersion == MaxEvents + 1
Time == 1..MaxTime

Picture == [v : 0..MaxVersion, full : BOOLEAN]
Thumbnail == [v |-> 0, full |-> FALSE]
Task == [photo : Photo, pic : Picture]

TextureTypeOK ==
    /\ clock \in Time /\ version \in [Photo -> 1..MaxVersion]
    /\ date \in [Photo -> 1..clock] /\ modified \in [Photo -> 1..clock]
    /\ thumbed \in [Photo -> 0..clock] /\ timestamp \in [Photo -> 0..clock]
    /\ since \in [Photo -> 0..clock]
    /\ loaded \in [Photo -> Picture] /\ tex \in [Photo -> Picture]
    /\ invalid \in [Photo -> BOOLEAN]
    /\ \A p \in Photo : staged[p] \subseteq Picture
    /\ rawPreview \in BOOLEAN
    /\ loads \in Seq(Photo) /\ raws \in Seq(Photo) /\ Len(raws) <= 1
    /\ loading \subseteq Task /\ rawing \subseteq Task
    /\ renders \in Seq(Task)
    /\ \A i \in 1..Len(posted) : posted[i].task \in Task
    /\ failed \subseteq Photo /\ dropped \subseteq Photo /\ overtaken \subseteq Photo
    /\ missed \subseteq Photo /\ kept \subseteq Photo

TextureInit ==
    /\ clock = 1 /\ version = [p \in Photo |-> 1] /\ date = version /\ modified = date
    /\ timestamp = [p \in Photo |-> 0] /\ thumbed = timestamp /\ since = timestamp
    /\ loaded = [p \in Photo |-> Thumbnail] /\ tex = loaded
    /\ invalid = [p \in Photo |-> FALSE]
    /\ staged = [p \in Photo |-> {}]
    /\ rawPreview \in BOOLEAN
    /\ loads = <<>> /\ loading = {} /\ raws = <<>> /\ rawing = {}
    /\ renders = <<>> /\ posted = <<>>
    /\ failed = {} /\ dropped = {} /\ overtaken = {} /\ missed = {} /\ kept = {}
    /\ events = 0

Post(kind, p, pic) == posted' = Append(posted, [kind |-> kind, task |-> [photo |-> p, pic |-> pic]])

-----------------------------------------------------------------------------
(* Slips of the kind these steps invite, no part of Spec. *)

\* a photo is loaded again for a new thumbnail only
ThumbnailIsNewer(p) == timestamp[p] = 0 \/ timestamp[p] < thumbed[p]

\* two renderings may wait
RawsFor(p) == Append(raws, p)

-----------------------------------------------------------------------------
(* The UI thread *)

\* a photo that was never loaded has no time, and is older than any file
OutOfDate(p) == timestamp[p] < modified[p] \/ timestamp[p] < thumbed[p]

\* texture_state::refresh with load_image, at every tick
RefreshTexture(p) ==
    /\ OutOfDate(p)
    /\ timestamp' = [timestamp EXCEPT ![p] = clock]
    /\ since' = [since EXCEPT ![p] = clock]
    /\ loads' = Append(loads, p)
    /\ failed' = failed \ {p}
    /\ overtaken' = overtaken \ {p}
    /\ missed' = missed \ {p}
    /\ UNCHANGED <<file, loaded, invalid, staged, tex, rawPreview, loading, raws, rawing, renders, posted, dropped,
                   kept, events>>

\* The raw queue is async_queue::load_raw, whose tasks replace those that wait.
ResetAndEnqueue(p) == <<p>>

LoadRaw(p) ==
    /\ raws' = ResetAndEnqueue(p)
    /\ dropped' = (dropped \cup {raws[i] : i \in 1..Len(raws)}) \ {p}
    /\ kept' = kept \ {p}

\* texture_state::update(file_load_result)
Updated(p, pic) == loaded' = [loaded EXCEPT ![p] = pic] /\ invalid' = [invalid EXCEPT ![p] = TRUE]

TakeLoaded ==
    /\ posted # <<>> /\ Head(posted).kind = "loaded"
    /\ LET p == Head(posted).task.photo
           pic == Head(posted).task.pic
       IN  /\ Updated(p, pic)
           /\ \/ ~pic.full /\ ~rawPreview /\ LoadRaw(p)
              \/ /\ pic.full \/ rawPreview
                 /\ kept' = IF pic.full THEN kept \ {p} ELSE kept \cup {p}
                 /\ UNCHANGED <<raws, dropped>>
           /\ overtaken' = IF pic.v < loaded[p].v THEN overtaken \cup {p} ELSE overtaken
    /\ posted' = Tail(posted)
    /\ UNCHANGED <<file, stamps, staged, tex, rawPreview, loads, loading, rawing, renders, failed, missed,
                   events>>

\* the surface of a rendering, whatever was loaded since
TakeSurface ==
    /\ posted # <<>> /\ Head(posted).kind = "surface"
    /\ LET p == Head(posted).task.photo
           pic == Head(posted).task.pic
       IN  /\ staged' = [staged EXCEPT ![p] = {pic}]
           /\ overtaken' = IF pic # loaded[p] THEN overtaken \cup {p} ELSE overtaken
    /\ posted' = Tail(posted)
    /\ UNCHANGED <<file, stamps, loaded, invalid, tex, rawPreview, loads, loading, raws, rawing, renders,
                   failed, dropped, missed, kept, events>>

\* texture_state::draw: a picture that is a surface is staged at once, a large one
\* rendered by a thread; what is staged becomes the texture
Draw(p) ==
    /\ invalid[p] \/ staged[p] # {}
    /\ LET now == IF invalid[p] /\ loaded[p].full THEN {loaded[p]} ELSE staged[p]
       IN  tex' = IF now = {} THEN tex ELSE [tex EXCEPT ![p] = CHOOSE pic \in now : TRUE]
    /\ staged' = [staged EXCEPT ![p] = {}]
    /\ renders' = IF invalid[p] /\ ~loaded[p].full THEN Append(renders, [photo |-> p, pic |-> loaded[p]]) ELSE renders
    /\ invalid' = [invalid EXCEPT ![p] = FALSE]
    /\ UNCHANGED <<file, stamps, loaded, rawPreview, loads, loading, raws, rawing, posted, faults, kept, events>>

Ask == events < MaxEvents /\ events' = events + 1

\* "Always show RAW photos" and "Show this RAW photo" of the menu; the other photos that
\* are shown stay as they are
ShowRaw(p) ==
    /\ Ask
    /\ rawPreview' \in {rawPreview, FALSE}
    /\ LoadRaw(p)
    /\ UNCHANGED <<file, stamps, loaded, invalid, staged, tex, loads, loading, rawing, renders, posted, failed,
                   overtaken, missed>>

\* "Always show preview", and the command that changes it; nothing is loaded
SetPreview ==
    /\ Ask
    /\ rawPreview' = ~rawPreview
    /\ UNCHANGED <<file, stamps, loaded, invalid, staged, tex, threads, faults, kept>>

-----------------------------------------------------------------------------
(* The threads *)

LoadReads ==
    /\ loading = {} /\ loads # <<>>
    /\ loading' = {[photo |-> Head(loads), pic |-> [v |-> version[Head(loads)], full |-> FALSE]]}
    /\ loads' = Tail(loads)
    /\ UNCHANGED <<file, stamps, loaded, invalid, staged, tex, rawPreview, raws, rawing, renders, posted,
                   faults, kept, events>>

LoadEnds ==
    /\ \E t \in loading :
           \/ Post("loaded", t.photo, t.pic) /\ UNCHANGED failed
           \/ failed' = failed \cup {t.photo} /\ UNCHANGED posted
    /\ loading' = {}
    /\ UNCHANGED <<file, stamps, loaded, invalid, staged, tex, rawPreview, loads, raws, rawing, renders,
                   dropped, overtaken, missed, kept, events>>

RawReads ==
    /\ rawing = {} /\ raws # <<>>
    /\ rawing' = {[photo |-> Head(raws), pic |-> [v |-> version[Head(raws)], full |-> TRUE]]}
    /\ raws' = Tail(raws)
    /\ UNCHANGED <<file, stamps, loaded, invalid, staged, tex, rawPreview, loads, loading, renders, posted,
                   faults, kept, events>>

RawEnds ==
    /\ \E t \in rawing :
           \/ Post("loaded", t.photo, t.pic) /\ UNCHANGED failed
           \/ failed' = failed \cup {t.photo} /\ UNCHANGED posted
    /\ rawing' = {}
    /\ UNCHANGED <<file, stamps, loaded, invalid, staged, tex, rawPreview, loads, loading, raws, renders,
                   dropped, overtaken, missed, kept, events>>

Render ==
    /\ renders # <<>>
    /\ Post("surface", Head(renders).photo, Head(renders).pic)
    /\ renders' = Tail(renders)
    /\ UNCHANGED <<file, stamps, loaded, invalid, staged, tex, rawPreview, loads, loading, raws, rawing,
                   faults, kept, events>>

-----------------------------------------------------------------------------
(* The file is written, and the item told of it. *)

FileWritten(p, d) ==
    /\ Ask
    /\ d \in Time /\ d <= clock + 1
    /\ version' = [version EXCEPT ![p] = @ + 1] /\ date' = [date EXCEPT ![p] = d]
    /\ clock' = IF d > clock THEN d ELSE clock
    /\ missed' = IF d <= since[p] THEN missed \cup {p} ELSE missed \ {p}
    /\ UNCHANGED <<modified, thumbed, stamps, loaded, invalid, staged, tex, rawPreview, threads, failed, dropped,
                   overtaken, kept>>

ItemScanned(p) ==
    /\ modified[p] # date[p]
    /\ modified' = [modified EXCEPT ![p] = date[p]]
    /\ UNCHANGED <<clock, version, date, thumbed, stamps, loaded, invalid, staged, tex, rawPreview, threads, faults,
                   kept, events>>

\* should_load_thumbnail: there is none, or it is older than the file
ThumbnailScanned(p, t) ==
    /\ Ask
    /\ thumbed[p] < modified[p]
    /\ t \in Time /\ t \in {clock, clock + 1}
    /\ thumbed' = [thumbed EXCEPT ![p] = t] /\ clock' = t
    /\ UNCHANGED <<version, date, modified, stamps, loaded, invalid, staged, tex, rawPreview, threads, faults,
                   kept>>

TextureNext ==
    \/ \E p \in Photo : RefreshTexture(p) \/ Draw(p) \/ ShowRaw(p) \/ ItemScanned(p)
    \/ \E p \in Photo, t \in Time : FileWritten(p, t) \/ ThumbnailScanned(p, t)
    \/ SetPreview
    \/ TakeLoaded \/ TakeSurface
    \/ LoadReads \/ LoadEnds \/ RawReads \/ RawEnds \/ Render

TextureSpec == TextureInit /\ [][TextureNext]_textureVars

-----------------------------------------------------------------------------

\* Nothing of a photo is on its way.
Still(p) ==
    /\ modified[p] = date[p] /\ ~OutOfDate(p)
    /\ loads = <<>> /\ loading = {} /\ raws = <<>> /\ rawing = {} /\ renders = <<>> /\ posted = <<>>
    /\ ~invalid[p] /\ staged[p] = {}

\* In the end the photo as it is in the file is on the screen, and its full rendering
\* unless previews were wanted when its preview came, if nothing of it failed, was thrown
\* away for another photo or came after what is newer, and its file was not written with
\* a date that is not after the last load.
PictureIsCurrent ==
    \A p \in Photo :
        (Still(p) /\ p \notin failed \cup dropped \cup overtaken \cup missed) =>
            tex[p] = loaded[p] /\ loaded[p].v = version[p] /\ (loaded[p].full \/ p \in kept)

\* Always show RAW photos: in the end the full rendering is shown, if nothing failed
\* and nothing came late.
RawIsShown ==
    \A p \in Photo : (Still(p) /\ p \notin failed \cup overtaken /\ ~rawPreview) => tex[p].full
=============================================================================
