----------------------------- MODULE FileUpdate -----------------------------
(***************************************************************************)
(* files::update on one photo, as often as the user edits it.              *)
(*                                                                         *)
(* An edit renders new pixels, changes metadata, or saves the photo under  *)
(* another name.  The new file is built next to the photo under a          *)
(* temporary name and then put in the photo's place; only the metadata of  *)
(* a file too big to copy are written in place.  Metadata are in the file  *)
(* itself where its format embeds them and in a sidecar elsewhere.  Every  *)
(* call of the operating system and of the XMP library may fail, and the   *)
(* program may end between any two of them.                                *)
(*                                                                         *)
(* The content of a file is the set of the edits that are in it.           *)
(***************************************************************************)
EXTENDS Naturals

CONSTANT MaxEdits   \* bound on the edits

Edit == Nat \ {0}

\* "copy" is the other name a photo is saved under.
Name == {"photo", "copy", "original", "temp", "sidecar", "copySidecar", "tempSidecar"}

Content == [pixels : SUBSET Edit, meta : SUBSET Edit, whole : BOOLEAN]

Torn == [pixels |-> {}, meta |-> {}, whole |-> FALSE]

\* What an edit asks for; keep asks for a copy of the photo as it was.
Job == [pixels : BOOLEAN, meta : BOOLEAN, copy : BOOLEAN, keep : BOOLEAN]

NoJob == [pixels |-> FALSE, meta |-> FALSE, copy |-> FALSE, keep |-> FALSE]

VARIABLES
    embeds,     \* the photo's format embeds metadata
    big,        \* the photo is over ten megabytes
    disk,       \* the files that there are, and what is in them
    pc,         \* where update is
    job,        \* its arguments
    named,      \* xmp_name is not empty
    temp,       \* temp_file_created
    meta,       \* the metadata it is about to write
    xmpPath,    \* xmp_result.xmp_path, "none" when it is empty
    report,     \* the result of the last update
    edits,      \* the updates so far
    before,     \* the photo before this update
    unread,     \* an update could not read the metadata there were
    saved,      \* pixel edits of updates that said OK
    noted       \* metadata edits that were written by updates that said OK

state == <<job, named, temp, meta, xmpPath>>
history == <<edits, before, unread, saved, noted>>
vars == <<embeds, big, disk, pc, state, report, history>>

Exists(n) == n \in DOMAIN disk

With(d, n, c) == [m \in DOMAIN d \cup {n} |-> IF m = n THEN c ELSE d[m]]

Without(d, ns) == [m \in DOMAIN d \ ns |-> d[m]]

Dst == IF job.copy THEN "copy" ELSE "photo"

\* A photo is rendered only into a format that embeds metadata.
DstEmbeds == embeds \/ job.pixels

InPlace == big /\ ~job.pixels /\ ~job.copy

\* metadata_xmp::probe_xmp_path of the updated file: a sidecar that has a name
\* is the photo's own
TargetSidecar == IF named THEN "sidecar" ELSE IF temp THEN "tempSidecar" ELSE "sidecar"

DstSidecar == IF named \/ ~job.copy THEN "sidecar" ELSE "copySidecar"

TypeOK ==
    /\ embeds \in BOOLEAN /\ big \in BOOLEAN
    /\ DOMAIN disk \subseteq Name
    /\ \A n \in DOMAIN disk : disk[n] \in Content
    /\ pc \in {"idle", "render", "create", "fill", "copy", "read", "put", "close",
               "flush", "replace", "replaceSidecar"}
    /\ job \in Job /\ named \in BOOLEAN /\ temp \in BOOLEAN /\ meta \in SUBSET Edit
    /\ xmpPath \in {"none", "sidecar", "tempSidecar"}
    /\ report \in {"none", "OK", "FAILED"}
    /\ edits \in Nat /\ before \in Content /\ unread \in BOOLEAN
    /\ saved \in SUBSET Edit /\ noted \in SUBSET Edit
    /\ Exists("photo")
    /\ pc = "idle" => ~Exists("temp") /\ ~Exists("tempSidecar")

NewPhoto == [pixels |-> {}, meta |-> {}, whole |-> TRUE]

Init ==
    /\ embeds \in BOOLEAN /\ big \in BOOLEAN
    /\ disk = [n \in {"photo"} |-> NewPhoto]
    /\ pc = "idle"
    /\ job = NoJob /\ named = FALSE /\ temp = FALSE /\ meta = {} /\ xmpPath = "none"
    /\ report = "none"
    /\ edits = 0 /\ before = NewPhoto /\ unread = FALSE /\ saved = {} /\ noted = {}

-----------------------------------------------------------------------------
(* How update ends.  The next one has another temporary name: what is left   *)
(* under this one is litter, which nothing in this module looks at.          *)

Leave(d, result) ==
    /\ pc' = "idle"
    /\ disk' = Without(d, {"temp", "tempSidecar"})
    /\ report' = result

\* The callers believe an OK.
Finish(d, result) ==
    /\ Leave(d, result)
    /\ saved' = IF result = "OK" /\ job.pixels /\ ~job.copy THEN saved \cup {edits} ELSE saved
    /\ noted' = IF result = "OK" /\ edits \in meta /\ ~job.copy THEN noted \cup {edits} ELSE noted
    /\ UNCHANGED <<embeds, big, state, edits, before, unread>>

\* The catch deletes the temporary file; all else stays as it is.
Catch(d) == Finish(IF temp THEN Without(d, {"temp"}) ELSE d, "FAILED")

-----------------------------------------------------------------------------
(* Slips of the kind these steps invite, no part of Spec. *)

\* the size of what blob_save_to_file wrote is not looked at
FillShortPasses ==
    /\ pc = "fill"
    /\ pc' = "read"
    /\ UNCHANGED <<embeds, big, disk, state, report, history>>

\* ReplaceFile is told of the backup whether there is one already or not
BackUpAgain(d) == IF job.keep THEN With(d, "original", d["photo"]) ELSE d

\* the metadata go into the photo and not into its copy
TargetIsPhoto == "photo"

\* the photo is renamed to its backup, and then the replacement fails
ReplaceFailsHalfway ==
    /\ pc = "replace" /\ temp
    /\ Finish(IF job.keep /\ ~Exists("original")
              THEN With(Without(disk, {"photo"}), "original", disk["photo"]) ELSE disk, "FAILED")

\* what is rendered has the pixels alone
FillTempBare ==
    /\ pc = "fill"
    /\ disk' = With(disk, "temp", [pixels |-> disk["photo"].pixels \cup {edits}, meta |-> {},
                                   whole |-> TRUE])
    /\ pc' = "read"
    /\ UNCHANGED <<embeds, big, state, report, history>>

-----------------------------------------------------------------------------

\* the file that the metadata are put into
Target == IF temp THEN "temp" ELSE Dst

\* the arguments: a photo that does not embed metadata is rendered only for a
\* conversion, and the original is kept only when the pixels are overwritten
Begin(j) ==
    /\ pc = "idle" /\ edits < MaxEdits
    /\ j.pixels => embeds \/ j.copy
    /\ j.keep => j.pixels /\ ~j.copy
    /\ job' = j /\ named' = Exists("sidecar")
    /\ temp' = FALSE /\ meta' = {} /\ xmpPath' = "none"
    /\ edits' = edits + 1 /\ before' = disk["photo"]
    /\ report' = "none"
    /\ pc' = IF j.pixels THEN "render"
             ELSE IF big /\ ~j.copy THEN "read" ELSE "copy"
    /\ UNCHANGED <<embeds, big, disk, unread, saved, noted>>

\* load, and render; when the photo cannot be loaded nothing is rendered and the
\* result stays OK
Render ==
    /\ pc = "render"
    /\ temp' = TRUE
    /\ pc' \in {"create", "read"}
    /\ UNCHANGED <<embeds, big, disk, job, named, meta, xmpPath, report, history>>

\* nothing comes out of the renderer or the encoder
RenderFails ==
    /\ pc = "render"
    /\ Finish(disk, "FAILED")

\* blob_save_to_file opens the temporary file, or cannot
CreateTemp ==
    /\ pc = "create"
    /\ disk' = With(disk, "temp", Torn)
    /\ pc' = "fill"
    /\ UNCHANGED <<embeds, big, state, report, history>>

CreateFails ==
    /\ pc = "create"
    /\ Finish(disk, "FAILED")

\* the pixels with the photo's own metadata
FillTemp ==
    /\ pc = "fill"
    /\ disk' = With(disk, "temp", [disk["photo"] EXCEPT !.pixels = @ \cup {edits}])
    /\ pc' = "read"
    /\ UNCHANGED <<embeds, big, state, report, history>>

FillShort ==
    /\ pc = "fill"
    /\ Finish(disk, "FAILED")

CopyTemp ==
    /\ pc = "copy"
    /\ disk' = With(disk, "temp", disk["photo"])
    /\ temp' = TRUE
    /\ pc' = "read"
    /\ UNCHANGED <<embeds, big, job, named, meta, xmpPath, report, history>>

CopyFails ==
    /\ pc = "copy"
    /\ Finish(disk, "FAILED")

-----------------------------------------------------------------------------
(* metadata_xmp::update *)

Source == IF embeds THEN "photo" ELSE "sidecar"

Edited(m) == IF job.meta THEN m \cup {edits} ELSE m

Changes == job.pixels \/ job.meta \/ job.copy

NothingToEdit ==
    /\ pc = "read" /\ ~Changes
    /\ pc' = "replace"
    /\ UNCHANGED <<embeds, big, disk, state, report, history>>

\* the metadata there are; none when there is no sidecar
ReadMetadata ==
    /\ pc = "read" /\ Changes
    /\ meta' = Edited(IF Exists(Source) THEN disk[Source].meta ELSE {})
    /\ pc' = "put"
    /\ UNCHANGED <<embeds, big, disk, job, named, temp, xmpPath, report, history>>

\* OpenFile of the photo, or the read of the sidecar, yields nothing: the edit
\* goes on with no metadata
ReadNothing ==
    /\ pc = "read" /\ Changes /\ Exists(Source)
    /\ meta' = Edited({})
    /\ unread' = TRUE
    /\ pc' = "put"
    /\ UNCHANGED <<embeds, big, disk, job, named, temp, xmpPath, report, edits, before, saved, noted>>

\* the XMP library throws
ReadThrows ==
    /\ pc = "read" /\ Changes /\ Exists(Source)
    /\ Catch(disk)

\* PutXMP, and CloseFile begins to write the file in place
PutEmbedded ==
    /\ pc = "put" /\ DstEmbeds /\ Exists(Target)
    /\ disk' = [disk EXCEPT ![Target].whole = FALSE]
    /\ pc' = "close"
    /\ UNCHANGED <<embeds, big, state, report, history>>

CloseEmbedded ==
    /\ pc = "close"
    /\ disk' = [disk EXCEPT ![Target].whole = TRUE, ![Target].meta = meta]
    /\ pc' = "replace"
    /\ UNCHANGED <<embeds, big, state, report, history>>

CloseThrows ==
    /\ pc = "close"
    /\ Catch(disk)

\* the sidecar is created anew
PutSidecar ==
    /\ pc = "put" /\ ~DstEmbeds
    /\ disk' = With(disk, TargetSidecar, Torn)
    /\ pc' = "flush"
    /\ UNCHANGED <<embeds, big, state, report, history>>

\* and written, nobody looks how far
FlushSidecar ==
    /\ pc = "flush"
    /\ \/ disk' = With(disk, TargetSidecar, [Torn EXCEPT !.meta = meta, !.whole = TRUE])
       \/ UNCHANGED disk
    /\ xmpPath' = TargetSidecar
    /\ pc' = "replace"
    /\ UNCHANGED <<embeds, big, job, named, temp, meta, report, history>>

\* the file cannot be opened or does not take the metadata: xmp_result says so,
\* and nobody looks
PutNothing ==
    /\ pc = "put"
    /\ meta' = {}
    /\ pc' = "replace"
    /\ UNCHANGED <<embeds, big, disk, job, named, temp, xmpPath, report, history>>

-----------------------------------------------------------------------------
(* platform::replace_file *)

BackUp(d) == IF job.keep /\ "original" \notin DOMAIN d THEN With(d, "original", d["photo"]) ELSE d

Replaced == Without(With(BackUp(disk), Dst, disk["temp"]), {"temp"})

AfterReplace(d, result) ==
    IF xmpPath = "none"
    THEN Finish(d, result)
    ELSE /\ pc' = "replaceSidecar"
         /\ disk' = d
         /\ UNCHANGED <<embeds, big, state, report, history>>

\* metadata written in place: there is nothing to replace
NothingToReplace ==
    /\ pc = "replace" /\ ~temp
    /\ Finish(disk, "OK")

Replace ==
    /\ pc = "replace" /\ temp /\ Exists("temp")
    /\ AfterReplace(Replaced, "OK")

ReplaceFails ==
    /\ pc = "replace" /\ temp
    /\ AfterReplace(disk, "FAILED")

\* the second replacement's result is the result; a sidecar that is in its place
\* is to be replaced by itself
ReplaceSidecar ==
    /\ pc = "replaceSidecar"
    /\ Finish(With(disk, DstSidecar, disk[xmpPath]), "OK")

ReplaceSidecarFails ==
    /\ pc = "replaceSidecar"
    /\ Finish(disk, "FAILED")

-----------------------------------------------------------------------------

\* The program ends in the middle.
Crash ==
    /\ pc # "idle"
    /\ Leave(disk, "none")
    /\ UNCHANGED <<embeds, big, state, history>>

Rendering == Render \/ RenderFails \/ CreateTemp \/ CreateFails \/ FillTemp \/ FillShort

Copying == CopyTemp \/ CopyFails

Metadata ==
    \/ NothingToEdit \/ ReadMetadata \/ ReadNothing \/ ReadThrows
    \/ PutEmbedded \/ CloseEmbedded \/ CloseThrows
    \/ PutSidecar \/ FlushSidecar \/ PutNothing

Replacing ==
    \/ NothingToReplace \/ Replace \/ ReplaceFails
    \/ ReplaceSidecar \/ ReplaceSidecarFails

Next ==
    \/ \E j \in Job : Begin(j)
    \/ Rendering \/ Copying \/ Metadata \/ Replacing \/ Crash

Spec == Init /\ [][Next]_vars

-----------------------------------------------------------------------------

\* Whatever fails and wherever the program ends, the photo, the copy it is saved
\* as and the original kept of it are whole files, unless the photo was too big
\* for a temporary copy; and the photo has the pixels of every edit that was
\* reported saved.
PhotoSurvives ==
    /\ \A n \in {"photo", "copy", "original"} \cap DOMAIN disk : disk[n].whole \/ big
    /\ saved \subseteq disk["photo"].pixels

\* An update that failed has not touched the photo: what was rendered, and the
\* metadata, never reach it but together, with the replacement.
FailedLeavesPhoto ==
    (pc = "idle" /\ report = "FAILED" /\ ~InPlace) => disk["photo"] = before

\* The original is what the photo was before any kept edit: a later edit never
\* takes its place, and no pixels are lost that are not in it.
KeepsOriginal ==
    /\ Exists("original") => disk'["original"] = disk["original"]
    /\ (job.keep /\ disk'["photo"].pixels # disk["photo"].pixels) =>
           /\ "original" \in DOMAIN disk'
           /\ disk'["original"].pixels \subseteq disk["photo"].pixels

OriginalIsKept == [][KeepsOriginal]_vars

\* The metadata in the photo that an OK vouched for stay there: another update adds to
\* them or overwrites its own, and one that cannot write metadata, of which it says
\* nothing, or that renders, keeps those there are.  Not so when the update before could
\* not read them, nor in a sidecar, which is written anew and nobody looks how far.
EmbeddedMetadataKept ==
    (pc = "idle" /\ embeds /\ ~unread /\ disk["photo"].whole) => noted \subseteq disk["photo"].meta
=============================================================================
