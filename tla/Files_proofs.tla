---------------------------- MODULE Files_proofs ----------------------------
(***************************************************************************)
(* Theorems about the tools that change files: FileUpdate, for any number  *)
(* of updates; Sync, for any number of roots, files and dates; Import, for *)
(* any files, sidecars, dates and runs.                                    *)
(***************************************************************************)
EXTENDS FileUpdate, Sync, Import, SequenceTheorems, TLAPS

-----------------------------------------------------------------------------
(* FileUpdate *)

\* What is on a disk after a file is written, and after files are deleted.
LEMMA WithFile ==
    ASSUME NEW d, NEW n, NEW c
    PROVE  /\ DOMAIN With(d, n, c) = DOMAIN d \cup {n}
           /\ With(d, n, c)[n] = c
           /\ \A m \in DOMAIN d \ {n} : With(d, n, c)[m] = d[m]
BY DEF With

\* What Without leaves of a disk.
LEMMA WithoutFiles ==
    ASSUME NEW d, NEW ns
    PROVE  /\ DOMAIN Without(d, ns) = DOMAIN d \ ns
           /\ \A m \in DOMAIN d \ ns : Without(d, ns)[m] = d[m]
BY DEF Without

\* Files(d): what there is are files, and the photo is one of them.
Files(d) ==
    /\ DOMAIN d \subseteq Name
    /\ \A n \in DOMAIN d : d[n] \in Content
    /\ "photo" \in DOMAIN d

\* A disk with one more file, or with one written anew, has the photo still.
LEMMA FilesWith ==
    ASSUME NEW d, Files(d), NEW n \in Name, NEW c \in Content
    PROVE  Files(With(d, n, c))
<1> DEFINE e == With(d, n, c)
<1>1. DOMAIN e = DOMAIN d \cup {n} /\ e[n] = c /\ \A m \in DOMAIN d \ {n} : e[m] = d[m]
  BY DEF With
<1> HIDE DEF e
<1>2. Files(e)
  BY <1>1 DEF Files
<1>3. QED
  BY <1>2 DEF e

\* And so has one without some other files.
LEMMA FilesWithout ==
    ASSUME NEW d, Files(d), NEW ns \in SUBSET Name, "photo" \notin ns
    PROVE  Files(Without(d, ns))
<1> DEFINE e == Without(d, ns)
<1>1. DOMAIN e = DOMAIN d \ ns /\ \A m \in DOMAIN d \ ns : e[m] = d[m]
  BY WithoutFiles
<1> HIDE DEF e
<1>2. Files(e)
  BY <1>1 DEF Files
<1>3. QED
  BY <1>2 DEF e

-----------------------------------------------------------------------------

Written == pc \in {"read", "put", "close", "flush", "replace"}

\* Which files there are on the way.
Ways ==
    /\ pc # "idle" => edits \in Edit
    /\ pc \in {"render", "create", "fill"} => job.pixels
    /\ pc \in {"create", "fill"} => temp
    /\ pc = "copy" => ~job.pixels /\ ~InPlace
    /\ pc \in {"render", "create", "copy"} => ~Exists("temp")
    /\ Exists("temp") => temp
    /\ Written => (temp <=> ~InPlace)
    /\ pc = "replaceSidecar" => xmpPath # "none"
    /\ (pc # "idle" /\ xmpPath # "none") => ~DstEmbeds /\ Exists(xmpPath)
    /\ pc = "flush" => ~DstEmbeds /\ Exists(TargetSidecar)
    /\ pc = "close" => DstEmbeds /\ Exists(Target)

\* The temporary file is the photo with what the edit asks for, and until it takes the
\* photo's place the photo is as it was.
Contents ==
    /\ (Written /\ Exists("temp")) =>
          /\ disk["temp"].pixels = disk["photo"].pixels \cup (IF job.pixels THEN {edits} ELSE {})
          /\ disk["temp"].whole \/ big \/ pc = "close"
          /\ ~DstEmbeds => disk["temp"] = disk["photo"]
    /\ (pc # "idle" /\ ~InPlace) => disk["photo"] = before
    /\ Exists("original") => disk["original"].pixels \subseteq disk["photo"].pixels

UpdateInv == TypeOK /\ Ways /\ Contents /\ PhotoSurvives /\ FailedLeavesPhoto

\* It holds of a photo nobody has edited.
LEMMA InitUpdateInv == Init => UpdateInv
<1> SUFFICES ASSUME Init
             PROVE  UpdateInv
  OBVIOUS
<1>1. NewPhoto \in Content /\ DOMAIN disk = {"photo"} /\ disk["photo"] = NewPhoto
  BY DEF Init, NewPhoto, Content
<1>2. TypeOK
  <2>1. embeds \in BOOLEAN /\ big \in BOOLEAN /\ named \in BOOLEAN /\ temp \in BOOLEAN /\ unread \in BOOLEAN
    BY Zenon DEF Init
  <2>2. job \in Job
    BY DEF Init, NoJob, Job
  <2>3. QED
    BY <1>1, <2>1, <2>2 DEF Init, TypeOK, Name, Exists
<1>3. Ways
  BY <1>1 DEF Init, Ways, Written, Exists
<1>4. Contents
  BY <1>1 DEF Init, Contents, Written, Exists
<1>5. PhotoSurvives /\ FailedLeavesPhoto
  BY <1>1 DEF Init, PhotoSurvives, FailedLeavesPhoto, NewPhoto
<1>6. QED
  BY <1>2, <1>3, <1>4, <1>5 DEF UpdateInv

\* What an update must leave on the disk for the invariant to hold when it is over.
Left(d, result) ==
    /\ Files(d)
    /\ \A n \in {"photo", "copy", "original"} \cap DOMAIN d : d[n].whole \/ big
    /\ saved \subseteq d["photo"].pixels
    /\ (result = "OK" /\ job.pixels /\ ~job.copy) => edits \in d["photo"].pixels
    /\ (result = "FAILED" /\ ~InPlace) => d["photo"] = before
    /\ "original" \in DOMAIN d => d["original"].pixels \subseteq d["photo"].pixels

\* An update may end, or the program, wherever the files are as they should be.
LEMMA LeaveInv ==
    ASSUME UpdateInv, pc # "idle", NEW d, NEW result \in {"none", "OK", "FAILED"}, Left(d, result),
           Leave(d, result), UNCHANGED <<embeds, big, state, edits, before, unread>>,
           saved' = IF result = "OK" /\ job.pixels /\ ~job.copy THEN saved \cup {edits} ELSE saved,
           noted' \in SUBSET Edit
    PROVE  UpdateInv'
<1>1. DOMAIN disk' = DOMAIN d \ {"temp", "tempSidecar"} /\ \A n \in DOMAIN disk' : disk'[n] = d[n]
  BY DEF Leave, Without
<1>2. pc' = "idle" /\ report' = result
  BY DEF Leave
<1>3. TypeOK'
  <2>1. /\ DOMAIN disk' \subseteq Name /\ "photo" \in DOMAIN disk'
        /\ \A n \in DOMAIN disk' : disk'[n] \in Content
        /\ "temp" \notin DOMAIN disk' /\ "tempSidecar" \notin DOMAIN disk'
    BY <1>1 DEF Left, Files
  <2>2. saved' \in SUBSET Edit
    BY DEF UpdateInv, TypeOK, Ways
  <2>3. QED
    BY <1>2, <2>1, <2>2 DEF UpdateInv, TypeOK, state, Exists
<1>4. Ways'
  BY <1>1, <1>2 DEF Ways, Written, Exists
<1>5. Contents'
  BY <1>1, <1>2 DEF Contents, Written, Exists, Left, Files
<1>6. PhotoSurvives'
  BY <1>1 DEF PhotoSurvives, Left, Files
<1>7. FailedLeavesPhoto'
  BY <1>1, <1>2 DEF FailedLeavesPhoto, Left, Files, InPlace, state
<1>8. QED
  BY <1>3, <1>4, <1>5, <1>6, <1>7 DEF UpdateInv

\* Then so may it with a result the callers believe.
LEMMA FinishInv ==
    ASSUME UpdateInv, pc # "idle", NEW d, NEW result \in {"OK", "FAILED"}, Left(d, result),
           Finish(d, result)
    PROVE  UpdateInv'
<1>1. noted' \in SUBSET Edit
  BY DEF Finish, UpdateInv, TypeOK, Ways
<1>2. QED
  BY <1>1, LeaveInv DEF Finish

\* The disk as it is may be left by an update that failed, and by one without pixels.
LEMMA LeftAsItIs ==
    ASSUME UpdateInv, pc # "idle",
           NEW result \in {"none", "OK", "FAILED"}, result = "OK" => ~job.pixels \/ job.copy
    PROVE  Left(disk, result)
BY DEF Left, UpdateInv, TypeOK, Files, Contents, PhotoSurvives, Exists

\* And with a failure.
LEMMA FailInv ==
    ASSUME UpdateInv, pc # "idle", Finish(disk, "FAILED")
    PROVE  UpdateInv'
BY LeftAsItIs, FinishInv

\* The catch, too, leaves the files as they should be.
LEMMA CatchInv ==
    ASSUME UpdateInv, pc # "idle", Catch(disk)
    PROVE  UpdateInv'
<1>1. CASE ~temp
  BY <1>1, FailInv DEF Catch
<1>2. CASE temp
  <2> DEFINE d == Without(disk, {"temp"})
  <2>1. DOMAIN d = DOMAIN disk \ {"temp"} /\ \A n \in DOMAIN d : d[n] = disk[n]
    BY DEF Without
  <2>2. Finish(d, "FAILED")
    BY <1>2 DEF Catch
  <2>3. Left(disk, "FAILED")
    BY LeftAsItIs
  <2> HIDE DEF d
  <2>4. Left(d, "FAILED")
    BY <2>1, <2>3 DEF Left, Files
  <2>5. QED
    BY <2>2, <2>4, FinishInv
<1>3. QED
  BY <1>1, <1>2

\* The steps that change no file.
LEMMA ReadingInv ==
    ASSUME UpdateInv,
           (\E j \in Job : Begin(j)) \/ Render \/ NothingToEdit \/ ReadMetadata \/ ReadNothing \/ PutNothing
    PROVE  UpdateInv'
<1> USE DEF UpdateInv
<1>1. ASSUME NEW j \in Job, Begin(j)
      PROVE  UpdateInv'
  <2>1. TypeOK'
    <3>1. named' \in BOOLEAN
      <4>1. named' = Exists("sidecar")
        BY <1>1 DEF Begin
      <4>2. Exists("sidecar") \in BOOLEAN
        BY DEF Exists
      <4>3. QED
        BY <4>1, <4>2
    <3>2. before' \in Content /\ edits' \in Nat /\ pc' \in {"render", "read", "copy"}
      BY <1>1 DEF Begin, TypeOK, Exists
    <3>3. QED
      BY <1>1, <3>1, <3>2 DEF Begin, TypeOK, Exists
  <2>2. Ways'
    BY <1>1 DEF Begin, Ways, Written, Exists, TypeOK, InPlace, Edit
  <2>3. Contents'
    BY <1>1 DEF Begin, Contents, Written, Exists, TypeOK
  <2>4. PhotoSurvives' /\ FailedLeavesPhoto'
    BY <1>1 DEF Begin, PhotoSurvives, FailedLeavesPhoto
  <2>5. QED
    BY <2>1, <2>2, <2>3, <2>4
<1>2. CASE Render
  <2>1. TypeOK'
    BY <1>2 DEF Render, TypeOK, Exists, history
  <2>2. Ways'
    BY <1>2 DEF Render, Ways, Written, Exists, InPlace, TypeOK, history, DstEmbeds
  <2>3. Contents'
    BY <1>2 DEF Render, Ways, Contents, Written, Exists, InPlace, history
  <2>4. PhotoSurvives' /\ FailedLeavesPhoto'
    BY <1>2 DEF Render, PhotoSurvives, FailedLeavesPhoto, history
  <2>5. QED
    BY <2>1, <2>2, <2>3, <2>4
<1>3. CASE NothingToEdit
  <2>1. TypeOK'
    BY <1>3 DEF NothingToEdit, TypeOK, Exists, history, state
  <2>2. Ways'
    BY <1>3 DEF NothingToEdit, Ways, Written, Exists, InPlace, history, state, DstEmbeds
  <2>3. Contents'
    BY <1>3 DEF NothingToEdit, Contents, Written, Exists, InPlace, history, state, DstEmbeds
  <2>4. PhotoSurvives' /\ FailedLeavesPhoto'
    BY <1>3 DEF NothingToEdit, PhotoSurvives, FailedLeavesPhoto, history
  <2>5. QED
    BY <2>1, <2>2, <2>3, <2>4
<1>4. CASE ReadMetadata \/ ReadNothing \/ PutNothing
  <2>1. meta' \in SUBSET Edit /\ unread' \in BOOLEAN /\ pc' \in {"put", "replace"} /\ pc \in {"read", "put"}
    <3>1. \A m \in SUBSET Edit : pc # "idle" => Edited(m) \in SUBSET Edit
      BY DEF Edited, Ways
    <3>2. Exists(Source) => disk[Source].meta \in SUBSET Edit
      BY DEF Exists, TypeOK, Content
    <3>3. QED
      BY <1>4, <3>1, <3>2 DEF ReadMetadata, ReadNothing, PutNothing, TypeOK, history
  <2>2. UNCHANGED <<embeds, big, disk, job, named, temp, xmpPath, report, edits, before, saved, noted>>
    BY <1>4 DEF ReadMetadata, ReadNothing, PutNothing, history
  <2>3. TypeOK'
    BY <2>1, <2>2 DEF TypeOK, Exists
  <2>4. Ways'
    BY <2>1, <2>2 DEF Ways, Written, Exists, InPlace, DstEmbeds
  <2>5. Contents'
    BY <2>1, <2>2 DEF Contents, Written, Exists, InPlace, DstEmbeds
  <2>6. PhotoSurvives' /\ FailedLeavesPhoto'
    BY <2>1, <2>2 DEF PhotoSurvives, FailedLeavesPhoto
  <2>7. QED
    BY <2>3, <2>4, <2>5, <2>6
<1>5. QED
  BY <1>1, <1>2, <1>3, <1>4

\* The steps that write the temporary file.
LEMMA TempInv ==
    ASSUME UpdateInv, CreateTemp \/ FillTemp \/ CopyTemp
    PROVE  UpdateInv'
<1> USE DEF UpdateInv
<1> DEFINE c == disk'["temp"]
<1>1. /\ DOMAIN disk' = DOMAIN disk \cup {"temp"}
      /\ \A n \in DOMAIN disk \ {"temp"} : disk'[n] = disk[n]
      /\ pc \in {"create", "fill", "copy"} /\ pc' \in {"fill", "read"}
      /\ pc' = "fill" => pc = "create"
      /\ UNCHANGED <<embeds, big, job, named, meta, xmpPath, report, history>>
  BY DEF CreateTemp, FillTemp, CopyTemp, With, state
<1>2. temp' = TRUE /\ ~InPlace
  BY DEF CreateTemp, FillTemp, CopyTemp, Ways, state, InPlace
<1>3. /\ disk["photo"] \in Content /\ "photo" \in DOMAIN disk /\ edits \in Edit
  BY <1>1 DEF TypeOK, Exists, Ways
<1>4. c \in Content
  <2>1. CASE CreateTemp
    BY <2>1 DEF CreateTemp, With, Content, Torn
  <2>2. CASE FillTemp
    <3>1. c = [disk["photo"] EXCEPT !.pixels = @ \cup {edits}]
      BY <2>2 DEF FillTemp, With
    <3>2. QED
      BY <1>3, <3>1 DEF Content
  <2>3. CASE CopyTemp
    BY <1>3, <2>3 DEF CopyTemp, With
  <2>4. QED
    BY <2>1, <2>2, <2>3
<1>5. pc' = "read" =>
         /\ c.pixels = disk["photo"].pixels \cup (IF job.pixels THEN {edits} ELSE {})
         /\ c.whole = disk["photo"].whole
         /\ ~DstEmbeds => c = disk["photo"]
  <2>1. CASE CreateTemp
    BY <2>1 DEF CreateTemp
  <2>2. CASE FillTemp
    <3>1. job.pixels /\ DstEmbeds
      BY <2>2 DEF FillTemp, Ways, DstEmbeds
    <3>2. c = [disk["photo"] EXCEPT !.pixels = @ \cup {edits}]
      BY <2>2 DEF FillTemp, With
    <3>3. QED
      BY <1>3, <3>1, <3>2 DEF Content
  <2>3. CASE CopyTemp
    <3>1. ~job.pixels
      BY <2>3 DEF CopyTemp, Ways
    <3>2. c = disk["photo"]
      BY <2>3 DEF CopyTemp, With
    <3>3. QED
      BY <3>1, <3>2
  <2>4. QED
    BY <2>1, <2>2, <2>3
<1> HIDE DEF c
<1>6. TypeOK'
  <2>1. \A n \in DOMAIN disk' : disk'[n] \in Content
    BY <1>1, <1>4 DEF TypeOK, c
  <2>2. QED
    BY <1>1, <1>2, <2>1 DEF TypeOK, Exists, Name, history
<1>7. Ways'
  BY <1>1, <1>2 DEF Ways, Written, Exists, InPlace, history, DstEmbeds
<1>8. Contents'
  <2>1. disk'["photo"] = disk["photo"] /\ ("original" \in DOMAIN disk' => disk'["original"] = disk["original"])
    BY <1>1, <1>3
  <2>2. disk["photo"].whole \/ big
    BY <1>3 DEF PhotoSurvives
  <2>3. QED
    BY <1>1, <1>2, <1>5, <2>1, <2>2 DEF Contents, Written, Exists, InPlace, DstEmbeds, history, c
<1>9. PhotoSurvives' /\ FailedLeavesPhoto'
  BY <1>1, <1>3 DEF PhotoSurvives, FailedLeavesPhoto, history
<1>10. QED
  BY <1>6, <1>7, <1>8, <1>9

\* The steps that write a sidecar.
LEMMA SidecarInv ==
    ASSUME UpdateInv, PutSidecar \/ FlushSidecar
    PROVE  UpdateInv'
<1> USE DEF UpdateInv
<1>1. /\ DOMAIN disk' = DOMAIN disk \cup {TargetSidecar} /\ TargetSidecar \in {"sidecar", "tempSidecar"}
      /\ \A n \in DOMAIN disk \ {TargetSidecar} : disk'[n] = disk[n]
      /\ disk'[TargetSidecar] \in Content
  <2>1. meta \in SUBSET Edit /\ TargetSidecar \in {"sidecar", "tempSidecar"}
    BY DEF TypeOK, TargetSidecar
  <2>2. Torn \in Content /\ [Torn EXCEPT !.meta = meta, !.whole = TRUE] \in Content
    BY <2>1 DEF Torn, Content
  <2>3. (pc = "flush" /\ disk' = disk) => disk'[TargetSidecar] \in Content /\ TargetSidecar \in DOMAIN disk
    BY DEF Ways, TypeOK, Exists
  <2>4. QED
    BY <2>1, <2>2, <2>3 DEF PutSidecar, FlushSidecar, With
<1>2. /\ pc \in {"put", "flush"} /\ pc' \in {"flush", "replace"} /\ ~DstEmbeds
      /\ xmpPath' \in {xmpPath, TargetSidecar}
      /\ pc' = "replace" => xmpPath' = TargetSidecar
      /\ UNCHANGED <<embeds, big, job, named, temp, meta, report, history>>
  BY DEF PutSidecar, FlushSidecar, state, Ways
<1>3. TypeOK'
  BY <1>1, <1>2 DEF TypeOK, Exists, Name, history
<1>4. Ways'
  BY <1>1, <1>2 DEF Ways, Written, Exists, InPlace, history, DstEmbeds, TargetSidecar
<1>5. \A n \in {"photo", "copy", "original", "temp"} :
         (n \in DOMAIN disk' <=> n \in DOMAIN disk) /\ (n \in DOMAIN disk => disk'[n] = disk[n])
  BY <1>1
<1> "photo" \in DOMAIN disk
  BY DEF TypeOK, Exists
<1>6. Contents'
  BY <1>2, <1>5 DEF Contents, Written, Exists, InPlace, DstEmbeds, history
<1>7. PhotoSurvives' /\ FailedLeavesPhoto'
  BY <1>2, <1>5 DEF PhotoSurvives, FailedLeavesPhoto, history
<1>8. QED
  BY <1>3, <1>4, <1>6, <1>7

\* The steps that write metadata into a file.
LEMMA EmbeddedInv ==
    ASSUME UpdateInv, PutEmbedded \/ CloseEmbedded
    PROVE  UpdateInv'
<1> USE DEF UpdateInv
<1>1. /\ DOMAIN disk' = DOMAIN disk /\ Target \in DOMAIN disk /\ DstEmbeds
      /\ \A n \in DOMAIN disk \ {Target} : disk'[n] = disk[n]
      /\ disk'[Target] \in Content /\ disk'[Target].pixels = disk[Target].pixels
      /\ pc' = "replace" => disk'[Target].whole
      /\ pc \in {"put", "close"} /\ pc' \in {"close", "replace"}
      /\ UNCHANGED <<embeds, big, state, report, history>>
  <2>1. Target \in DOMAIN disk /\ DstEmbeds
    BY DEF PutEmbedded, CloseEmbedded, Exists, Ways
  <2>2. disk[Target] \in Content /\ meta \in SUBSET Edit
    BY <2>1 DEF TypeOK
  <2>3. CASE PutEmbedded
    BY <2>1, <2>2, <2>3 DEF PutEmbedded, Content
  <2>4. CASE CloseEmbedded
    BY <2>1, <2>2, <2>4 DEF CloseEmbedded, Content
  <2>5. QED
    BY <2>3, <2>4
<1>2. TypeOK'
  BY <1>1 DEF TypeOK, Exists, Name, history, state
<1>3. Ways'
  BY <1>1 DEF Ways, Written, Exists, InPlace, history, state, DstEmbeds, Target, Dst
<1>4. CASE temp
  <2>1. Target = "temp" /\ ~InPlace
    BY <1>1, <1>4 DEF Target, Ways, Written
  <2>2. "photo" \in DOMAIN disk /\ disk'["photo"] = disk["photo"]
    BY <1>1, <2>1 DEF TypeOK, Exists
  <2>3. Contents'
    BY <1>1, <2>1, <2>2 DEF Contents, Written, Exists, InPlace, DstEmbeds, history, state
  <2>4. PhotoSurvives' /\ FailedLeavesPhoto'
    BY <1>1, <2>1, <2>2 DEF PhotoSurvives, FailedLeavesPhoto, history
  <2>5. QED
    BY <1>2, <1>3, <2>3, <2>4
<1>5. CASE ~temp
  <2>1. Target = "photo" /\ InPlace /\ big /\ ~Exists("temp")
    BY <1>1, <1>5 DEF Target, Dst, InPlace, Ways, Written
  <2>2. Contents'
    BY <1>1, <2>1 DEF Contents, Written, Exists, InPlace, DstEmbeds, history, state
  <2>3. PhotoSurvives' /\ FailedLeavesPhoto'
    BY <1>1, <2>1 DEF PhotoSurvives, FailedLeavesPhoto, history
  <2>4. QED
    BY <1>2, <1>3, <2>2, <2>3
<1>6. QED
  BY <1>4, <1>5

-----------------------------------------------------------------------------

\* What replace_file leaves when it succeeds.
LEMMA ReplacedFiles ==
    ASSUME UpdateInv, "temp" \in DOMAIN disk
    PROVE  /\ Files(Replaced) /\ "temp" \notin DOMAIN Replaced
           /\ Replaced["photo"] = IF job.copy THEN disk["photo"] ELSE disk["temp"]
           /\ "copy" \in DOMAIN Replaced =>
                 \/ Replaced["copy"] = disk["temp"]
                 \/ "copy" \in DOMAIN disk /\ Replaced["copy"] = disk["copy"]
           /\ "original" \in DOMAIN Replaced =>
                 \/ "original" \notin DOMAIN disk /\ Replaced["original"] = disk["photo"]
                 \/ "original" \in DOMAIN disk /\ Replaced["original"] = disk["original"]
           /\ \A n \in {"sidecar", "tempSidecar", "original"} \cap DOMAIN disk :
                 n \in DOMAIN Replaced /\ Replaced[n] = disk[n]
           /\ job.keep => "original" \in DOMAIN Replaced
<1> DEFINE b == BackUp(disk)
<1> DEFINE w == With(b, Dst, disk["temp"])
<1> DEFINE r == Without(w, {"temp"})
<1>1. /\ DOMAIN b = IF job.keep THEN DOMAIN disk \cup {"original"} ELSE DOMAIN disk
      /\ \A n \in DOMAIN disk : b[n] = disk[n]
      /\ (job.keep /\ "original" \notin DOMAIN disk) => b["original"] = disk["photo"]
  BY DEF BackUp, With
<1>2. DOMAIN w = DOMAIN b \cup {Dst} /\ w[Dst] = disk["temp"] /\ \A n \in DOMAIN b \ {Dst} : w[n] = b[n]
  <2> HIDE DEF b
  <2>1. QED
    BY DEF With
<1>3. DOMAIN r = DOMAIN w \ {"temp"} /\ \A n \in DOMAIN r : r[n] = w[n]
  <2> HIDE DEF w
  <2>1. QED
    BY DEF Without
<1>4. Dst = (IF job.copy THEN "copy" ELSE "photo") /\ Replaced = r
  BY DEF Dst, Replaced
<1>5. Files(disk)
  BY DEF UpdateInv, TypeOK, Files, Exists
<1> HIDE DEF b, w, r
<1>6. QED
  BY <1>1, <1>2, <1>3, <1>4, <1>5 DEF Files, Name

\* The replacement, whether it succeeds or not.
LEMMA ReplaceInv ==
    ASSUME UpdateInv, Replace \/ ReplaceFails
    PROVE  UpdateInv'
<1>1. pc = "replace" /\ temp /\ ~InPlace /\ Files(disk)
  BY DEF Replace, ReplaceFails, UpdateInv, Ways, Written, TypeOK, Files, Exists
<1> DEFINE Put(d, result) ==
         /\ AfterReplace(d, result)
         /\ \/ d = disk /\ result = "FAILED"
            \/ d = Replaced /\ result = "OK" /\ Exists("temp")
<1>0. PICK result \in {"OK", "FAILED"} : \E d : Put(d, result)
  BY DEF Replace, ReplaceFails
<1>2. PICK d : Put(d, result)
  BY <1>0
<1>3. Left(d, result)
  <2>1. CASE d = disk /\ result = "FAILED"
    BY <1>1, <2>1, LeftAsItIs
  <2>2. CASE d = Replaced /\ result = "OK" /\ Exists("temp")
    <3>1. /\ disk["temp"].whole \/ big
          /\ disk["temp"].pixels = disk["photo"].pixels \cup (IF job.pixels THEN {edits} ELSE {})
          /\ saved \subseteq disk["photo"].pixels
          /\ "original" \in DOMAIN disk => disk["original"].pixels \subseteq disk["photo"].pixels
      BY <1>1, <2>2 DEF UpdateInv, Contents, Written, PhotoSurvives, Exists
    <3>2. \A n \in {"photo", "copy", "original"} \cap DOMAIN disk : disk[n].whole \/ big
      BY DEF UpdateInv, PhotoSurvives
    <3>3. "temp" \in DOMAIN disk
      BY <2>2 DEF Exists
    <3>4. "photo" \in DOMAIN disk
      BY <1>1 DEF Files
    <3>5. \A n \in {"photo", "copy", "original"} \cap DOMAIN d : d[n].whole \/ big
      BY <2>2, <3>1, <3>2, <3>3, <3>4, ReplacedFiles
    <3>6. saved \subseteq d["photo"].pixels /\ ((job.pixels /\ ~job.copy) => edits \in d["photo"].pixels)
      BY <2>2, <3>1, <3>3, ReplacedFiles
    <3>7. "original" \in DOMAIN d => d["original"].pixels \subseteq d["photo"].pixels
      BY <2>2, <3>1, <3>3, ReplacedFiles
    <3>8. QED
      BY <2>2, <3>3, <3>5, <3>6, <3>7, ReplacedFiles DEF Left
  <2>3. QED
    BY <1>2, <2>1, <2>2
<1>4. CASE xmpPath = "none"
  BY <1>1, <1>2, <1>3, <1>4, FinishInv DEF AfterReplace
<1>5. CASE xmpPath # "none"
  <2>1. pc' = "replaceSidecar" /\ disk' = d /\ UNCHANGED <<embeds, big, state, report, history>>
    BY <1>2, <1>5 DEF AfterReplace
  <2>2. ~DstEmbeds /\ xmpPath \in {"sidecar", "tempSidecar"} \cap DOMAIN disk
    BY <1>1, <1>5 DEF UpdateInv, Ways, TypeOK, Exists
  <2>3. xmpPath \in DOMAIN d /\ ("temp" \in DOMAIN d => temp)
    BY <1>1, <1>2, <2>2, ReplacedFiles DEF Exists
  <2>4. d["photo"] = before
    <3>1. disk["photo"] = before
      BY <1>1 DEF UpdateInv, Contents
    <3>2. Exists("temp") => disk["temp"] = disk["photo"]
      BY <1>1, <2>2 DEF UpdateInv, Contents, Written
    <3>3. QED
      BY <1>2, <3>1, <3>2, ReplacedFiles DEF Exists
  <2>5. TypeOK'
    BY <1>3, <2>1 DEF UpdateInv, TypeOK, Left, Files, Exists, state, history
  <2>6. Ways'
    BY <1>1, <1>5, <2>1, <2>2, <2>3 DEF UpdateInv, Ways, Written, Exists, InPlace, DstEmbeds, state, history
  <2>7. Contents'
    BY <1>3, <2>1, <2>4 DEF Contents, Written, Exists, Left, history
  <2>8. PhotoSurvives' /\ FailedLeavesPhoto'
    BY <1>3, <2>1 DEF PhotoSurvives, FailedLeavesPhoto, Left, history
  <2>9. QED
    BY <2>5, <2>6, <2>7, <2>8 DEF UpdateInv
<1>6. QED
  BY <1>4, <1>5

\* The replacement of the sidecar.
LEMMA ReplaceSidecarInv ==
    ASSUME UpdateInv, ReplaceSidecar
    PROVE  UpdateInv'
<1> DEFINE d == With(disk, DstSidecar, disk[xmpPath])
<1>1. pc = "replaceSidecar" /\ Finish(d, "OK") /\ ~job.pixels
  BY DEF ReplaceSidecar, UpdateInv, Ways, DstEmbeds
<1>2. DstSidecar \in {"sidecar", "copySidecar"} /\ disk[xmpPath] \in Content
  BY <1>1 DEF DstSidecar, UpdateInv, Ways, TypeOK, Exists
<1>3. Left(disk, "OK")
  BY <1>1, LeftAsItIs
<1>4. /\ DOMAIN d = DOMAIN disk \cup {DstSidecar} /\ d[DstSidecar] = disk[xmpPath]
      /\ \A n \in DOMAIN disk \ {DstSidecar} : d[n] = disk[n]
  BY DEF With
<1> HIDE DEF d
<1>5. Left(d, "OK")
  BY <1>2, <1>3, <1>4 DEF Left, Files, Name
<1>6. QED
  BY <1>1, <1>5, FinishInv

\* The program may end between any two steps.
LEMMA CrashInv ==
    ASSUME UpdateInv, Crash
    PROVE  UpdateInv'
<1>1. Left(disk, "none") /\ pc # "idle"
  BY LeftAsItIs DEF Crash
<1>2. saved' = saved /\ noted' \in SUBSET Edit /\ UNCHANGED <<embeds, big, state, edits, before, unread>>
  BY DEF Crash, history, UpdateInv, TypeOK
<1>3. QED
  BY <1>1, <1>2, LeaveInv DEF Crash

-----------------------------------------------------------------------------

\* The invariant is inductive.
LEMMA UpdatesKeepInv == Spec => []UpdateInv
<1>1. UpdateInv /\ [Next]_vars => UpdateInv'
  <2> SUFFICES ASSUME UpdateInv, [Next]_vars
               PROVE  UpdateInv'
    OBVIOUS
  <2>1. CASE RenderFails \/ CreateFails \/ FillShort \/ CopyFails \/ ReplaceSidecarFails
    BY <2>1, FailInv DEF RenderFails, CreateFails, FillShort, CopyFails, ReplaceSidecarFails
  <2>2. CASE ReadThrows \/ CloseThrows
    BY <2>2, CatchInv DEF ReadThrows, CloseThrows
  <2>3. CASE NothingToReplace
    <3>1. pc = "replace" /\ ~job.pixels /\ Finish(disk, "OK")
      BY <2>3 DEF NothingToReplace, UpdateInv, Ways, Written, InPlace
    <3>2. QED
      BY <3>1, LeftAsItIs, FinishInv
  <2>4. CASE UNCHANGED vars
    <3> USE <2>4 DEF UpdateInv, vars, state, history
    <3>1. TypeOK'
      BY DEF TypeOK, Exists
    <3>2. Ways'
      BY DEF Ways, Written, Exists, InPlace, DstEmbeds, Target, TargetSidecar, Dst
    <3>3. Contents'
      BY DEF Contents, Written, Exists, InPlace, DstEmbeds
    <3>4. PhotoSurvives' /\ FailedLeavesPhoto'
      BY DEF PhotoSurvives, FailedLeavesPhoto, InPlace
    <3>5. QED
      BY <3>1, <3>2, <3>3, <3>4
  <2>5. QED
    BY <2>1, <2>2, <2>3, <2>4, ReadingInv, TempInv, SidecarInv, EmbeddedInv, ReplaceInv, ReplaceSidecarInv, CrashInv
       DEF Next, Rendering, Copying, Metadata, Replacing
<1>2. QED
  BY <1>1, InitUpdateInv, PTL DEF Spec

\* The variables keep their types.
THEOREM TypeCorrect == Spec => []TypeOK
BY UpdatesKeepInv, PTL DEF UpdateInv

\* No failed update, and no end of the program, leaves the photo torn or takes from it
\* the pixels of an edit that was reported saved.
THEOREM PhotoIsSafe == Spec => []PhotoSurvives
BY UpdatesKeepInv, PTL DEF UpdateInv

\* An update that is reported failed has not touched the photo.
THEOREM FailureLeavesPhoto == Spec => []FailedLeavesPhoto
BY UpdatesKeepInv, PTL DEF UpdateInv

-----------------------------------------------------------------------------

\* The metadata that an OK vouched for are in the photo and, once there is one, in the file
\* that takes its place; what is written over either was read from the photo.
MetadataKept ==
    (embeds /\ ~unread) =>
        /\ noted \subseteq disk["photo"].meta
        /\ (Written /\ Exists("temp")) => noted \subseteq disk["temp"].meta
        /\ pc \in {"render", "create", "fill", "copy", "read"} => meta = {}
        /\ pc \in {"put", "close"} => noted \subseteq meta
        /\ (pc = "replace" /\ temp /\ Exists("temp")) => meta \subseteq disk["temp"].meta
        /\ (pc = "replace" /\ ~temp) => meta \subseteq disk["photo"].meta

\* An update that ends keeps them if the photo has those vouched for so far, and its own
\* when it says OK.
LEMMA FinishMetadata ==
    ASSUME UpdateInv, NEW d, NEW result, Leave(d, result), "photo" \in DOMAIN d,
           noted' \subseteq d["photo"].meta
    PROVE  MetadataKept'
<1>1. disk'["photo"] = d["photo"] /\ pc' = "idle"
  BY DEF Leave, Without
<1>2. QED
  BY <1>1 DEF MetadataKept, Written

\* Every step of an update keeps them.
LEMMA MetadataStaysKept ==
    ASSUME UpdateInv, MetadataKept, Next
    PROVE  MetadataKept'
<1> SUFFICES ASSUME embeds', ~unread'
             PROVE  MetadataKept'
  BY DEF MetadataKept
<1>0. embeds /\ ~unread /\ "photo" \in DOMAIN disk /\ noted \subseteq disk["photo"].meta
  <2>1. embeds' = embeds /\ unread' \in {unread, TRUE}
    BY DEF Next, Begin, Rendering, Copying, Metadata, Replacing, Render, RenderFails, CreateTemp, CreateFails,
           FillTemp, FillShort, CopyTemp, CopyFails, NothingToEdit, ReadMetadata, ReadNothing, ReadThrows,
           PutEmbedded, CloseEmbedded, CloseThrows, PutSidecar, FlushSidecar, PutNothing, NothingToReplace,
           Replace, ReplaceFails, AfterReplace, ReplaceSidecar, ReplaceSidecarFails, Crash, Finish, Catch,
           history
  <2> QED BY <2>1 DEF MetadataKept, UpdateInv, TypeOK, Exists
<1> USE DEF UpdateInv
<1>1. ASSUME NEW j \in Job, Begin(j)
      PROVE  MetadataKept'
  <2>1. "temp" \notin DOMAIN disk
    BY <1>1 DEF Begin, TypeOK, Exists
  <2>2. disk' = disk /\ noted' = noted /\ pc' \in {"render", "read", "copy"} /\ meta' = {}
    BY <1>1 DEF Begin
  <2>3. QED
    BY <1>0, <2>1, <2>2 DEF MetadataKept, Written, Exists
<1>2. CASE Rendering
  <2>1. CASE Render
    <3>1. "temp" \notin DOMAIN disk /\ meta = {}
      BY <1>0, <2>1 DEF Render, Ways, Exists, MetadataKept
    <3>2. disk' = disk /\ noted' = noted /\ pc' \in {"create", "read"} /\ meta' = {}
      BY <2>1, <3>1 DEF Render, history
    <3>3. QED
      BY <1>0, <3>1, <3>2 DEF MetadataKept, Written, Exists
  <2>2. CASE CreateTemp \/ FillTemp
    <3>1. disk'["photo"] = disk["photo"] /\ noted' = noted /\ meta' = meta
      BY <1>0, <2>2 DEF CreateTemp, FillTemp, With, history, state
    <3>2. pc \in {"create", "fill"} /\ pc' \in {"fill", "read"}
      BY <2>2 DEF CreateTemp, FillTemp
    <3>3. pc' = "read" => disk'["temp"].meta = disk["photo"].meta
      BY <1>0, <2>2 DEF CreateTemp, FillTemp, With, TypeOK, Content
    <3>4. QED
      BY <1>0, <3>1, <3>2, <3>3 DEF MetadataKept, Written, Exists
  <2>3. CASE RenderFails \/ CreateFails \/ FillShort
    BY <1>0, <2>3, FinishMetadata DEF RenderFails, CreateFails, FillShort, Finish
  <2>4. QED
    BY <1>2, <2>1, <2>2, <2>3 DEF Rendering
<1>3. CASE Copying
  <2>1. CASE CopyTemp
    <3>1. disk'["photo"] = disk["photo"] /\ disk'["temp"] = disk["photo"] /\ noted' = noted /\ meta' = meta
      BY <1>0, <2>1 DEF CopyTemp, With, history
    <3>2. pc = "copy" /\ pc' = "read"
      BY <2>1 DEF CopyTemp
    <3>3. QED
      BY <1>0, <3>1, <3>2 DEF MetadataKept, Written, Exists
  <2>2. CASE CopyFails
    BY <1>0, <2>2, FinishMetadata DEF CopyFails, Finish
  <2>3. QED
    BY <1>3, <2>1, <2>2 DEF Copying
<1>4. CASE Metadata
  <2>1. CASE ReadThrows \/ CloseThrows
    BY <1>0, <2>1, FinishMetadata DEF ReadThrows, CloseThrows, Catch, Finish, Without
  <2>2. CASE NothingToEdit \/ PutNothing
    BY <1>0, <2>2 DEF NothingToEdit, PutNothing, MetadataKept, Written, Exists, history, state
  <2>3. CASE ReadMetadata
    BY <1>0, <2>3 DEF ReadMetadata, Source, Edited, MetadataKept, Written, Exists, history
  <2>4. CASE PutEmbedded \/ CloseEmbedded
    BY <1>0, <2>4 DEF PutEmbedded, CloseEmbedded, Target, Dst, MetadataKept, Written, Exists, Ways, InPlace,
                      TypeOK, Content, history, state
  <2>5. CASE PutSidecar \/ FlushSidecar
    BY <1>0, <2>5 DEF PutSidecar, FlushSidecar, DstEmbeds, Ways
  <2>6. CASE ReadNothing
    BY <2>6 DEF ReadNothing
  <2>7. QED
    BY <1>4, <2>1, <2>2, <2>3, <2>4, <2>5, <2>6 DEF Metadata
<1>5. CASE Replacing
  <2>0. pc # "idle" => xmpPath = "none"
    BY <1>0 DEF Ways, DstEmbeds
  <2>1. CASE NothingToReplace
    BY <1>0, <2>1, FinishMetadata DEF NothingToReplace, Finish, MetadataKept
  <2>2. CASE Replace
    <3> DEFINE d == Replaced
    <3>1. /\ "photo" \in DOMAIN d
          /\ d["photo"] = IF job.copy THEN disk["photo"] ELSE disk["temp"]
      BY <1>0 DEF Replaced, BackUp, With, Without, Dst
    <3> HIDE DEF d
    <3>2. Finish(d, "OK")
      BY <2>0, <2>2 DEF Replace, AfterReplace, d
    <3>3. noted' \subseteq d["photo"].meta
      BY <1>0, <2>2, <3>1, <3>2 DEF Replace, Finish, MetadataKept, Written
    <3>4. QED
      BY <3>1, <3>2, <3>3, FinishMetadata DEF Finish
  <2>3. CASE ReplaceFails
    BY <1>0, <2>0, <2>3, FinishMetadata DEF ReplaceFails, AfterReplace, Finish
  <2>4. CASE ReplaceSidecar \/ ReplaceSidecarFails
    BY <2>0, <2>4 DEF ReplaceSidecar, ReplaceSidecarFails, Ways
  <2>5. QED
    BY <1>5, <2>1, <2>2, <2>3, <2>4 DEF Replacing
<1>6. CASE Crash
  BY <1>0, <1>6, FinishMetadata DEF Crash, history
<1>7. QED
  BY <1>1, <1>2, <1>3, <1>4, <1>5, <1>6 DEF Next

\* Whatever fails and wherever the program ends, the metadata in the photo that an OK vouched
\* for stay in it: an update that writes metadata puts its own to those it has read from the
\* photo, and a file that takes the photo's place began as its copy.
THEOREM MetadataIsKept == Spec => []EmbeddedMetadataKept
<1>1. Init => MetadataKept
  BY DEF Init, MetadataKept, Written, Exists, NewPhoto
<1>2. UpdateInv /\ MetadataKept /\ [Next]_vars => MetadataKept'
  <2>1. ASSUME MetadataKept, UNCHANGED vars
        PROVE  MetadataKept'
    BY <2>1 DEF MetadataKept, Written, Exists, vars, state, history
  <2>2. QED
    BY <2>1, MetadataStaysKept
<1>3. MetadataKept => EmbeddedMetadataKept
  BY DEF MetadataKept, EmbeddedMetadataKept
<1>4. QED
  BY <1>1, <1>2, <1>3, UpdatesKeepInv, PTL DEF Spec

-----------------------------------------------------------------------------

\* A step that changes neither the photo's pixels nor the original.
Untouched ==
    /\ disk'["photo"].pixels = disk["photo"].pixels
    /\ Exists("original") => disk'["original"] = disk["original"]

\* An end that leaves photo and original on the disk as they were.
LEMMA FinishUntouched ==
    ASSUME UpdateInv, NEW d, NEW result, Leave(d, result),
           \A n \in {"photo", "original"} \cap DOMAIN disk : n \in DOMAIN d /\ d[n] = disk[n]
    PROVE  Untouched
<1>1. \A n \in DOMAIN d \ {"temp", "tempSidecar"} : disk'[n] = d[n]
  BY DEF Leave, Without
<1>2. QED
  BY <1>1 DEF Untouched, Exists, UpdateInv, TypeOK

\* Once there is an original it stays, and a replacement that keeps the original leaves
\* one with no pixels that the photo did not have.
THEOREM OriginalStays == Spec => OriginalIsKept
<1>1. UpdateInv /\ [Next]_vars => [KeepsOriginal]_vars
  <2> SUFFICES ASSUME UpdateInv, [Next]_vars
               PROVE  KeepsOriginal
    OBVIOUS
  <2>0. "photo" \in DOMAIN disk /\ (Untouched => KeepsOriginal)
    BY DEF UpdateInv, TypeOK, Exists, Untouched, KeepsOriginal
  <2>1. CASE \/ RenderFails \/ CreateFails \/ FillShort \/ CopyFails \/ ReplaceSidecarFails
             \/ NothingToReplace \/ Crash
    <3>1. \E result : Leave(disk, result)
      BY <2>1 DEF RenderFails, CreateFails, FillShort, CopyFails, ReplaceSidecarFails, NothingToReplace,
                  Crash, Finish
    <3>2. QED
      BY <2>0, <3>1, FinishUntouched
  <2>2. CASE ReadThrows \/ CloseThrows
    <3> DEFINE d == IF temp THEN Without(disk, {"temp"}) ELSE disk
    <3>1. Leave(d, "FAILED")
      BY <2>2 DEF ReadThrows, CloseThrows, Catch, Finish
    <3>2. \A n \in {"photo", "original"} \cap DOMAIN disk : n \in DOMAIN d /\ d[n] = disk[n]
      BY DEF Without
    <3> HIDE DEF d
    <3>3. QED
      BY <2>0, <3>1, <3>2, FinishUntouched
  <2>3. CASE ReplaceSidecar
    <3> DEFINE d == With(disk, DstSidecar, disk[xmpPath])
    <3>1. Leave(d, "OK")
      BY <2>3 DEF ReplaceSidecar, Finish
    <3>2. \A n \in {"photo", "original"} \cap DOMAIN disk : n \in DOMAIN d /\ d[n] = disk[n]
      BY DEF With, DstSidecar
    <3> HIDE DEF d
    <3>3. QED
      BY <2>0, <3>1, <3>2, FinishUntouched
  <2>4. CASE CreateTemp \/ FillTemp \/ CopyTemp \/ PutSidecar \/ FlushSidecar
    <3>1. PICK n \in {"temp", "sidecar", "tempSidecar"} :
             \A m \in DOMAIN disk \ {n} : disk'[m] = disk[m]
      BY <2>4 DEF CreateTemp, FillTemp, CopyTemp, PutSidecar, FlushSidecar, With, TargetSidecar
    <3>2. QED
      BY <2>0, <3>1 DEF Untouched, Exists
  <2>5. CASE PutEmbedded \/ CloseEmbedded
    <3>1. Target \in {"temp", "photo", "copy"}
      BY DEF Target, Dst
    <3>2. /\ \A m \in DOMAIN disk \ {Target} : disk'[m] = disk[m]
          /\ Target \in DOMAIN disk => disk'[Target].pixels = disk[Target].pixels
      <4>1. Target \in DOMAIN disk => disk[Target] \in Content
        BY DEF UpdateInv, TypeOK
      <4>2. QED
        BY <2>5, <4>1 DEF PutEmbedded, CloseEmbedded, Content
    <3>3. QED
      BY <2>0, <3>1, <3>2 DEF Untouched, Exists
  <2>6. CASE UNCHANGED disk
    BY <2>0, <2>6 DEF Untouched
  <2>7. CASE Replace
    <3>1. "temp" \in DOMAIN disk
      BY <2>7 DEF Replace, Exists
    <3>2. \A n \in {"photo", "original"} \cap DOMAIN Replaced : n \in DOMAIN disk' /\ disk'[n] = Replaced[n]
      BY <2>7 DEF Replace, AfterReplace, Finish, Leave, Without
    <3>3. "original" \in DOMAIN disk => disk["original"].pixels \subseteq disk["photo"].pixels
      BY DEF UpdateInv, Contents, Exists
    <3>4. QED
      BY <2>0, <3>1, <3>2, <3>3, ReplacedFiles DEF KeepsOriginal, Exists
  <2>8. CASE ReplaceFails
    <3>1. UNCHANGED disk \/ Leave(disk, "FAILED")
      BY <2>8 DEF ReplaceFails, AfterReplace, Finish
    <3>2. QED
      BY <2>0, <2>6, <3>1, FinishUntouched
  <2>9. (\E j \in Job : Begin(j)) \/ Render \/ NothingToEdit \/ ReadMetadata \/ ReadNothing \/ PutNothing
            \/ UNCHANGED vars => UNCHANGED disk
    BY DEF Begin, Render, NothingToEdit, ReadMetadata, ReadNothing, PutNothing, vars
  <2>10. QED
    BY <2>1, <2>2, <2>3, <2>4, <2>5, <2>6, <2>7, <2>8, <2>9
       DEF Next, Rendering, Copying, Metadata, Replacing
<1>2. QED
  BY <1>1, UpdatesKeepInv, PTL DEF Spec, OriginalIsKept

-----------------------------------------------------------------------------
(* Sync *)

\* The variables keep their types.
THEOREM SyncTypeCorrect == SyncSpec => []SyncTypeOK
<1> USE SyncAssumption
<1>1. SyncInit => SyncTypeOK
  <2> SUFFICES ASSUME SyncInit
               PROVE  SyncTypeOK
    OBVIOUS
  <2>1. tree \in [Place -> [File -> Date]] /\ phase = "idle"
    BY DEF SyncInit
  <2>2. flags \in Flags /\ action \in [File -> Action] /\ action = [f \in File |-> "none"]
    BY DEF SyncInit, Unset, Flags, Action, NoAction
  <2>3. next = 0 /\ local \in [File -> Root \cup {0}] /\ seen \in [File -> Date]
    BY DEF SyncInit, Nothing, Root, Date
  <2>4. unlisted \in BOOLEAN /\ changed \in BOOLEAN /\ undone \in BOOLEAN /\ twins \in BOOLEAN
    BY Zenon DEF SyncInit
  <2>5. QED
    BY <2>1, <2>2, <2>3, <2>4 DEF SyncTypeOK
<1>2. SyncTypeOK /\ [SyncNext]_syncVars => SyncTypeOK'
  <2> SUFFICES ASSUME SyncTypeOK, [SyncNext]_syncVars
               PROVE  SyncTypeOK'
    OBVIOUS
  <2> USE DEF SyncTypeOK, Action, Date, Root, Remote, Place
  <2>1. ASSUME NEW fl \in Flags, Start(fl)
        PROVE  SyncTypeOK'
    BY <2>1 DEF Start
  <2>2. ASSUME NEW out \in SUBSET File, ListRoot(out)
        PROVE  SyncTypeOK'
    <3>1. next \in Root /\ next' \in Root \cup {0}
      BY <2>2 DEF ListRoot
    <3>2. (next' # 0 <=> phase' = "local") /\ phase' \in {"remote", "local"}
      BY <2>2, <3>1 DEF ListRoot
    <3>3. /\ local' \in [File -> Root \cup {0}]
          /\ seen' \in [File -> Date]
          /\ unlisted' \in BOOLEAN
      BY <2>2, <3>1 DEF ListRoot, LeavesOut
    <3>4. QED
      BY <2>2, <3>1, <3>2, <3>3 DEF ListRoot
  <2>3. ASSUME NEW out \in SUBSET File, ListRemote(out)
        PROVE  SyncTypeOK'
    BY <2>3 DEF ListRemote, Decided
  <2>4. ASSUME NEW f \in File, Perform(f)
        PROVE  SyncTypeOK'
    <3>1. Home(f) \in Root
      BY DEF Home
    <3>2. tree' \in [Place -> [File -> Date]]
      <4>1. \A p \in Place : tree[p][f] \in Date
        OBVIOUS
      <4>2. Home(f) \in Place /\ Remote \in Place /\ 0 \in Date
        BY <3>1
      <4>3. PICK p \in Place, d \in Date : tree' = [tree EXCEPT ![p][f] = d]
        BY <2>4, <4>1, <4>2 DEF Perform, Copied
      <4>4. QED
        BY <4>3
    <3>3. action' \in [File -> Action] /\ phase' = "copy"
      BY <2>4 DEF Perform, Done
    <3>4. QED
      BY <2>4, <3>2, <3>3 DEF Perform, observed
  <2>5. ASSUME NEW f \in File, PerformFails(f)
        PROVE  SyncTypeOK'
    BY <2>5 DEF PerformFails, Done
  <2>6. CASE FinishSync \/ Cancel
    <3>1. Forget
      BY <2>6 DEF FinishSync, Cancel
    <3>2. flags' \in Flags
      BY <3>1 DEF Forget, Unset, Flags
    <3>3. local' \in [File -> Root \cup {0}] /\ seen' \in [File -> Date]
      BY <3>1 DEF Forget, Nothing
    <3>4. action' \in [File -> Action] /\ action' = [f \in File |-> "none"]
      BY <3>1 DEF Forget, NoAction
    <3>5. unlisted' \in BOOLEAN /\ changed' \in BOOLEAN /\ undone' \in BOOLEAN /\ twins' \in BOOLEAN
      BY <3>1, Zenon DEF Forget
    <3>6. QED
      BY <3>1, <3>2, <3>3, <3>4, <3>5 DEF Forget
  <2>7. ASSUME NEW p \in Place, NEW f \in File, NEW d \in Date, Change(p, f, d)
        PROVE  SyncTypeOK'
    BY <2>7 DEF Change, analysis
  <2>8. CASE UNCHANGED syncVars
    BY <2>8 DEF syncVars, analysis, observed
  <2>9. QED
    BY <2>1, <2>2, <2>3, <2>4, <2>5, <2>6, <2>7, <2>8 DEF SyncNext
<1>3. QED
  BY <1>1, <1>2, PTL DEF SyncSpec

-----------------------------------------------------------------------------

\* What the analysis knows of a file, the roots after the k-th being listed.
SeenAs(f, k) ==
    \/ local[f] = 0 /\ seen[f] = 0 /\ \A p \in Root : p > k => tree[p][f] = 0
    \/ local[f] \in Root /\ local[f] > k /\ seen[f] # 0 /\ seen[f] = tree[local[f]][f]

\* Nothing was missed: all folders were listed and nobody else changed a file.
Clear == ~unlisted /\ ~changed

\* While nothing was missed the analysis is right about every file it has listed, and
\* then about every file that is still to be copied or deleted.
Informed ==
    /\ phase = "idle" => local = Nothing /\ seen = Nothing
    /\ (Clear /\ phase \in {"local", "remote"}) => \A f \in File : SeenAs(f, next)
    /\ (Clear /\ phase = "copy") =>
          \A f \in File : action[f] # "none" => SeenAs(f, 0) /\ action[f] = Decided(f, tree[Remote][f])

\* The analysis is right about what it has listed, as long as nothing was missed.
LEMMA AnalysisInformed == SyncSpec => []Informed
<1> USE SyncAssumption
<1>1. SyncInit => Informed
  BY DEF SyncInit, Informed
<1>2. SyncTypeOK /\ Informed /\ [SyncNext]_syncVars => Informed'
  <2> SUFFICES ASSUME SyncTypeOK, Informed, [SyncNext]_syncVars
               PROVE  Informed'
    OBVIOUS
  <2> USE DEF Informed, Clear
  <2>1. ASSUME NEW fl \in Flags, Start(fl)
        PROVE  Informed'
    <3>1. \A f \in File : SeenAs(f, Roots)
      BY <2>1 DEF Start, SeenAs, Nothing, Root
    <3>2. \A f \in File : SeenAs(f, next)'
      BY <2>1, <3>1 DEF Start, SeenAs
    <3>3. QED
      BY <2>1, <3>2 DEF Start
  <2>2. ASSUME NEW out \in SUBSET File, ListRoot(out)
        PROVE  Informed'
    <3>1. phase = "local" /\ next \in 1..Roots /\ next' = next - 1 /\ phase' \in {"local", "remote"}
      BY <2>2 DEF ListRoot, SyncTypeOK, Root
    <3>2. ASSUME Clear', NEW f \in File
          PROVE  SeenAs(f, next)'
      <4>1. Clear /\ SeenAs(f, next) /\ (f \in Visible(next, out) <=> tree[next][f] # 0)
        BY <2>2, <3>1, <3>2 DEF ListRoot, LeavesOut, Visible
      <4>2. CASE f \in Visible(next, out)
        <5>1. local'[f] = next /\ seen'[f] = tree[next][f] /\ tree' = tree
          BY <2>2, <4>2 DEF ListRoot
        <5>2. QED
          BY <3>1, <4>1, <4>2, <5>1 DEF SeenAs, Root
      <4>3. CASE f \notin Visible(next, out)
        <5>1. local'[f] = local[f] /\ seen'[f] = seen[f] /\ tree' = tree
          BY <2>2, <4>3 DEF ListRoot, SyncTypeOK
        <5>2. QED
          BY <3>1, <4>1, <4>3, <5>1 DEF SeenAs, Root
      <4>4. QED
        BY <4>2, <4>3
    <3>3. QED
      BY <3>1, <3>2
  <2>3. ASSUME NEW out \in SUBSET File, ListRemote(out)
        PROVE  Informed'
    <3>1. phase = "remote" /\ phase' = "copy" /\ next = 0
      BY <2>3 DEF ListRemote, SyncTypeOK
    <3>2. ASSUME Clear', NEW f \in File
          PROVE  SeenAs(f, 0)' /\ action'[f] = Decided(f, tree[Remote][f])'
      <4>1. Clear /\ SeenAs(f, 0) /\ (f \in Visible(Remote, out) <=> tree[Remote][f] # 0)
        BY <2>3, <3>1, <3>2 DEF ListRemote, LeavesOut, Visible
      <4>2. action'[f] = Decided(f, tree[Remote][f])
        BY <2>3, <4>1 DEF ListRemote
      <4>3. QED
        BY <2>3, <4>1, <4>2 DEF ListRemote, SeenAs, Decided
    <3>3. QED
      BY <3>1, <3>2
  <2>4. ASSUME NEW f \in File, Perform(f) \/ PerformFails(f)
        PROVE  Informed'
    <3>1. /\ phase = "copy" /\ phase' = "copy" /\ action' = [action EXCEPT ![f] = "none"]
          /\ UNCHANGED <<flags, local, seen, unlisted, changed>>
      BY <2>4 DEF Perform, PerformFails, Done, observed
    <3>2. \A g \in File \ {f}, p \in Place : tree'[p][g] = tree[p][g]
      BY <2>4 DEF Perform, PerformFails, Copied, SyncTypeOK
    <3>3. ASSUME Clear', NEW g \in File, action'[g] # "none"
          PROVE  SeenAs(g, 0)' /\ action'[g] = Decided(g, tree[Remote][g])'
      <4>1. g # f /\ action'[g] = action[g] /\ Clear
        BY <3>1, <3>3 DEF SyncTypeOK
      <4>2. SeenAs(g, 0) /\ action[g] = Decided(g, tree[Remote][g])
        BY <3>1, <3>3, <4>1
      <4>3. SeenAs(g, 0)'
        BY <3>1, <3>2, <4>1, <4>2 DEF SeenAs, Place
      <4>4. tree'[Remote][g] = tree[Remote][g]
        BY <3>2, <4>1 DEF Place
      <4>5. QED
        BY <3>1, <4>1, <4>2, <4>3, <4>4 DEF Decided
    <3>4. QED
      BY <3>1, <3>3
  <2>5. CASE FinishSync \/ Cancel
    BY <2>5 DEF FinishSync, Cancel, Forget
  <2>6. ASSUME NEW p \in Place, NEW f \in File, NEW d \in Date, Change(p, f, d)
        PROVE  Informed'
    BY <2>6 DEF Change, analysis
  <2>7. CASE UNCHANGED syncVars
    BY <2>7 DEF syncVars, analysis, observed, SeenAs, Decided
  <2>8. QED
    BY <2>1, <2>2, <2>3, <2>4, <2>5, <2>6, <2>7 DEF SyncNext
<1>3. QED
  BY <1>1, <1>2, SyncTypeCorrect, PTL DEF SyncSpec

-----------------------------------------------------------------------------

\* One copy or deletion of what was rightly seen is as the check boxes say.
LEMMA PerformAsLabelled ==
    ASSUME SyncTypeOK, NEW f \in File, Perform(f), SeenAs(f, 0),
           action[f] = Decided(f, tree[Remote][f])
    PROVE  \A g \in File : AsLabelled(g)
<1> USE SyncAssumption
<1>1. \A p \in Place, g \in File : tree[p][g] \in Nat
  BY DEF SyncTypeOK, Date
<1>2. Home(f) \in Root /\ Root \subseteq Place /\ Remote \in Place /\ Remote \notin Root
  BY DEF Home, Root, Remote, Place, SyncTypeOK
<1>3. ASSUME NEW g \in File \ {f}
      PROVE  AsLabelled(g)
  <2>1. \A p \in Place : tree'[p][g] = tree[p][g]
    BY DEF Perform, Copied, SyncTypeOK
  <2>2. QED
    BY <1>1, <1>2, <2>1 DEF AsLabelled
<1>4. seen[f] \in Nat /\ tree[Home(f)][f] = seen[f]
  <2>1. CASE local[f] = 0
    BY <1>1, <1>2, <2>1 DEF SeenAs, Home, SyncTypeOK, Date, Root
  <2>2. CASE local[f] # 0
    BY <1>1, <1>2, <2>2 DEF SeenAs, Home, SyncTypeOK, Date, Root
  <2>3. QED
    BY <2>1, <2>2
<1>5. AsLabelled(f)
  <2>1. CASE action[f] = "copy_local"
    <3>1. seen[f] < tree[Remote][f]
      BY <1>1, <1>2, <1>4, <2>1 DEF Decided
    <3>2. tree' = [tree EXCEPT ![Home(f)][f] = tree[Remote][f]]
      BY <2>1 DEF Perform, Copied
    <3>3. tree'[Home(f)][f] = tree[Remote][f] /\ \A p \in Place \ {Home(f)} : tree'[p][f] = tree[p][f]
      BY <1>2, <3>2 DEF SyncTypeOK
    <3>4. QED
      BY <1>1, <1>2, <1>4, <3>1, <3>3 DEF AsLabelled
  <2>2. CASE action[f] = "copy_remote"
    <3>1. tree[Remote][f] < seen[f]
      BY <1>1, <1>2, <1>4, <2>2 DEF Decided
    <3>2. tree' = [tree EXCEPT ![Remote][f] = tree[Home(f)][f]]
      BY <2>2 DEF Perform, Copied
    <3>3. tree'[Remote][f] = seen[f] /\ \A p \in Place \ {Remote} : tree'[p][f] = tree[p][f]
      BY <1>2, <1>4, <3>2 DEF SyncTypeOK
    <3>4. QED
      BY <1>1, <1>2, <1>4, <3>1, <3>3 DEF AsLabelled
  <2>3. CASE action[f] = "delete_local"
    <3>1. tree[Remote][f] = 0
      BY <1>1, <1>2, <1>4, <2>3 DEF Decided
    <3>2. tree' = [tree EXCEPT ![Home(f)][f] = 0]
      BY <2>3 DEF Perform, Copied
    <3>3. tree'[Home(f)][f] = 0 /\ \A p \in Place \ {Home(f)} : tree'[p][f] = tree[p][f]
      BY <1>2, <3>2 DEF SyncTypeOK
    <3>4. QED
      BY <1>1, <1>2, <1>4, <3>1, <3>3 DEF AsLabelled
  <2>4. CASE action[f] = "delete_remote"
    <3>1. seen[f] = 0
      BY <1>1, <1>2, <1>4, <2>4 DEF Decided
    <3>2. \A p \in Root : tree[p][f] = 0
      BY <3>1 DEF SeenAs, Root
    <3>3. tree' = [tree EXCEPT ![Remote][f] = 0]
      BY <2>4 DEF Perform, Copied
    <3>4. tree'[Remote][f] = 0 /\ \A p \in Place \ {Remote} : tree'[p][f] = tree[p][f]
      BY <1>2, <3>3 DEF SyncTypeOK
    <3>5. QED
      BY <1>1, <1>2, <1>4, <3>2, <3>4 DEF AsLabelled
  <2>5. QED
    BY <2>1, <2>2, <2>3, <2>4 DEF Perform
<1>6. QED
  BY <1>3, <1>5

\* What was listed whole is copied and deleted as the labels of the check boxes say,
\* whatever is cancelled and fails.
THEOREM LabelsAreKept == SyncSpec => LabelsHoldWhenListed
<1>1. SyncTypeOK /\ Informed /\ [SyncNext]_syncVars => [DoesAsLabelled]_syncVars
  <2> SUFFICES ASSUME SyncTypeOK, Informed, [SyncNext]_syncVars, Undisturbed, ~unlisted
               PROVE  \A f \in File : AsLabelled(f)
    BY DEF DoesAsLabelled
  <2>1. phase = "copy" /\ Clear /\ ~changed'
    BY DEF Undisturbed, Clear
  <2>2. ASSUME NEW f \in File, Perform(f)
        PROVE  \A g \in File : AsLabelled(g)
    BY <2>1, <2>2, PerformAsLabelled DEF Informed, Perform
  <2>3. ASSUME tree' = tree
        PROVE  \A g \in File : AsLabelled(g)
    <3>1. \A p \in Place, g \in File : tree[p][g] \in Nat /\ tree'[p][g] = tree[p][g]
      BY <2>3 DEF SyncTypeOK, Date
    <3>2. Root \subseteq Place /\ Remote \in Place
      BY DEF Place
    <3>3. QED
      BY <3>1, <3>2 DEF AsLabelled
  <2>4. ASSUME NEW f \in File, PerformFails(f)
        PROVE  tree' = tree
    BY <2>4 DEF PerformFails
  <2>5. FinishSync \/ Cancel \/ UNCHANGED syncVars => tree' = tree
    BY DEF FinishSync, Cancel, Forget, syncVars
  <2>6. QED
    BY <2>1, <2>2, <2>3, <2>4, <2>5 DEF SyncNext, Start, ListRoot, ListRemote, Change
<1>2. QED
  BY <1>1, SyncTypeCorrect, AnalysisInformed, PTL DEF SyncSpec, LabelsHoldWhenListed

-----------------------------------------------------------------------------

\* A file that is in one root at most has the date it has there.
LEMMA FirstDateIsTheOnly ==
    ASSUME NEW dates \in [Root -> Nat], NEW h \in Root,
           \A p \in Root : dates[p] # 0 => p = h
    PROVE  FirstDate(dates) = dates[h]
<1> DEFINE having == {p \in Root : dates[p] # 0}
<1>1. CASE having = {}
  BY <1>1 DEF FirstDate
<1>2. CASE having # {}
  <2>1. having = {h}
    BY <1>2
  <2>2. (CHOOSE p \in having : \A q \in having : p <= q) = h
    BY <2>1, SyncAssumption DEF Root
  <2>3. QED
    BY <1>2, <2>2 DEF FirstDate
<1>3. QED
  BY <1>1, <1>2

\* No file comes to be in two roots when nothing was missed, and a file that nothing
\* is to be done for is settled.
Unique == (phase # "idle" /\ Clear /\ ~twins) => NoTwins

Settling ==
    (phase = "copy" /\ Clear /\ ~twins /\ ~undone) => \A f \in File : action[f] = "none" => Settled(f)

\* A file is settled when the decision is that nothing is to be done.
LEMMA NothingDecidedIsSettled ==
    ASSUME SyncTypeOK, NEW f \in File, NoTwins, SeenAs(f, 0), Decided(f, tree[Remote][f]) = "none"
    PROVE  Settled(f)
<1> USE SyncAssumption
<1> DEFINE dates == [p \in Root |-> tree[p][f]]
<1>1. dates \in [Root -> Nat] /\ Home(f) \in Root /\ tree[Remote][f] \in Nat /\ seen[f] \in Nat
  BY DEF SyncTypeOK, Date, Place, Home, Root
<1>2. \A p \in Root : dates[p] # 0 => p = Home(f)
  BY DEF SeenAs, Home, NoTwins, Root
<1>3. dates[Home(f)] = seen[f]
  BY <1>1 DEF SeenAs, Home, Root
<1>4. FirstDate(dates) = seen[f]
  <2> HIDE DEF dates
  <2>1. QED
    BY <1>1, <1>2, <1>3, FirstDateIsTheOnly
<1>5. QED
  BY <1>1, <1>4 DEF Settled, Decided, SyncTypeOK, Flags

\* What is done settles a file, and puts it into no second root.
LEMMA PerformSettles ==
    ASSUME SyncTypeOK, SyncTypeOK', NEW f \in File, NoTwins, Perform(f), SeenAs(f, 0),
           action[f] = Decided(f, tree[Remote][f])
    PROVE  NoTwins' /\ Settled(f)'
<1> USE SyncAssumption
<1> DEFINE dates == [p \in Root |-> tree'[p][f]]
<1>1. /\ \A p \in Place, g \in File : tree[p][g] \in Nat /\ tree'[p][g] \in Nat
      /\ Home(f) \in Root /\ Home(f) # Remote /\ Root \subseteq Place /\ Remote \in Place \ Root
  <2>1. \A p \in Place, g \in File : tree[p][g] \in Nat /\ tree'[p][g] \in Nat
    BY DEF SyncTypeOK, Date
  <2>2. QED
    BY <2>1 DEF Home, Root, Remote, Place, SyncTypeOK
<1>2. \A p \in Root : tree[p][f] # 0 => p = Home(f)
  BY DEF SeenAs, Home, NoTwins, Root
<1>3. tree[Home(f)][f] = seen[f]
  BY <1>1 DEF SeenAs, Home, Root
<1>4. \A p \in Root : tree'[p][f] # 0 => p = Home(f)
  <2>1. \A p \in Root \ {Home(f)} : tree'[p][f] = tree[p][f]
    <3>1. PICK q \in {Home(f), Remote}, d \in Nat : tree' = [tree EXCEPT ![q][f] = d]
      BY <1>1 DEF Perform, Copied
    <3>2. QED
      BY <1>1, <3>1 DEF SyncTypeOK
  <2>2. QED
    BY <1>2, <2>1
<1>5. NoTwins'
  <2>1. \A g \in File \ {f}, p \in Place : tree'[p][g] = tree[p][g]
    BY DEF Perform, Copied, SyncTypeOK
  <2>2. QED
    BY <1>1, <1>4, <2>1 DEF NoTwins
<1>6. FirstDate(dates) = tree'[Home(f)][f]
  <2>1. dates \in [Root -> Nat] /\ dates[Home(f)] = tree'[Home(f)][f]
    BY <1>1
  <2>2. \A p \in Root : dates[p] # 0 => p = Home(f)
    BY <1>4
  <2> HIDE DEF dates
  <2>3. QED
    BY <1>1, <2>1, <2>2, FirstDateIsTheOnly
<1>7. /\ tree'[Home(f)][f] = tree'[Remote][f]
      /\ flags' = flags
  <2>1. flags' = flags
    BY DEF Perform
  <2>2. CASE action[f] = "copy_local"
    BY <1>1, <2>2 DEF Perform, Copied, SyncTypeOK
  <2>3. CASE action[f] = "copy_remote"
    BY <1>1, <2>3 DEF Perform, Copied, SyncTypeOK
  <2>4. CASE action[f] = "delete_local"
    <3>1. tree[Remote][f] = 0
      BY <2>4 DEF Decided
    <3>2. QED
      BY <1>1, <2>4, <3>1 DEF Perform, Copied, SyncTypeOK
  <2>5. CASE action[f] = "delete_remote"
    <3>1. seen[f] = 0
      BY <2>5 DEF Decided
    <3>2. QED
      BY <1>1, <1>3, <2>5, <3>1 DEF Perform, Copied, SyncTypeOK
  <2>6. QED
    BY <2>1, <2>2, <2>3, <2>4, <2>5 DEF Perform
<1>8. QED
  BY <1>1, <1>5, <1>6, <1>7 DEF Settled

\* What the analysis decided, and the copies keep to, of each file.
LEMMA FilesAreSettled == SyncSpec => [](Unique /\ Settling)
<1> USE SyncAssumption
<1>1. SyncInit => Unique /\ Settling
  BY DEF SyncInit, Unique, Settling
<1>2. SyncTypeOK /\ SyncTypeOK' /\ Informed /\ Informed' /\ Unique /\ Settling /\ [SyncNext]_syncVars
        => Unique' /\ Settling'
  <2> SUFFICES ASSUME SyncTypeOK, SyncTypeOK', Informed, Informed', Unique, Settling, [SyncNext]_syncVars
               PROVE  Unique' /\ Settling'
    OBVIOUS
  <2>1. ASSUME NEW fl \in Flags, Start(fl)
        PROVE  Unique' /\ Settling'
    BY <2>1 DEF Start, NoTwins, Unique, Settling
  <2>2. ASSUME NEW out \in SUBSET File, ListRoot(out)
        PROVE  Unique' /\ Settling'
    BY <2>2 DEF ListRoot, NoTwins, Unique, Settling, Clear
  <2>3. ASSUME NEW out \in SUBSET File, ListRemote(out)
        PROVE  Unique' /\ Settling'
    <3>1. Unique'
      BY <2>3 DEF ListRemote, NoTwins, Unique, Clear
    <3>2. ASSUME Clear', ~twins', NEW f \in File, action'[f] = "none"
          PROVE  Settled(f)'
      <4>1. Clear /\ NoTwins /\ phase = "remote" /\ next = 0
        BY <2>3, <3>2 DEF ListRemote, Unique, Clear, SyncTypeOK
      <4>2. SeenAs(f, 0)
        BY <4>1 DEF Informed
      <4>3. Decided(f, tree[Remote][f]) = "none"
        <5>1. f \in Visible(Remote, out) <=> tree[Remote][f] # 0
          BY <2>3, <3>2 DEF ListRemote, LeavesOut, Visible, Clear
        <5>2. QED
          BY <2>3, <3>2, <5>1 DEF ListRemote
      <4>4. Settled(f)
        BY <4>1, <4>2, <4>3, NothingDecidedIsSettled
      <4>5. QED
        BY <2>3, <4>4 DEF ListRemote, Settled
    <3>3. QED
      BY <3>1, <3>2 DEF Settling
  <2>4. ASSUME NEW f \in File, Perform(f)
        PROVE  Unique' /\ Settling'
    <3>1. /\ phase = "copy" /\ phase' = "copy" /\ action[f] # "none" /\ action' = [action EXCEPT ![f] = "none"]
          /\ UNCHANGED <<flags, observed>>
      BY <2>4 DEF Perform, Done
    <3>2. ASSUME Clear, ~twins
          PROVE  NoTwins' /\ Settled(f)'
      <4>1. NoTwins /\ SeenAs(f, 0) /\ action[f] = Decided(f, tree[Remote][f])
        BY <3>1, <3>2 DEF Unique, Informed
      <4>2. QED
        BY <2>4, <4>1, PerformSettles
    <3>3. ASSUME NEW g \in File \ {f}
          PROVE  Settled(g)' <=> Settled(g)
      <4>1. \A p \in Place : tree'[p][g] = tree[p][g]
        BY <2>4 DEF Perform, Copied, SyncTypeOK
      <4>2. [p \in Root |-> tree'[p][g]] = [p \in Root |-> tree[p][g]] /\ tree'[Remote][g] = tree[Remote][g]
        BY <4>1 DEF Place
      <4>3. QED
        BY <3>1, <4>2 DEF Settled
    <3>4. \A g \in File \ {f} : action'[g] = action[g]
      BY <3>1 DEF SyncTypeOK
    <3>5. QED
      BY <3>1, <3>2, <3>3, <3>4 DEF Unique, Settling, Clear, observed
  <2>5. ASSUME NEW f \in File, PerformFails(f)
        PROVE  Unique' /\ Settling'
    BY <2>5 DEF PerformFails, NoTwins, Unique, Settling, Clear
  <2>6. CASE FinishSync \/ Cancel
    BY <2>6 DEF FinishSync, Cancel, Forget, Unique, Settling
  <2>7. ASSUME NEW p \in Place, NEW f \in File, NEW d \in Date, Change(p, f, d)
        PROVE  Unique' /\ Settling'
    BY <2>7 DEF Change, Unique, Settling, Clear
  <2>8. CASE UNCHANGED syncVars
    BY <2>8 DEF syncVars, observed, analysis, NoTwins, Unique, Settling, Clear, Settled
  <2>9. QED
    BY <2>1, <2>2, <2>3, <2>4, <2>5, <2>6, <2>7, <2>8 DEF SyncNext
<1>3. QED
  BY <1>1, <1>2, SyncTypeCorrect, AnalysisInformed, PTL DEF SyncSpec

\* A synchronization that nothing disturbs leaves nothing for another one to do.
THEOREM SettlesAll == SyncSpec => []SyncSettles
<1>1. SyncTypeOK /\ Settling => SyncSettles
  BY DEF Settling, SyncSettles, Clear, NoAction
<1>2. QED
  BY <1>1, SyncTypeCorrect, FilesAreSettled, PTL

-----------------------------------------------------------------------------
(* Import *)

\* The records of the queues and the plan.
Arrived == [of : Item, date : 1..MaxFileDate]
Taken == [of : Item, date : 1..MaxFileDate, as : Names]

Load == [kind : {"load"}, records : {{}}, option : Option, gen : Nat, known : SUBSET Record]
Post == [kind : {"write"}, records : SUBSET Record]

RunOf == [option : Option, gen : Nat, known : SUBSET Record, previous : SUBSET Record]

Planned == [from : Item, to : Names, record : Names \X FileDate, wanted : BOOLEAN]

FilesTyped ==
    /\ source \in [Item -> FileDate] /\ dest \in [Names -> Arrived \cup {NoFile}]
    /\ rows \subseteq Record /\ imports \subseteq Record /\ moved \subseteq Taken

QueuesTyped ==
    /\ tasks \in Seq(Load \cup Post) /\ runs \in Seq(RunOf)
    /\ gen \in Nat
    /\ \A k \in 1..Len(tasks) : tasks[k].kind = "load" => tasks[k].gen <= gen
    /\ \A k \in 1..Len(runs) : runs[k].gen <= gen

WorkTyped ==
    /\ waiting \in BOOLEAN
    /\ import \in {"idle", "analyse", "copy", "post"}
    /\ left \in Seq(Item) /\ plan \in Seq(Planned)
    /\ import # "idle" => runs # <<>>
    /\ import \in {"idle", "post"} => plan = <<>>

\* What was on record when a run was asked for is in the table when its load is carried out, for
\* the writes that were to come are ahead of the load; so the run knows it.
Known ==
    /\ \A k \in 1..Len(tasks) : tasks[k].kind = "load" =>
          \A r \in tasks[k].known : r \in rows \/ \E j \in 1..(k - 1) : r \in tasks[j].records
    /\ \A k \in 1..Len(runs) : runs[k].option.ignore => runs[k].known \subseteq runs[k].previous

\* What an entry of the plan was found to be, of the files as they are when it is copied.
Current(e) ==
    e.wanted =>
        /\ e.record \in Record /\ e.record \notin Run.previous /\ e.record[1] = e.to
        /\ (source[e.from] # 0 /\ dest[e.to] # NoFile /\ ~PutThereByRun(e.to)) =>
              Run.option.overwrite /\ dest[e.to].date < source[e.from]

PlanIsCurrent == \A k \in 1..Len(plan) : Current(plan[k])

ImportInv == FilesTyped /\ QueuesTyped /\ WorkTyped /\ Known /\ PlanIsCurrent

-----------------------------------------------------------------------------

LEMMA ImportBasics ==
    /\ Items \in Seq(Item) /\ Sidecars \in [Item -> Seq(Item)] /\ MaxFileDate \in Nat \ {0}
    /\ 0 \in FileDate /\ 1..MaxFileDate \subseteq FileDate /\ FileDate \subseteq Nat
    /\ \A i \in Item : NameOf[i] \in Names
    /\ \A f \in Arrived : f # NoFile
BY ImportAssumption DEF FileDate, Names, Arrived, NoFile

LEMMA Appended ==
    ASSUME NEW S, NEW s \in Seq(S), NEW x \in S, NEW t, t = Append(s, x)
    PROVE /\ t \in Seq(S) /\ Len(t) = Len(s) + 1 /\ Len(s) \in Nat /\ t # <<>>
          /\ t[Len(t)] = x /\ \A k \in 1..Len(s) : t[k] = s[k]
          /\ s # <<>> => Head(t) = Head(s)
<1>1. t \in Seq(S) /\ Len(t) = Len(s) + 1 /\ Len(s) \in Nat /\ t[Len(t)] = x
    OBVIOUS
<1>2. \A k \in 1..Len(s) : t[k] = s[k]
    OBVIOUS
<1>3. s # <<>> => Head(t) = Head(s)
    BY <1>1, <1>2
<1> QED BY <1>1, <1>2, <1>3

LEMMA ByHead ==
    ASSUME NEW S, NEW s \in Seq(S), s # <<>>
    PROVE /\ Len(s) \in Nat /\ 1 \in 1..Len(s) /\ Head(s) = s[1] /\ Head(s) \in S
          /\ Tail(s) \in Seq(S) /\ Len(Tail(s)) = Len(s) - 1
          /\ \A k \in 1..Len(Tail(s)) : k + 1 \in 1..Len(s) /\ Tail(s)[k] = s[k + 1]
BY HeadTailProperties, EmptySeq

LEMMA EntriesOf ==
    ASSUME ImportInv, import = "analyse", NEW i \in Item
    PROVE /\ Entries(i) \in Seq(Planned)
          /\ \A k \in 1..Len(Entries(i)) : Current(Entries(i)[k])
<1> DEFINE files == <<i>> \o Sidecars[i]
           entry(k) == [from |-> files[k], to |-> NameOf[i], record |-> RecordOf(i),
                        wanted |-> ToImport(i) /\ ~Ignored(files[k], NameOf[i])]
<1>1. files \in Seq(Item)
    BY ImportBasics, ConcatProperties
<1>2. Len(files) \in Nat /\ DOMAIN files = 1..Len(files) /\ \A k \in 1..Len(files) : files[k] \in Item
    BY <1>1, LenProperties
<1>3. Entries(i) = [k \in 1..Len(files) |-> entry(k)]
    BY <1>2 DEF Entries
<1> HIDE DEF files
<1>4. ASSUME NEW k \in 1..Len(files) PROVE entry(k) \in Planned /\ Current(entry(k))
    <2>1. files[k] \in Item /\ NameOf[i] \in Names /\ source[i] \in FileDate
        BY <1>2, ImportBasics DEF ImportInv, FilesTyped
    <2>2. entry(k) \in Planned
        BY <2>1, Zenon DEF Planned, RecordOf
    <2>3. ASSUME entry(k).wanted PROVE RecordOf(i) \in Record /\ RecordOf(i) \notin Run.previous
        <3>1. ToImport(i)
            BY <2>3
        <3> QED BY <3>1, <2>1 DEF ToImport, RecordOf, Record, FileDate
    <2>4. ASSUME entry(k).wanted, dest[NameOf[i]] # NoFile
          PROVE Run.option.overwrite /\ dest[NameOf[i]].date < source[files[k]]
        <3>1. ~Ignored(files[k], NameOf[i])
            BY <2>4
        <3>2. dest[NameOf[i]].date \in Nat /\ source[files[k]] \in Nat
            BY <2>1, <2>4, ImportBasics DEF ImportInv, FilesTyped, Arrived
        <3> QED BY <3>1, <3>2, <2>4 DEF Ignored
    <2>5. /\ entry(k).record = RecordOf(i) /\ RecordOf(i)[1] = NameOf[i]
          /\ entry(k).to = NameOf[i] /\ entry(k).from = files[k]
        BY DEF RecordOf
    <2> HIDE DEF entry
    <2> QED BY <2>2, <2>3, <2>4, <2>5 DEF Current
<1> HIDE DEF entry
<1>5. Entries(i) \in Seq(Planned) /\ Len(Entries(i)) = Len(files)
    BY <1>2, <1>3, <1>4
<1> QED BY <1>3, <1>4, <1>5

LEMMA ImportStarts == ImportInit => ImportInv
<1> SUFFICES ASSUME ImportInit PROVE ImportInv
    OBVIOUS
<1>1. FilesTyped
    BY ImportBasics DEF ImportInit, FilesTyped
<1>2. QueuesTyped /\ Known
    BY EmptySeq DEF ImportInit, QueuesTyped, Known
<1>3. plan = <<>> /\ Len(plan) = 0 /\ left \in Seq(Item) /\ plan \in Seq(Planned)
    BY EmptySeq DEF ImportInit
<1>4. waiting \in BOOLEAN
    BY Zenon DEF ImportInit
<1>5. WorkTyped /\ PlanIsCurrent
    BY <1>3, <1>4 DEF ImportInit, WorkTyped, PlanIsCurrent
<1> QED BY <1>1, <1>2, <1>5 DEF ImportInv


\* The plan stays current while the run, the files and what it has imported stay.
LEMMA PlanStaysCurrent ==
    ASSUME ImportInv, UNCHANGED <<plan, source, dest, imports>>, plan # <<>> => Run' = Run
    PROVE PlanIsCurrent'
<1>1. CASE plan = <<>>
    BY <1>1 DEF PlanIsCurrent
<1>2. CASE plan # <<>>
    <2>1. Run' = Run
        BY <1>2
    <2> QED BY <2>1 DEF ImportInv, PlanIsCurrent, Current, PutThereByRun
<1> QED BY <1>1, <1>2

\* What is left of the plan is current.
LEMMA RestIsCurrent ==
    ASSUME ImportInv, plan # <<>>, plan' = Tail(plan), UNCHANGED runs,
           \A e \in Planned : Current(e) => Current(e)'
    PROVE plan' \in Seq(Planned) /\ PlanIsCurrent'
<1>1. /\ plan' \in Seq(Planned)
      /\ \A k \in 1..Len(plan') : plan'[k] \in Planned /\ Current(plan'[k])
    <2>1. plan \in Seq(Planned)
        BY DEF ImportInv, WorkTyped
    <2>2. plan' \in Seq(Planned) /\ \A k \in 1..Len(plan') : k + 1 \in 1..Len(plan) /\ plan'[k] = plan[k + 1]
        BY <2>1, ByHead
    <2>3. \A k \in 1..Len(plan) : plan[k] \in Planned
        BY <2>1
    <2> QED BY <2>2, <2>3 DEF ImportInv, PlanIsCurrent
<1> QED BY <1>1 DEF PlanIsCurrent

LEMMA AsksKeep ==
    ASSUME ImportInv, (\E o \in Option : Ask(o)) \/ CancelRun \/ LoadItemImports \/ WritesItemImports
    PROVE ImportInv'
<1> USE DEF ImportInv
<1>1. ASSUME NEW o \in Option, Ask(o) PROVE ImportInv'
    <2> DEFINE t == [kind |-> "load", records |-> {}, option |-> o, gen |-> gen, known |-> Posted]
    <2>1. Posted \subseteq Record /\ \A r \in Posted : r \in rows \/ \E j \in 1..Len(tasks) : r \in tasks[j].records
        <3>1. \A j \in 1..Len(tasks) : tasks[j].records \subseteq Record
            BY DEF QueuesTyped, Load, Post
        <3>2. ToSet(tasks) = {tasks[j] : j \in 1..Len(tasks)}
            BY DEF ToSet, QueuesTyped
        <3> QED BY <3>1, <3>2 DEF Posted, FilesTyped
    <2>2. t \in Load
        BY <2>1 DEF Load, QueuesTyped
    <2>3. /\ tasks' \in Seq(Load \cup Post) /\ Len(tasks') = Len(tasks) + 1 /\ Len(tasks) \in Nat
          /\ tasks'[Len(tasks')] = t /\ \A k \in 1..Len(tasks) : tasks'[k] = tasks[k]
        <3>1. tasks' = Append(tasks, t) /\ t \in Load \cup Post /\ tasks \in Seq(Load \cup Post)
            BY <1>1, <2>2 DEF Ask, QueuesTyped
        <3> HIDE DEF t
        <3> QED BY <3>1, Appended
    <2>4. UNCHANGED <<places, rows, runs, gen, work>> /\ waiting' = TRUE
        BY <1>1 DEF Ask
    <2>5. FilesTyped' /\ WorkTyped'
        BY <2>4 DEF FilesTyped, WorkTyped, places, work
    <2>6. QueuesTyped'
        <3>1. \A k \in 1..Len(tasks') : tasks'[k].kind = "load" => tasks'[k].gen <= gen
            BY <2>3 DEF QueuesTyped
        <3> QED BY <3>1, <2>3, <2>4 DEF QueuesTyped
    <2>7. Known'
        <3>1. ASSUME NEW k \in 1..Len(tasks'), tasks'[k].kind = "load", NEW r \in tasks'[k].known
              PROVE r \in rows \/ \E j \in 1..(k - 1) : r \in tasks'[j].records
            <4>1. CASE k = Len(tasks')
                <5>1. r \in Posted /\ k - 1 = Len(tasks)
                    BY <3>1, <4>1, <2>3
                <5> QED BY <5>1, <2>1, <2>3
            <4>2. CASE k # Len(tasks')
                <5>1. k \in 1..Len(tasks) /\ tasks'[k] = tasks[k]
                    BY <4>2, <2>3
                <5>2. r \in rows \/ \E j \in 1..(k - 1) : r \in tasks[j].records
                    BY <5>1, <3>1 DEF Known
                <5> QED BY <5>1, <5>2, <2>3
            <4> QED BY <4>1, <4>2
        <3> QED BY <3>1, <2>4 DEF Known
    <2>8. PlanIsCurrent'
        BY <2>4, PlanStaysCurrent DEF places, work, Run
    <2> QED BY <2>5, <2>6, <2>7, <2>8
<1>2. CASE CancelRun
    <2>1. FilesTyped'
        BY <1>2 DEF CancelRun, FilesTyped, places, work
    <2>2. WorkTyped'
        <3>1. waiting' \in BOOLEAN
            BY <1>2, Zenon DEF CancelRun
        <3> QED BY <1>2, <3>1 DEF CancelRun, WorkTyped, places, work
    <2>3. QueuesTyped'
        <3>1. gen' = gen + 1 /\ gen \in Nat /\ UNCHANGED <<tasks, runs>>
            BY <1>2 DEF CancelRun, QueuesTyped
        <3>2. \A k \in 1..Len(tasks) : tasks[k].kind = "load" => tasks[k].gen <= gen'
            <4>1. \A k \in 1..Len(tasks) : tasks[k].kind = "load" => tasks[k].gen \in Nat
                BY DEF QueuesTyped, Load, Post
            <4> QED BY <4>1, <3>1 DEF QueuesTyped
        <3>3. \A k \in 1..Len(runs) : runs[k].gen <= gen'
            <4>1. \A k \in 1..Len(runs) : runs[k].gen \in Nat
                <5>1. \A k \in 1..Len(runs) : runs[k] \in RunOf
                    BY ElementOfSeq DEF QueuesTyped
                <5> QED BY <5>1 DEF RunOf
            <4> QED BY <4>1, <3>1 DEF QueuesTyped
        <3> QED BY <3>1, <3>2, <3>3 DEF QueuesTyped
    <2>4. Known'
        BY <1>2 DEF CancelRun, Known, places
    <2>5. PlanIsCurrent'
        BY <1>2, PlanStaysCurrent DEF CancelRun, places, work, Run
    <2> QED BY <2>1, <2>2, <2>3, <2>4, <2>5
<1>3. CASE LoadItemImports
    <2> DEFINE t == Head(tasks)
               r == [option |-> t.option, gen |-> t.gen, known |-> t.known,
                     previous |-> IF t.option.ignore THEN rows ELSE {}]
    <2>1. /\ tasks # <<>> /\ t.kind = "load" /\ runs' = Append(runs, r) /\ tasks' = Tail(tasks)
          /\ UNCHANGED <<places, rows, gen, waiting, work>>
        BY <1>3 DEF LoadItemImports
    <2>2. /\ Len(tasks) \in Nat /\ 1 \in 1..Len(tasks) /\ t = tasks[1] /\ t \in Load
          /\ tasks' \in Seq(Load \cup Post) /\ Len(tasks') = Len(tasks) - 1
          /\ \A k \in 1..Len(tasks') : k + 1 \in 1..Len(tasks) /\ tasks'[k] = tasks[k + 1]
        <3>1. tasks \in Seq(Load \cup Post)
            BY DEF QueuesTyped
        <3> QED BY <2>1, <3>1, ByHead DEF Post
    <2>3. r \in RunOf
        BY <2>2 DEF RunOf, Load, FilesTyped
    <2>4. t.gen <= gen /\ t.records = {} /\ t.known \subseteq rows
        BY <2>1, <2>2 DEF QueuesTyped, Known, Load
    <2> HIDE DEF r
    <2>5. /\ runs' \in Seq(RunOf) /\ Len(runs') = Len(runs) + 1 /\ Len(runs) \in Nat /\ runs' # <<>>
          /\ runs'[Len(runs')] = r /\ \A k \in 1..Len(runs) : runs'[k] = runs[k]
          /\ runs # <<>> => Head(runs') = Head(runs)
        BY <2>1, <2>3, Appended DEF QueuesTyped
    <2>6. FilesTyped' /\ WorkTyped'
        BY <2>1, <2>5 DEF FilesTyped, WorkTyped, places, work
    <2>7. QueuesTyped'
        <3>1. \A k \in 1..Len(runs') : runs'[k].gen <= gen
            BY <2>4, <2>5 DEF QueuesTyped, r
        <3>2. \A k \in 1..Len(tasks') : tasks'[k].kind = "load" => tasks'[k].gen <= gen
            BY <2>2 DEF QueuesTyped
        <3> QED BY <3>1, <3>2, <2>1, <2>2, <2>5 DEF QueuesTyped
    <2>8. Known'
        <3>1. ASSUME NEW k \in 1..Len(tasks'), tasks'[k].kind = "load", NEW x \in tasks'[k].known
              PROVE x \in rows \/ \E j \in 1..(k - 1) : x \in tasks'[j].records
            <4>1. k + 1 \in 1..Len(tasks) /\ tasks'[k] = tasks[k + 1]
                BY <2>2
            <4>2. x \in rows \/ \E j \in 1..k : x \in tasks[j].records
                BY <4>1, <3>1 DEF Known
            <4>3. ASSUME NEW j \in 1..k, x \in tasks[j].records PROVE \E i \in 1..(k - 1) : x \in tasks'[i].records
                <5>1. j # 1
                    BY <4>3, <2>2, <2>4
                <5>2. j \in Nat /\ k \in Nat /\ j - 1 \in 1..(k - 1) /\ j - 1 \in 1..Len(tasks')
                    BY <5>1, <4>1, <2>2
                <5>3. tasks'[j - 1] = tasks[j]
                    BY <5>2, <2>2
                <5> QED BY <4>3, <5>2, <5>3
            <4> QED BY <4>2, <4>3
        <3>2. \A k \in 1..Len(runs') : runs'[k].option.ignore => runs'[k].known \subseteq runs'[k].previous
            BY <2>4, <2>5 DEF Known, r
        <3> QED BY <3>1, <3>2, <2>1 DEF Known
    <2>9. PlanIsCurrent'
        <3>1. plan # <<>> => Run' = Run
            BY <2>5 DEF Run, WorkTyped
        <3> QED BY <2>1, <3>1, PlanStaysCurrent DEF places, work
    <2> QED BY <2>6, <2>7, <2>8, <2>9
<1>4. CASE WritesItemImports
    <2>1. /\ tasks # <<>> /\ Head(tasks).kind = "write" /\ rows' = rows \cup Head(tasks).records /\ tasks' = Tail(tasks)
          /\ UNCHANGED <<places, runs, gen, waiting, work>>
        BY <1>4 DEF WritesItemImports
    <2>2. /\ Len(tasks) \in Nat /\ 1 \in 1..Len(tasks) /\ Head(tasks) = tasks[1] /\ tasks[1].records \subseteq Record
          /\ tasks' \in Seq(Load \cup Post) /\ Len(tasks') = Len(tasks) - 1
          /\ \A k \in 1..Len(tasks') : k + 1 \in 1..Len(tasks) /\ tasks'[k] = tasks[k + 1]
        <3>1. tasks \in Seq(Load \cup Post)
            BY DEF QueuesTyped
        <3>2. Head(tasks) \in Load \cup Post
            BY <2>1, <3>1, ByHead
        <3>3. Head(tasks).records \subseteq Record
            BY <3>2 DEF Load, Post
        <3> QED BY <2>1, <3>1, <3>3, ByHead
    <2>3. FilesTyped' /\ WorkTyped'
        BY <2>1, <2>2 DEF FilesTyped, WorkTyped, places, work
    <2>4. QueuesTyped'
        BY <2>1, <2>2 DEF QueuesTyped
    <2>5. Known'
        <3>1. ASSUME NEW k \in 1..Len(tasks'), tasks'[k].kind = "load", NEW x \in tasks'[k].known
              PROVE x \in rows' \/ \E j \in 1..(k - 1) : x \in tasks'[j].records
            <4>1. k + 1 \in 1..Len(tasks) /\ tasks'[k] = tasks[k + 1]
                BY <2>2
            <4>2. x \in rows \/ \E j \in 1..k : x \in tasks[j].records
                BY <4>1, <3>1 DEF Known
            <4>3. ASSUME NEW j \in 1..k, x \in tasks[j].records, j # 1
                  PROVE  \E i \in 1..(k - 1) : x \in tasks'[i].records
                <5>1. j - 1 \in 1..(k - 1) /\ j - 1 \in 1..Len(tasks') /\ tasks'[j - 1] = tasks[j]
                    BY <4>3, <2>2
                <5> QED BY <4>3, <5>1
            <4> QED BY <4>2, <4>3, <2>1, <2>2
        <3> QED BY <3>1, <2>1 DEF Known
    <2>6. PlanIsCurrent'
        BY <2>1, PlanStaysCurrent DEF places, work, Run
    <2> QED BY <2>3, <2>4, <2>5, <2>6
<1> QED BY <1>1, <1>2, <1>3, <1>4

LEMMA OthersKeep ==
    ASSUME ImportInv, (\E i \in Item, d \in FileDate : EditSource(i, d)) \/ (\E n \in Names : Discard(n))
    PROVE ImportInv'
<1> USE DEF ImportInv
<1>1. /\ runs = <<>> /\ UNCHANGED <<rows, tasks, runs, gen, waiting, work>>
      /\ source' \in [Item -> FileDate] /\ dest' \in [Names -> Arrived \cup {NoFile}]
      /\ moved' \subseteq Taken
    BY DEF EditSource, Discard, FilesTyped
<1>2. plan = <<>> /\ import = "idle"
    BY <1>1 DEF WorkTyped
<1>3. FilesTyped' /\ QueuesTyped' /\ WorkTyped' /\ Known'
    BY <1>1 DEF FilesTyped, QueuesTyped, WorkTyped, Known, work
<1>4. PlanIsCurrent'
    BY <1>1, <1>2 DEF PlanIsCurrent, work
<1> QED BY <1>3, <1>4


LEMMA WorkKeeps ==
    ASSUME ImportInv,
           Analyse \/ AnalyseItem \/ Analysed \/ Skip \/ Copy \/ NotCopied \/ Complete \/ PostImports
    PROVE ImportInv'
<1> USE DEF ImportInv
<1>1. CASE Analyse
    <2>1. /\ runs # <<>> /\ import = "idle" /\ import' = "analyse" /\ left' = Items
          /\ UNCHANGED <<places, rows, tasks, runs, gen, waiting, plan, imports, asked>>
        BY <1>1 DEF Analyse
    <2>2. FilesTyped' /\ QueuesTyped' /\ Known'
        BY <2>1 DEF FilesTyped, QueuesTyped, Known, places
    <2>3. WorkTyped'
        BY <2>1, ImportBasics DEF WorkTyped
    <2>4. PlanIsCurrent'
        BY <2>1, PlanStaysCurrent DEF places, Run
    <2> QED BY <2>2, <2>3, <2>4
<1>2. CASE AnalyseItem
    <2> DEFINE new == Entries(Head(left))
    <2>1. /\ import = "analyse" /\ left # <<>> /\ plan' = plan \o new /\ left' = Tail(left)
          /\ UNCHANGED <<places, rows, tasks, runs, gen, waiting, import, imports, asked>>
        BY <1>2 DEF AnalyseItem
    <2>2. Head(left) \in Item /\ left' \in Seq(Item)
        BY <2>1, ByHead DEF WorkTyped
    <2>3. new \in Seq(Planned) /\ \A k \in 1..Len(new) : Current(new[k])
        BY <2>1, <2>2, EntriesOf
    <2> HIDE DEF new
    <2>4. /\ plan' \in Seq(Planned) /\ Len(plan') = Len(plan) + Len(new) /\ Len(plan) \in Nat /\ Len(new) \in Nat
          /\ \A k \in 1..Len(plan') : plan'[k] = IF k <= Len(plan) THEN plan[k] ELSE new[k - Len(plan)]
        BY <2>1, <2>3, ConcatProperties, LenProperties DEF WorkTyped
    <2>5. FilesTyped' /\ QueuesTyped' /\ Known'
        BY <2>1 DEF FilesTyped, QueuesTyped, Known, places
    <2>6. WorkTyped'
        BY <2>1, <2>2, <2>4 DEF WorkTyped
    <2>7. PlanIsCurrent'
        <3>1. \A k \in 1..Len(plan') : Current(plan'[k])
            <4> TAKE k \in 1..Len(plan')
            <4>1. CASE k <= Len(plan)
                BY <4>1, <2>4 DEF PlanIsCurrent
            <4>2. CASE ~(k <= Len(plan))
                <5>1. k - Len(plan) \in 1..Len(new) /\ plan'[k] = new[k - Len(plan)]
                    BY <4>2, <2>4
                <5> QED BY <5>1, <2>3
            <4> QED BY <4>1, <4>2
        <3>2. UNCHANGED <<source, dest, imports, runs>>
            BY <2>1 DEF places
        <3> QED BY <3>1, <3>2 DEF PlanIsCurrent, Current, PutThereByRun, Run
    <2> QED BY <2>5, <2>6, <2>7
<1>3. CASE Analysed
    <2>1. /\ import = "analyse" /\ plan' \in {plan, <<>>} /\ import' = "copy" /\ left' = <<>>
          /\ UNCHANGED <<places, rows, tasks, runs, gen, waiting, imports, asked>>
        BY <1>3 DEF Analysed
    <2>2. FilesTyped' /\ QueuesTyped' /\ Known'
        BY <2>1 DEF FilesTyped, QueuesTyped, Known, places
    <2>3. WorkTyped'
        BY <2>1, EmptySeq DEF WorkTyped
    <2>4. PlanIsCurrent'
        <3>1. CASE plan' = plan
            BY <2>1, <3>1, PlanStaysCurrent DEF places, Run
        <3>2. CASE plan' = <<>>
            BY <3>2 DEF PlanIsCurrent
        <3> QED BY <2>1, <3>1, <3>2
    <2> QED BY <2>2, <2>3, <2>4
<1>4. CASE Skip \/ NotCopied
    <2>1. /\ import = "copy" /\ plan # <<>> /\ plan' = Tail(plan)
          /\ UNCHANGED <<places, rows, tasks, runs, gen, waiting, import, left, imports, asked>>
        BY <1>4 DEF Skip, NotCopied, AtImport
    <2>2. FilesTyped' /\ QueuesTyped' /\ Known'
        BY <2>1 DEF FilesTyped, QueuesTyped, Known, places
    <2>3. \A e \in Planned : Current(e) => Current(e)'
        BY <2>1 DEF Current, PutThereByRun, Run, places
    <2>4. plan' \in Seq(Planned) /\ PlanIsCurrent'
        BY <2>1, <2>3, RestIsCurrent
    <2>5. WorkTyped'
        BY <2>1, <2>4 DEF WorkTyped
    <2> QED BY <2>2, <2>4, <2>5
<1>5. CASE Copy
    <2> DEFINE e == Head(plan)
    <2>1. /\ import = "copy" /\ plan # <<>> /\ e.wanted /\ source[e.from] # 0
          /\ dest' = [dest EXCEPT ![e.to] = [of |-> e.from, date |-> source[e.from]]]
          /\ source' = IF Run.option.move THEN [source EXCEPT ![e.from] = 0] ELSE source
          /\ moved' \subseteq moved \cup {[of |-> e.from, date |-> source[e.from], as |-> e.to]}
          /\ imports' = imports \cup {e.record} /\ plan' = Tail(plan)
          /\ UNCHANGED <<rows, tasks, runs, gen, waiting, import, left, asked>>
        BY <1>5 DEF Copy, AtImport, MoveOrCopy
    <2>2. e \in Planned /\ Current(e)
        BY <2>1, ByHead DEF WorkTyped, PlanIsCurrent
    <2> HIDE DEF e
    <2>3. /\ e.from \in Item /\ e.to \in Names /\ e.record \in Record /\ e.record[1] = e.to
          /\ source[e.from] \in FileDate
        BY <2>1, <2>2 DEF Planned, Current, FilesTyped
    <2>4. /\ [of |-> e.from, date |-> source[e.from]] \in Arrived
          /\ [of |-> e.from, date |-> source[e.from], as |-> e.to] \in Taken
        BY <2>1, <2>3 DEF Arrived, Taken, FileDate
    <2>5. FilesTyped'
        <3>1. dest' \in [Names -> Arrived \cup {NoFile}]
            BY <2>1, <2>3, <2>4 DEF FilesTyped
        <3>2. source' \in [Item -> FileDate]
            BY <2>1, <2>3, ImportBasics DEF FilesTyped
        <3>3. moved' \subseteq Taken
            BY <2>1, <2>4 DEF FilesTyped
        <3> QED BY <3>1, <3>2, <3>3, <2>1, <2>3 DEF FilesTyped
    <2>6. QueuesTyped' /\ Known'
        BY <2>1 DEF QueuesTyped, Known
    <2>7. \A x \in Planned : Current(x) => Current(x)'
        <3> SUFFICES ASSUME NEW x \in Planned, Current(x), x.wanted
                     PROVE /\ x.record \in Record /\ x.record \notin Run'.previous /\ x.record[1] = x.to
                           /\ (source'[x.from] # 0 /\ dest'[x.to] # NoFile /\ ~PutThereByRun(x.to)') =>
                                 Run'.option.overwrite /\ dest'[x.to].date < source'[x.from]
            BY DEF Current
        <3>1. x.from \in Item /\ x.to \in Names /\ Run' = Run
            BY <2>1 DEF Planned, Run
        <3>2. source'[x.from] # 0 => source'[x.from] = source[x.from]
            BY <2>1, <2>3, <3>1 DEF FilesTyped
        <3>3. ~PutThereByRun(x.to)' => ~PutThereByRun(x.to) /\ x.to # e.to
            BY <2>1, <2>3 DEF PutThereByRun
        <3>4. x.to # e.to => dest'[x.to] = dest[x.to]
            BY <2>1, <2>3, <3>1 DEF FilesTyped
        <3> QED BY <3>1, <3>2, <3>3, <3>4 DEF Current
    <2>8. plan' \in Seq(Planned) /\ PlanIsCurrent'
        BY <2>1, <2>7, RestIsCurrent
    <2>9. WorkTyped'
        BY <2>1, <2>8 DEF WorkTyped
    <2> QED BY <2>5, <2>6, <2>8, <2>9
<1>6. CASE Complete
    <2>1. /\ import = "copy" /\ import' = "post" /\ plan' = <<>> /\ waiting' = (waiting /\ Run.gen # gen)
          /\ UNCHANGED <<places, rows, tasks, runs, gen, left, imports, asked>>
        BY <1>6 DEF Complete
    <2>2. FilesTyped' /\ QueuesTyped' /\ Known'
        BY <2>1 DEF FilesTyped, QueuesTyped, Known, places
    <2>3. WorkTyped'
        <3>1. waiting' \in BOOLEAN
            BY <2>1, Zenon
        <3>2. UNCHANGED <<left, runs>> /\ import = "copy" /\ import' = "post" /\ plan' = <<>>
            BY <2>1
        <3> QED BY <3>1, <3>2, EmptySeq DEF WorkTyped
    <2>4. PlanIsCurrent'
        BY <2>1 DEF PlanIsCurrent
    <2> QED BY <2>2, <2>3, <2>4
<1>7. CASE PostImports
    <2> DEFINE t == [kind |-> "write", records |-> imports]
    <2>1. /\ import = "post" /\ tasks' = Append(tasks, t) /\ runs' = Tail(runs)
          /\ import' = "idle" /\ imports' = {}
          /\ UNCHANGED <<places, rows, gen, waiting, left, plan, asked>>
        BY <1>7 DEF PostImports
    <2>2. t \in Post /\ runs # <<>> /\ plan = <<>>
        BY <2>1 DEF Post, FilesTyped, WorkTyped
    <2>3. t.kind = "write"
        OBVIOUS
    <2> HIDE DEF t
    <2>4. /\ tasks' \in Seq(Load \cup Post) /\ Len(tasks') = Len(tasks) + 1 /\ Len(tasks) \in Nat
          /\ tasks'[Len(tasks')] = t /\ \A k \in 1..Len(tasks) : tasks'[k] = tasks[k]
        <3>1. t \in Load \cup Post /\ tasks \in Seq(Load \cup Post)
            BY <2>2 DEF QueuesTyped
        <3> QED BY <3>1, <2>1, Appended
    <2>5. /\ Len(runs) \in Nat /\ runs' \in Seq(RunOf) /\ Len(runs') = Len(runs) - 1
          /\ \A k \in 1..Len(runs') : k + 1 \in 1..Len(runs) /\ runs'[k] = runs[k + 1]
        BY <2>1, <2>2, ByHead DEF QueuesTyped
    <2>6. FilesTyped' /\ WorkTyped' /\ PlanIsCurrent'
        BY <2>1, <2>2 DEF FilesTyped, WorkTyped, PlanIsCurrent, places
    <2>7. \A k \in 1..Len(tasks') : tasks'[k].kind = "load" => k \in 1..Len(tasks) /\ tasks'[k] = tasks[k]
        BY <2>3, <2>4
    <2>8. QueuesTyped'
        <3>1. \A k \in 1..Len(tasks') : tasks'[k].kind = "load" => tasks'[k].gen <= gen
            BY <2>7 DEF QueuesTyped
        <3>2. \A k \in 1..Len(runs') : runs'[k].gen <= gen
            BY <2>5 DEF QueuesTyped
        <3> QED BY <3>1, <3>2, <2>1, <2>4, <2>5 DEF QueuesTyped
    <2>9. Known'
        <3>1. ASSUME NEW k \in 1..Len(tasks'), tasks'[k].kind = "load", NEW x \in tasks'[k].known
              PROVE x \in rows \/ \E j \in 1..(k - 1) : x \in tasks'[j].records
            <4>1. k \in 1..Len(tasks) /\ tasks'[k] = tasks[k]
                BY <3>1, <2>7
            <4>2. x \in rows \/ \E j \in 1..(k - 1) : x \in tasks[j].records
                BY <4>1, <3>1 DEF Known
            <4> QED BY <4>1, <4>2, <2>4
        <3>2. \A k \in 1..Len(runs') : runs'[k].option.ignore => runs'[k].known \subseteq runs'[k].previous
            BY <2>5 DEF Known
        <3> QED BY <3>1, <3>2, <2>1 DEF Known
    <2> QED BY <2>6, <2>8, <2>9
<1> QED BY <1>1, <1>2, <1>3, <1>4, <1>5, <1>6, <1>7

LEMMA ImportKeepsInv == ImportSpec => []ImportInv
<1>1. ImportInv /\ [ImportNext]_importVars => ImportInv'
    <2>1. CASE ImportInv /\ UNCHANGED importVars
        BY <2>1 DEF importVars, places, work, ImportInv, FilesTyped, QueuesTyped, WorkTyped, Known,
            PlanIsCurrent, Current, PutThereByRun, Run
    <2> QED BY <2>1, AsksKeep, OthersKeep, WorkKeeps DEF ImportNext
<1> QED BY <1>1, ImportStarts, PTL DEF ImportSpec

\* The variables of an import keep their types, and a run is at work whenever the work thread is.
THEOREM ImportTypeCorrect == ImportSpec => []ImportTypeOK
<1>1. ImportInv => ImportTypeOK
    <2> SUFFICES ASSUME ImportInv PROVE ImportTypeOK
        OBVIOUS
    <2> USE DEF ImportInv
    <2>1. \A n \in Names : dest[n] = NoFile \/ (dest[n].of \in Item /\ dest[n].date \in 1..MaxFileDate)
        BY DEF FilesTyped, Arrived
    <2>2. \A r \in ToSet(runs) : r.previous \subseteq Record /\ r.gen <= gen
        <3>1. ToSet(runs) = {runs[k] : k \in 1..Len(runs)} /\ \A k \in 1..Len(runs) : runs[k] \in RunOf
            BY ElementOfSeq, LenProperties DEF ToSet, QueuesTyped
        <3> QED BY <3>1 DEF QueuesTyped, RunOf
    <2>3. \A m \in moved : m.of \in Item /\ m.date \in 1..MaxFileDate /\ m.as \in Names
        BY DEF FilesTyped, Taken
    <2> QED BY <2>1, <2>2, <2>3 DEF ImportTypeOK, FilesTyped, WorkTyped
<1> QED BY <1>1, ImportKeepsInv, PTL

\* Only a copy puts a file at the destination while a run copies.
LEMMA OnlyCopyPuts ==
    ASSUME ImportInv, ImportNext, Puts
    PROVE /\ Copy /\ PutEntry \in Planned /\ PutEntry.wanted /\ Current(PutEntry)
          /\ source[PutEntry.from] # 0 /\ (Run.option.overwrite \/ dest[PutEntry.to] = NoFile)
<1>1. Copy
    BY DEF ImportNext, Puts, Ask, CancelRun, LoadItemImports, WritesItemImports, EditSource, Discard, Analyse,
        AnalyseItem, Analysed, Skip, NotCopied, Complete, PostImports, places, ImportInv, WorkTyped
<1>2. PutEntry = plan[1] /\ 1 \in 1..Len(plan) /\ PutEntry \in Planned
    BY ByHead DEF Puts, ImportInv, WorkTyped, PutEntry
<1> QED BY <1>1, <1>2 DEF Copy, AtImport, PutEntry, ImportInv, PlanIsCurrent

\* A run that ignores what was imported before imports nothing that was on record when it was asked
\* for: the database thread keeps the order of writes_item_imports and load_item_imports.
THEOREM ImportsOnce == ImportSpec => ImportedOnce
<1>1. ImportInv /\ [ImportNext]_importVars => [IgnoresPrevious]_importVars
    <2> SUFFICES ASSUME ImportInv, ImportNext, Puts, Run.option.ignore PROVE PutEntry.record \notin Run.known
        BY DEF IgnoresPrevious
    <2>1. PutEntry.record \notin Run.previous
        BY OnlyCopyPuts DEF Current
    <2>2. Run.known \subseteq Run.previous
        <3>1. runs # <<>>
            BY DEF Puts, ImportInv, WorkTyped
        <3>2. Run = runs[1] /\ 1 \in 1..Len(runs)
            BY <3>1, ByHead DEF Run, ImportInv, QueuesTyped
        <3> QED BY <3>2 DEF ImportInv, Known
    <2> QED BY <2>1, <2>2
<1> QED BY <1>1, ImportKeepsInv, PTL DEF ImportSpec, ImportedOnce

\* What an entry takes the place of was not moved there and kept, or is older: the plan is current,
\* and without the leave to overwrite there is nothing.
LEMMA CopyKeepsMoved ==
    ASSUME ImportInv, MovedIsKept, Copy
    PROVE MovedIsKept'
<1> DEFINE e == Head(plan)
           own == {m \in moved : Run.option.overwrite /\ PutThereByRun(e.to) /\ m.as = e.to}
           now == [of |-> e.from, date |-> source[e.from], as |-> e.to]
<1>1. /\ import = "copy" /\ plan # <<>> /\ e.wanted /\ source[e.from] # 0
      /\ Run.option.overwrite \/ dest[e.to] = NoFile
      /\ dest' = [dest EXCEPT ![e.to] = [of |-> e.from, date |-> source[e.from]]]
      /\ moved' \subseteq (moved \ own) \cup {now}
    BY DEF Copy, AtImport, MoveOrCopy
<1>2. e \in Planned /\ Current(e)
    BY <1>1, ByHead DEF ImportInv, WorkTyped, PlanIsCurrent
<1> HIDE DEF e
<1>3. e.from \in Item /\ e.to \in Names /\ source[e.from] \in Nat
    BY <1>2, ImportBasics DEF Planned, ImportInv, FilesTyped
<1>4. \A n \in Names : dest'[n] = IF n = e.to THEN [of |-> e.from, date |-> source[e.from]] ELSE dest[n]
    BY <1>1, <1>3 DEF ImportInv, FilesTyped
<1>5. ASSUME NEW m \in moved', m # now
      PROVE dest'[m.as] = [of |-> m.of, date |-> m.date] \/ dest'[m.as].date > m.date
    <2>1. m \in moved /\ m \notin own /\ m.as \in Names /\ m.date \in Nat /\ m.date # 0
        BY <1>1, <1>5 DEF ImportInv, FilesTyped, Taken
    <2>2. dest[m.as] = [of |-> m.of, date |-> m.date] \/ dest[m.as].date > m.date
        BY <2>1 DEF MovedIsKept
    <2>3. CASE m.as # e.to
        BY <2>1, <2>2, <2>3, <1>4
    <2>4. CASE m.as = e.to
        <3>1. dest[e.to] # NoFile /\ dest[e.to].date \in Nat /\ dest[e.to].date >= m.date
            <4>1. dest[e.to].date \in Nat
                BY <1>3, ImportBasics DEF ImportInv, FilesTyped, Arrived, NoFile
            <4>2. dest[e.to].date >= m.date
                BY <4>1, <2>1, <2>2, <2>4
            <4> QED BY <4>1, <4>2, <2>1 DEF NoFile
        <3>2. Run.option.overwrite /\ ~PutThereByRun(e.to)
            BY <1>1, <3>1, <2>1, <2>4
        <3>3. dest[e.to].date < source[e.from]
            BY <1>1, <1>2, <3>1, <3>2 DEF Current
        <3>4. dest'[m.as].date = source[e.from]
            BY <1>3, <1>4, <2>4
        <3> QED BY <3>1, <3>3, <3>4, <2>1, <1>3
    <2> QED BY <2>3, <2>4
<1>6. dest'[now.as] = [of |-> now.of, date |-> now.date]
    BY <1>3, <1>4
<1> QED BY <1>5, <1>6 DEF MovedIsKept

\* What a move took from its source is at the destination or has given way to something newer,
\* unless somebody discarded it or the same run overwrote it.
THEOREM MovesAreKept == ImportSpec => []MovedIsKept
<1>1. ImportInit => MovedIsKept
    BY DEF ImportInit, MovedIsKept
<1>2. ImportInv /\ MovedIsKept /\ [ImportNext]_importVars => MovedIsKept'
    <2> SUFFICES ASSUME ImportInv, MovedIsKept, [ImportNext]_importVars PROVE MovedIsKept'
        OBVIOUS
    <2>1. CASE \E n \in Names : Discard(n)
        <3>1. PICK n \in Names : dest' = [dest EXCEPT ![n] = NoFile] /\ moved' = {m \in moved : m.as # n}
            BY <2>1 DEF Discard
        <3>2. \A k \in Names : k # n => dest'[k] = dest[k]
            BY <3>1 DEF ImportInv, FilesTyped
        <3>3. \A m \in moved' : m \in moved /\ m.as \in Names /\ m.as # n
            BY <3>1 DEF ImportInv, FilesTyped, Taken
        <3> QED BY <3>2, <3>3 DEF MovedIsKept
    <2>2. CASE UNCHANGED <<dest, moved>>
        BY <2>2 DEF MovedIsKept
    <2>3. Copy \/ (\E n \in Names : Discard(n)) \/ UNCHANGED <<dest, moved>>
        BY DEF ImportNext, Ask, CancelRun, LoadItemImports, WritesItemImports, EditSource, Analyse, AnalyseItem,
            Analysed, Skip, NotCopied, Complete, PostImports, importVars, places
    <2> QED BY <2>1, <2>2, <2>3, CopyKeepsMoved
<1> QED BY <1>1, <1>2, ImportKeepsInv, PTL DEF ImportSpec

\* Only what the run itself has put there is ever overwritten by something older.
THEOREM ImportsOverwriteOlder == ImportSpec => OverwritesNewerOnce
<1>1. ImportInv /\ [ImportNext]_importVars => [OverwritesOlderOnce]_importVars
    BY OnlyCopyPuts DEF OverwritesOlderOnce, Overwrites, OverwritesOlder, Current
<1> QED BY <1>1, ImportKeepsInv, PTL DEF ImportSpec, OverwritesNewerOnce
=============================================================================
