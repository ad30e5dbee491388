----------------------------- MODULE View_proofs -----------------------------
(***************************************************************************)
(* Texture, for any number of raw photos, however often their files are    *)
(* written and however the four threads take turns: what is in the file    *)
(* comes to be what is on the screen.                                      *)
(*                                                                         *)
(* The order of the queues is not needed: an answer that is not the last   *)
(* is either older than what has been loaded, and counts as overtaken, or  *)
(* the last one is still behind it.                                        *)
(***************************************************************************)
EXTENDS Texture, SequenceTheorems, TLAPS

Pic == [v : Nat, full : BOOLEAN]
TaskOf == [photo : Photo, pic : Pic]
Callback == [kind : {"loaded", "surface"}, task : TaskOf]

Among(s) == {s[i] : i \in 1..Len(s)}

Shape ==
    /\ clock \in Nat /\ version \in [Photo -> Nat] /\ date \in [Photo -> Nat]
    /\ timestamp \in [Photo -> Nat] /\ since = timestamp
    /\ loaded \in [Photo -> Pic] /\ tex \in [Photo -> Pic]
    /\ invalid \in [Photo -> BOOLEAN] /\ staged \in [Photo -> SUBSET Pic]
    /\ rawPreview \in BOOLEAN
    /\ loads \in Seq(Photo) /\ raws \in Seq(Photo) /\ renders \in Seq(TaskOf)
    /\ loading \subseteq TaskOf /\ rawing \subseteq TaskOf
    /\ posted \in Seq(Callback)

\* No file is of the future, nothing is newer than the file, and each thread does one thing.
NotNewer ==
    /\ \A p \in Photo : date[p] <= clock /\ timestamp[p] <= clock
    /\ \A t \in loading : t.pic.v <= version[t.photo] /\ ~t.pic.full
    /\ \A t \in rawing : t.pic.v <= version[t.photo] /\ t.pic.full
    /\ \A c \in Among(posted) : c.kind = "loaded" => c.task.pic.v <= version[c.task.photo]
    /\ \A t, u \in loading : t = u
    /\ \A t, u \in rawing : t = u

\* A picture of the file as it is comes from the load thread, and from the raw thread.
LoadOnWay(p) ==
    \/ p \in Among(loads)
    \/ \E t \in loading : t.photo = p /\ t.pic.v = version[p]
    \/ \E c \in Among(posted) :
          c.kind = "loaded" /\ c.task.photo = p /\ c.task.pic.v = version[p] /\ ~c.task.pic.full

RawOnWay(p) ==
    \/ p \in Among(raws)
    \/ \E t \in rawing : t.photo = p /\ t.pic.v = version[p]
    \/ \E c \in Among(posted) :
          c.kind = "loaded" /\ c.task.photo = p /\ c.task.pic.v = version[p] /\ c.task.pic.full

\* What was loaded last is drawn, or will be.
Drawing(p) ==
    \/ invalid[p]
    \/ \E t \in Among(renders) : t.photo = p /\ t.pic = loaded[p]
    \/ \E c \in Among(posted) : c.kind = "surface" /\ c.task.photo = p /\ c.task.pic = loaded[p]
    \/ staged[p] = {loaded[p]}
    \/ staged[p] = {} /\ tex[p] = loaded[p]

Loaded(p) == loaded[p].v = version[p] /\ (loaded[p].full \/ p \in kept \cup dropped \/ RawOnWay(p))

\* Unless the file is to be loaded again, the load that was asked for last is on its way,
\* or has come and is followed by what it asks for.
Followed(p) ==
    (date[p] <= timestamp[p] /\ p \notin failed \cup overtaken \cup missed) =>
        LoadOnWay(p) \/ (Loaded(p) /\ Drawing(p))

PictureInv == Shape /\ NotNewer /\ \A p \in Photo : Followed(p)

-----------------------------------------------------------------------------

LEMMA AmongAppended ==
    ASSUME NEW S, NEW s \in Seq(S), NEW e \in S
    PROVE  Append(s, e) \in Seq(S) /\ Among(Append(s, e)) = Among(s) \cup {e}
<1>1. /\ Append(s, e) \in Seq(S) /\ Len(Append(s, e)) = Len(s) + 1 /\ Len(s) \in Nat
      /\ \A i \in 1..Len(s) : Append(s, e)[i] = s[i]
      /\ Append(s, e)[Len(s) + 1] = e
    BY AppendProperties, LenProperties
<1>2. 1..(Len(s) + 1) = 1..Len(s) \cup {Len(s) + 1}
    BY <1>1
<1> QED BY <1>1, <1>2 DEF Among

LEMMA AmongTail ==
    ASSUME NEW S, NEW s \in Seq(S), s # <<>>
    PROVE  /\ Tail(s) \in Seq(S) /\ Head(s) \in S
           /\ Among(s) = Among(Tail(s)) \cup {Head(s)}
<1>1. /\ Tail(s) \in Seq(S) /\ Head(s) \in S /\ Len(Tail(s)) = Len(s) - 1 /\ Len(s) \in Nat \ {0}
      /\ Head(s) = s[1]
      /\ \A i \in 1..Len(Tail(s)) : Tail(s)[i] = s[i + 1]
    BY HeadTailProperties, LenProperties, EmptySeq
<1>2. ASSUME NEW i \in 1..Len(s) PROVE s[i] \in Among(Tail(s)) \cup {Head(s)}
    <2>1. CASE i = 1
        BY <2>1, <1>1
    <2>2. CASE i # 1
        <3>1. i - 1 \in 1..Len(Tail(s)) /\ Tail(s)[i - 1] = s[i]
            BY <2>2, <1>1
        <3> QED BY <3>1 DEF Among
    <2> QED BY <2>1, <2>2
<1>3. ASSUME NEW i \in 1..Len(Tail(s)) PROVE Tail(s)[i] \in Among(s)
    <2>1. i + 1 \in 1..Len(s)
        BY <1>1
    <2> QED BY <2>1, <1>1 DEF Among
<1>4. Head(s) \in Among(s)
    BY <1>1 DEF Among
<1> QED BY <1>1, <1>2, <1>3, <1>4 DEF Among

LEMMA AmongFew ==
    /\ Among(<<>>) = {}
    /\ \A e : Among(<<e>>) = {e}
    /\ \A S, e : e \in S => <<e>> \in Seq(S)
    BY DEF Among

LEMMA InitPicture == TextureInit => PictureInv
<1> SUFFICES ASSUME TextureInit PROVE PictureInv
    OBVIOUS
<1>1. Thumbnail \in Pic
    BY DEF Thumbnail, Pic
<1>2. Shape
    BY <1>1, EmptySeq DEF TextureInit, Shape
<1>3. NotNewer
    BY AmongFew DEF TextureInit, NotNewer
<1>4. \A p \in Photo : Followed(p)
    BY DEF TextureInit, Followed
<1> QED BY <1>2, <1>3, <1>4 DEF PictureInv

-----------------------------------------------------------------------------
(* The UI thread *)

LEMMA RefreshKeeps ==
    ASSUME PictureInv, NEW p \in Photo, RefreshTexture(p) PROVE PictureInv'
<1> USE DEF PictureInv, faults, file
<1>1. /\ timestamp' = [timestamp EXCEPT ![p] = clock] /\ since' = [since EXCEPT ![p] = clock]
      /\ loads' = Append(loads, p)
      /\ failed' = failed \ {p} /\ overtaken' = overtaken \ {p} /\ missed' = missed \ {p}
      /\ UNCHANGED <<clock, version, date, kept, loaded, invalid, staged, tex, rawPreview, loading, raws,
                     rawing, renders,
                     posted, dropped>>
    BY DEF RefreshTexture
<1>2. loads' \in Seq(Photo) /\ Among(loads') = Among(loads) \cup {p}
    BY <1>1, AmongAppended DEF Shape
<1>3. Shape' /\ NotNewer'
    BY <1>1, <1>2 DEF Shape, NotNewer
<1>4. ASSUME NEW q \in Photo PROVE Followed(q)'
    <2>1. CASE q = p
        BY <2>1, <1>2 DEF Followed, LoadOnWay
    <2>2. CASE q # p
        <3>1. LoadOnWay(q) => LoadOnWay(q)'
            BY <1>1, <1>2 DEF LoadOnWay
        <3>2. Loaded(q) /\ Drawing(q) => Loaded(q)' /\ Drawing(q)'
            BY <1>1 DEF Loaded, Drawing, RawOnWay
        <3>3. timestamp'[q] = timestamp[q] 
              /\ (q \in failed' \cup overtaken' \cup missed' <=> q \in failed \cup overtaken \cup missed)
            BY <1>1, <2>2 DEF Shape
        <3> QED BY <3>1, <3>2, <3>3, <1>1 DEF Followed
    <2> QED BY <2>1, <2>2
<1> QED BY <1>3, <1>4

LEMMA TakeLoadedKeeps ==
    ASSUME PictureInv, TakeLoaded PROVE PictureInv'
<1> USE DEF PictureInv, file, stamps
<1>0. PICK c : c = Head(posted)
    OBVIOUS
<1> DEFINE p == c.task.photo
           pic == c.task.pic
           again == ~pic.full /\ ~rawPreview
<1>1. /\ posted # <<>> /\ c.kind = "loaded" /\ posted' = Tail(posted)
      /\ loaded' = [loaded EXCEPT ![p] = pic] /\ invalid' = [invalid EXCEPT ![p] = TRUE]
      /\ again => raws' = <<p>> /\ dropped' = (dropped \cup Among(raws)) \ {p} /\ kept' = kept \ {p}
      /\ ~again => /\ UNCHANGED <<raws, dropped>>
                   /\ kept' = IF pic.full THEN kept \ {p} ELSE kept \cup {p}
      /\ overtaken' = IF pic.v < loaded[p].v THEN overtaken \cup {p} ELSE overtaken
      /\ UNCHANGED <<clock, version, date, stamps, missed, staged, tex, rawPreview, loads, loading, rawing, renders,
                     failed>>
    BY <1>0 DEF TakeLoaded, Updated, LoadRaw, ResetAndEnqueue, Among
<1>2. /\ posted' \in Seq(Callback) /\ c \in Callback
      /\ Among(posted) = Among(posted') \cup {c}
    BY <1>0, <1>1, AmongTail DEF Shape
<1>3. p \in Photo /\ pic \in Pic
    BY <1>2 DEF Callback, TaskOf
<1>4. pic.v \in Nat /\ pic.full \in BOOLEAN /\ pic.v <= version[p]
    BY <1>1, <1>2, <1>3 DEF Pic, NotNewer
<1>5. LoadOnWay(p) => LoadOnWay(p)' \/ (pic.v = version[p] /\ ~pic.full)
    BY <1>1, <1>2 DEF LoadOnWay
<1>a. \A q \in Photo : q # p => (LoadOnWay(q) => LoadOnWay(q)')
    BY <1>1, <1>2 DEF LoadOnWay
<1>b. again => Among(raws') = {p}
    BY <1>1, AmongFew
<1>c. \A q \in Photo : q # p =>
          (q \in kept \cup dropped \/ RawOnWay(q) => q \in kept' \cup dropped' \/ RawOnWay(q)')
    BY <1>1, <1>2, <1>b DEF RawOnWay
<1>d. \A q \in Photo : q # p => (Drawing(q) => Drawing(q)')
    BY <1>1, <1>2, <1>3 DEF Drawing, Shape
<1>e. raws' \in Seq(Photo)
    <2>1. <<p>> \in Seq(Photo) /\ raws \in Seq(Photo)
        BY <1>3, AmongFew DEF Shape
    <2> QED BY <2>1, <1>1
<1>6. Shape'
    BY <1>1, <1>2, <1>3, <1>e DEF Shape
<1>7. NotNewer'
    BY <1>1, <1>2 DEF NotNewer
<1>8. Followed(p)'
    <2> SUFFICES ASSUME date'[p] <= timestamp'[p], p \notin failed' \cup overtaken' \cup missed'
                 PROVE  LoadOnWay(p)' \/ (Loaded(p)' /\ Drawing(p)')
        BY DEF Followed
    <2>1. date[p] <= timestamp[p] /\ p \notin failed \cup overtaken \cup missed /\ ~(pic.v < loaded[p].v)
        BY <1>1
    <2>2. loaded[p].v \in Nat /\ version[p] \in Nat /\ loaded'[p] = pic /\ invalid'[p]
        BY <1>1, <1>3 DEF Shape, Pic
    <2>3. CASE pic.v = version[p]
        <3>1. pic.full \/ p \in kept' \/ RawOnWay(p)'
            BY <1>1, <1>b, <1>4 DEF RawOnWay
        <3>2. Loaded(p)' /\ Drawing(p)'
            BY <3>1, <2>2, <2>3, <1>1 DEF Loaded, Drawing
        <3> QED BY <3>2
    <2>4. CASE pic.v # version[p]
        <3>1. loaded[p].v # version[p]
            BY <2>1, <2>2, <2>4, <1>4
        <3>2. LoadOnWay(p)
            BY <3>1, <2>1, <1>3 DEF Followed, Loaded
        <3> QED BY <3>2, <1>5, <2>4
    <2> QED BY <2>3, <2>4
<1>9. ASSUME NEW q \in Photo, q # p PROVE Followed(q)'
    <2>1. loaded'[q] = loaded[q] /\ (q \in overtaken' <=> q \in overtaken)
        BY <1>1, <1>9 DEF Shape
    <2>2. Loaded(q) => Loaded(q)'
        BY <2>1, <1>1, <1>c, <1>9 DEF Loaded
    <2> QED BY <2>1, <2>2, <1>1, <1>a, <1>d, <1>9 DEF Followed
<1> QED BY <1>6, <1>7, <1>8, <1>9

LEMMA TakeSurfaceKeeps ==
    ASSUME PictureInv, TakeSurface PROVE PictureInv'
<1> USE DEF PictureInv, file, stamps
<1>0. PICK c : c = Head(posted)
    OBVIOUS
<1> DEFINE p == c.task.photo
           pic == c.task.pic
<1>1. /\ posted # <<>> /\ c.kind = "surface" /\ posted' = Tail(posted)
      /\ staged' = [staged EXCEPT ![p] = {pic}]
      /\ overtaken' = IF pic # loaded[p] THEN overtaken \cup {p} ELSE overtaken
      /\ UNCHANGED <<clock, version, date, stamps, missed, kept, loaded, invalid, tex, rawPreview, loads,
                     loading, raws, rawing,
                     renders, failed, dropped>>
    BY <1>0 DEF TakeSurface
<1>2. /\ posted' \in Seq(Callback) /\ c \in Callback
      /\ Among(posted) = Among(posted') \cup {c}
    BY <1>0, <1>1, AmongTail DEF Shape
<1>3. p \in Photo /\ pic \in Pic
    BY <1>2 DEF Callback, TaskOf
<1>4. Shape' /\ NotNewer'
    BY <1>1, <1>2, <1>3 DEF Shape, NotNewer
<1>5. ASSUME NEW q \in Photo PROVE Followed(q)'
    <2>1. LoadOnWay(q) => LoadOnWay(q)'
        BY <1>1, <1>2 DEF LoadOnWay
    <2>2. Loaded(q) => Loaded(q)'
        BY <1>1, <1>2 DEF Loaded, RawOnWay
    <2>3. CASE q = p
        <3>1. q \notin overtaken' => Drawing(q)'
            BY <2>3, <1>1, <1>3 DEF Drawing, Shape
        <3> QED BY <3>1, <2>1, <2>2, <1>1 DEF Followed
    <2>4. CASE q # p
        <3>1. Drawing(q) => Drawing(q)'
            BY <2>4, <1>1, <1>2, <1>3 DEF Drawing, Shape
        <3> QED BY <3>1, <2>1, <2>2, <1>1 DEF Followed
    <2> QED BY <2>3, <2>4
<1> QED BY <1>4, <1>5

LEMMA DrawKeeps ==
    ASSUME PictureInv, NEW p \in Photo, Draw(p) PROVE PictureInv'
<1> USE DEF PictureInv, faults, file, stamps
<1> DEFINE now == IF invalid[p] /\ loaded[p].full THEN {loaded[p]} ELSE staged[p]
           t == [photo |-> p, pic |-> loaded[p]]
           render == invalid[p] /\ ~loaded[p].full
<1>1. /\ tex' = IF now = {} THEN tex ELSE [tex EXCEPT ![p] = CHOOSE pic \in now : TRUE]
      /\ staged' = [staged EXCEPT ![p] = {}]
      /\ renders' = IF render THEN Append(renders, t) ELSE renders
      /\ invalid' = [invalid EXCEPT ![p] = FALSE]
      /\ UNCHANGED <<clock, version, date, stamps, missed, kept, loaded, rawPreview, loads, loading, raws,
                     rawing, posted, failed,
                     dropped, overtaken>>
    BY DEF Draw
<1>2. loaded[p] \in Pic /\ t \in TaskOf /\ now \subseteq Pic
    BY DEF Shape, TaskOf
<1>3. /\ renders' \in Seq(TaskOf)
      /\ Among(renders') = Among(renders) \cup (IF render THEN {t} ELSE {})
    BY <1>1, <1>2, AmongAppended DEF Shape
<1>4. now # {} => (CHOOSE pic \in now : TRUE) \in now
    OBVIOUS
<1>5. tex' \in [Photo -> Pic]
    BY <1>1, <1>2, <1>4 DEF Shape
<1>6. Shape' /\ NotNewer'
    BY <1>1, <1>3, <1>5 DEF Shape, NotNewer
<1>7. Drawing(p) => Drawing(p)'
    <2> SUFFICES ASSUME Drawing(p) PROVE Drawing(p)'
        OBVIOUS
    <2>1. staged'[p] = {}
        BY <1>1 DEF Shape
    <2>2. CASE render
        BY <2>2, <1>1, <1>3 DEF Drawing
    <2>3. CASE invalid[p] /\ loaded[p].full
        <3>1. now = {loaded[p]}
            BY <2>3
        <3>2. tex'[p] = loaded[p]
            BY <3>1, <1>1, <1>4 DEF Shape
        <3> QED BY <3>2, <2>1, <1>1 DEF Drawing
    <2>4. CASE ~invalid[p]
        <3>1. now = staged[p] /\ Among(renders) = Among(renders')
            BY <2>4, <1>3
        <3>2. CASE staged[p] = {loaded[p]}
            <4>1. tex'[p] = loaded[p]
                BY <3>1, <3>2, <1>1, <1>4 DEF Shape
            <4> QED BY <4>1, <2>1, <1>1 DEF Drawing
        <3>3. CASE staged[p] = {} /\ tex[p] = loaded[p]
            <4>1. tex'[p] = loaded[p]
                BY <3>1, <3>3, <1>1
            <4> QED BY <4>1, <2>1, <1>1 DEF Drawing
        <3>4. CASE Drawing(p) /\ ~(staged[p] = {loaded[p]}) /\ ~(staged[p] = {} /\ tex[p] = loaded[p])
            BY <3>1, <3>4, <2>4, <1>1 DEF Drawing
        <3> QED BY <3>2, <3>3, <3>4 DEF Drawing
    <2> QED BY <2>2, <2>3, <2>4 DEF Shape, Pic
<1>8. ASSUME NEW q \in Photo PROVE Followed(q)'
    <2>1. LoadOnWay(q) => LoadOnWay(q)'
        BY <1>1 DEF LoadOnWay
    <2>2. Loaded(q) => Loaded(q)'
        BY <1>1 DEF Loaded, RawOnWay
    <2>3. Drawing(q) => Drawing(q)'
        <3>1. CASE q # p
            BY <3>1, <1>1, <1>3 DEF Drawing, Shape
        <3> QED BY <3>1, <1>7
    <2> QED BY <2>1, <2>2, <2>3, <1>1 DEF Followed
<1> QED BY <1>6, <1>8

LEMMA ShowRawKeeps ==
    ASSUME PictureInv, NEW p \in Photo, ShowRaw(p) PROVE PictureInv'
<1> USE DEF PictureInv, file, stamps
<1>1. /\ raws' = <<p>> /\ dropped' = (dropped \cup Among(raws)) \ {p} /\ kept' = kept \ {p}
      /\ rawPreview' \in {rawPreview, FALSE}
      /\ UNCHANGED <<clock, version, date, stamps, loaded, invalid, staged, tex, loads, loading,
                     rawing, renders, posted, failed, overtaken, missed>>
    BY DEF ShowRaw, LoadRaw, ResetAndEnqueue, Among
<1>a. rawPreview' \in BOOLEAN
    <2>1. rawPreview \in BOOLEAN
        BY DEF Shape
    <2> QED BY <2>1, <1>1
<1>2. raws' \in Seq(Photo) /\ Among(raws') = {p}
    BY <1>1, AmongFew
<1>3. Shape' /\ NotNewer'
    BY <1>1, <1>2, <1>a DEF Shape, NotNewer
<1>4. ASSUME NEW q \in Photo PROVE Followed(q)'
    <2>1. LoadOnWay(q) => LoadOnWay(q)'
        BY <1>1 DEF LoadOnWay
    <2>2. q \in kept \cup dropped \/ RawOnWay(q) => q \in kept' \cup dropped' \/ RawOnWay(q)'
        BY <1>1, <1>2 DEF RawOnWay
    <2>3. Loaded(q) /\ Drawing(q) => Loaded(q)' /\ Drawing(q)'
        BY <1>1, <2>2 DEF Loaded, Drawing
    <2> QED BY <2>1, <2>3, <1>1 DEF Followed
<1> QED BY <1>3, <1>4

-----------------------------------------------------------------------------
(* The threads *)

LEMMA LoadReadsKeeps ==
    ASSUME PictureInv, LoadReads PROVE PictureInv'
<1> USE DEF PictureInv, faults, file, stamps
<1>0. PICK p : p = Head(loads)
    OBVIOUS
<1> DEFINE t == [photo |-> p, pic |-> [v |-> version[p], full |-> FALSE]]
<1>1. /\ loading = {} /\ loads # <<>> /\ loading' = {t} /\ loads' = Tail(loads)
      /\ UNCHANGED <<clock, version, date, stamps, missed, kept, loaded, invalid, staged, tex, rawPreview,
                     raws, rawing, renders,
                     posted, failed, dropped, overtaken>>
    BY <1>0 DEF LoadReads
<1>2. loads' \in Seq(Photo) /\ p \in Photo /\ Among(loads) = Among(loads') \cup {p}
    BY <1>0, <1>1, AmongTail DEF Shape
<1>3. version[p] \in Nat
    BY <1>2 DEF Shape
<1>4. Shape'
    <2>1. t \in TaskOf
        BY <1>2, <1>3 DEF TaskOf, Pic
    <2> QED BY <1>1, <1>2, <2>1 DEF Shape
<1>5. NotNewer'
    BY <1>1, <1>3 DEF NotNewer
<1>6. ASSUME NEW q \in Photo PROVE Followed(q)'
    <2>1. LoadOnWay(q) => LoadOnWay(q)'
        BY <1>1, <1>2 DEF LoadOnWay
    <2>2. Loaded(q) /\ Drawing(q) => Loaded(q)' /\ Drawing(q)'
        BY <1>1 DEF Loaded, Drawing, RawOnWay
    <2> QED BY <2>1, <2>2, <1>1 DEF Followed
<1> QED BY <1>4, <1>5, <1>6

LEMMA RawReadsKeeps ==
    ASSUME PictureInv, RawReads PROVE PictureInv'
<1> USE DEF PictureInv, faults, file, stamps
<1>0. PICK p : p = Head(raws)
    OBVIOUS
<1> DEFINE t == [photo |-> p, pic |-> [v |-> version[p], full |-> TRUE]]
<1>1. /\ rawing = {} /\ raws # <<>> /\ rawing' = {t} /\ raws' = Tail(raws)
      /\ UNCHANGED <<clock, version, date, stamps, missed, kept, loaded, invalid, staged, tex, rawPreview,
                     loads, loading, renders,
                     posted, failed, dropped, overtaken>>
    BY <1>0 DEF RawReads
<1>2. raws' \in Seq(Photo) /\ p \in Photo /\ Among(raws) = Among(raws') \cup {p}
    BY <1>0, <1>1, AmongTail DEF Shape
<1>3. version[p] \in Nat
    BY <1>2 DEF Shape
<1>4. Shape'
    <2>1. t \in TaskOf
        BY <1>2, <1>3 DEF TaskOf, Pic
    <2> QED BY <1>1, <1>2, <2>1 DEF Shape
<1>5. NotNewer'
    BY <1>1, <1>3 DEF NotNewer
<1>6. ASSUME NEW q \in Photo PROVE Followed(q)'
    <2>1. LoadOnWay(q) => LoadOnWay(q)'
        BY <1>1 DEF LoadOnWay
    <2>2. RawOnWay(q) => RawOnWay(q)'
        BY <1>1, <1>2 DEF RawOnWay
    <2>3. Loaded(q) /\ Drawing(q) => Loaded(q)' /\ Drawing(q)'
        BY <1>1, <2>2 DEF Loaded, Drawing
    <2> QED BY <2>1, <2>3, <1>1 DEF Followed
<1> QED BY <1>4, <1>5, <1>6

\* A thread posts what it has read, or fails.
LEMMA EndsKeeps ==
    ASSUME PictureInv, LoadEnds \/ RawEnds PROVE PictureInv'
<1> USE DEF PictureInv, file, stamps
<1>1. PICK t \in loading \cup rawing :
          /\ \/ posted' = Append(posted, [kind |-> "loaded", task |-> [photo |-> t.photo, pic |-> t.pic]])
                /\ failed' = failed
             \/ failed' = failed \cup {t.photo} /\ posted' = posted
          /\ \/ t \in loading /\ loading' = {} /\ rawing' = rawing
             \/ t \in rawing /\ rawing' = {} /\ loading' = loading
          /\ UNCHANGED <<clock, version, date, stamps, missed, kept, loaded, invalid, staged, tex,
                         rawPreview, loads, raws, renders,
                         dropped, overtaken>>
    BY DEF LoadEnds, RawEnds, Post
<1> DEFINE c == [kind |-> "loaded", task |-> [photo |-> t.photo, pic |-> t.pic]]
<1>2. t \in TaskOf
    BY DEF Shape
<1>3. c \in Callback /\ t.photo \in Photo /\ c.task.photo = t.photo /\ c.task.pic = t.pic /\ c.kind = "loaded"
    BY <1>2 DEF TaskOf, Callback
<1> HIDE DEF c
<1>4. /\ posted' \in Seq(Callback) /\ Among(posted) \subseteq Among(posted')
      /\ Among(posted') \subseteq Among(posted) \cup {c}
      /\ t.photo \notin failed' => c \in Among(posted')
      /\ failed \subseteq failed' /\ failed' \subseteq failed \cup {t.photo}
    <2>1. CASE posted' = Append(posted, c) /\ failed' = failed
        BY <2>1, <1>3, AmongAppended DEF Shape
    <2>2. CASE failed' = failed \cup {t.photo} /\ posted' = posted
        BY <2>2 DEF Shape
    <2> QED BY <1>1, <2>1, <2>2 DEF c
<1>5. loading' \subseteq loading /\ rawing' \subseteq rawing
    BY <1>1
<1>6. Shape'
    BY <1>1, <1>4, <1>5 DEF Shape
<1>7. NotNewer'
    BY <1>1, <1>3, <1>4, <1>5 DEF NotNewer
<1>8. ASSUME NEW q \in Photo PROVE Followed(q)'
    <2>1. LoadOnWay(q) => LoadOnWay(q)' \/ q \in failed'
        <3>1. \A u \in loading : u \in loading' \/ u = t
            BY <1>1 DEF NotNewer
        <3>2. t \in loading => ~t.pic.full
            BY DEF NotNewer
        <3>3. ASSUME NEW u \in loading, u.photo = q, u.pic.v = version[q], u \notin loading'
              PROVE  LoadOnWay(q)' \/ q \in failed'
            <4>1. u = t
                BY <3>1, <3>3
            <4> QED BY <4>1, <3>2, <3>3, <1>1, <1>3, <1>4 DEF LoadOnWay
        <3>4. CASE \E u \in loading : u.photo = q /\ u.pic.v = version[q]
            BY <3>3, <3>4, <1>1 DEF LoadOnWay
        <3> QED BY <3>4, <1>1, <1>4 DEF LoadOnWay
    <2>2. RawOnWay(q) => RawOnWay(q)' \/ q \in failed'
        <3>1. \A u \in rawing : u \in rawing' \/ u = t
            BY <1>1 DEF NotNewer
        <3>2. t \in rawing => t.pic.full
            BY DEF NotNewer
        <3>3. ASSUME NEW u \in rawing, u.photo = q, u.pic.v = version[q], u \notin rawing'
              PROVE  RawOnWay(q)' \/ q \in failed'
            <4>1. u = t
                BY <3>1, <3>3
            <4> QED BY <4>1, <3>2, <3>3, <1>1, <1>3, <1>4 DEF RawOnWay
        <3>4. CASE \E u \in rawing : u.photo = q /\ u.pic.v = version[q]
            BY <3>3, <3>4, <1>1 DEF RawOnWay
        <3> QED BY <3>4, <1>1, <1>4 DEF RawOnWay
    <2>3. Loaded(q) => Loaded(q)' \/ q \in failed'
        BY <2>2, <1>1 DEF Loaded
    <2>4. Drawing(q) => Drawing(q)'
        BY <1>1, <1>4 DEF Drawing
    <2> QED BY <2>1, <2>3, <2>4, <1>1, <1>4 DEF Followed
<1> QED BY <1>6, <1>7, <1>8

LEMMA RenderKeeps ==
    ASSUME PictureInv, Render PROVE PictureInv'
<1> USE DEF PictureInv, faults, file, stamps
<1>0. PICK t : t = Head(renders)
    OBVIOUS
<1> DEFINE c == [kind |-> "surface", task |-> [photo |-> t.photo, pic |-> t.pic]]
<1>1. /\ renders # <<>> /\ renders' = Tail(renders) /\ posted' = Append(posted, c)
      /\ UNCHANGED <<clock, version, date, stamps, missed, kept, loaded, invalid, staged, tex, rawPreview,
                     loads, loading, raws, rawing,
                     failed, dropped, overtaken>>
    BY <1>0 DEF Render, Post
<1>2. renders' \in Seq(TaskOf) /\ t \in TaskOf /\ Among(renders) = Among(renders') \cup {t}
    BY <1>0, <1>1, AmongTail DEF Shape
<1>3. c \in Callback /\ c.kind = "surface" /\ c.task.photo = t.photo /\ c.task.pic = t.pic
    BY <1>2 DEF TaskOf, Callback
<1> HIDE DEF c
<1>4. posted' \in Seq(Callback) /\ Among(posted') = Among(posted) \cup {c}
    BY <1>1, <1>3, AmongAppended DEF Shape
<1>5. Shape'
    BY <1>1, <1>2, <1>4 DEF Shape
<1>6. NotNewer'
    BY <1>1, <1>3, <1>4 DEF NotNewer
<1>7. ASSUME NEW q \in Photo PROVE Followed(q)'
    <2>1. LoadOnWay(q) => LoadOnWay(q)'
        BY <1>1, <1>4 DEF LoadOnWay
    <2>2. Loaded(q) => Loaded(q)'
        BY <1>1, <1>4 DEF Loaded, RawOnWay
    <2>3. Drawing(q) => Drawing(q)'
        BY <1>1, <1>2, <1>3, <1>4 DEF Drawing
    <2> QED BY <2>1, <2>2, <2>3, <1>1 DEF Followed
<1> QED BY <1>5, <1>6, <1>7

-----------------------------------------------------------------------------

LEMMA FileKeeps ==
    ASSUME PictureInv, NEW p \in Photo, NEW d \in Time, FileWritten(p, d) PROVE PictureInv'
<1> USE DEF PictureInv, threads, faults, stamps
<1>1. /\ version' = [version EXCEPT ![p] = @ + 1] /\ date' = [date EXCEPT ![p] = d]
      /\ clock' = IF d > clock THEN d ELSE clock
      /\ missed' = IF d <= timestamp[p] THEN missed \cup {p} ELSE missed \ {p}
      /\ UNCHANGED <<timestamp, since, loaded, invalid, staged, tex, rawPreview, loads, loading, raws, rawing, renders,
                     posted, failed, dropped, overtaken, kept>>
    BY DEF FileWritten, Shape
<1>2. d \in Nat
    BY DEF Time
<1>3. /\ \A q \in Photo : version'[q] = IF q = p THEN version[q] + 1 ELSE version[q]
      /\ \A q \in Photo : date'[q] = IF q = p THEN d ELSE date[q]
      /\ \A q \in Photo : version[q] \in Nat /\ date[q] \in Nat /\ timestamp[q] \in Nat
      /\ clock \in Nat /\ clock' \in Nat /\ clock <= clock' /\ d <= clock'
    BY <1>1, <1>2 DEF Shape
<1>4. Shape'
    BY <1>1, <1>2, <1>3 DEF Shape
<1>5. NotNewer'
    <2>1. \A t \in loading \cup rawing : t.photo \in Photo /\ t.pic.v \in Nat
        BY DEF Shape, TaskOf, Pic
    <2>2. \A c \in Among(posted) : c \in Callback
        BY ElementOfSeq DEF Among, Shape
    <2>3. \A c \in Among(posted) : c.task.photo \in Photo /\ c.task.pic.v \in Nat
        BY <2>2 DEF Callback, TaskOf, Pic
    <2>4. \A q \in Photo : date'[q] <= clock' /\ timestamp'[q] <= clock'
        BY <1>1, <1>2, <1>3 DEF NotNewer
    <2> QED BY <1>1, <1>3, <2>1, <2>3, <2>4 DEF NotNewer
<1>6. ASSUME NEW q \in Photo PROVE Followed(q)'
    <2>1. CASE q # p
        <3>1. version'[q] = version[q] /\ date'[q] = date[q] /\ (q \in missed' <=> q \in missed)
            BY <2>1, <1>1, <1>3
        <3> QED BY <3>1, <1>1 DEF Followed, LoadOnWay, Loaded, RawOnWay, Drawing
    <2>2. CASE q = p
        BY <2>2, <1>1, <1>3 DEF Followed
    <2> QED BY <2>1, <2>2
<1> QED BY <1>4, <1>5, <1>6

\* What the item and its thumbnail say of the date, and what is wanted of the next preview.
LEMMA ItemKeeps ==
    ASSUME PictureInv,
           SetPreview \/ \E p \in Photo : ItemScanned(p) \/ \E t \in Time : ThumbnailScanned(p, t)
    PROVE  PictureInv'
<1> USE DEF PictureInv, threads, faults, stamps, file
<1>1. /\ UNCHANGED <<version, date, timestamp, since, loaded, invalid, staged, tex, loads, loading, raws, rawing,
                     renders, posted, failed, dropped, overtaken, missed, kept>>
    BY DEF SetPreview, ItemScanned, ThumbnailScanned
<1>a. rawPreview' \in BOOLEAN
    <2>1. rawPreview \in BOOLEAN
        BY DEF Shape
    <2>2. CASE SetPreview
        <3>1. rawPreview' = ~rawPreview
            BY <2>2 DEF SetPreview
        <3> QED BY <3>1, <2>1
    <2>3. CASE ~SetPreview
        <3>1. rawPreview' = rawPreview
            BY <2>3 DEF ItemScanned, ThumbnailScanned
        <3> QED BY <3>1, <2>1
    <2> QED BY <2>2, <2>3
<1>b. clock' \in Nat /\ clock <= clock' /\ clock \in Nat
    <2>1. clock \in Nat
        BY DEF Shape
    <2>2. clock' = clock \/ clock' = clock + 1
        BY DEF SetPreview, ItemScanned, ThumbnailScanned
    <2> QED BY <2>1, <2>2
<1>2. Shape' /\ NotNewer'
    <2>1. \A q \in Photo : date[q] \in Nat /\ timestamp[q] \in Nat
        BY DEF Shape
    <2> QED BY <1>1, <1>a, <1>b, <2>1 DEF Shape, NotNewer
<1>3. \A q \in Photo : Followed(q)'
    BY <1>1 DEF Followed, LoadOnWay, RawOnWay, Loaded, Drawing
<1> QED BY <1>2, <1>3

LEMMA StepPicture == PictureInv /\ [TextureNext]_textureVars => PictureInv'
<1> SUFFICES ASSUME PictureInv, [TextureNext]_textureVars PROVE PictureInv'
    OBVIOUS
<1>1. CASE UNCHANGED textureVars
    <2> USE <1>1 DEF textureVars, threads, faults, file, stamps, PictureInv
    <2>1. Shape'
        BY DEF Shape
    <2>2. NotNewer'
        BY DEF NotNewer
    <2>3. ASSUME NEW p \in Photo PROVE Followed(p)'
        BY DEF Followed, LoadOnWay, RawOnWay, Loaded, Drawing
    <2> QED BY <2>1, <2>2, <2>3
<1>2. CASE \/ \E p \in Photo : RefreshTexture(p) \/ Draw(p) \/ ShowRaw(p) \/ ItemScanned(p)
           \/ \E p \in Photo, t \in Time : FileWritten(p, t) \/ ThumbnailScanned(p, t)
           \/ SetPreview
    BY <1>2, RefreshKeeps, DrawKeeps, ShowRawKeeps, FileKeeps, ItemKeeps
<1>3. CASE TakeLoaded \/ TakeSurface \/ LoadReads \/ LoadEnds \/ RawReads \/ RawEnds \/ Render
    BY <1>3, TakeLoadedKeeps, TakeSurfaceKeeps, LoadReadsKeeps, RawReadsKeeps, EndsKeeps, RenderKeeps
<1> QED BY <1>1, <1>2, <1>3 DEF TextureNext

LEMMA PictureInvHolds == TextureSpec => []PictureInv
    BY InitPicture, StepPicture, PTL DEF TextureSpec

\* However many photos, however often their files are written, whatever the dates, and
\* however the threads' answers overtake each other: a photo nothing of which is on its
\* way is on the screen as it is in the file, unless it failed, was thrown out of the raw
\* queue, was given an older result last or got a date that refresh cannot tell.
THEOREM ScreenShowsFile == TextureSpec => []PictureIsCurrent
<1>1. ASSUME PictureInv, NEW p \in Photo, Still(p), p \notin failed \cup dropped \cup overtaken \cup missed
      PROVE  tex[p] = loaded[p] /\ loaded[p].v = version[p] /\ (loaded[p].full \/ p \in kept)
    <2>1. date[p] <= timestamp[p]
        BY <1>1 DEF Still, OutOfDate, PictureInv, Shape
    <2>2. Among(loads) = {} /\ Among(raws) = {} /\ Among(renders) = {} /\ Among(posted) = {}
        BY <1>1, AmongFew DEF Still
    <2>3. ~LoadOnWay(p) /\ ~RawOnWay(p)
        BY <2>2, <1>1 DEF Still, LoadOnWay, RawOnWay
    <2>4. Loaded(p) /\ Drawing(p)
        BY <2>1, <2>3, <1>1 DEF PictureInv, Followed
    <2>5. tex[p] = loaded[p]
        BY <2>4, <2>2, <1>1 DEF Drawing, Still
    <2> QED BY <2>3, <2>4, <2>5, <1>1 DEF Loaded
<1>2. PictureInv => PictureIsCurrent
    BY <1>1 DEF PictureIsCurrent
<1> QED BY <1>2, PictureInvHolds, PTL

-----------------------------------------------------------------------------
(* The types *)

Message == [kind : {"loaded", "surface"}, task : Task]

\* A file is written once for each of the events at most, so that no picture is of a
\* version that is out of bounds.
PictureTyped ==
    /\ clock \in Time /\ version \in [Photo -> 1..MaxVersion]
    /\ date \in [Photo -> 1..clock] /\ modified \in [Photo -> 1..clock]
    /\ thumbed \in [Photo -> 0..clock] /\ timestamp \in [Photo -> 0..clock]
    /\ since \in [Photo -> 0..clock]
    /\ events \in 0..MaxEvents /\ \A p \in Photo : version[p] <= events + 1
    /\ loaded \in [Photo -> Picture] /\ tex \in [Photo -> Picture]
    /\ invalid \in [Photo -> BOOLEAN] /\ staged \in [Photo -> SUBSET Picture]
    /\ rawPreview \in BOOLEAN
    /\ loads \in Seq(Photo) /\ raws \in Seq(Photo) /\ Len(raws) <= 1
    /\ loading \subseteq Task /\ rawing \subseteq Task
    /\ renders \in Seq(Task) /\ posted \in Seq(Message)
    /\ failed \subseteq Photo /\ dropped \subseteq Photo /\ overtaken \subseteq Photo
    /\ missed \subseteq Photo /\ kept \subseteq Photo

LEMMA InitTyped == TextureInit => PictureTyped
<1> SUFFICES ASSUME TextureInit PROVE PictureTyped
    OBVIOUS
<1>1. MaxVersion \in Nat /\ 1 \in 1..MaxVersion /\ 0 \in 0..MaxVersion /\ 0 \in 0..MaxEvents
      /\ 1 \in Time /\ 1 \in 1..1 /\ 0 \in 0..1
    BY TextureAssumption DEF MaxVersion, Time
<1>2. Thumbnail \in Picture
    BY <1>1 DEF Thumbnail, Picture
<1> QED BY <1>1, <1>2, EmptySeq DEF TextureInit, PictureTyped

LEMMA RawLoadTyped ==
    ASSUME PictureTyped, NEW p \in Photo, LoadRaw(p)
    PROVE  raws' \in Seq(Photo) /\ Len(raws') <= 1 /\ dropped' \subseteq Photo /\ kept' \subseteq Photo
<1>1. raws' = <<p>> /\ dropped' = (dropped \cup {raws[i] : i \in 1..Len(raws)}) \ {p} /\ kept' = kept \ {p}
    BY DEF LoadRaw, ResetAndEnqueue
<1>2. \A i \in 1..Len(raws) : raws[i] \in Photo
    BY ElementOfSeq DEF PictureTyped
<1>3. <<p>> \in Seq(Photo) /\ Len(<<p>>) = 1
    OBVIOUS
<1> QED BY <1>1, <1>2, <1>3 DEF PictureTyped

LEMMA PostTyped ==
    ASSUME PictureTyped, NEW kind \in {"loaded", "surface"}, NEW t \in Task, Post(kind, t.photo, t.pic)
    PROVE  posted' \in Seq(Message)
<1>1. [kind |-> kind, task |-> [photo |-> t.photo, pic |-> t.pic]] \in Message
    BY DEF Message, Task
<1> QED BY <1>1, AppendProperties DEF Post, PictureTyped

LEMMA PictureUiStaysTyped ==
    ASSUME PictureTyped, NEW p \in Photo, RefreshTexture(p) \/ Draw(p) \/ ShowRaw(p)
    PROVE  PictureTyped'
<1> USE DEF PictureTyped, file, stamps
<1>1. CASE RefreshTexture(p)
    <2>1. loads' \in Seq(Photo)
        BY <1>1, AppendProperties DEF RefreshTexture
    <2>2. timestamp' \in [Photo -> 0..clock] /\ since' \in [Photo -> 0..clock]
        BY <1>1 DEF RefreshTexture, Time
    <2> QED BY <1>1, <2>1, <2>2 DEF RefreshTexture
<1>2. CASE Draw(p)
    <2> DEFINE now == IF invalid[p] /\ loaded[p].full THEN {loaded[p]} ELSE staged[p]
    <2>1. now \subseteq Picture
        OBVIOUS
    <2>2. tex' = IF now = {} THEN tex ELSE [tex EXCEPT ![p] = CHOOSE pic \in now : TRUE]
        BY <1>2 DEF Draw
    <2> HIDE DEF now
    <2>3. now # {} => (CHOOSE pic \in now : TRUE) \in Picture
        BY <2>1
    <2>4. tex' \in [Photo -> Picture]
        BY <2>2, <2>3
    <2>5. [photo |-> p, pic |-> loaded[p]] \in Task
        BY DEF Task
    <2>6. renders' \in Seq(Task)
        BY <1>2, <2>5, AppendProperties DEF Draw
    <2> QED BY <1>2, <2>4, <2>6 DEF Draw, faults
<1>3. CASE ShowRaw(p)
    <2>1. raws' \in Seq(Photo) /\ Len(raws') <= 1 /\ dropped' \subseteq Photo /\ kept' \subseteq Photo
        BY <1>3, RawLoadTyped DEF ShowRaw
    <2>2. events' \in 0..MaxEvents /\ \A q \in Photo : version'[q] <= events' + 1
        BY <1>3, TextureAssumption DEF ShowRaw, Ask
    <2> QED BY <1>3, <2>1, <2>2 DEF ShowRaw
<1> QED BY <1>1, <1>2, <1>3

LEMMA AnswerStaysTyped ==
    ASSUME PictureTyped, TakeLoaded \/ TakeSurface PROVE PictureTyped'
<1> USE DEF PictureTyped, file, stamps
<1> DEFINE c == Head(posted)
<1>1. posted # <<>> /\ posted' = Tail(posted)
    BY DEF TakeLoaded, TakeSurface
<1>2. c \in Message /\ posted' \in Seq(Message)
    BY <1>1, HeadTailProperties
<1>3. c.task.photo \in Photo /\ c.task.pic \in Picture
    BY <1>2 DEF Message, Task
<1>4. CASE TakeLoaded
    <2>1. raws' \in Seq(Photo) /\ Len(raws') <= 1 /\ dropped' \subseteq Photo /\ kept' \subseteq Photo
        BY <1>3, <1>4, RawLoadTyped DEF TakeLoaded
    <2>2. loaded' \in [Photo -> Picture] /\ invalid' \in [Photo -> BOOLEAN]
        BY <1>3, <1>4 DEF TakeLoaded, Updated
    <2> QED BY <1>2, <1>3, <1>4, <2>1, <2>2 DEF TakeLoaded
<1>5. CASE TakeSurface
    <2>1. staged' \in [Photo -> SUBSET Picture]
        BY <1>3, <1>5 DEF TakeSurface
    <2> QED BY <1>2, <1>3, <1>5, <2>1 DEF TakeSurface
<1> QED BY <1>4, <1>5

LEMMA PictureThreadStaysTyped ==
    ASSUME PictureTyped, LoadReads \/ LoadEnds \/ RawReads \/ RawEnds \/ Render PROVE PictureTyped'
<1> USE DEF PictureTyped, file, stamps
<1>1. ASSUME NEW p \in Photo, NEW full \in BOOLEAN
      PROVE  [photo |-> p, pic |-> [v |-> version[p], full |-> full]] \in Task
    BY DEF Task, Picture
<1>2. CASE LoadReads
    <2>1. Head(loads) \in Photo /\ loads' \in Seq(Photo)
        BY <1>2, HeadTailProperties DEF LoadReads
    <2>2. loading' \subseteq Task
        BY <1>1, <1>2, <2>1 DEF LoadReads
    <2> QED BY <1>2, <2>1, <2>2 DEF LoadReads, faults
<1>3. CASE RawReads
    <2>1. Head(raws) \in Photo /\ raws' \in Seq(Photo) /\ Len(raws') <= 1
        <3>1. Len(Tail(raws)) = Len(raws) - 1 /\ Len(raws) \in Nat
            BY <1>3, HeadTailProperties, LenProperties DEF RawReads
        <3> QED BY <3>1, <1>3, HeadTailProperties DEF RawReads
    <2>2. rawing' \subseteq Task
        BY <1>1, <1>3, <2>1 DEF RawReads
    <2> QED BY <1>3, <2>1, <2>2 DEF RawReads, faults
<1>4. CASE LoadEnds
    <2>1. posted' \in Seq(Message) /\ failed' \subseteq Photo
        BY <1>4, PostTyped DEF LoadEnds, Task
    <2> QED BY <1>4, <2>1 DEF LoadEnds
<1>5. CASE RawEnds
    <2>1. posted' \in Seq(Message) /\ failed' \subseteq Photo
        BY <1>5, PostTyped DEF RawEnds, Task
    <2> QED BY <1>5, <2>1 DEF RawEnds
<1>6. CASE Render
    <2>1. Head(renders) \in Task /\ renders' \in Seq(Task)
        BY <1>6, HeadTailProperties DEF Render
    <2>2. posted' \in Seq(Message)
        BY <1>6, <2>1, PostTyped DEF Render
    <2> QED BY <1>6, <2>1, <2>2 DEF Render, faults
<1> QED BY <1>2, <1>3, <1>4, <1>5, <1>6

LEMMA FileStaysTyped ==
    ASSUME PictureTyped, NEW p \in Photo, NEW d \in Time, FileWritten(p, d) PROVE PictureTyped'
<1> USE DEF PictureTyped, stamps
<1>1. /\ events' = events + 1 /\ events < MaxEvents /\ version' = [version EXCEPT ![p] = @ + 1]
      /\ date' = [date EXCEPT ![p] = d] /\ clock' = IF d > clock THEN d ELSE clock
    BY DEF FileWritten, Ask
<1>2. \A q \in Photo : version[q] \in Nat /\ version[q] >= 1 /\ version[q] <= events + 1
    BY TextureAssumption DEF MaxVersion
<1>3. \A q \in Photo : version'[q] = IF q = p THEN version[q] + 1 ELSE version[q]
    BY <1>1
<1>4. \A q \in Photo : version'[q] \in 1..MaxVersion /\ version'[q] <= events' + 1
    <2>1. events \in Nat /\ MaxEvents \in Nat /\ events + 1 <= MaxEvents /\ events' = events + 1
        BY <1>1, TextureAssumption
    <2> HIDE DEF PictureTyped
    <2>2. ASSUME NEW q \in Photo
          PROVE  version'[q] \in Nat /\ version'[q] >= 1 /\ version'[q] <= events + 2
        <3>1. version[q] \in Nat /\ version[q] >= 1 /\ version[q] <= events + 1
            BY <1>2
        <3>2. version'[q] = version[q] \/ version'[q] = version[q] + 1
            BY <1>3
        <3> QED BY <3>1, <3>2, <2>1
    <2> QED BY <2>1, <2>2 DEF MaxVersion
<1>5. version' \in [Photo -> 1..MaxVersion]
    <2>1. version' = [q \in Photo |-> version'[q]]
        BY <1>1
    <2> QED BY <2>1, <1>4
<1>6. events' \in 0..MaxEvents
    BY <1>1, TextureAssumption
<1>7. clock' \in Time /\ d \in 1..clock' /\ 1..clock \subseteq 1..clock' /\ 0..clock \subseteq 0..clock'
    BY <1>1 DEF Time
<1>8. /\ date' \in [Photo -> 1..clock'] /\ modified' \in [Photo -> 1..clock']
      /\ thumbed' \in [Photo -> 0..clock'] /\ timestamp' \in [Photo -> 0..clock'] /\ since' \in [Photo -> 0..clock']
    BY <1>1, <1>7 DEF FileWritten
<1> QED BY <1>4, <1>5, <1>6, <1>7, <1>8 DEF FileWritten, threads

LEMMA ItemStaysTyped ==
    ASSUME PictureTyped,
           SetPreview \/ \E p \in Photo : ItemScanned(p) \/ \E t \in Time : ThumbnailScanned(p, t)
    PROVE  PictureTyped'
<1> USE DEF PictureTyped, stamps, file, threads, faults
<1>1. CASE SetPreview
    BY <1>1, TextureAssumption DEF SetPreview, Ask
<1>2. ASSUME NEW p \in Photo, ItemScanned(p) PROVE PictureTyped'
    <2>1. modified' \in [Photo -> 1..clock]
        BY <1>2 DEF ItemScanned
    <2> QED BY <1>2, <2>1 DEF ItemScanned
<1>3. ASSUME NEW p \in Photo, NEW t \in Time, ThumbnailScanned(p, t) PROVE PictureTyped'
    <2>1. clock' = t /\ t \in {clock, clock + 1} /\ thumbed' = [thumbed EXCEPT ![p] = t]
        BY <1>3 DEF ThumbnailScanned
    <2>2. clock' \in Time /\ t \in 0..clock' /\ 1..clock \subseteq 1..clock' /\ 0..clock \subseteq 0..clock'
        BY <2>1 DEF Time
    <2>3. /\ date' \in [Photo -> 1..clock'] /\ modified' \in [Photo -> 1..clock']
          /\ thumbed' \in [Photo -> 0..clock'] /\ timestamp' \in [Photo -> 0..clock']
          /\ since' \in [Photo -> 0..clock']
        <3>1. UNCHANGED <<date, modified, timestamp, since>>
            BY <1>3 DEF ThumbnailScanned
        <3>2. date' \in [Photo -> 1..clock'] /\ modified' \in [Photo -> 1..clock']
            BY <3>1, <2>2
        <3>3. timestamp' \in [Photo -> 0..clock'] /\ since' \in [Photo -> 0..clock']
            BY <3>1, <2>2
        <3>4. thumbed' \in [Photo -> 0..clock']
            BY <2>1, <2>2
        <3> QED BY <3>2, <3>3, <3>4
    <2>4. events' \in 0..MaxEvents /\ \A q \in Photo : version[q] <= events' + 1
        BY <1>3, TextureAssumption DEF ThumbnailScanned, Ask
    <2> QED BY <1>3, <2>2, <2>3, <2>4 DEF ThumbnailScanned
<1> QED BY <1>1, <1>2, <1>3

\* The variables keep their types: no more than one rendering waits, and no picture is
\* newer than the file ever was.
THEOREM PictureTypeCorrect == TextureSpec => []TextureTypeOK
<1>1. ASSUME PictureTyped, [TextureNext]_textureVars PROVE PictureTyped'
    <2>1. CASE UNCHANGED textureVars
        BY <1>1, <2>1 DEF PictureTyped, textureVars, file, stamps, threads, faults
    <2>2. CASE TextureNext
        BY <1>1, <2>2, PictureUiStaysTyped, AnswerStaysTyped, PictureThreadStaysTyped, FileStaysTyped,
            ItemStaysTyped DEF TextureNext
    <2> QED BY <1>1, <2>1, <2>2
<1>2. ASSUME PictureTyped, PictureInv PROVE TextureTypeOK
    <2>1. \A i \in 1..Len(posted) : posted[i].task \in Task
        <3>1. \A i \in 1..Len(posted) : posted[i] \in Message
            BY <1>2, ElementOfSeq DEF PictureTyped
        <3> QED BY <3>1 DEF Message
    <2> QED BY <1>2, <2>1 DEF PictureTyped, PictureInv, NotNewer, TextureTypeOK
<1> QED BY <1>1, <1>2, InitTyped, PictureInvHolds, PTL DEF TextureSpec
=============================================================================
