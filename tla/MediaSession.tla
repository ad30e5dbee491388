---------------------------- MODULE MediaSession ----------------------------
(***************************************************************************)
(* A playing av_session and the four threads that share it.                *)
(*                                                                         *)
(* The reader thread seeks and reads packets; a thread per stream decodes  *)
(* them into frames; the video frames are shown by the UI thread, the      *)
(* audio frames go through an audio_buffer to the device, on the audio     *)
(* thread.  A seek clears the queues, sends an empty packet down each, for *)
(* the codec to be flushed, and counts _seek_gen up; packets and frames    *)
(* carry the generation they were read in.  Seek and decode both take      *)
(* _decoder_rw shared, so that a thread may be holding a packet or a frame *)
(* of the old generation while the seek goes on.  The session's clock      *)
(* (_time_offset) is set from the audio device, or without audio from the  *)
(* first frame shown after the seek.                                       *)
(*                                                                         *)
(* The place in the media is named after the generation that seeks to it;  *)
(* the content of a packet, a frame or a piece of sound is its place.      *)
(***************************************************************************)
EXTENDS Naturals, Sequences

CONSTANTS
    File,       \* the files that may be opened: the streams that are played, the
                \* frames a codec keeps until it is sent another packet, the bounds
                \* on the frames in a packet and on the seeks
    QueueSize,  \* av_queue::should_receive: 16
    Capacity,   \* audio_buffer::init: 4
    MaxPackets, \* bound on a queue of packets whose stream is ahead of the other's
    MaxGen      \* bound on the seeks of all files

ASSUME SessionAssumption ==
    /\ File \subseteq [streams : (SUBSET {"audio", "video"}) \ {{}}, heldBack : Nat, perPacket : Nat \ {0},
                    lastGen : 1..MaxGen]
    /\ Capacity \in Nat \ {0, 1}
    /\ QueueSize \in Nat \ {0} /\ MaxPackets \in Nat /\ MaxPackets >= QueueSize
    /\ MaxGen \in Nat \ {0}

Gen == 0..MaxGen

\* a packet whose frames are in the codec is "sent"
Packet == [kind : {"data", "sent", "flush", "eof"}, gen : Gen, content : Gen]

Data(g, c) == [kind |-> "data", gen |-> g, content |-> c]
Flush == [kind |-> "flush", gen |-> 0, content |-> 0]
Eof == [kind |-> "eof", gen |-> 0, content |-> 0]

\* av_seek_gen_from_frame of no frame is less than any generation
NoFrame == Data(0, 0)

VARIABLES
    file,       \* the open file
    rdPc,       \* the reader thread in av_session::seek
    gen,        \* _seek_gen
    place,      \* where the demuxer reads
    eof,        \* av_format_decoder::_eof
    packets,    \* _audio_packets, _video_packets
    decoding,   \* the packets receive_frames has popped, none or one for each stream
    codec,      \* the places of the frames in each codec, the next to come out first
    frames,     \* _audio_frames, _video_frames
    playing,    \* _state is playing, not paused
    scrubbing, pending, reset,  \* _scrubbing, _pending_time_sync, _reset_time_offset
    clock,      \* the generation whose time _time_offset was set from
    uiPc, shown,                \* the UI thread in update_for_present, _frame
    auPc,       \* the audio thread
    device,     \* it has a device, ds
    halted,     \* should_be_stopped, of one pass
    buffer,     \* playback_buffer: pieces of sound, about a second each
    bufGen,     \* its generation
    playGen     \* playback_gen, the generation of base_time

seekVars == <<rdPc, gen, place, eof>>
pipeVars == <<packets, decoding, codec, frames>>
syncVars == <<scrubbing, pending, reset, clock>>
uiVars == <<uiPc, shown>>
auVars == <<auPc, device, halted, buffer, bufGen, playGen>>
vars == <<seekVars, pipeVars, playing, syncVars, uiVars, auVars>>

Stream == file.streams
HeldBack == file.heldBack
FramesPerPacket == file.perPacket

TypeOK ==
    /\ file \in File
    /\ rdPc \in {"idle", "packets", "frames", "flush", "gen", "sync"}
    /\ gen \in Gen /\ place \in Gen /\ eof \in BOOLEAN
    /\ packets \in [Stream -> Seq(Packet)] /\ decoding \in [Stream -> Seq(Packet)]
    /\ codec \in [Stream -> Seq(Gen)] /\ frames \in [Stream -> Seq(Packet)]
    /\ \A s \in Stream :
        /\ Len(decoding[s]) <= 1
        /\ Len(codec[s]) <= HeldBack + FramesPerPacket
        /\ Len(frames[s]) < QueueSize + HeldBack + FramesPerPacket
    /\ playing \in BOOLEAN
    /\ scrubbing \in BOOLEAN /\ pending \in BOOLEAN /\ reset \in BOOLEAN
    /\ clock \in Gen
    /\ uiPc \in {"idle", "pop", "check", "sync"} /\ shown \in Packet
    /\ auPc \in {"top", "receive", "decode", "fill", "check", "play", "write", "sync"}
    /\ device \in BOOLEAN /\ halted \in BOOLEAN
    /\ buffer \in Seq(Gen) /\ Len(buffer) <= Capacity
    /\ bufGen \in Gen /\ playGen \in Gen

\* av_session::open, with auto_play; sound has a device, or none could be created
Init ==
    /\ file \in File
    /\ rdPc = "idle" /\ gen = 1 /\ place = 1 /\ eof = FALSE
    /\ packets = [s \in Stream |-> <<>>] /\ decoding = [s \in Stream |-> <<>>]
    /\ codec = [s \in Stream |-> <<>>] /\ frames = [s \in Stream |-> <<>>]
    /\ playing = TRUE
    /\ scrubbing = FALSE /\ pending = TRUE /\ reset = ("audio" \notin Stream) /\ clock = 0
    /\ uiPc = "idle" /\ shown = NoFrame
    /\ device \in BOOLEAN /\ (device => "audio" \in Stream)
    /\ auPc = "top" /\ halted = FALSE
    /\ buffer = <<>> /\ bufGen = 0 /\ playGen = 0

-----------------------------------------------------------------------------
(* Slips of the kind these steps invite.  They are no part of Spec: each     *)
(* shows what a property of this module would notice.                        *)

\* the codecs are not flushed after a seek
PushFlushNot ==
    /\ rdPc = "flush"
    /\ rdPc' = "gen"
    /\ UNCHANGED <<gen, place, eof, pipeVars, playing, syncVars, uiVars, auVars>>

\* the new samples are copied in front of the old ones, which are kept
AppendedInFront(b, f) == <<f.content>> \o b

\* the audio thread leaves the sync to the seek
AudioPlayUnsynced ==
    /\ auPc = "play"
    /\ playGen' = IF buffer # <<>> THEN bufGen ELSE playGen
    /\ auPc' = IF buffer # <<>> /\ ~halted THEN "write" ELSE "top"
    /\ halted' = FALSE
    /\ UNCHANGED <<seekVars, pipeVars, playing, syncVars, uiVars, device, buffer, bufGen>>

\* the sync is for sound of the generation only
AudioSyncNew ==
    /\ auPc = "sync"
    /\ IF playGen = clock THEN UNCHANGED <<clock, pending>> ELSE clock' = playGen /\ pending' = FALSE
    /\ auPc' = "top"
    /\ UNCHANGED <<seekVars, pipeVars, playing, scrubbing, reset, uiVars, device, halted, buffer,
                   bufGen, playGen>>

\* nothing is shown while it does not play
UiDecidePlaying ==
    /\ "video" \in Stream /\ uiPc = "idle"
    /\ uiPc' = IF playing /\ ~scrubbing THEN "pop" ELSE "check"
    /\ UNCHANGED <<seekVars, pipeVars, playing, syncVars, shown, auVars>>

\* a queue is not full until there is more than the limit in it
HasRoomFor(q) == Len(q) <= QueueSize

-----------------------------------------------------------------------------
(* The reader thread: av_session::seek *)

\* the demuxer goes to the new place
SeekDecoder(scrub) ==
    /\ rdPc = "idle" /\ gen < file.lastGen
    /\ scrubbing' = scrub
    /\ place' = gen + 1 /\ eof' = FALSE
    /\ rdPc' = "packets"
    /\ UNCHANGED <<gen, pipeVars, playing, pending, reset, clock, uiVars, auVars>>

\* or it cannot, or the place is where the last seek went
SeekNowhere(scrub) ==
    /\ rdPc = "idle"
    /\ scrubbing' = scrub
    /\ eof' \in BOOLEAN
    /\ UNCHANGED <<rdPc, gen, place, pipeVars, playing, pending, reset, clock, uiVars, auVars>>

ClearPackets ==
    /\ rdPc = "packets"
    /\ packets' = [s \in Stream |-> <<>>]
    /\ rdPc' = "frames"
    /\ UNCHANGED <<gen, place, eof, decoding, codec, frames, playing, syncVars, uiVars, auVars>>

ClearFrames ==
    /\ rdPc = "frames"
    /\ frames' = [s \in Stream |-> <<>>]
    /\ rdPc' = "flush"
    /\ UNCHANGED <<gen, place, eof, packets, decoding, codec, playing, syncVars, uiVars, auVars>>

\* an empty packet for each stream
PushFlush ==
    /\ rdPc = "flush"
    /\ packets' = [s \in Stream |-> Append(packets[s], Flush)]
    /\ rdPc' = "gen"
    /\ UNCHANGED <<gen, place, eof, decoding, codec, frames, playing, syncVars, uiVars, auVars>>

CountGeneration ==
    /\ rdPc = "gen"
    /\ gen' = gen + 1
    /\ rdPc' = "sync"
    /\ UNCHANGED <<place, eof, pipeVars, playing, syncVars, uiVars, auVars>>

\* _pending_time_sync, _reset_time_offset
AskForSync ==
    /\ rdPc = "sync"
    /\ pending' = TRUE /\ reset' = ("audio" \notin Stream)
    /\ rdPc' = "idle"
    /\ UNCHANGED <<gen, place, eof, pipeVars, playing, scrubbing, clock, uiVars, auVars>>

-----------------------------------------------------------------------------
(* The reader thread: process_io *)

HasRoom(q) == Len(q) < QueueSize

WantsPackets == \E s \in Stream : HasRoom(packets[s])

ReadPacket(s) ==
    /\ rdPc = "idle" /\ ~eof /\ WantsPackets
    /\ Len(packets[s]) < MaxPackets
    /\ packets' = [packets EXCEPT ![s] = Append(@, Data(gen, place))]
    /\ UNCHANGED <<seekVars, decoding, codec, frames, playing, syncVars, uiVars, auVars>>

\* the end of the media is pushed down every queue
ReadEof ==
    /\ rdPc = "idle" /\ ~eof /\ WantsPackets
    /\ eof' = TRUE
    /\ packets' = [s \in Stream |-> Append(packets[s], Eof)]
    /\ UNCHANGED <<rdPc, gen, place, decoding, codec, frames, playing, syncVars, uiVars, auVars>>

\* pause_impl, or the audio device is lost
Pause ==
    /\ playing
    /\ playing' = FALSE
    /\ UNCHANGED <<seekVars, pipeVars, syncVars, uiVars, auVars>>

\* play_impl, after its seek when the media has been played to the end
Play ==
    /\ rdPc = "idle"
    /\ playing' = TRUE
    /\ pending' = TRUE
    /\ UNCHANGED <<seekVars, pipeVars, scrubbing, reset, clock, uiVars, auVars>>

-----------------------------------------------------------------------------
(* receive_frames, on the thread of the stream *)

Pop(s) ==
    /\ packets[s] # <<>>
    /\ decoding' = [decoding EXCEPT ![s] = <<Head(packets[s])>>]
    /\ packets' = [packets EXCEPT ![s] = Tail(@)]
    /\ UNCHANGED <<codec, frames>>

Done(s) == decoding' = [decoding EXCEPT ![s] = <<>>]

Emit(s, f) == frames' = [frames EXCEPT ![s] = Append(@, f)]

\* the packet of the end brings a frame of the end; no codec hears of it
DecodeEof(s) ==
    /\ decoding[s] # <<>> /\ Head(decoding[s]).kind = "eof"
    /\ Emit(s, Eof)
    /\ Done(s)
    /\ UNCHANGED codec

\* the empty packet of a seek
DecodeFlush(s) ==
    /\ decoding[s] # <<>> /\ Head(decoding[s]).kind = "flush"
    /\ frames' = [frames EXCEPT ![s] = <<>>]
    /\ codec' = [codec EXCEPT ![s] = <<>>]
    /\ Done(s)

\* the codec has the frames c: it keeps them for the next packet, or they come out
Keeps(s, c) ==
    /\ codec' = [codec EXCEPT ![s] = c]
    /\ \/ Len(c) <= HeldBack /\ Done(s)
       \/ c # <<>> /\ decoding' = [decoding EXCEPT ![s] = <<[Head(@) EXCEPT !.kind = "sent"]>>]

\* the codec takes the packet, with n frames in it, none if it refuses the packet; it
\* was drained of the last one, so that it never asks to be drained first (EAGAIN)
SendPacket(s, n) ==
    /\ decoding[s] # <<>> /\ Head(decoding[s]).kind = "data"
    /\ Keeps(s, codec[s] \o [i \in 1..n |-> Head(decoding[s]).content])
    /\ UNCHANGED frames

\* a frame that comes out has the generation of the packet in hand
ReceiveFrame(s) ==
    /\ decoding[s] # <<>> /\ Head(decoding[s]).kind = "sent"
    /\ Emit(s, Data(Head(decoding[s]).gen, Head(codec[s])))
    /\ Keeps(s, Tail(codec[s]))

Decode(s) ==
    /\ DecodeEof(s) \/ DecodeFlush(s) \/ ReceiveFrame(s)
       \/ \E n \in 0..FramesPerPacket : SendPacket(s, n)
    /\ UNCHANGED packets

\* process_video
VideoPop ==
    /\ "video" \in Stream /\ decoding["video"] = <<>> /\ HasRoom(frames["video"])
    /\ Pop("video")
    /\ UNCHANGED <<seekVars, playing, syncVars, uiVars, auVars>>

VideoDecode ==
    /\ "video" \in Stream /\ Decode("video")
    /\ UNCHANGED <<seekVars, playing, syncVars, uiVars, auVars>>

-----------------------------------------------------------------------------
(* The audio thread: decode_audio with process_audio *)

Low == Len(buffer) <= 1

WantsSound == Low \/ gen # bufGen

\* another device, or one for the device lost: the buffer is emptied and keeps
\* its generation; where none can be created, none is tried in this session again
NewDevice ==
    /\ "audio" \in Stream /\ auPc = "top" /\ device
    /\ device' \in BOOLEAN
    /\ buffer' = <<>> /\ playGen' = 0
    /\ UNCHANGED <<seekVars, pipeVars, playing, syncVars, uiVars, auPc, halted, bufGen>>

AudioTop ==
    /\ "audio" \in Stream /\ auPc = "top" /\ device
    /\ halted' = (~playing \/ scrubbing)
    /\ auPc' = "receive"
    /\ UNCHANGED <<seekVars, pipeVars, playing, syncVars, uiVars, device, buffer, bufGen, playGen>>

AudioPop ==
    /\ auPc = "receive" /\ HasRoom(frames["audio"])
    /\ Pop("audio")
    /\ auPc' = "decode"
    /\ UNCHANGED <<seekVars, playing, syncVars, uiVars, device, halted, buffer, bufGen, playGen>>

AudioDecode ==
    /\ auPc = "decode"
    /\ Decode("audio")
    /\ auPc' = IF decoding'["audio"] = <<>> THEN "fill" ELSE "decode"
    /\ UNCHANGED <<seekVars, playing, syncVars, uiVars, device, halted, buffer, bufGen, playGen>>

\* there is no room for frames, or no packet; the loop is over when the buffer
\* is full and of the generation
AudioPass ==
    /\ auPc = "receive"
    /\ ~HasRoom(frames["audio"]) \/ packets["audio"] = <<>>
    /\ auPc' = IF HasRoom(frames["audio"]) \/ WantsSound THEN "fill" ELSE "play"
    /\ UNCHANGED <<seekVars, pipeVars, playing, syncVars, uiVars, device, halted, buffer,
                   bufGen, playGen>>

\* append_blank_second, or audio_buffer::append, of which nothing is left when
\* there is no room; samples of another generation are copied behind those in the
\* buffer, whose first part then passes for them
Appended(b, f) ==
    IF f.kind = "eof" \/ f.gen = bufGen THEN Append(b, f.content)
    ELSE IF b = <<>> THEN <<f.content>> ELSE <<Head(b)>>

\* a frame is popped; only one of the generation is put into the buffer, the thread's own
AudioTake ==
    /\ auPc = "fill" /\ WantsSound /\ frames["audio"] # <<>>
    /\ LET f == Head(frames["audio"]) IN
        IF (f.kind = "eof" \/ f.gen = gen) /\ Len(buffer) < Capacity
        THEN /\ buffer' = Appended(buffer, f)
             /\ bufGen' = IF f.kind = "eof" THEN bufGen ELSE f.gen
        ELSE UNCHANGED <<buffer, bufGen>>
    /\ frames' = [frames EXCEPT !["audio"] = Tail(@)]
    /\ auPc' = "check"
    /\ UNCHANGED <<seekVars, packets, decoding, codec, playing, syncVars, uiVars, device, halted, playGen>>

AudioFull ==
    /\ auPc = "fill" /\ (~WantsSound \/ frames["audio"] = <<>>)
    /\ auPc' = "check"
    /\ UNCHANGED <<seekVars, pipeVars, playing, syncVars, uiVars, device, halted, buffer,
                   bufGen, playGen>>

\* the loop goes on when there are packets enough, up to max_loop_iteration times
AudioCheck ==
    /\ auPc = "check"
    /\ auPc' \in IF HasRoom(packets["audio"]) THEN {"play"} ELSE {"play", "receive"}
    /\ UNCHANGED <<seekVars, pipeVars, playing, syncVars, uiVars, device, halted, buffer,
                   bufGen, playGen>>

\* a buffer of a new generation sets the device and the clock anew
AudioPlay ==
    /\ auPc = "play"
    /\ IF buffer # <<>> /\ playGen # bufGen
       THEN playGen' = bufGen /\ pending' = TRUE /\ clock' = bufGen
       ELSE UNCHANGED <<playGen, pending, clock>>
    /\ auPc' = IF buffer # <<>> /\ ~halted THEN "write" ELSE "top"
    /\ halted' = FALSE
    /\ UNCHANGED <<seekVars, pipeVars, playing, scrubbing, reset, uiVars, device, buffer, bufGen>>

\* the device takes what it has room for; the sync is looked at
AudioWrite(n) ==
    /\ auPc = "write"
    /\ n <= Len(buffer)
    /\ buffer' = SubSeq(buffer, n + 1, Len(buffer))
    /\ auPc' = IF pending THEN "sync" ELSE "top"
    /\ UNCHANGED <<seekVars, pipeVars, playing, syncVars, uiVars, device, halted, bufGen, playGen>>

\* the clock is set from the device
AudioSync ==
    /\ auPc = "sync"
    /\ clock' = playGen /\ pending' = FALSE
    /\ auPc' = "top"
    /\ UNCHANGED <<seekVars, pipeVars, playing, scrubbing, reset, uiVars, device, halted, buffer,
                   bufGen, playGen>>

-----------------------------------------------------------------------------
(* The UI thread: update_for_present *)

\* a frame of another generation is replaced at once, one of this generation
\* when its time has come
UiDecide ==
    /\ "video" \in Stream /\ uiPc = "idle"
    /\ \/ shown.gen # gen /\ uiPc' = "pop"
       \/ shown.gen = gen /\ playing /\ ~scrubbing /\ ~pending /\ ~reset /\ uiPc' = "pop"
       \/ shown.gen = gen /\ uiPc' = "check"
    /\ UNCHANGED <<seekVars, pipeVars, playing, syncVars, shown, auVars>>

UiPop ==
    /\ uiPc = "pop"
    /\ IF frames["video"] = <<>>
       THEN UNCHANGED <<frames, shown>>
       ELSE /\ frames' = [frames EXCEPT !["video"] = Tail(@)]
            /\ shown' = IF Head(frames["video"]).kind = "eof" THEN shown
                                                              ELSE Head(frames["video"])
    /\ uiPc' = "check"
    /\ UNCHANGED <<seekVars, packets, decoding, codec, playing, syncVars, auVars>>

\* the clock waits for the first frame of the generation
UiCheck ==
    /\ uiPc = "check"
    /\ uiPc' = IF reset /\ shown.gen = gen THEN "sync" ELSE "idle"
    /\ UNCHANGED <<seekVars, pipeVars, playing, syncVars, shown, auVars>>

UiSync ==
    /\ uiPc = "sync"
    /\ clock' = shown.gen /\ pending' = FALSE /\ reset' = FALSE
    /\ uiPc' = "idle"
    /\ UNCHANGED <<seekVars, pipeVars, playing, scrubbing, shown, auVars>>

-----------------------------------------------------------------------------

Seeking == ClearPackets \/ ClearFrames \/ PushFlush \/ CountGeneration \/ AskForSync

Reading == ReadEof \/ \E s \in Stream : ReadPacket(s)

User == Pause \/ Play \/ NewDevice \/ \E scrub \in BOOLEAN : SeekDecoder(scrub) \/ SeekNowhere(scrub)

VideoThread == VideoPop \/ VideoDecode

AudioThread ==
    \/ AudioTop \/ AudioPop \/ AudioDecode \/ AudioPass \/ AudioTake \/ AudioFull
    \/ AudioCheck \/ AudioPlay \/ AudioSync
    \/ \E n \in 0..Capacity : AudioWrite(n)

UiThread == UiDecide \/ UiPop \/ UiCheck \/ UiSync

Next ==
    /\ Seeking \/ Reading \/ User \/ VideoThread \/ AudioThread \/ UiThread
    /\ UNCHANGED file

Spec == Init /\ [][Next]_<<vars, file>>

\* Every thread wakes at least every 50 or 100 ms, and the frame timer presents.
\* A device that plays makes room, the audio thread's inner loop ends, and of the
\* packets that are sent to a codec some have frames.
Fairness ==
    /\ WF_vars(Seeking) /\ WF_vars(Reading)
    /\ WF_vars(VideoThread) /\ WF_vars(AudioThread) /\ WF_vars(UiThread)
    /\ SF_auPc(AudioCheck /\ auPc' = "play")
    /\ SF_buffer(\E n \in 1..Capacity : AudioWrite(n))
    /\ SF_codec("video" \in Stream /\ \E n \in 1..FramesPerPacket : SendPacket("video", n))
    /\ SF_codec("audio" \in Stream /\ \E n \in 1..FramesPerPacket : SendPacket("audio", n))

FairSpec == Spec /\ Fairness

-----------------------------------------------------------------------------

\* A frame that passes for the current generation is from the place of the last
\* seek.  Queue, codec and thread may all hold something older; the empty packet,
\* behind the cleared queue and in front of the first new packet, is what keeps
\* an old picture out of a new frame.
FramesAreWhereTheySay ==
    \A s \in Stream : \A i \in 1..Len(frames[s]) :
        frames[s][i].kind = "data" => frames[s][i].content = frames[s][i].gen

\* After a seek at most the first piece of sound in the buffer is from before it.
OldSoundIsFirst == \A i \in 2..Len(buffer) : buffer[i] \in {0, bufGen}

\* The buffer holds the sound of its generation.
HeardIsWhereItSays == \A i \in 1..Len(buffer) : buffer[i] \in {0, bufGen}

\* After a seek a picture of the new place is shown, playing or paused, unless
\* there is another seek or the media ends.
ShowsTheSeek ==
    \A g \in 2..MaxGen :
        (gen = g /\ "video" \in Stream) ~> (shown.gen = g \/ gen # g \/ eof)

\* After a seek the clock is set from the new place of the sound, unless there
\* is another seek, the media ends, it does not play or has no device: what the
\* audio thread writes from an old buffer between the seek's steps is set right by
\* the new one.
ClockFollowsSeek ==
    \A g \in 2..MaxGen :
        (gen = g /\ "audio" \in Stream) ~> (\/ clock = g /\ ~pending
                      \/ gen # g \/ eof \/ ~playing \/ scrubbing \/ ~device)

\* What plays with sound has a clock that runs: while pending is set, av_session::pos
\* is the place of the last seek and no next frame is shown; but whatever sets the
\* flag, the audio thread comes by, if it has a device.
SoundIsHeeded ==
    ("audio" \in Stream /\ playing /\ ~scrubbing /\ pending)
        ~> (~pending \/ ~playing \/ scrubbing \/ eof \/ ~device)
=============================================================================
