------------------------- MODULE MediaSession_proofs -------------------------
(***************************************************************************)
(* Theorems about MediaSession, for any files, queue sizes and seeks.      *)
(***************************************************************************)
EXTENDS MediaSession, TLAPS

\* Of what a codec may hold back, h, and the packets q behind it.

IsData(p) == p.kind = "data"

NoFlush(q, i, j) == \A k \in 1..Len(q) : (i <= k /\ k <= j) => q[k].kind # "flush"

\* What is held back comes out with a packet of its own place.
Follows(h, q) ==
    \A i \in 1..Len(q) : (IsData(q[i]) /\ NoFlush(q, 1, i)) => h \subseteq {q[i].content}

\* Between packets of two places there is an empty one.
Parted(q) ==
    \A i, j \in 1..Len(q) :
        (i < j /\ IsData(q[i]) /\ IsData(q[j]) /\ NoFlush(q, i, j)) => q[i].content = q[j].content

\* A packet of place x may follow.
EndsAt(h, q, x) ==
    /\ \A i \in 1..Len(q) : (IsData(q[i]) /\ NoFlush(q, i, Len(q))) => q[i].content = x
    /\ NoFlush(q, 1, Len(q)) => h \subseteq {x}

Lined(h, q, x, open) == Follows(h, q) /\ Parted(q) /\ (open => EndsAt(h, q, x))

\* A queue that takes one more.
LEMMA QueueGrows ==
    ASSUME NEW q \in Seq(Packet), NEW p \in Packet
    PROVE  Append(q, p) \in Seq(Packet)
OBVIOUS

\* What is left out of sight of the line, what a codec or a hand holds, may go.
LEMMA LinedLess ==
    ASSUME NEW q, NEW h, NEW g \in SUBSET h, NEW x, NEW open, Lined(h, q, x, open)
    PROVE  Lined(g, q, x, open)
BY DEF Lined, Follows, EndsAt

\* An empty queue is in line whatever its codec holds.
LEMMA LinedEmpty ==
    ASSUME NEW h, NEW x, NEW open, open => h \subseteq {x}
    PROVE  Lined(h, <<>>, x, open)
BY DEF Lined, Follows, Parted, EndsAt

\* The empty packet of a seek makes room for another place behind it.
LEMMA LinedFlush ==
    ASSUME NEW q \in Seq(Packet), NEW h, NEW x, NEW y, NEW open, Lined(h, q, x, FALSE)
    PROVE  Lined(h, Append(q, Flush), y, open)
<1> DEFINE r == Append(q, Flush)
<1>1. Len(r) = Len(q) + 1 /\ r[Len(r)].kind = "flush" /\ \A i \in 1..Len(q) : r[i] = q[i]
  BY DEF Flush
<1>2. Len(q) \in Nat
  OBVIOUS
<1> HIDE DEF r
<1>3. \A i \in 1..Len(q), j \in 1..Len(q) : NoFlush(r, i, j) => NoFlush(q, i, j)
  BY <1>1, <1>2 DEF NoFlush
<1>4. \A i \in 1..Len(r) : ~NoFlush(r, i, Len(r))
  BY <1>1, <1>2 DEF NoFlush
<1>5. Follows(h, r)
  <2> SUFFICES ASSUME NEW i \in 1..Len(r), IsData(r[i]), NoFlush(r, 1, i)
               PROVE  h \subseteq {r[i].content}
    BY DEF Follows
  <2>1. i \in 1..Len(q) /\ 1 \in 1..Len(q)
    BY <1>1, <1>2 DEF IsData
  <2>2. QED
    BY <1>1, <1>3, <2>1 DEF Lined, Follows
<1>6. Parted(r)
  <2> SUFFICES ASSUME NEW i \in 1..Len(r), NEW j \in 1..Len(r),
                      i < j, IsData(r[i]), IsData(r[j]), NoFlush(r, i, j)
               PROVE  r[i].content = r[j].content
    BY DEF Parted
  <2>1. i \in 1..Len(q) /\ j \in 1..Len(q)
    BY <1>1, <1>2 DEF IsData
  <2>2. QED
    BY <1>1, <1>3, <2>1 DEF Lined, Parted
<1>7. EndsAt(h, r, y)
  BY <1>1, <1>2, <1>4 DEF EndsAt
<1>8. QED
  BY <1>5, <1>6, <1>7 DEF Lined, r

\* The packet of the end has no place and disturbs nobody's.
LEMMA LinedEof ==
    ASSUME NEW q \in Seq(Packet), NEW h, NEW x, NEW open, Lined(h, q, x, open)
    PROVE  Lined(h, Append(q, Eof), x, open)
<1> DEFINE r == Append(q, Eof)
<1>1. Len(r) = Len(q) + 1 /\ r[Len(r)].kind = "eof" /\ \A i \in 1..Len(q) : r[i] = q[i]
  BY DEF Eof
<1>2. Len(q) \in Nat
  OBVIOUS
<1> HIDE DEF r
<1>3. \A i \in 1..Len(q), j \in 1..Len(q) : NoFlush(r, i, j) => NoFlush(q, i, j)
  BY <1>1, <1>2 DEF NoFlush
<1>4. NoFlush(r, 1, Len(r)) => NoFlush(q, 1, Len(q))
  BY <1>1, <1>2 DEF NoFlush
<1>5. \A i \in 1..Len(q) : NoFlush(r, i, Len(r)) => NoFlush(q, i, Len(q))
  BY <1>1, <1>2 DEF NoFlush
<1>6. Follows(h, r)
  <2> SUFFICES ASSUME NEW i \in 1..Len(r), IsData(r[i]), NoFlush(r, 1, i)
               PROVE  h \subseteq {r[i].content}
    BY DEF Follows
  <2>1. i \in 1..Len(q) /\ 1 \in 1..Len(q)
    BY <1>1, <1>2 DEF IsData
  <2>2. QED
    BY <1>1, <1>3, <2>1 DEF Lined, Follows
<1>7. Parted(r)
  <2> SUFFICES ASSUME NEW i \in 1..Len(r), NEW j \in 1..Len(r),
                      i < j, IsData(r[i]), IsData(r[j]), NoFlush(r, i, j)
               PROVE  r[i].content = r[j].content
    BY DEF Parted
  <2>1. i \in 1..Len(q) /\ j \in 1..Len(q)
    BY <1>1, <1>2 DEF IsData
  <2>2. QED
    BY <1>1, <1>3, <2>1 DEF Lined, Parted
<1>8. open => EndsAt(h, r, x)
  <2> SUFFICES ASSUME open
               PROVE  EndsAt(h, r, x)
    OBVIOUS
  <2>1. ASSUME NEW i \in 1..Len(r), IsData(r[i]), NoFlush(r, i, Len(r))
        PROVE  r[i].content = x
    <3>1. i \in 1..Len(q)
      BY <1>1, <1>2, <2>1 DEF IsData
    <3>2. QED
      BY <1>1, <1>5, <2>1, <3>1 DEF Lined, EndsAt
  <2>2. QED
    BY <1>4, <2>1 DEF Lined, EndsAt
<1>9. QED
  BY <1>6, <1>7, <1>8 DEF Lined, r

\* A packet of the place the reader is at continues the line.
LEMMA LinedData ==
    ASSUME NEW q \in Seq(Packet), NEW h, NEW x, NEW g, Lined(h, q, x, TRUE)
    PROVE  Lined(h, Append(q, Data(g, x)), x, TRUE)
<1> DEFINE r == Append(q, Data(g, x))
<1>1. /\ Len(r) = Len(q) + 1 /\ r[Len(r)].kind = "data" /\ r[Len(r)].content = x
      /\ \A i \in 1..Len(q) : r[i] = q[i]
  BY DEF Data
<1>2. Len(q) \in Nat
  OBVIOUS
<1> HIDE DEF r
<1>3. \A i \in 1..Len(q), j \in 1..Len(q) : NoFlush(r, i, j) => NoFlush(q, i, j)
  BY <1>1, <1>2 DEF NoFlush
<1>4. NoFlush(r, 1, Len(r)) => NoFlush(q, 1, Len(q))
  BY <1>1, <1>2 DEF NoFlush
<1>5. \A i \in 1..Len(q) : NoFlush(r, i, Len(r)) => NoFlush(q, i, Len(q))
  BY <1>1, <1>2 DEF NoFlush
<1>6. EndsAt(h, q, x)
  BY DEF Lined
<1>7. EndsAt(h, r, x)
  <2>1. ASSUME NEW i \in 1..Len(r), IsData(r[i]), NoFlush(r, i, Len(r))
        PROVE  r[i].content = x
    <3>1. CASE i = Len(r)
      BY <1>1, <3>1
    <3>2. CASE i \in 1..Len(q)
      BY <1>1, <1>5, <1>6, <2>1, <3>2 DEF EndsAt
    <3>3. QED
      BY <1>1, <1>2, <3>1, <3>2
  <2>2. QED
    BY <1>4, <1>6, <2>1 DEF EndsAt
<1>8. Follows(h, r)
  <2> SUFFICES ASSUME NEW i \in 1..Len(r), IsData(r[i]), NoFlush(r, 1, i)
               PROVE  h \subseteq {r[i].content}
    BY DEF Follows
  <2>1. CASE i = Len(r)
    BY <1>1, <1>4, <1>6, <2>1 DEF EndsAt
  <2>2. CASE i \in 1..Len(q)
    <3>1. 1 \in 1..Len(q)
      BY <1>2, <2>2
    <3>2. QED
      BY <1>1, <1>3, <2>2, <3>1 DEF Lined, Follows
  <2>3. QED
    BY <1>1, <1>2, <2>1, <2>2
<1>9. Parted(r)
  <2> SUFFICES ASSUME NEW i \in 1..Len(r), NEW j \in 1..Len(r),
                      i < j, IsData(r[i]), IsData(r[j]), NoFlush(r, i, j)
               PROVE  r[i].content = r[j].content
    BY DEF Parted
  <2>1. i \in 1..Len(q)
    BY <1>1, <1>2
  <2>2. CASE j = Len(r)
    BY <1>1, <1>5, <1>6, <2>1, <2>2 DEF EndsAt
  <2>3. CASE j \in 1..Len(q)
    BY <1>1, <1>3, <2>1, <2>3 DEF Lined, Parted
  <2>4. QED
    BY <1>1, <1>2, <2>2, <2>3
<1>10. QED
  BY <1>7, <1>8, <1>9 DEF Lined, r

\* What is held back after the first packet is taken: nothing after an empty one.
Kept(h, p) == IF p.kind = "flush" THEN {} ELSE IF IsData(p) THEN h \cup {p.content} ELSE h

\* A decoder that takes the first packet, and feeds it to its codec, leaves the rest
\* in line.
LEMMA LinedTail ==
    ASSUME NEW q \in Seq(Packet), q # <<>>, NEW h, NEW x, NEW open, Lined(h, q, x, open)
    PROVE  /\ Lined(Kept(h, Head(q)), Tail(q), x, open)
           /\ IsData(Head(q)) => h \subseteq {Head(q).content}
<1> DEFINE r == Tail(q)
<1> DEFINE p == Head(q)
<1>1. /\ Len(q) \in Nat \ {0} /\ Len(r) = Len(q) - 1 /\ p = q[1]
      /\ \A i \in 1..Len(r) : r[i] = q[i + 1]
  OBVIOUS
<1> HIDE DEF r, p
<1>2. ASSUME NEW i \in 1..Len(r), NEW j \in 1..Len(r), NoFlush(r, i, j)
      PROVE  NoFlush(q, i + 1, j + 1)
  <2> SUFFICES ASSUME NEW k \in 1..Len(q), i + 1 <= k, k <= j + 1
               PROVE  q[k].kind # "flush"
    BY DEF NoFlush
  <2>1. k - 1 \in 1..Len(r) /\ i <= k - 1 /\ k - 1 <= j /\ r[k - 1] = q[(k - 1) + 1]
    BY <1>1
  <2>2. QED
    BY <1>2, <2>1 DEF NoFlush
<1>3. ASSUME NEW j \in 1..Len(r), NoFlush(r, 1, j), p.kind # "flush"
      PROVE  NoFlush(q, 1, j + 1)
  <2> SUFFICES ASSUME NEW k \in 1..Len(q), k <= j + 1
               PROVE  q[k].kind # "flush"
    BY DEF NoFlush
  <2>1. CASE k = 1
    BY <1>1, <1>3, <2>1
  <2>2. CASE k # 1
    <3>1. k - 1 \in 1..Len(r) /\ k - 1 <= j /\ r[k - 1] = q[(k - 1) + 1]
      BY <1>1, <2>2
    <3>2. QED
      BY <1>3, <3>1 DEF NoFlush
  <2>3. QED
    BY <2>1, <2>2
<1>4. IsData(p) => h \subseteq {p.content}
  <2>1. IsData(p) => NoFlush(q, 1, 1)
    BY <1>1 DEF IsData, NoFlush
  <2>2. QED
    BY <1>1, <2>1 DEF Lined, Follows
<1>5. Follows(Kept(h, p), r)
  <2> SUFFICES ASSUME NEW i \in 1..Len(r), IsData(r[i]), NoFlush(r, 1, i), p.kind # "flush"
               PROVE  Kept(h, p) \subseteq {r[i].content}
    BY DEF Follows, Kept
  <2>1. i + 1 \in 1..Len(q) /\ 1 \in 1..Len(q) /\ 1 < i + 1 /\ NoFlush(q, 1, i + 1) /\ r[i] = q[i + 1]
    BY <1>1, <1>3
  <2>2. h \subseteq {r[i].content}
    BY <2>1 DEF Lined, Follows
  <2>3. IsData(p) => p.content = r[i].content
    BY <1>1, <2>1 DEF Lined, Parted
  <2>4. QED
    BY <2>2, <2>3 DEF Kept
<1>6. Parted(r)
  <2> SUFFICES ASSUME NEW i \in 1..Len(r), NEW j \in 1..Len(r),
                      i < j, IsData(r[i]), IsData(r[j]), NoFlush(r, i, j)
               PROVE  r[i].content = r[j].content
    BY DEF Parted
  <2>1. /\ i + 1 \in 1..Len(q) /\ j + 1 \in 1..Len(q) /\ i + 1 < j + 1 /\ NoFlush(q, i + 1, j + 1)
        /\ r[i] = q[i + 1] /\ r[j] = q[j + 1]
    BY <1>1, <1>2
  <2>2. QED
    BY <2>1 DEF Lined, Parted
<1>7. open => EndsAt(Kept(h, p), r, x)
  <2> SUFFICES ASSUME open
               PROVE  EndsAt(Kept(h, p), r, x)
    OBVIOUS
  <2>1. EndsAt(h, q, x)
    BY DEF Lined
  <2>2. ASSUME NEW i \in 1..Len(r), IsData(r[i]), NoFlush(r, i, Len(r))
        PROVE  r[i].content = x
    <3>1. /\ i + 1 \in 1..Len(q) /\ Len(r) \in 1..Len(r) /\ Len(r) + 1 = Len(q) /\ r[i] = q[i + 1]
      BY <1>1
    <3>2. NoFlush(q, i + 1, Len(q))
      BY <1>2, <2>2, <3>1
    <3>3. QED
      BY <2>1, <2>2, <3>1, <3>2 DEF EndsAt
  <2>3. ASSUME NoFlush(r, 1, Len(r)), p.kind # "flush"
        PROVE  NoFlush(q, 1, Len(q))
    <3> SUFFICES ASSUME NEW k \in 1..Len(q)
                 PROVE  q[k].kind # "flush"
      BY DEF NoFlush
    <3>1. CASE k = 1
      BY <1>1, <2>3, <3>1
    <3>2. CASE k # 1
      <4>1. k - 1 \in 1..Len(r) /\ r[k - 1] = q[(k - 1) + 1]
        BY <1>1, <3>2
      <4>2. QED
        BY <1>1, <2>3, <4>1 DEF NoFlush
    <3>3. QED
      BY <3>1, <3>2
  <2>4. NoFlush(r, 1, Len(r)) => Kept(h, p) \subseteq {x}
    <3> SUFFICES ASSUME NoFlush(r, 1, Len(r)), p.kind # "flush"
                 PROVE  Kept(h, p) \subseteq {x}
      BY DEF Kept
    <3>1. NoFlush(q, 1, Len(q)) /\ 1 \in 1..Len(q)
      BY <1>1, <2>3
    <3>2. h \subseteq {x} /\ (IsData(p) => p.content = x)
      BY <1>1, <2>1, <3>1 DEF EndsAt
    <3>3. QED
      BY <3>2 DEF Kept
  <2>5. QED
    BY <2>2, <2>4 DEF EndsAt
<1>8. QED
  BY <1>4, <1>5, <1>6, <1>7 DEF Lined, r, p

-----------------------------------------------------------------------------

\* TypeOK, of the queues and of the rest; only video is shown.
PipesOK ==
    /\ packets \in [Stream -> Seq(Packet)] /\ decoding \in [Stream -> Seq(Packet)]
    /\ codec \in [Stream -> Seq(Gen)] /\ frames \in [Stream -> Seq(Packet)]
    /\ \A s \in Stream :
        /\ Len(decoding[s]) <= 1
        /\ Len(codec[s]) <= HeldBack + FramesPerPacket
        /\ Len(frames[s]) < QueueSize + HeldBack + FramesPerPacket

ThreadsOK ==
    /\ file \in File
    /\ rdPc \in {"idle", "packets", "frames", "flush", "gen", "sync"}
    /\ gen \in Gen /\ place \in Gen /\ eof \in BOOLEAN
    /\ playing \in BOOLEAN
    /\ scrubbing \in BOOLEAN /\ pending \in BOOLEAN /\ reset \in BOOLEAN
    /\ clock \in Gen
    /\ uiPc \in {"idle", "pop", "check", "sync"} /\ shown \in Packet
    /\ uiPc # "idle" => "video" \in file.streams
    /\ auPc \in {"top", "receive", "decode", "fill", "check", "play", "write", "sync"}
    /\ device \in BOOLEAN /\ halted \in BOOLEAN
    /\ buffer \in Seq(Gen) /\ Len(buffer) <= Capacity
    /\ bufGen \in Gen /\ playGen \in Gen

\* The reader is between two places until the generation is counted.
Seeks ==
    /\ rdPc \in {"packets", "frames", "flush", "gen"} => place = gen + 1
    /\ rdPc \in {"sync", "idle"} => place = gen
    /\ place <= file.lastGen

\* A packet is taken only where there is room for a frame; those that come out of
\* the codec with it go beyond the limit.
Room(s) ==
    IF decoding[s] # <<>> /\ Head(decoding[s]).kind = "sent"
    THEN codec[s] # <<>> /\ Len(frames[s]) + Len(codec[s]) < QueueSize + HeldBack + FramesPerPacket
    ELSE Len(codec[s]) <= HeldBack /\ (decoding[s] # <<>> => Len(frames[s]) < QueueSize)

Hands ==
    /\ "audio" \in Stream => (auPc = "decode" <=> decoding["audio"] # <<>>)
    /\ "audio" \notin Stream => auPc = "top"
    /\ \A s \in Stream : Room(s)

\* What travels is what its generation says.
True(p) == p.content = p.gen /\ (p.kind = "eof" => p.content = 0)

Truth ==
    /\ \A s \in Stream :
        /\ \A i \in 1..Len(packets[s]) : True(packets[s][i]) /\ packets[s][i].kind # "sent"
        /\ \A i \in 1..Len(decoding[s]) : True(decoding[s][i])
        /\ \A i \in 1..Len(frames[s]) : True(frames[s][i])

\* Nothing of another place is held back in front of a packet.
Codec(s) == {codec[s][i] : i \in 1..Len(codec[s])}

Held(s) == IF decoding[s] = <<>> THEN Codec(s) ELSE Kept(Codec(s), Head(decoding[s]))

\* a packet for the codec, or one it has
Fed(p) == p.kind \in {"data", "sent"}

Open == rdPc \in {"gen", "sync", "idle"}

InLine ==
    \A s \in Stream :
        /\ Lined(Held(s), packets[s], place, Open)
        /\ (decoding[s] # <<>> /\ Fed(Head(decoding[s]))) => Codec(s) \subseteq {Head(decoding[s]).content}

SessionInv ==
    /\ PipesOK /\ ThreadsOK
    /\ Seeks /\ Hands /\ Truth /\ InLine /\ OldSoundIsFirst

\* The two halves of the type invariant, for the pipes and for the threads.
LEMMA TypesTogether == PipesOK /\ ThreadsOK => TypeOK
BY DEF TypeOK, PipesOK, ThreadsOK

\* A queue of true frames stays one when it takes a true frame.
LEMMA TrueGrows ==
    ASSUME NEW q \in Seq(Packet), NEW p \in Packet, True(p), \A i \in 1..Len(q) : True(q[i])
    PROVE  /\ Append(q, p) \in Seq(Packet) /\ Len(Append(q, p)) = Len(q) + 1
           /\ \A i \in 1..Len(Append(q, p)) : True(Append(q, p)[i])
<1>1. Append(q, p) \in Seq(Packet) /\ Len(Append(q, p)) = Len(q) + 1
  BY QueueGrows
<1>2. \A i \in 1..Len(Append(q, p)) : Append(q, p)[i] = p \/ (i \in 1..Len(q) /\ Append(q, p)[i] = q[i])
  OBVIOUS
<1>3. QED
  BY <1>1, <1>2

\* The values that packets are made of.
LEMMA Values ==
    ASSUME ThreadsOK
    PROVE  /\ Stream \subseteq {"audio", "video"}
           /\ file.lastGen \in 1..MaxGen
           /\ \A g \in Gen, c \in Gen : Data(g, c) \in Packet
           /\ Flush \in Packet /\ Eof \in Packet /\ NoFrame \in Packet
           /\ Flush.kind = "flush" /\ Eof.kind = "eof" /\ \A g \in Gen : Data(g, g).kind = "data"
           /\ True(Flush) /\ True(Eof) /\ True(NoFrame) /\ \A g \in Gen : True(Data(g, g))
           /\ MaxGen \in Nat \ {0} /\ QueueSize \in Nat \ {0} /\ Capacity \in Nat
           /\ HeldBack \in Nat /\ FramesPerPacket \in Nat \ {0}
<1>1. /\ file.lastGen \in 1..MaxGen /\ Stream \subseteq {"audio", "video"}
      /\ HeldBack \in Nat /\ FramesPerPacket \in Nat \ {0}
  BY SessionAssumption DEF ThreadsOK, Stream, HeldBack, FramesPerPacket
<1>2. 0 \in Gen /\ MaxGen \in Nat \ {0} /\ QueueSize \in Nat \ {0} /\ Capacity \in Nat
  BY SessionAssumption DEF Gen
<1>3. /\ \A g \in Gen, c \in Gen : Data(g, c) \in Packet
      /\ Flush \in Packet /\ Eof \in Packet /\ NoFrame \in Packet
  BY <1>2 DEF Data, Flush, Eof, NoFrame, Packet
<1>4. /\ Flush.kind = "flush" /\ Eof.kind = "eof" /\ \A g \in Gen : Data(g, g).kind = "data"
      /\ True(Flush) /\ True(Eof) /\ True(NoFrame) /\ \A g \in Gen : True(Data(g, g))
  BY DEF True, Flush, Eof, Data, NoFrame
<1>5. QED
  BY <1>1, <1>2, <1>3, <1>4

\* The invariant holds of a session that was just opened.
LEMMA InitSession == Init => SessionInv
<1> SUFFICES ASSUME Init
             PROVE  SessionInv
  OBVIOUS
<1> USE SessionAssumption
<1>1. ThreadsOK
  <2>1. 0 \in Gen /\ 1 \in Gen /\ NoFrame \in Packet
    BY DEF Gen, NoFrame, Data, Packet
  <2>2. reset \in BOOLEAN
    <3>1. reset = ("audio" \notin Stream)
      BY DEF Init
    <3>2. QED
      BY <3>1
  <2>3. eof \in BOOLEAN /\ playing \in BOOLEAN /\ scrubbing \in BOOLEAN /\ pending \in BOOLEAN /\ halted \in BOOLEAN
    BY Zenon DEF Init
  <2>4. QED
    BY <2>1, <2>2, <2>3 DEF Init, ThreadsOK
<1>2. PipesOK
  BY Values, <1>1 DEF Init, PipesOK, Gen
<1>3. Seeks /\ Hands /\ Truth /\ OldSoundIsFirst
  <2>1. file.lastGen \in 1..MaxGen
    BY <1>1, Values
  <2>2. QED
    <3>1. Seeks /\ Truth /\ OldSoundIsFirst
      BY <2>1 DEF Init, Seeks, Truth, OldSoundIsFirst
    <3>2. \A s \in Stream : decoding[s] = <<>> /\ Len(codec[s]) <= HeldBack
      BY <1>1, Values DEF Init
    <3>3. Hands
      BY <3>2 DEF Init, Hands, Room
    <3>4. QED
      BY <3>1, <3>3
<1>4. InLine
  <2>1. \A s \in Stream : decoding[s] = <<>> /\ packets[s] = <<>> /\ Held(s) = {}
    BY DEF Init, Held, Codec
  <2>2. \A s \in Stream : Lined({}, <<>>, place, Open)
    BY LinedEmpty
  <2>3. QED
    BY <2>1, <2>2 DEF InLine
<1>5. QED
  BY <1>1, <1>2, <1>3, <1>4 DEF SessionInv
-----------------------------------------------------------------------------

\* The reader's steps of a seek.
LEMMA SeekingInv ==
    ASSUME SessionInv, Seeking, UNCHANGED file
    PROVE  SessionInv'
<1> USE DEF SessionInv
<1>1. /\ Stream' = Stream /\ HeldBack' = HeldBack /\ FramesPerPacket' = FramesPerPacket
      /\ MaxGen \in Nat /\ gen \in Nat /\ place \in Nat /\ file.lastGen \in 1..MaxGen
      /\ Flush \in Packet /\ True(Flush) /\ Flush.kind # "sent"
  BY Values DEF Stream, HeldBack, FramesPerPacket, ThreadsOK, Gen
<1>2. CASE ClearPackets
  <2> USE <1>2 DEF ClearPackets, syncVars, uiVars, auVars
  <2>1. PipesOK'
    BY <1>1 DEF PipesOK
  <2>2. ThreadsOK'
    BY DEF ThreadsOK
  <2>3. Seeks' /\ Hands' /\ OldSoundIsFirst'
    BY <1>1 DEF Seeks, Hands, Room, OldSoundIsFirst
  <2>4. Truth'
    BY <1>1 DEF Truth
  <2>5. InLine'
    <3>1. \A s \in Stream : Held(s)' = Held(s) /\ Codec(s)' = Codec(s) /\ packets'[s] = <<>> /\ ~Open'
      BY DEF Held, Codec, Open
    <3>2. \A s \in Stream : Lined(Held(s), <<>>, place, FALSE)
      BY LinedEmpty
    <3>3. QED
      BY <1>1, <3>1, <3>2 DEF InLine, Lined
  <2>6. QED
    BY <2>1, <2>2, <2>3, <2>4, <2>5
<1>3. CASE ClearFrames
  <2> USE <1>3 DEF ClearFrames, syncVars, uiVars, auVars
  <2>1. PipesOK'
    BY <1>1, Values DEF PipesOK
  <2>2. ThreadsOK'
    BY DEF ThreadsOK
  <2>3. Seeks' /\ OldSoundIsFirst'
    BY <1>1 DEF Seeks, OldSoundIsFirst
  <2>4. Hands'
    <3>1. ASSUME NEW s \in Stream
          PROVE  Room(s)'
      <4>1. /\ Len(frames'[s]) = 0 /\ Len(codec[s]) \in Nat /\ Len(codec[s]) <= HeldBack + FramesPerPacket
            /\ QueueSize \in Nat \ {0} /\ HeldBack \in Nat /\ FramesPerPacket \in Nat \ {0}
        BY <1>1, Values DEF PipesOK
      <4>2. Room(s)
        BY DEF Hands
      <4>3. 0 + Len(codec[s]) < QueueSize + HeldBack + FramesPerPacket
        BY <4>1
      <4>4. decoding' = decoding /\ codec' = codec
        OBVIOUS
      <4>5. CASE decoding[s] # <<>> /\ Head(decoding[s]).kind = "sent"
        <5>1. codec[s] # <<>>
          BY <4>2, <4>5 DEF Room
        <5>2. QED
          BY <1>1, <4>1, <4>3, <4>4, <4>5, <5>1 DEF Room
      <4>6. CASE ~(decoding[s] # <<>> /\ Head(decoding[s]).kind = "sent")
        <5>1. Len(codec[s]) <= HeldBack
          BY <4>2, <4>6 DEF Room
        <5>2. QED
          BY <1>1, <4>1, <4>4, <4>6, <5>1 DEF Room
      <4>7. QED
        BY <4>5, <4>6
    <3>2. QED
      BY <1>1, <3>1 DEF Hands
  <2>5. Truth'
    BY <1>1 DEF Truth
  <2>6. InLine'
    <3>1. \A s \in Stream : Held(s)' = Held(s) /\ Codec(s)' = Codec(s) /\ packets'[s] = packets[s] /\ ~Open'
      BY DEF Held, Codec, Open
    <3>2. QED
      BY <1>1, <3>1 DEF InLine, Lined
  <2>7. QED
    BY <2>1, <2>2, <2>3, <2>4, <2>5, <2>6
<1>4. CASE PushFlush
  <2> USE <1>4 DEF PushFlush, syncVars, uiVars, auVars
  <2>1. PipesOK'
    BY <1>1 DEF PipesOK
  <2>2. ThreadsOK'
    BY DEF ThreadsOK
  <2>3. Seeks' /\ Hands' /\ OldSoundIsFirst'
    BY <1>1 DEF Seeks, Hands, Room, OldSoundIsFirst
  <2>4. Truth'
    <3>1. ASSUME NEW s \in Stream, NEW i \in 1..Len(packets'[s])
          PROVE  True(packets'[s][i]) /\ packets'[s][i].kind # "sent"
      <4>1. packets'[s] = Append(packets[s], Flush) /\ packets[s] \in Seq(Packet)
        BY DEF PipesOK
      <4>2. i \in 1..Len(packets[s]) \/ packets'[s][i] = Flush
        BY <4>1
      <4>3. QED
        BY <1>1, <4>1, <4>2 DEF Truth
    <3>2. QED
      BY <1>1, <3>1 DEF Truth
  <2>5. InLine'
    <3>1. ASSUME NEW s \in Stream
          PROVE  /\ Held(s)' = Held(s) /\ Codec(s)' = Codec(s)
                 /\ Lined(Held(s), packets'[s], place, TRUE)
      <4>1. packets'[s] = Append(packets[s], Flush) /\ packets[s] \in Seq(Packet)
        BY DEF PipesOK
      <4>2. Lined(Held(s), packets[s], place, FALSE)
        BY DEF InLine, Lined
      <4>3. QED
        BY <4>1, <4>2, LinedFlush DEF Held, Codec
    <3>2. QED
      BY <1>1, <3>1 DEF InLine, Lined
  <2>6. QED
    BY <2>1, <2>2, <2>3, <2>4, <2>5
<1>5. CASE CountGeneration \/ AskForSync
  <2>1. /\ UNCHANGED <<place, eof, pipeVars, playing, uiVars, auVars, scrubbing, clock>>
        /\ rdPc \in {"gen", "sync"} /\ rdPc' \in {"sync", "idle"}
        /\ gen' = place /\ pending' \in BOOLEAN /\ reset' \in BOOLEAN
    <3>1. gen' = place
      BY <1>5 DEF CountGeneration, AskForSync, Seeks
    <3>2. pending' \in BOOLEAN /\ reset' \in BOOLEAN
      <4>1. CASE CountGeneration
        BY <4>1 DEF CountGeneration, syncVars, ThreadsOK
      <4>2. CASE AskForSync
        <5>1. pending' = TRUE /\ reset' = ("audio" \notin Stream)
          BY <4>2 DEF AskForSync
        <5>2. ("audio" \notin Stream) \in BOOLEAN
          OBVIOUS
        <5>3. QED
          BY <5>1, <5>2
      <4>3. QED
        BY <1>5, <4>1, <4>2
    <3>3. QED
      BY <1>5, <3>1, <3>2 DEF CountGeneration, AskForSync, syncVars
  <2> USE <2>1 DEF pipeVars, uiVars, auVars
  <2>2. PipesOK' /\ ThreadsOK'
    BY <1>1 DEF PipesOK, ThreadsOK
  <2>3. Seeks' /\ Hands' /\ Truth' /\ OldSoundIsFirst'
    BY <1>1 DEF Seeks, Hands, Room, Truth, OldSoundIsFirst
  <2>4. InLine'
    <3>1. \A s \in Stream : Held(s)' = Held(s) /\ Codec(s)' = Codec(s) /\ Open
      BY DEF Held, Codec, Open
    <3>2. QED
      BY <1>1, <3>1 DEF InLine, Lined
  <2>5. QED
    BY <2>2, <2>3, <2>4
<1>6. QED
  BY <1>2, <1>3, <1>4, <1>5 DEF Seeking

\* The packets that are read, and the end of the media.
LEMMA ReadingInv ==
    ASSUME SessionInv, Reading, UNCHANGED file
    PROVE  SessionInv'
<1> USE DEF SessionInv
<1>1. /\ Stream' = Stream /\ HeldBack' = HeldBack /\ FramesPerPacket' = FramesPerPacket
      /\ Eof \in Packet /\ True(Eof) /\ Eof.kind # "sent"
      /\ Data(gen, place) \in Packet /\ True(Data(gen, place)) /\ Data(gen, place).kind # "sent"
      /\ rdPc = "idle" /\ rdPc' = "idle" /\ gen' = gen /\ place' = place /\ place = gen
      /\ UNCHANGED <<decoding, codec, frames, playing, syncVars, uiVars, auVars>>
  BY Values DEF Stream, HeldBack, FramesPerPacket, ThreadsOK, Reading, ReadEof, ReadPacket, seekVars, Seeks
<1>2. \A s \in Stream : packets[s] \in Seq(Packet) /\ Lined(Held(s), packets[s], place, TRUE)
  BY <1>1 DEF PipesOK, InLine, Open, Lined
<1>3. ASSUME NEW s \in Stream
      PROVE  /\ packets'[s] \in {packets[s], Append(packets[s], Eof), Append(packets[s], Data(gen, place))}
             /\ packets'[s] \in Seq(Packet)
  <2>1. packets'[s] \in {packets[s], Append(packets[s], Eof), Append(packets[s], Data(gen, place))}
    <3>1. CASE ReadEof
      BY <3>1 DEF ReadEof
    <3>2. ASSUME NEW t \in Stream, ReadPacket(t)
          PROVE  packets'[s] \in {packets[s], Append(packets[s], Data(gen, place))}
      <4>1. packets' = [packets EXCEPT ![t] = Append(packets[t], Data(gen, place))]
        BY <3>2 DEF ReadPacket
      <4>2. DOMAIN packets = Stream
        BY DEF PipesOK
      <4>3. CASE s = t
        BY <4>1, <4>2, <4>3
      <4>4. CASE s # t
        BY <4>1, <4>2, <4>4
      <4>5. QED
        BY <4>3, <4>4
    <3>3. QED
      BY <3>1, <3>2 DEF Reading
  <2>2. \A x \in Packet : Append(packets[s], x) \in Seq(Packet)
    BY <1>2, QueueGrows
  <2>3. QED
    BY <1>1, <1>2, <2>1, <2>2
<1>4. PipesOK'
  <2>1. packets' = [s \in Stream |-> packets'[s]]
    BY DEF Reading, ReadEof, ReadPacket, PipesOK
  <2>2. packets' \in [Stream -> Seq(Packet)]
    BY <1>3, <2>1
  <2>3. QED
    BY <1>1, <2>2 DEF PipesOK
<1>5. ThreadsOK'
  <2>1. eof' \in BOOLEAN
    BY DEF Reading, ReadEof, ReadPacket, seekVars, ThreadsOK
  <2>2. QED
    BY <1>1, <2>1 DEF ThreadsOK, syncVars, uiVars, auVars
<1>6. Seeks' /\ Hands' /\ OldSoundIsFirst'
  BY <1>1 DEF Seeks, Hands, Room, OldSoundIsFirst, auVars
<1>7. Truth'
  <2>1. ASSUME NEW s \in Stream, NEW i \in 1..Len(packets'[s])
        PROVE  True(packets'[s][i]) /\ packets'[s][i].kind # "sent"
    <3>1. \/ i \in 1..Len(packets[s]) /\ packets'[s][i] = packets[s][i]
          \/ packets'[s][i] \in {Eof, Data(gen, place)}
      BY <1>2, <1>3
    <3>2. QED
      BY <1>1, <3>1 DEF Truth
  <2>2. QED
    BY <1>1, <2>1 DEF Truth, auVars
<1>8. InLine'
  <2>1. ASSUME NEW s \in Stream
        PROVE  /\ Lined(Held(s), packets'[s], place, TRUE)
               /\ Held(s)' = Held(s) /\ Codec(s)' = Codec(s)
    <3>1. Lined(Held(s), Append(packets[s], Eof), place, TRUE)
      BY <1>2, LinedEof
    <3>2. Lined(Held(s), Append(packets[s], Data(gen, place)), place, TRUE)
      BY <1>2, LinedData
    <3>3. QED
      BY <1>1, <1>2, <1>3, <3>1, <3>2 DEF Held, Codec
  <2>2. QED
    BY <1>1, <2>1 DEF InLine, Open
<1>9. QED
  BY <1>4, <1>5, <1>6, <1>7, <1>8

-----------------------------------------------------------------------------

\* A step beside the queues: what is left of the invariant is of the threads.
LEMMA BesideInv ==
    ASSUME SessionInv, UNCHANGED <<file, rdPc, gen, place, packets, decoding, codec, frames>>,
           ThreadsOK', OldSoundIsFirst',
           "audio" \in Stream => (auPc' = "decode" <=> auPc = "decode"),
           "audio" \notin Stream => auPc' = "top"
    PROVE  SessionInv'
<1> USE DEF SessionInv
<1>1. Stream' = Stream /\ HeldBack' = HeldBack /\ FramesPerPacket' = FramesPerPacket
  BY DEF Stream, HeldBack, FramesPerPacket
<1>2. PipesOK' /\ Seeks' /\ Hands' /\ Truth'
  BY <1>1 DEF PipesOK, Seeks, Hands, Room, Truth
<1>3. InLine'
  <2>1. \A s \in Stream : Held(s)' = Held(s) /\ Codec(s)' = Codec(s)
    BY DEF Held, Codec
  <2>2. QED
    BY <1>1, <2>1 DEF InLine, Open
<1>4. QED
  BY <1>2, <1>3

\* Pausing, playing, another device, and the seeks: one that goes nowhere leaves the
\* queues in line; one that goes somewhere opens the old place's no more.
LEMMA UserInv ==
    ASSUME SessionInv, User, UNCHANGED file
    PROVE  SessionInv'
<1> USE DEF SessionInv
<1>1. /\ Stream' = Stream /\ HeldBack' = HeldBack /\ FramesPerPacket' = FramesPerPacket
      /\ MaxGen \in Nat /\ gen \in Nat /\ file.lastGen \in 1..MaxGen
  BY Values DEF Stream, HeldBack, FramesPerPacket, ThreadsOK, Gen
<1>2. CASE Pause \/ Play \/ \E scrub \in BOOLEAN : SeekNowhere(scrub)
  <2>1. /\ UNCHANGED <<file, rdPc, gen, place, pipeVars, reset, clock, uiVars, auVars>>
        /\ playing' \in BOOLEAN /\ pending' \in BOOLEAN /\ scrubbing' \in BOOLEAN /\ eof' \in BOOLEAN
    <3>1. CASE Pause
      BY <3>1 DEF Pause, seekVars, syncVars, ThreadsOK
    <3>2. CASE Play
      BY <3>2 DEF Play, seekVars, ThreadsOK
    <3>3. CASE \E scrub \in BOOLEAN : SeekNowhere(scrub)
      BY <3>3 DEF SeekNowhere, ThreadsOK
    <3>4. QED
      BY <1>2, <3>1, <3>2, <3>3
  <2> USE <2>1 DEF pipeVars, uiVars, auVars
  <2>2. ThreadsOK'
    BY DEF ThreadsOK
  <2>3. OldSoundIsFirst'
    BY DEF OldSoundIsFirst, Truth
  <2>4. auPc' = auPc /\ ("audio" \notin Stream => auPc' = "top")
    BY DEF Hands
  <2>5. QED
    BY <2>2, <2>3, <2>4, BesideInv
<1>3. CASE NewDevice
  <2>1. buffer' = <<>> /\ buffer' \in Seq(Gen) /\ Len(buffer') <= Capacity /\ playGen' \in Gen
    BY <1>1, <1>3, Values DEF NewDevice, Gen
  <2> USE <1>3 DEF NewDevice, seekVars, pipeVars, syncVars, uiVars
  <2>2. ThreadsOK'
    BY <2>1 DEF ThreadsOK
  <2>3. OldSoundIsFirst'
    BY <2>1 DEF OldSoundIsFirst, Truth
  <2>4. auPc' = auPc /\ ("audio" \notin Stream => auPc' = "top")
    BY DEF Hands
  <2>5. QED
    BY <2>2, <2>3, <2>4, BesideInv
<1>4. ASSUME NEW scrub \in BOOLEAN, SeekDecoder(scrub)
      PROVE  SessionInv'
  <2> USE <1>4 DEF SeekDecoder, pipeVars, uiVars, auVars
  <2>1. place' \in Gen /\ place' <= file.lastGen
    BY <1>1 DEF Gen
  <2>2. PipesOK' /\ ThreadsOK'
    <3>1. PipesOK'
      BY <1>1 DEF PipesOK
    <3>2. ThreadsOK'
      BY <2>1 DEF ThreadsOK, syncVars
    <3>3. QED
      BY <3>1, <3>2
  <2>3. Seeks' /\ Hands' /\ Truth' /\ OldSoundIsFirst'
    BY <1>1, <2>1 DEF Seeks, Hands, Room, Truth, OldSoundIsFirst
  <2>4. InLine'
    <3>1. \A s \in Stream : Held(s)' = Held(s) /\ Codec(s)' = Codec(s) /\ ~Open'
      BY DEF Held, Codec, Open
    <3>2. QED
      BY <1>1, <3>1 DEF InLine, Lined
  <2>5. QED
    BY <2>2, <2>3, <2>4
<1>5. QED
  BY <1>2, <1>3, <1>4 DEF User

-----------------------------------------------------------------------------

\* A packet is taken: the codec still holds what it held.
LEMMA PopInv ==
    ASSUME SessionInv, NEW s \in Stream, Pop(s), decoding[s] = <<>>, HasRoom(frames[s]),
           UNCHANGED <<file, rdPc, gen, place>>,
           ThreadsOK', OldSoundIsFirst',
           "audio" \in Stream => (auPc' = "decode" <=> (auPc = "decode" \/ s = "audio")),
           "audio" \notin Stream => auPc' = "top"
    PROVE  SessionInv'
<1> USE DEF SessionInv
<1> DEFINE p == Head(packets[s])
<1>1. /\ Stream' = Stream /\ HeldBack' = HeldBack /\ FramesPerPacket' = FramesPerPacket
      /\ packets[s] \in Seq(Packet) /\ packets[s] # <<>> /\ p \in Packet
      /\ codec' = codec /\ frames' = frames
      /\ DOMAIN packets = Stream /\ DOMAIN decoding = Stream
  BY DEF Stream, HeldBack, FramesPerPacket, PipesOK, Pop
<1>2. /\ decoding'[s] = <<p>> /\ packets'[s] = Tail(packets[s])
      /\ \A t \in Stream \ {s} : decoding'[t] = decoding[t] /\ packets'[t] = packets[t]
  BY <1>1 DEF Pop
<1>3. PipesOK'
  <2>1. decoding' = [decoding EXCEPT ![s] = <<p>>] /\ packets' = [packets EXCEPT ![s] = Tail(packets[s])]
    BY DEF Pop
  <2>2. Tail(packets[s]) \in Seq(Packet) /\ <<p>> \in Seq(Packet) /\ Len(<<p>>) = 1
    BY <1>1
  <2>3. packets' \in [Stream -> Seq(Packet)] /\ decoding' \in [Stream -> Seq(Packet)]
    BY <2>1, <2>2 DEF PipesOK
  <2>4. ASSUME NEW t \in Stream
        PROVE  Len(decoding'[t]) <= 1
    <3>1. CASE t = s
      <4>1. decoding'[t] = <<p>>
        BY <1>2, <3>1
      <4>2. QED
        BY <2>2, <4>1
    <3>2. CASE t # s
      BY <1>2, <3>2 DEF PipesOK
    <3>3. QED
      BY <3>1, <3>2
  <2>5. QED
    BY <1>1, <2>3, <2>4 DEF PipesOK
<1>4. Seeks'
  BY DEF Seeks
<1>5. Hands'
  <2>1. /\ decoding'[s] # <<>> /\ Head(decoding'[s]) = p /\ p.kind # "sent"
        /\ Len(frames[s]) < QueueSize /\ Len(codec[s]) <= HeldBack
    <3>1. p = packets[s][1] /\ 1 \in 1..Len(packets[s])
      BY <1>1
    <3>2. p.kind # "sent"
      BY <3>1 DEF Truth
    <3>3. Room(s)
      BY DEF Hands
    <3>4. QED
      BY <1>2, <3>2, <3>3 DEF HasRoom, Room
  <2>2. ASSUME NEW t \in Stream
        PROVE  Room(t)'
    <3>1. CASE t = s
      BY <1>1, <2>1, <3>1 DEF Room
    <3>2. CASE t # s
      <4>1. Room(t)
        BY DEF Hands
      <4>2. QED
        BY <1>1, <1>2, <3>2, <4>1 DEF Room
    <3>3. QED
      BY <3>1, <3>2
  <2>3. "audio" \in Stream => (auPc' = "decode" <=> decoding'["audio"] # <<>>)
    <3>1. CASE s = "audio"
      BY <2>1, <3>1
    <3>2. CASE s # "audio"
      BY <1>2, <3>2 DEF Hands
    <3>3. QED
      BY <3>1, <3>2
  <2>4. QED
    BY <1>1, <2>2, <2>3 DEF Hands
<1>6. Truth'
  <2>1. True(p)
    BY <1>1 DEF Truth
  <2>2. \A i \in 1..Len(packets'[s]) : packets'[s][i] = packets[s][i + 1] /\ i + 1 \in 1..Len(packets[s])
    BY <1>1, <1>2
  <2>3. \A t \in Stream, i \in Nat :
            i \in 1..Len(packets'[t]) => True(packets'[t][i]) /\ packets'[t][i].kind # "sent"
    <3>1. \A i \in 1..Len(packets'[s]) : True(packets'[s][i]) /\ packets'[s][i].kind # "sent"
      BY <2>2 DEF Truth
    <3>2. \A t \in Stream \ {s} : \A i \in 1..Len(packets[t]) : True(packets[t][i]) /\ packets[t][i].kind # "sent"
      BY DEF Truth
    <3>3. QED
      BY <1>2, <3>1, <3>2
  <2>4. \A t \in Stream : \A i \in 1..Len(decoding'[t]) : True(decoding'[t][i])
    <3>1. \A i \in 1..Len(decoding'[s]) : decoding'[s][i] = p
      BY <1>2
    <3>2. QED
      BY <1>2, <2>1, <3>1 DEF Truth
  <2>5. QED
    BY <1>1, <2>3, <2>4 DEF Truth
<1>7. InLine'
  <2>1. /\ Lined(Codec(s), packets[s], place, Open)
        /\ Codec(s)' = Codec(s) /\ Held(s)' = Kept(Codec(s), p) /\ Head(decoding'[s]) = p
    <3>1. Held(s) = Codec(s)
      BY DEF Held
    <3>2. Lined(Held(s), packets[s], place, Open)
      BY DEF InLine
    <3>3. Codec(s)' = Codec(s)
      BY <1>1 DEF Codec
    <3>4. decoding'[s] # <<>> /\ Head(decoding'[s]) = p
      BY <1>2
    <3>5. QED
      BY <3>1, <3>2, <3>3, <3>4 DEF Held
  <2>2. /\ Lined(Kept(Codec(s), p), Tail(packets[s]), place, Open)
        /\ IsData(p) => Codec(s) \subseteq {p.content}
    BY <1>1, <2>1, LinedTail
  <2>3. \A t \in Stream \ {s} : Held(t)' = Held(t) /\ Codec(t)' = Codec(t)
    BY <1>1, <1>2 DEF Held, Codec
  <2>4. Open' = Open
    BY DEF Open
  <2>5. ASSUME NEW t \in Stream
        PROVE  /\ Lined(Held(t)', packets'[t], place, Open)
               /\ (decoding'[t] # <<>> /\ Fed(Head(decoding'[t])))
                     => Codec(t)' \subseteq {Head(decoding'[t]).content}
    <3>1. CASE t = s
      <4>1. p.kind # "sent"
        <5>1. p = packets[s][1] /\ 1 \in 1..Len(packets[s])
          BY <1>1
        <5>2. QED
          BY <5>1 DEF Truth
      <4>2. QED
        BY <1>2, <2>1, <2>2, <3>1, <4>1 DEF Fed, IsData
    <3>2. CASE t # s
      BY <1>2, <2>3, <3>2 DEF InLine
    <3>3. QED
      BY <3>1, <3>2
  <2>6. QED
    BY <1>1, <2>4, <2>5 DEF InLine
<1>8. QED
  BY <1>3, <1>4, <1>5, <1>6, <1>7

-----------------------------------------------------------------------------

\* A codec that is sent the frames of a packet.
LEMMA CodecGrows ==
    ASSUME NEW q \in Seq(Gen), NEW n \in Nat, NEW c \in Gen
    PROVE  LET r == q \o [i \in 1..n |-> c]
           IN  /\ r \in Seq(Gen) /\ Len(r) = Len(q) + n
               /\ \A i \in 1..Len(r) : r[i] = c \/ r[i] \in {q[j] : j \in 1..Len(q)}
<1> DEFINE f == [i \in 1..n |-> c]
<1> DEFINE r == q \o f
<1>1. f \in Seq(Gen) /\ Len(f) = n /\ \A i \in 1..n : f[i] = c
  OBVIOUS
<1> HIDE DEF f
<1>2. r \in Seq(Gen) /\ Len(r) = Len(q) + n
  BY <1>1
<1>3. ASSUME NEW i \in 1..Len(r)
      PROVE  r[i] = c \/ r[i] \in {q[j] : j \in 1..Len(q)}
  <2>1. CASE i \in 1..Len(q)
    BY <1>1, <2>1
  <2>2. CASE i \notin 1..Len(q)
    <3>1. i - Len(q) \in 1..n /\ r[i] = f[i - Len(q)]
      BY <1>1, <1>2, <2>2
    <3>2. QED
      BY <1>1, <3>1
  <2>3. QED
    BY <2>1, <2>2
<1>4. QED
  BY <1>2, <1>3 DEF f

\* What the codec has is kept, or comes out with the packet in hand.
LEMMA KeepsInv ==
    ASSUME PipesOK, NEW s \in Stream, NEW c \in Seq(Gen), Keeps(s, c), decoding[s] # <<>>, UNCHANGED file
    PROVE  LET q == [Head(decoding[s]) EXCEPT !.kind = "sent"]
           IN  /\ codec' = [codec EXCEPT ![s] = c]
               /\ q \in Packet /\ q.kind = "sent"
               /\ q.content = Head(decoding[s]).content /\ q.gen = Head(decoding[s]).gen
               /\ \/ decoding' = [decoding EXCEPT ![s] = <<>>] /\ Len(c) <= HeldBack
                  \/ decoding' = [decoding EXCEPT ![s] = <<q>>] /\ c # <<>>
<1> DEFINE p == Head(decoding[s])
<1> DEFINE q == [p EXCEPT !.kind = "sent"]
<1>1. p \in Packet
  BY DEF PipesOK
<1>2. q \in Packet /\ q.kind = "sent" /\ q.content = p.content /\ q.gen = p.gen
  BY <1>1 DEF Packet
<1>3. QED
  BY <1>2 DEF Keeps, Done

\* The packet in hand is decoded: what the codec then holds back was held before, or is
\* the packet's, and the frame it brings out is of the packet's own place.
LEMMA DecodeInv ==
    ASSUME SessionInv, NEW s \in Stream, Decode(s),
           UNCHANGED <<file, rdPc, gen, place>>,
           ThreadsOK', OldSoundIsFirst',
           s # "audio" => auPc' = auPc,
           s = "audio" => (auPc' = "decode" <=> decoding'["audio"] # <<>>),
           "audio" \notin Stream => auPc' = "top"
    PROVE  SessionInv'
<1> USE DEF SessionInv
<1> DEFINE p == Head(decoding[s])
<1> DEFINE q == [p EXCEPT !.kind = "sent"]
<1>1. /\ Stream' = Stream /\ HeldBack' = HeldBack /\ FramesPerPacket' = FramesPerPacket
      /\ HeldBack \in Nat /\ FramesPerPacket \in Nat \ {0} /\ QueueSize \in Nat \ {0}
      /\ Eof \in Packet /\ True(Eof) /\ \A g \in Gen : Data(g, g) \in Packet /\ True(Data(g, g))
  BY Values DEF Stream, HeldBack, FramesPerPacket
<1>2. /\ decoding[s] # <<>> /\ packets' = packets
      /\ codec \in [Stream -> Seq(Gen)] /\ frames \in [Stream -> Seq(Packet)] /\ decoding \in [Stream -> Seq(Packet)]
  BY DEF Decode, DecodeEof, DecodeFlush, SendPacket, ReceiveFrame, PipesOK
<1>3. /\ p \in Packet /\ p.gen \in Gen /\ p.content = p.gen /\ True(p)
      /\ Fed(p) => \A i \in 1..Len(codec[s]) : codec[s][i] = p.content
  <2>1. decoding[s] \in Seq(Packet) /\ 1 \in 1..Len(decoding[s]) /\ p = decoding[s][1]
    BY <1>2
  <2>2. p \in Packet /\ True(p)
    BY <2>1 DEF Truth
  <2>3. Fed(p) => Codec(s) \subseteq {p.content}
    BY <1>2 DEF InLine
  <2>4. QED
    BY <2>2, <2>3 DEF Packet, True, Codec
<1>4. Room(s) /\ codec[s] \in Seq(Gen) /\ frames[s] \in Seq(Packet) /\ Len(codec[s]) \in Nat /\ Len(frames[s]) \in Nat
  BY <1>2 DEF Hands
<1>5. \A i \in 1..Len(frames[s]) : True(frames[s][i])
  BY DEF Truth
<1> DEFINE Out(c, x, d) ==
        /\ codec' = [codec EXCEPT ![s] = c] /\ frames' = [frames EXCEPT ![s] = x]
        /\ decoding' = [decoding EXCEPT ![s] = d]
        /\ \A i \in 1..Len(x) : True(x[i])
        /\ Len(c) <= HeldBack + FramesPerPacket /\ Len(x) < QueueSize + HeldBack + FramesPerPacket
        /\ d = <<>> => Len(c) <= HeldBack
        /\ d = <<q>> => /\ Fed(p) /\ q.kind = "sent" /\ q \in Packet /\ q.content = p.content /\ q.gen = p.gen
                        /\ c # <<>> /\ Len(x) + Len(c) < QueueSize + HeldBack + FramesPerPacket
        /\ p.kind = "flush" => c = <<>>
        /\ Fed(p) => \A i \in 1..Len(c) : c[i] = p.content
        /\ ~IsData(p) => \A i \in 1..Len(c) : c[i] \in Codec(s)
<1>6. \E c \in Seq(Gen), x \in Seq(Packet), d \in {<<>>, <<q>>} : Out(c, x, d)
  <2> HIDE DEF SessionInv, p, q
  <2>1. CASE DecodeEof(s)
    <3>1. /\ p.kind = "eof" /\ codec' = [codec EXCEPT ![s] = codec[s]]
          /\ frames' = [frames EXCEPT ![s] = Append(frames[s], Eof)] /\ decoding' = [decoding EXCEPT ![s] = <<>>]
      BY <1>2, <2>1 DEF DecodeEof, Emit, Done, p
    <3>2. /\ Append(frames[s], Eof) \in Seq(Packet) /\ Len(Append(frames[s], Eof)) = Len(frames[s]) + 1
          /\ \A i \in 1..Len(Append(frames[s], Eof)) : True(Append(frames[s], Eof)[i])
      BY <1>1, <1>4, <1>5, TrueGrows
    <3>3. Len(codec[s]) <= HeldBack /\ Len(frames[s]) < QueueSize
      BY <1>2, <1>4, <3>1 DEF Room, p
    <3>4. <<>> # <<q>> /\ ~Fed(p) /\ \A i \in 1..Len(codec[s]) : codec[s][i] \in Codec(s)
      BY <3>1 DEF Fed, Codec
    <3>5. /\ Len(Append(frames[s], Eof)) < QueueSize + HeldBack + FramesPerPacket
          /\ Len(codec[s]) <= HeldBack + FramesPerPacket
      BY <1>1, <1>4, <3>2, <3>3
    <3> DEFINE x == Append(frames[s], Eof)
    <3> HIDE DEF x
    <3>6. QED
      BY <1>4, <3>1, <3>2, <3>3, <3>4, <3>5 DEF x
  <2>2. CASE DecodeFlush(s)
    <3>1. /\ p.kind = "flush" /\ codec' = [codec EXCEPT ![s] = <<>>]
          /\ frames' = [frames EXCEPT ![s] = <<>>] /\ decoding' = [decoding EXCEPT ![s] = <<>>]
      BY <2>2 DEF DecodeFlush, Done, p
    <3>2. <<>> \in Seq(Gen) /\ <<>> \in Seq(Packet) /\ Len(<<>>) = 0 /\ <<>> # <<q>> /\ ~Fed(p)
      BY <3>1 DEF Fed
    <3>3. /\ Len(<<>>) <= HeldBack /\ Len(<<>>) <= HeldBack + FramesPerPacket
          /\ Len(<<>>) < QueueSize + HeldBack + FramesPerPacket
      BY <1>1, <3>2
    <3>4. Out(<<>>, <<>>, <<>>)
      BY <3>1, <3>2, <3>3
    <3>5. QED
      BY <3>2, <3>4
  <2>3. ASSUME NEW n \in 0..FramesPerPacket, SendPacket(s, n)
        PROVE  \E c \in Seq(Gen), x \in Seq(Packet), d \in {<<>>, <<q>>} : Out(c, x, d)
    <3> DEFINE c == codec[s] \o [i \in 1..n |-> p.content]
    <3>1. p.kind = "data" /\ Keeps(s, c) /\ frames' = [frames EXCEPT ![s] = frames[s]]
      BY <1>2, <2>3 DEF SendPacket, p
    <3>2. /\ c \in Seq(Gen) /\ Len(c) = Len(codec[s]) + n
          /\ \A i \in 1..Len(c) : c[i] = p.content \/ c[i] \in {codec[s][j] : j \in 1..Len(codec[s])}
      BY <1>1, <1>3, <1>4, CodecGrows
    <3>3. Fed(p) /\ IsData(p) /\ Len(codec[s]) <= HeldBack /\ Len(frames[s]) < QueueSize
      BY <1>2, <1>4, <3>1 DEF Room, Fed, IsData, p
    <3> HIDE DEF c
    <3>4. \A i \in 1..Len(c) : c[i] = p.content
      BY <1>3, <3>2, <3>3
    <3>5. /\ codec' = [codec EXCEPT ![s] = c]
          /\ q \in Packet /\ q.kind = "sent" /\ q.content = p.content /\ q.gen = p.gen
          /\ \/ decoding' = [decoding EXCEPT ![s] = <<>>] /\ Len(c) <= HeldBack
             \/ decoding' = [decoding EXCEPT ![s] = <<q>>] /\ c # <<>>
      BY <1>2, <3>1, <3>2, KeepsInv DEF SessionInv, p, q
    <3>6. /\ Len(c) <= HeldBack + FramesPerPacket /\ Len(frames[s]) < QueueSize + HeldBack + FramesPerPacket
          /\ Len(frames[s]) + Len(c) < QueueSize + HeldBack + FramesPerPacket
      <4> DEFINE k == Len(codec[s])
      <4> DEFINE m == Len(frames[s])
      <4>1. n \in 0..FramesPerPacket /\ k \in Nat /\ m \in Nat /\ k <= HeldBack /\ m < QueueSize /\ Len(c) = k + n
        BY <1>4, <3>2, <3>3
      <4> HIDE DEF k, m
      <4>2. k + n <= HeldBack + FramesPerPacket /\ m < QueueSize + HeldBack + FramesPerPacket
            /\ m + (k + n) < QueueSize + HeldBack + FramesPerPacket
        BY <1>1, <4>1
      <4>3. QED
        BY <4>1, <4>2 DEF m
    <3>7. p.kind # "flush"
      BY <3>1
    <3>8. QED
      BY <1>4, <1>5, <3>1, <3>2, <3>3, <3>4, <3>5, <3>6, <3>7
  <2>4. CASE ReceiveFrame(s)
    <3> DEFINE c == Tail(codec[s])
    <3> DEFINE f == Data(p.gen, Head(codec[s]))
    <3> DEFINE x == Append(frames[s], f)
    <3>1. p.kind = "sent" /\ Keeps(s, c) /\ frames' = [frames EXCEPT ![s] = x]
      BY <1>2, <2>4 DEF ReceiveFrame, Emit, p
    <3>2. /\ Fed(p) /\ ~IsData(p) /\ codec[s] # <<>>
          /\ Len(frames[s]) + Len(codec[s]) < QueueSize + HeldBack + FramesPerPacket
      BY <1>2, <1>4, <3>1 DEF Room, Fed, IsData, p
    <3>3. /\ c \in Seq(Gen) /\ Len(c) = Len(codec[s]) - 1 /\ Len(codec[s]) > 0
          /\ Head(codec[s]) = codec[s][1]
          /\ \A i \in 1..Len(c) : c[i] = codec[s][i + 1] /\ i + 1 \in 1..Len(codec[s])
      BY <1>4, <3>2
    <3>4. f \in Packet /\ True(f)
      BY <1>1, <1>3, <1>4, <3>2, <3>3
    <3>5. x \in Seq(Packet) /\ Len(x) = Len(frames[s]) + 1 /\ \A i \in 1..Len(x) : True(x[i])
      BY <1>4, <1>5, <3>4, TrueGrows
    <3>6. Len(codec[s]) <= HeldBack + FramesPerPacket
      BY DEF SessionInv, PipesOK
    <3> HIDE DEF c, f, x
    <3>7. \A i \in 1..Len(c) : c[i] = p.content /\ c[i] \in Codec(s)
      BY <1>3, <3>2, <3>3 DEF Codec
    <3>8. /\ codec' = [codec EXCEPT ![s] = c]
          /\ q \in Packet /\ q.kind = "sent" /\ q.content = p.content /\ q.gen = p.gen
          /\ \/ decoding' = [decoding EXCEPT ![s] = <<>>] /\ Len(c) <= HeldBack
             \/ decoding' = [decoding EXCEPT ![s] = <<q>>] /\ c # <<>>
      BY <1>2, <3>1, <3>3, KeepsInv DEF SessionInv, p, q
    <3>9. /\ Len(c) <= HeldBack + FramesPerPacket /\ Len(x) < QueueSize + HeldBack + FramesPerPacket
          /\ Len(x) + Len(c) < QueueSize + HeldBack + FramesPerPacket /\ p.kind # "flush"
      <4> DEFINE k == Len(codec[s])
      <4> DEFINE m == Len(frames[s])
      <4>1. /\ k \in Nat /\ m \in Nat /\ k > 0 /\ k <= HeldBack + FramesPerPacket
            /\ m + k < QueueSize + HeldBack + FramesPerPacket /\ Len(c) = k - 1 /\ Len(x) = m + 1
        BY <1>4, <3>2, <3>3, <3>5, <3>6
      <4> HIDE DEF k, m
      <4>2. p.kind # "flush"
        BY <3>1
      <4>3. QED
        BY <1>1, <4>1, <4>2
    <3>10. QED
      BY <3>1, <3>2, <3>3, <3>5, <3>7, <3>8, <3>9
  <2>5. QED
    BY <2>1, <2>2, <2>3, <2>4 DEF Decode
<1>7. PICK c \in Seq(Gen), x \in Seq(Packet), d \in {<<>>, <<q>>} : Out(c, x, d)
  BY <1>6
<1>8. /\ codec'[s] = c /\ frames'[s] = x /\ decoding'[s] = d
      /\ \A t \in Stream : t # s => codec'[t] = codec[t] /\ frames'[t] = frames[t] /\ decoding'[t] = decoding[t]
  BY <1>2, <1>7
<1>9. d = <<>> \/ (d # <<>> /\ d = <<q>> /\ Head(d) = q /\ Len(d) = 1 /\ d[1] = q)
  OBVIOUS
<1> HIDE DEF p, q
<1>10. d \in Seq(Packet) /\ Len(d) <= 1 /\ \A i \in 1..Len(d) : d[i] = q
  <2>1. CASE d = <<>>
    BY <2>1
  <2>2. CASE d # <<>>
    <3>1. d = <<q>> /\ q \in Packet
      BY <1>7, <1>9, <2>2
    <3>2. QED
      BY <3>1
  <2>3. QED
    BY <2>1, <2>2
<1>11. PipesOK'
  <2>1. /\ codec' \in [Stream -> Seq(Gen)] /\ frames' \in [Stream -> Seq(Packet)]
        /\ decoding' \in [Stream -> Seq(Packet)]
    BY <1>2, <1>7, <1>10
  <2>2. ASSUME NEW t \in Stream
        PROVE  /\ Len(decoding'[t]) <= 1
               /\ Len(codec'[t]) <= HeldBack + FramesPerPacket
               /\ Len(frames'[t]) < QueueSize + HeldBack + FramesPerPacket
    <3>1. CASE t = s
      BY <1>7, <1>8, <1>10, <3>1
    <3>2. CASE t # s
      BY <1>8, <3>2 DEF PipesOK
    <3>3. QED
      BY <3>1, <3>2
  <2>3. QED
    BY <1>1, <1>2, <2>1, <2>2 DEF PipesOK
<1>12. Seeks'
  BY DEF Seeks
<1>13. Hands'
  <2>1. ASSUME NEW t \in Stream
        PROVE  Room(t)'
    <3>1. CASE t = s /\ d = <<>>
      BY <1>1, <1>7, <1>8, <3>1 DEF Room
    <3>2. CASE t = s /\ d # <<>>
      <4>1. /\ Head(decoding'[s]).kind = "sent" /\ decoding'[s] # <<>> /\ c # <<>>
            /\ Len(x) + Len(c) < QueueSize + HeldBack + FramesPerPacket
        BY <1>7, <1>8, <1>9, <3>2
      <4>2. QED
        BY <1>1, <1>8, <3>2, <4>1 DEF Room
    <3>3. CASE t # s
      BY <1>1, <1>8, <3>3 DEF Room, Hands
    <3>4. QED
      BY <3>1, <3>2, <3>3
  <2>2. QED
    BY <1>1, <1>8, <2>1 DEF Hands
<1>14. Truth'
  <2>1. d # <<>> => True(q)
    BY <1>3, <1>7, <1>9 DEF True
  <2>2. ASSUME NEW t \in Stream
        PROVE  /\ \A i \in 1..Len(decoding'[t]) : True(decoding'[t][i])
               /\ \A i \in 1..Len(frames'[t]) : True(frames'[t][i])
    <3>1. CASE t = s
      BY <1>7, <1>8, <1>9, <2>1, <3>1
    <3>2. CASE t # s
      BY <1>8, <3>2 DEF Truth
    <3>3. QED
      BY <3>1, <3>2
  <2>3. QED
    BY <1>1, <1>2, <2>2 DEF Truth
<1>15. InLine'
  <2>1. \A t \in Stream : t # s => Codec(t)' = Codec(t) /\ Held(t)' = Held(t)
    BY <1>8 DEF Codec, Held
  <2>2. Codec(s)' = {c[i] : i \in 1..Len(c)}
    BY <1>8 DEF Codec
  <2>3. Held(s)' = Codec(s)'
    <3>1. d # <<>> => q.kind = "sent"
      BY <1>7, <1>9
    <3>2. QED
      BY <1>8, <1>9, <3>1 DEF Held, Kept, IsData
  <2>4. Held(s) = Kept(Codec(s), p)
    BY <1>2 DEF Held, p
  <2>5. Codec(s)' \subseteq Kept(Codec(s), p)
    <3>1. CASE p.kind = "flush"
      <4>1. c = <<>> /\ Len(<<>>) = 0
        BY <1>7, <3>1
      <4>2. QED
        BY <2>2, <4>1
    <3>2. CASE IsData(p)
      BY <1>7, <2>2, <3>2 DEF Kept, IsData, Fed
    <3>3. CASE p.kind # "flush" /\ ~IsData(p)
      BY <1>7, <2>2, <3>3 DEF Kept
    <3>4. QED
      BY <3>1, <3>2, <3>3
  <2>6. Open' = Open
    BY DEF Open
  <2>7. ASSUME NEW t \in Stream
        PROVE  Lined(Held(t)', packets[t], place, Open)
    <3>1. Held(t)' \in SUBSET Held(t)
      BY <2>1, <2>3, <2>4, <2>5
    <3>2. Lined(Held(t), packets[t], place, Open)
      BY DEF InLine
    <3>3. QED
      BY <3>1, <3>2, LinedLess
  <2>8. ASSUME NEW t \in Stream, decoding'[t] # <<>>, Fed(Head(decoding'[t]))
        PROVE  Codec(t)' \subseteq {Head(decoding'[t]).content}
    <3>1. CASE t = s
      <4>1. d # <<>> /\ Head(decoding'[t]) = q /\ q.content = p.content /\ Fed(p)
        BY <1>7, <1>8, <1>9, <2>8, <3>1
      <4>2. QED
        BY <1>7, <2>2, <3>1, <4>1
    <3>2. CASE t # s
      <4>1. decoding'[t] = decoding[t]
        BY <1>8, <3>2
      <4>2. Codec(t) \subseteq {Head(decoding[t]).content}
        BY <2>8, <4>1 DEF InLine
      <4>3. QED
        BY <2>1, <3>2, <4>1, <4>2
    <3>3. QED
      BY <3>1, <3>2
  <2>9. QED
    BY <1>1, <1>2, <2>6, <2>7, <2>8 DEF InLine
<1>16. QED
  BY <1>11, <1>12, <1>13, <1>14, <1>15

\* The video thread keeps the invariant.
LEMMA VideoInv ==
    ASSUME SessionInv, VideoThread, UNCHANGED file
    PROVE  SessionInv'
<1>1. /\ UNCHANGED <<file, seekVars, playing, syncVars, uiVars, auVars>> /\ "video" \in Stream
      /\ \/ decoding["video"] = <<>> /\ HasRoom(frames["video"]) /\ Pop("video")
         \/ Decode("video")
  BY DEF VideoThread, VideoPop, VideoDecode
<1>2. ThreadsOK' /\ OldSoundIsFirst'
  BY <1>1 DEF SessionInv, ThreadsOK, OldSoundIsFirst, Truth, seekVars, syncVars, uiVars, auVars
<1>3. UNCHANGED <<file, rdPc, gen, place, auPc>> /\ ("audio" \notin Stream => auPc' = "top")
  BY <1>1 DEF SessionInv, Hands, seekVars, auVars
<1>4. QED
  BY <1>1, <1>2, <1>3, PopInv, DecodeInv

-----------------------------------------------------------------------------

\* The first frame of a stream is taken, to be shown or heard.
LEMMA TakeInv ==
    ASSUME SessionInv, NEW s \in Stream, frames[s] # <<>>, frames' = [frames EXCEPT ![s] = Tail(@)],
           UNCHANGED <<file, rdPc, gen, place, packets, decoding, codec>>,
           ThreadsOK', OldSoundIsFirst',
           "audio" \in Stream => (auPc' = "decode" <=> auPc = "decode"),
           "audio" \notin Stream => auPc' = "top"
    PROVE  SessionInv'
<1> USE DEF SessionInv
<1> DEFINE q == frames[s]
<1>1. /\ Stream' = Stream /\ HeldBack' = HeldBack /\ FramesPerPacket' = FramesPerPacket
      /\ frames \in [Stream -> Seq(Packet)] /\ q \in Seq(Packet)
  BY DEF Stream, HeldBack, FramesPerPacket, PipesOK
<1>2. /\ frames'[s] = Tail(q) /\ Tail(q) \in Seq(Packet) /\ Len(Tail(q)) < Len(q)
      /\ \A i \in 1..Len(Tail(q)) : Tail(q)[i] = q[i + 1] /\ i + 1 \in 1..Len(q)
      /\ \A t \in Stream : t # s => frames'[t] = frames[t]
  <2>1. /\ Tail(q) \in Seq(Packet) /\ Len(Tail(q)) < Len(q)
        /\ \A i \in 1..Len(Tail(q)) : Tail(q)[i] = q[i + 1] /\ i + 1 \in 1..Len(q)
    BY <1>1
  <2>2. frames'[s] = Tail(q) /\ \A t \in Stream : t # s => frames'[t] = frames[t]
    BY <1>1
  <2>3. QED
    BY <2>1, <2>2
<1>3. /\ Len(q) \in Nat /\ Len(Tail(q)) \in Nat /\ QueueSize \in Nat
      /\ HeldBack \in Nat /\ FramesPerPacket \in Nat
  BY <1>1, <1>2, Values
<1> HIDE DEF q
<1>4. \A t \in Stream : Len(frames'[t]) <= Len(frames[t]) /\ Len(frames[t]) \in Nat /\ Len(frames'[t]) \in Nat
  <2>1. Len(frames'[s]) <= Len(frames[s]) /\ Len(frames[s]) \in Nat /\ Len(frames'[s]) \in Nat
    BY <1>2, <1>3 DEF q
  <2>2. \A t \in Stream : Len(frames[t]) \in Nat
    BY <1>1
  <2>3. QED
    BY <1>2, <2>1, <2>2
<1>5. PipesOK'
  <2>1. frames' \in [Stream -> Seq(Packet)]
    BY <1>1, <1>2 DEF q
  <2>2. \A t \in Stream : Len(frames'[t]) < QueueSize + HeldBack + FramesPerPacket
    BY <1>3, <1>4 DEF PipesOK
  <2>3. QED
    BY <1>1, <2>1, <2>2 DEF PipesOK
<1>6. Seeks' /\ Hands'
  <2>1. ASSUME NEW t \in Stream
        PROVE  Room(t)'
    <3>1. /\ Room(t) /\ Len(codec[t]) \in Nat
          /\ Len(frames'[t]) <= Len(frames[t]) /\ Len(frames[t]) \in Nat /\ Len(frames'[t]) \in Nat
      BY <1>4 DEF Hands, PipesOK
    <3>2. CASE decoding[t] # <<>> /\ Head(decoding[t]).kind = "sent"
      <4>1. codec[t] # <<>> /\ Len(frames'[t]) + Len(codec[t]) < QueueSize + HeldBack + FramesPerPacket
        <5>1. codec[t] # <<>> /\ Len(frames[t]) + Len(codec[t]) < QueueSize + HeldBack + FramesPerPacket
          BY <3>1, <3>2 DEF Room
        <5> HIDE DEF SessionInv
        <5>2. Len(frames'[t]) + Len(codec[t]) < QueueSize + HeldBack + FramesPerPacket
          <6> DEFINE a == Len(frames'[t])
          <6> DEFINE b == Len(frames[t])
          <6> DEFINE k == Len(codec[t])
          <6> DEFINE m == QueueSize + HeldBack + FramesPerPacket
          <6>1. a \in Nat /\ b \in Nat /\ k \in Nat /\ a <= b
            BY <3>1
          <6>2. m \in Nat
            BY <1>3
          <6>3. b + k < m
            BY <5>1
          <6> HIDE DEF a, b, k, m
          <6>4. a + k < m
            BY <6>1, <6>2, <6>3
          <6>5. QED
            BY <6>4 DEF a, k, m
        <5>3. QED
          BY <5>1, <5>2
      <4>2. QED
        BY <1>1, <3>2, <4>1 DEF Room
    <3>3. CASE ~(decoding[t] # <<>> /\ Head(decoding[t]).kind = "sent")
      <4>1. Len(codec[t]) <= HeldBack /\ (decoding[t] # <<>> => Len(frames'[t]) < QueueSize)
        <5>1. Len(codec[t]) <= HeldBack /\ (decoding[t] # <<>> => Len(frames[t]) < QueueSize)
          BY <3>1, <3>3 DEF Room
        <5>2. Len(frames[t]) < QueueSize => Len(frames'[t]) < QueueSize
          BY <1>3, <3>1
        <5>3. QED
          BY <5>1, <5>2
      <4>2. QED
        BY <1>1, <3>3, <4>1 DEF Room
    <3>4. QED
      BY <3>2, <3>3
  <2>2. QED
    BY <1>1, <2>1 DEF Seeks, Hands
<1>7. Truth'
  <2>1. ASSUME NEW t \in Stream, NEW i \in 1..Len(frames'[t])
        PROVE  True(frames'[t][i])
    <3>1. CASE t = s
      BY <1>2, <2>1, <3>1 DEF Truth, q
    <3>2. CASE t # s
      BY <1>2, <2>1, <3>2 DEF Truth
    <3>3. QED
      BY <3>1, <3>2
  <2>2. QED
    BY <1>1, <2>1 DEF Truth
<1>8. InLine'
  <2>1. \A t \in Stream : Held(t)' = Held(t) /\ Codec(t)' = Codec(t)
    BY DEF Held, Codec
  <2>2. QED
    BY <1>1, <2>1 DEF InLine, Open
<1>9. QED
  BY <1>5, <1>6, <1>7, <1>8

\* The user interface's thread keeps it.
LEMMA UiInv ==
    ASSUME SessionInv, UiThread, UNCHANGED file
    PROVE  SessionInv'
<1> USE DEF SessionInv
<1>1. CASE UiDecide \/ UiCheck \/ UiSync
  <2>1. /\ UNCHANGED <<file, seekVars, pipeVars, playing, scrubbing, shown, auVars>>
        /\ uiPc' \in {"idle", "pop", "check", "sync"} /\ clock' \in Gen
        /\ (uiPc' # "idle" => "video" \in file.streams)
        /\ pending' \in BOOLEAN /\ reset' \in BOOLEAN
    <3>1. CASE UiDecide \/ UiCheck
      BY <3>1 DEF UiDecide, UiCheck, syncVars, ThreadsOK, Stream
    <3>2. CASE UiSync
      BY <3>2 DEF UiSync, ThreadsOK, Packet
    <3>3. QED
      BY <1>1, <3>1, <3>2
  <2> USE <2>1 DEF seekVars, pipeVars, auVars
  <2>2. ThreadsOK' /\ OldSoundIsFirst'
    BY DEF ThreadsOK, OldSoundIsFirst, Truth
  <2>3. QED
    BY <2>2, BesideInv DEF Hands
<1>2. CASE UiPop
  <2>1. /\ uiPc = "pop" /\ UNCHANGED <<file, seekVars, packets, decoding, codec, playing, syncVars, auVars>>
        /\ uiPc' = "check"
    BY <1>2 DEF UiPop
  <2>2. OldSoundIsFirst'  /\ UNCHANGED <<rdPc, gen, place>> /\ auPc' = auPc
        /\ ("audio" \notin Stream => auPc' = "top")
    BY <2>1 DEF OldSoundIsFirst, Truth, Hands, auVars, seekVars
  <2>3. CASE frames["video"] = <<>>
    <3>1. UNCHANGED <<frames, shown>>
      BY <1>2, <2>3 DEF UiPop
    <3>2. ThreadsOK'
      BY <2>1, <3>1 DEF ThreadsOK, seekVars, syncVars, auVars
    <3>3. QED
      BY <2>1, <2>2, <3>1, <3>2, BesideInv
  <2>4. CASE frames["video"] # <<>>
    <3>1. /\ frames' = [frames EXCEPT !["video"] = Tail(@)]
          /\ shown' \in {shown, Head(frames["video"])}
      BY <1>2, <2>4 DEF UiPop
    <3>2. "video" \in Stream
      BY <2>1 DEF ThreadsOK, Stream
    <3>3. Head(frames["video"]) \in Packet
      BY <2>4, <3>2 DEF PipesOK
    <3>4. ThreadsOK'
      BY <2>1, <3>1, <3>3 DEF ThreadsOK, seekVars, syncVars, auVars
    <3>5. QED
      BY <2>1, <2>2, <2>4, <3>1, <3>2, <3>4, TakeInv
  <2>5. QED
    BY <2>3, <2>4
<1>3. QED
  BY <1>1, <1>2 DEF UiThread

\* The steps of the audio thread that leave the queues alone.
LEMMA SoundInv ==
    ASSUME SessionInv, UNCHANGED file, "audio" \in Stream,
           \/ AudioTop \/ AudioPass \/ AudioFull \/ AudioCheck \/ AudioPlay \/ AudioSync
           \/ \E n \in 0..Capacity : AudioWrite(n)
    PROVE  SessionInv'
<1> USE DEF SessionInv
<1>1. CASE AudioTop \/ AudioPass \/ AudioFull \/ AudioCheck
  <2>1. /\ UNCHANGED <<file, seekVars, pipeVars, playing, syncVars, uiVars, device, buffer, bufGen, playGen>>
        /\ auPc # "decode" /\ auPc' \in {"receive", "fill", "play", "check"} /\ halted' \in BOOLEAN
    <3>1. CASE AudioTop
      <4>1. halted' \in BOOLEAN
        <5>1. halted' = (~playing \/ scrubbing) /\ (~playing \/ scrubbing) \in BOOLEAN
          BY <3>1 DEF AudioTop
        <5>2. QED
          BY <5>1
      <4>2. QED
        BY <3>1, <4>1 DEF AudioTop
    <3>2. CASE AudioPass \/ AudioFull \/ AudioCheck
      BY <3>2 DEF AudioPass, AudioFull, AudioCheck, ThreadsOK
    <3>3. QED
      BY <1>1, <3>1, <3>2
  <2> USE <2>1 DEF seekVars, pipeVars, syncVars, uiVars
  <2>2. ThreadsOK' /\ OldSoundIsFirst'
    BY DEF ThreadsOK, OldSoundIsFirst, Truth
  <2>3. QED
    BY <2>2, BesideInv
<1>2. CASE AudioPlay \/ AudioSync
  <2>1. /\ UNCHANGED <<file, seekVars, pipeVars, playing, scrubbing, reset, uiVars, device, buffer, bufGen>>
        /\ auPc # "decode" /\ auPc' \in {"write", "top"} /\ halted' \in BOOLEAN
        /\ playGen' \in Gen /\ clock' \in Gen /\ pending' \in BOOLEAN
    BY <1>2 DEF AudioPlay, AudioSync, ThreadsOK
  <2> USE <2>1 DEF seekVars, pipeVars, uiVars
  <2>2. ThreadsOK' /\ OldSoundIsFirst'
    BY DEF ThreadsOK, OldSoundIsFirst, Truth
  <2>3. QED
    BY <2>2, BesideInv
<1>3. ASSUME NEW n \in 0..Capacity, AudioWrite(n)
      PROVE  SessionInv'
  <2>1. /\ UNCHANGED <<file, seekVars, pipeVars, playing, syncVars, uiVars, device, halted, bufGen, playGen>>
        /\ auPc # "decode" /\ auPc' \in {"sync", "top"}
        /\ n <= Len(buffer) /\ buffer' = SubSeq(buffer, n + 1, Len(buffer))
    BY <1>3 DEF AudioWrite
  <2>2. n \in Nat /\ buffer \in Seq(Gen) /\ Len(buffer) \in Nat /\ Capacity \in Nat /\ Len(buffer) <= Capacity
    BY Values DEF ThreadsOK
  <2>3. /\ buffer' \in Seq(Gen) /\ Len(buffer') = Len(buffer) - n
        /\ \A i \in 1..Len(buffer') : buffer'[i] = buffer[i + n]
    BY <2>1, <2>2
  <2>4. ThreadsOK'
    BY <2>1, <2>2, <2>3 DEF ThreadsOK, seekVars, syncVars, uiVars
  <2>5. OldSoundIsFirst'
    <3>1. ASSUME NEW i \in 2..Len(buffer')
          PROVE  buffer'[i] \in {0, bufGen}
      <4>1. i + n \in 2..Len(buffer) /\ i \in 1..Len(buffer')
        BY <2>2, <2>3
      <4>2. QED
        BY <2>3, <4>1 DEF OldSoundIsFirst
    <3>2. QED
      BY <2>1, <3>1 DEF OldSoundIsFirst
  <2>6. QED
    BY <2>1, <2>4, <2>5, BesideInv DEF seekVars, pipeVars
<1>4. QED
  BY <1>1, <1>2, <1>3

\* The audio thread keeps it.
LEMMA AudioInv ==
    ASSUME SessionInv, AudioThread, UNCHANGED file
    PROVE  SessionInv'
<1> USE DEF SessionInv
<1>1. "audio" \in Stream
  BY DEF Hands, AudioThread, AudioTop, AudioPop, AudioDecode, AudioPass, AudioTake, AudioFull,
         AudioCheck, AudioPlay, AudioSync, AudioWrite
<1>2. CASE AudioPop \/ AudioDecode
  <2>1. /\ UNCHANGED <<file, seekVars, playing, syncVars, uiVars, device, halted, buffer, bufGen, playGen>>
        /\ \/ auPc = "receive" /\ auPc' = "decode" /\ HasRoom(frames["audio"]) /\ Pop("audio")
           \/ /\ auPc = "decode" /\ Decode("audio")
              /\ auPc' = IF decoding'["audio"] = <<>> THEN "fill" ELSE "decode"
    BY <1>2 DEF AudioPop, AudioDecode
  <2>2. ThreadsOK' /\ OldSoundIsFirst'
    BY <2>1 DEF ThreadsOK, OldSoundIsFirst, Truth, seekVars, syncVars, uiVars
  <2>3. UNCHANGED <<file, rdPc, gen, place>> /\ (auPc # "decode" => decoding["audio"] = <<>>)
    BY <1>1, <2>1 DEF seekVars, Hands
  <2>4. QED
    BY <1>1, <2>1, <2>2, <2>3, PopInv, DecodeInv
<1>3. CASE AudioTake
  <2> DEFINE f == Head(frames["audio"])
  <2>1. /\ UNCHANGED <<file, seekVars, packets, decoding, codec, playing, syncVars, uiVars, device, halted, playGen>>
        /\ auPc # "decode" /\ auPc' = "check"
        /\ frames["audio"] # <<>> /\ frames' = [frames EXCEPT !["audio"] = Tail(@)]
        /\ \/ UNCHANGED <<buffer, bufGen>>
           \/ /\ Len(buffer) < Capacity /\ buffer' = Appended(buffer, f)
              /\ bufGen' = IF f.kind = "eof" THEN bufGen ELSE f.gen
    BY <1>3 DEF AudioTake
  <2>2. f \in Packet /\ True(f)
    <3>1. frames["audio"] \in Seq(Packet) /\ 1 \in 1..Len(frames["audio"]) /\ f = frames["audio"][1]
      BY <1>1, <2>1 DEF PipesOK
    <3>2. QED
      BY <1>1, <3>1 DEF Truth
  <2> HIDE DEF f
  <2>3. /\ buffer \in Seq(Gen) /\ Len(buffer) \in Nat /\ Capacity \in Nat \ {0} /\ Len(buffer) <= Capacity
        /\ bufGen \in Gen /\ f.gen \in Gen /\ f.content \in Gen
        /\ f.content = f.gen /\ (f.kind = "eof" => f.content = 0)
    BY <2>2, SessionAssumption DEF ThreadsOK, Packet, True
  <2>4. buffer' \in Seq(Gen) /\ Len(buffer') <= Capacity /\ bufGen' \in Gen /\ OldSoundIsFirst'
    <3>1. CASE UNCHANGED <<buffer, bufGen>>
      BY <2>3, <3>1 DEF OldSoundIsFirst
    <3>2. CASE Len(buffer) < Capacity /\ buffer' = Append(buffer, f.content) /\ f.content \in {0, bufGen'}
               /\ bufGen' = bufGen
      <4>1. /\ buffer' \in Seq(Gen) /\ Len(buffer') = Len(buffer) + 1
            /\ \A i \in 1..Len(buffer) : buffer'[i] = buffer[i]
            /\ buffer'[Len(buffer) + 1] = f.content
        BY <2>3, <3>2
      <4>2. ASSUME NEW i \in 2..Len(buffer')
            PROVE  buffer'[i] \in {0, bufGen'}
        <5>1. CASE i = Len(buffer) + 1
          BY <3>2, <4>1, <5>1
        <5>2. CASE i # Len(buffer) + 1
          <6>1. i \in 2..Len(buffer) /\ i \in 1..Len(buffer)
            BY <2>3, <4>1, <4>2, <5>2
          <6>2. QED
            BY <3>2, <4>1, <6>1 DEF OldSoundIsFirst
        <5>3. QED
          BY <5>1, <5>2
      <4>3. QED
        BY <2>3, <3>2, <4>1, <4>2 DEF OldSoundIsFirst
    <3>3. CASE bufGen' = f.gen /\ \E c \in Gen : buffer' = <<c>>
      BY <2>3, <3>3 DEF OldSoundIsFirst
    <3>4. Head(buffer) \in Gen \/ buffer = <<>>
      BY <2>3
    <3>5. QED
      BY <2>1, <2>3, <3>1, <3>2, <3>3, <3>4 DEF Appended
  <2>5. ThreadsOK'
    BY <2>1, <2>4 DEF ThreadsOK, seekVars, syncVars, uiVars
  <2>6. QED
    BY <1>1, <2>1, <2>4, <2>5, TakeInv DEF seekVars
<1>4. QED
  BY <1>1, <1>2, <1>3, SoundInv DEF AudioThread

\* Every step keeps the invariant.
LEMMA StepSession == SessionInv /\ [Next]_<<vars, file>> => SessionInv'
<1> SUFFICES ASSUME SessionInv, [Next]_<<vars, file>>
             PROVE  SessionInv'
  OBVIOUS
<1>1. CASE UNCHANGED <<vars, file>>
  <2>1. /\ UNCHANGED <<file, seekVars, pipeVars, playing, syncVars, uiVars, auVars>>
    BY <1>1 DEF vars
  <2>2. ThreadsOK' /\ OldSoundIsFirst'
    BY <2>1 DEF SessionInv, ThreadsOK, OldSoundIsFirst, Truth, seekVars, syncVars, uiVars, auVars
  <2>3. QED
    BY <2>1, <2>2, BesideInv DEF SessionInv, Hands, seekVars, pipeVars, auVars
<1>2. CASE Next
  BY <1>2, SeekingInv, ReadingInv, UserInv, VideoInv, AudioInv, UiInv DEF Next
<1>3. QED
  BY <1>1, <1>2

\* The invariant of a session, for every file, queue size, capacity and number of
\* seeks: what is in queues, codecs and hands is of the place its generation says, in
\* the order of the flushes.
THEOREM Safe == Spec => []SessionInv
BY InitSession, StepSession, PTL DEF Spec

\* Every queue, thread and clock keeps its type; a queue of frames is over its limit
\* by what one packet brings out of the codec, the buffer is within its capacity (TypeOK).
THEOREM TypeCorrect == Spec => []TypeOK
<1>1. SessionInv => TypeOK
  BY TypesTogether DEF SessionInv
<1>2. QED
  BY Safe, <1>1, PTL

\* A frame that passes for a generation shows that generation's place, whatever
\* is in the queues, the codecs and the threads' hands when the seek comes.
THEOREM FramesAreTrue == Spec => []FramesAreWhereTheySay
<1>1. SessionInv => FramesAreWhereTheySay
  BY DEF SessionInv, Truth, True, FramesAreWhereTheySay
<1>2. QED
  BY Safe, <1>1, PTL

\* At most the first piece of the sound in the buffer is of another generation.
THEOREM OldSoundStaysFirst == Spec => []OldSoundIsFirst
<1>1. SessionInv => OldSoundIsFirst
  BY DEF SessionInv
<1>2. QED
  BY Safe, <1>1, PTL
=============================================================================
