------------------------- MODULE FileHandles_proofs -------------------------
(***************************************************************************)
(* For any items and however often the user acts: the session that is      *)
(* displayed comes to be the one that is played, and no decoder has a file *)
(* open while a tool works on it.                                          *)
(*                                                                         *)
(* Sessions are numbered as they are asked for, so that a session's number *)
(* says where it can be: those to be opened have the greatest, those whose *)
(* callback waits come next, and those that were handed over the least.    *)
(***************************************************************************)
EXTENDS FileHandles, SequenceTheorems, FiniteSetTheorems, TLAPS

Phase == {"none", "player", "preview", "tool"}
Maybe == Session \cup {NoSession}
PlayerTask == OpenTask \cup CloseTask
PlayerCallback == [kind : {"opened"}, ses : Maybe, to : Nat] \cup [kind : {"closed"}]

Types ==
    /\ display.n \in Nat /\ display.ses \in Maybe
    /\ display = [n |-> display.n, items |-> display.items, ses |-> display.ses]
    /\ phase \in Phase
    /\ tasks \in Seq(PlayerTask) /\ callbacks \in Seq(PlayerCallback)
    /\ playing \in Maybe /\ open \subseteq Session
    /\ opens \in Nat

IsOpen(t) == t.kind = "open"
IsClose(t) == t.kind = "close"
IsOpened(c) == c.kind = "opened"

\* The places of the reader's and of the UI queue.
Queued == 1..Len(tasks)
Waiting == 1..Len(callbacks)

\* A session to be opened is newer than all those that were opened.
Newest ==
    /\ \A i \in Queued : tasks[i].ses.n <= opens
    /\ \A i, j \in Queued : (IsOpen(tasks[j]) /\ IsOpen(tasks[i]) /\ i < j) => tasks[i].ses.n < tasks[j].ses.n
    /\ \A i, j \in Queued : (IsOpen(tasks[j]) /\ IsClose(tasks[i])) => tasks[i].ses.n < tasks[j].ses.n
    /\ display.ses.n <= opens
    /\ \A i \in Queued : IsOpen(tasks[i]) => display.ses.n < tasks[i].ses.n

\* A session that waits to be handed over is older than those to be opened and newer
\* than those that were handed over, or are to be closed.
Newer ==
    /\ \A i \in Waiting : IsOpened(callbacks[i]) =>
          /\ callbacks[i].ses.n <= opens
          /\ \A j \in Queued : IsOpen(tasks[j]) => callbacks[i].ses.n < tasks[j].ses.n
    /\ \A i, j \in Waiting : (IsOpened(callbacks[i]) /\ IsOpened(callbacks[j]) /\ i < j) =>
          callbacks[j].ses = NoSession \/ callbacks[i].ses.n < callbacks[j].ses.n
    /\ \A i \in Waiting : IsOpened(callbacks[i]) =>
          \/ callbacks[i].ses = NoSession
          \/ /\ display.ses.n < callbacks[i].ses.n
             /\ \A j \in Queued : IsClose(tasks[j]) => tasks[j].ses.n < callbacks[i].ses.n

\* Sessions come for the displays in order; a display that has one is the last.
InTurn ==
    /\ \A i \in Queued : IsOpen(tasks[i]) => tasks[i].to <= display.n
    /\ \A i \in Waiting : IsOpened(callbacks[i]) => callbacks[i].to <= display.n
    /\ \A i, j \in Queued : (IsOpen(tasks[i]) /\ IsOpen(tasks[j]) /\ i < j) => tasks[i].to <= tasks[j].to
    /\ \A i, j \in Waiting : (IsOpened(callbacks[i]) /\ IsOpened(callbacks[j]) /\ i < j) =>
          callbacks[i].to <= callbacks[j].to
    /\ \A i \in Waiting, j \in Queued : (IsOpened(callbacks[i]) /\ IsOpen(tasks[j])) =>
          callbacks[i].to <= tasks[j].to
    /\ display.ses # NoSession =>
          /\ \A i \in Queued : IsOpen(tasks[i]) => tasks[i].to = display.n
          /\ \A i \in Waiting : IsOpened(callbacks[i]) => callbacks[i].to = display.n

\* What is played is open, is what was opened last, and is known to somebody.
Played ==
    /\ playing # NoSession => playing \in open
    /\ (\E i \in Waiting : IsOpened(callbacks[i])) =>
          \E i \in Waiting : /\ IsOpened(callbacks[i]) /\ playing = callbacks[i].ses
                             /\ \A j \in Waiting : j > i => ~IsOpened(callbacks[j])
    /\ playing # NoSession =>
          \/ playing = display.ses \/ playing \in orphans
          \/ \E i \in Waiting : IsOpened(callbacks[i]) /\ callbacks[i].ses = playing
          \/ \E i \in Queued : IsClose(tasks[i]) /\ tasks[i].ses = playing

Reopening == phase # "none" /\ playable /\ Item1 = target

OpenComes == \E i \in Queued : IsOpen(tasks[i]) /\ tasks[i].to = display.n
SessionComes == OpenComes \/ \E i \in Waiting : IsOpened(callbacks[i]) /\ callbacks[i].to = display.n

Wanted == Len(display.items) = 1 /\ Item1 \subseteq Video

\* The display's session is played, or it will be given another one; if its session is
\* to be closed another one will be opened after that.
Displayed ==
    /\ display.ses # NoSession => playing = display.ses \/ SessionComes \/ Reopening
    /\ \A i \in Queued : (IsClose(tasks[i]) /\ tasks[i].ses = display.ses) =>
          Reopening \/ \E j \in Queued : i < j /\ IsOpen(tasks[j])
    /\ (Wanted /\ ~unopened) => display.ses # NoSession \/ SessionComes
    /\ ~unopened => \A i \in Waiting : IsOpened(callbacks[i]) => callbacks[i].ses # NoSession

\* A display with a session, or one that will be given one, begins with a video; and so
\* does what is detached while it is played.
Videos ==
    /\ display.ses # NoSession \/ SessionComes => Item1 # {} /\ Item1 \subseteq Video
    /\ playable => target # {} /\ target \subseteq Video

Tells(t) == IsClose(t) /\ t.tell

\* While it is sure that the handles will be released, the sessions of the item are those
\* that the player is told to close, and it tells when it has.
Closes ==
    /\ phase = "none" => ~sure
    /\ sure => ~tardy
    /\ ~tardy =>
          /\ (closedPlayer \/ phase # "player") =>
                (\A i \in Queued : ~Tells(tasks[i])) /\ \A i \in Waiting : IsOpened(callbacks[i])
          /\ \A i, j \in Queued : Tells(tasks[i]) /\ Tells(tasks[j]) => i = j
          /\ \A i, j \in Waiting : ~IsOpened(callbacks[i]) /\ ~IsOpened(callbacks[j]) => i = j
          /\ \A i \in Queued, j \in Waiting : ~(Tells(tasks[i]) /\ ~IsOpened(callbacks[j]))
    /\ sure => \A s \in open \cup {tasks[i].ses : i \in {j \in Queued : IsOpen(tasks[j])}} :
          s.item \in target =>
             phase = "player" /\ \E i \in Queued : Tells(tasks[i]) /\ tasks[i].ses = s

\* The same of the preview: it has closed its decoders when it says so, and opens none.
Previews ==
    /\ phase # "none" => \A t \in slot : t.kind # "show"
    /\ ~tardy =>
          /\ (closedPreview \/ phase \notin {"player", "preview"}) =>
                \A t \in slot \cup preview : t.kind # "closeAndSet"
          /\ \A t \in slot, u \in preview : ~(t.kind = "closeAndSet" /\ u.kind = "closeAndSet")
    /\ (sure /\ closedPreview) => decoder1 = {} /\ decoder2 = {} /\ \A t \in preview : t.kind # "show"
    /\ (sure /\ phase = "tool") => closedPreview

HandlesInv ==
    Types /\ Newest /\ Newer /\ InTurn /\ Played /\ Displayed /\ Videos /\ Closes /\ Previews

-----------------------------------------------------------------------------

LEMMA Kinds ==
    /\ NoSession.n = 0 /\ NoSession \notin Session
    /\ \A s \in Maybe : s.n \in Nat /\ (s # NoSession => s.n > 0 /\ s \in Session)
    /\ \A t \in PlayerTask : /\ t.ses \in Session /\ t.ses.n \in Nat \ {0}
                             /\ IsOpen(t) => t.to \in Nat /\ ~IsClose(t)
                             /\ ~IsOpen(t) => IsClose(t) /\ t.tell \in BOOLEAN
    /\ \A c \in PlayerCallback : /\ IsOpened(c) => c.ses \in Maybe /\ c.ses.n \in Nat /\ c.to \in Nat
                                 /\ ~IsOpened(c) => c = [kind |-> "closed"]
<1>1. NoSession.n = 0
    BY DEF NoSession
<1>2. \A s \in Session : s.n \in Nat /\ s.n > 0
    BY DEF Session
<1>3. NoSession \notin Session
    BY <1>1, <1>2
<1>4. \A t \in PlayerTask : /\ t.ses \in Session
                            /\ IsOpen(t) => t.to \in Nat /\ ~IsClose(t)
                            /\ ~IsOpen(t) => IsClose(t) /\ t.tell \in BOOLEAN
    BY DEF PlayerTask, OpenTask, CloseTask, IsOpen, IsClose
<1>5. \A c \in PlayerCallback : /\ IsOpened(c) => c.ses \in Maybe /\ c.to \in Nat
                                /\ ~IsOpened(c) => c = [kind |-> "closed"]
    BY DEF PlayerCallback, IsOpened
<1> QED BY <1>1, <1>2, <1>3, <1>4, <1>5 DEF Maybe

\* What the elements of the two queues are.
LEMMA Elements ==
    ASSUME Types
    PROVE  /\ NoSession.n = 0 /\ NoSession \notin Session
           /\ \A s \in Maybe : s.n \in Nat /\ (s # NoSession => s.n > 0 /\ s \in Session)
           /\ \A i \in Queued : /\ tasks[i] \in PlayerTask /\ tasks[i].ses \in Session /\ tasks[i].ses.n \in Nat \ {0}
                                /\ IsOpen(tasks[i]) => tasks[i].to \in Nat /\ ~IsClose(tasks[i])
                                /\ ~IsOpen(tasks[i]) => IsClose(tasks[i]) /\ tasks[i].tell \in BOOLEAN
           /\ \A i \in Waiting : /\ callbacks[i] \in PlayerCallback
                                 /\ IsOpened(callbacks[i]) => /\ callbacks[i].ses \in Maybe
                                                              /\ callbacks[i].ses.n \in Nat
                                                              /\ callbacks[i].to \in Nat
                                 /\ ~IsOpened(callbacks[i]) => callbacks[i] = [kind |-> "closed"]
           /\ Len(tasks) \in Nat /\ Len(callbacks) \in Nat
<1>1. \A i \in Queued : tasks[i] \in PlayerTask
    BY ElementOfSeq DEF Types, Queued
<1>2. \A i \in Waiting : callbacks[i] \in PlayerCallback
    BY ElementOfSeq DEF Types, Waiting
<1>3. Len(tasks) \in Nat /\ Len(callbacks) \in Nat
    BY LenProperties DEF Types
<1> QED BY <1>1, <1>2, <1>3, Kinds

LEMMA InitHandles == MediaInit => HandlesInv
<1> SUFFICES ASSUME MediaInit PROVE HandlesInv
    OBVIOUS
<1> USE DEF MediaInit
<1>1. Types
    BY EmptySeq DEF Types, Phase, Maybe
<1>2. Queued = {} /\ Waiting = {}
    BY DEF Queued, Waiting
<1>3. Newest /\ Newer /\ InTurn
    BY <1>2 DEF Newest, Newer, InTurn, NoSession
<1>4. Played /\ Displayed /\ Videos
    BY <1>2 DEF Played, Displayed, Wanted, Videos, SessionComes, OpenComes
<1>5. Closes /\ Previews
    BY <1>2 DEF Closes, Previews
<1> QED BY <1>1, <1>3, <1>4, <1>5 DEF HandlesInv

-----------------------------------------------------------------------------
(* Steps that leave the queues, the display and what is played alone *)

Sessions == Types /\ Newest /\ Newer /\ InTurn /\ Played /\ Displayed /\ Videos

LEMMA SessionsStay ==
    ASSUME Sessions, UNCHANGED <<display, tasks, callbacks, playing, opens, orphans, unopened>>,
           Reopening => Reopening', playing # NoSession => playing \in open', open' \subseteq Session,
           phase' \in Phase, playable' => target' # {} /\ target' \subseteq Video
    PROVE  Sessions'
<1> USE DEF Sessions
<1>1. Queued' = Queued /\ Waiting' = Waiting /\ Item1' = Item1 /\ Wanted' = Wanted
    BY DEF Queued, Waiting, Item1, Wanted
<1>2. Types'
    BY DEF Types
<1>3. Newest' /\ Newer' /\ InTurn'
    BY <1>1 DEF Newest, Newer, InTurn
<1>4. Played'
    BY <1>1 DEF Played
<1>5. Displayed'
    BY <1>1 DEF Displayed, SessionComes, OpenComes
<1>6. Videos'
    BY <1>1 DEF Videos, SessionComes, OpenComes
<1> QED BY <1>2, <1>3, <1>4, <1>5, <1>6

LEMMA LetGoKeeps == ASSUME HandlesInv, LetGo PROVE HandlesInv'
<1> USE DEF HandlesInv, detaching, previewing, decoders, closedEvents
<1>1. /\ \E s \in Loose : open' = open \ {s}
      /\ UNCHANGED <<display, phase, target, playable, tasks, playing, callbacks, slot, woken, preview, decoder1,
                     decoder2, alive, closedPlayer, closedPreview, opens, sure, tardy, orphans, unopened>>
    BY DEF LetGo
<1>2. open' \subseteq open /\ (playing # NoSession => playing \in open')
    BY <1>1 DEF Loose, Played
<1>3. Sessions'
    BY <1>1, <1>2, SessionsStay DEF Sessions, Reopening, Item1, Types, Videos
<1>4. Closes'
    BY <1>1, <1>2 DEF Closes, Queued, Waiting
<1>5. Previews'
    BY <1>1 DEF Previews
<1> QED BY <1>3, <1>4, <1>5 DEF Sessions

LEMMA PreviewThreadKeeps ==
    ASSUME HandlesInv, TakePreview \/ RunPreview \/ PreviewThrows \/ PreviewIdles PROVE HandlesInv'
<1> USE DEF HandlesInv, detaching, closedEvents
<1>1. UNCHANGED <<display, phase, target, playable, tasks, playing, open, callbacks, closedPlayer, opens, sure, tardy,
                  orphans, unopened>>
    BY DEF TakePreview, RunPreview, PreviewThrows, PreviewIdles
<1>2. Sessions'
    BY <1>1, SessionsStay DEF Sessions, Reopening, Item1, Played, Types, Videos
<1>3. Closes'
    BY <1>1 DEF Closes, Queued, Waiting
<1>4. Previews'
    <2>1. CASE TakePreview
        BY <2>1, <1>1 DEF TakePreview, Previews, Closes, decoders
    <2>2. CASE RunPreview
        <3>1. PICK t \in preview :
                /\ \/ t.kind = "show"
                   \/ t.kind \in {"close", "closeAndSet"} /\ decoder1' = {} /\ decoder2' = {}
                   \/ t.kind = "compute" /\ UNCHANGED <<decoder1, decoder2>>
                /\ closedPreview' = (closedPreview \/ t.kind = "closeAndSet")
                /\ preview' = {} /\ slot' = slot
            BY <2>2 DEF RunPreview, decoders
        <3>2. /\ closedPreview' => closedPreview \/ t.kind = "closeAndSet"
              /\ closedPreview => closedPreview'
            BY <3>1
        <3>3. t.kind = "closeAndSet" => decoder1' = {} /\ decoder2' = {}
            BY <3>1
        <3>4. closedPreview /\ sure => decoder1' = {} /\ decoder2' = {}
            BY <3>1 DEF Previews
        <3> QED BY <3>1, <3>2, <3>3, <3>4, <1>1 DEF Previews
    <2>3. CASE PreviewThrows \/ PreviewIdles
        BY <2>3, <1>1 DEF PreviewThrows, PreviewIdles, Previews
    <2> QED BY <2>1, <2>2, <2>3
<1> QED BY <1>2, <1>3, <1>4 DEF Sessions

LEMMA ShowKeeps ==
    ASSUME HandlesInv, PixelDifference \/ \E its : ShowPreview(its) PROVE HandlesInv'
<1> USE DEF HandlesInv, detaching, closedEvents, decoders
<1>1. /\ UNCHANGED <<display, phase, target, playable, tasks, playing, open, callbacks, closedPlayer, closedPreview,
                     opens, sure, tardy, orphans, unopened, preview, decoder1, decoder2>>
      /\ \E k \in {"show", "compute"} : \E its : slot' = {[kind |-> k, items |-> its]} /\ (k = "show" => phase = "none")
    <2>1. CASE PixelDifference
        BY <2>1 DEF PixelDifference, QueueMediaPreview
    <2>2. CASE \E its : ShowPreview(its)
        BY <2>2 DEF ShowPreview, QueueMediaPreview, Attached
    <2> QED BY <2>1, <2>2
<1>2. Sessions'
    BY <1>1, SessionsStay DEF Sessions, Reopening, Item1, Played, Types, Videos
<1>3. Closes'
    BY <1>1 DEF Closes, Queued, Waiting
<1>4. Previews'
    BY <1>1 DEF Previews
<1> QED BY <1>2, <1>3, <1>4 DEF Sessions

LEMMA WaitKeeps ==
    ASSUME HandlesInv, PlayerClosed \/ PreviewClosed PROVE HandlesInv'
<1> USE DEF HandlesInv, closedEvents, decoders, previewing
<1>1. /\ UNCHANGED <<display, target, playable, tasks, playing, open, callbacks, closedPlayer, closedPreview,
                     opens, orphans, unopened, preview, decoder1, decoder2>>
      /\ phase # "none" /\ phase' # "none" /\ phase' \in Phase
    BY DEF PlayerClosed, PreviewClosed, QueueMediaPreview, Phase
<1>2. Sessions'
    BY <1>1, SessionsStay DEF Sessions, Reopening, Item1, Played, Types, Videos
<1>3. Queued' = Queued /\ Waiting' = Waiting
    BY <1>1 DEF Queued, Waiting
<1>4. CASE PlayerClosed
    <2>1. /\ phase = "player" /\ phase' = "preview" /\ slot' = slot
          /\ closedPlayer => sure' = sure /\ tardy' = tardy
          /\ ~closedPlayer => ~sure' /\ tardy'
        BY <1>4 DEF PlayerClosed
    <2>2. Closes'
        BY <1>1, <1>3, <2>1 DEF Closes
    <2>3. Previews'
        BY <1>1, <2>1 DEF Previews, Closes
    <2> QED BY <1>2, <2>2, <2>3 DEF Sessions
<1>5. CASE PreviewClosed
    <2>1. /\ phase = "preview" /\ phase' = "tool" /\ slot' = {[kind |-> "close", items |-> <<>>]}
          /\ closedPreview => sure' = sure /\ tardy' = tardy
          /\ ~closedPreview => ~sure' /\ tardy'
        BY <1>5 DEF PreviewClosed, QueueMediaPreview
    <2>2. Closes'
        BY <1>1, <1>3, <2>1 DEF Closes
    <2>3. Previews'
        BY <1>1, <2>1 DEF Previews, Closes
    <2> QED BY <1>2, <2>2, <2>3 DEF Sessions
<1> QED BY <1>4, <1>5

-----------------------------------------------------------------------------
(* Steps that post to the reader *)

\* What is posted closes the display's session, or is the last and opens the next one
\* for the display.
Posted ==
    /\ tasks' \in Seq(PlayerTask)
    /\ Queued \subseteq Queued'
    /\ \A i \in Queued : tasks'[i] = tasks[i]
    /\ \A i \in Queued, j \in Queued' \ Queued : i < j
    /\ \A i \in Queued' \ Queued :
          \/ IsClose(tasks'[i]) /\ tasks'[i].ses = display.ses
          \/ /\ IsOpen(tasks'[i]) /\ \A j \in Queued' : j <= i
             /\ tasks'[i].ses.n = opens + 1 /\ tasks'[i].to = display'.n /\ opens' = opens + 1
    /\ opens' \in {opens, opens + 1}
    /\ UNCHANGED <<callbacks, playing, open, orphans>>

\* The display is the same, or a new one; then the session of the last is to be closed.
NextDisplay ==
    \/ display' = display
    \/ /\ display'.n = display.n + 1 /\ display'.ses = NoSession
       /\ display' = [n |-> display'.n, items |-> display'.items, ses |-> display'.ses]
       /\ display.ses # NoSession => \E i \in Queued' : IsClose(tasks'[i]) /\ tasks'[i].ses = display.ses

LEMMA QueueGrows ==
    ASSUME Types, NEW ext \in Seq(PlayerTask), tasks' = tasks \o ext
    PROVE  /\ tasks' \in Seq(PlayerTask) /\ Len(ext) \in Nat /\ Queued \subseteq Queued'
           /\ \A i \in Queued : tasks'[i] = tasks[i]
           /\ \A i \in Queued, j \in Queued' \ Queued : i < j
           /\ \A i \in Queued' \ Queued : \E k \in 1..Len(ext) : i = Len(tasks) + k /\ tasks'[i] = ext[k]
           /\ \A k \in 1..Len(ext) : /\ Len(tasks) + k \in Queued' \ Queued
                                     /\ tasks'[Len(tasks) + k] = ext[k]
           /\ \A j \in Queued' : j <= Len(tasks) + Len(ext)
<1>1. tasks \in Seq(PlayerTask) /\ Len(tasks) \in Nat /\ Len(ext) \in Nat
    BY LenProperties DEF Types
<1>2. /\ tasks' \in Seq(PlayerTask) /\ Len(tasks') = Len(tasks) + Len(ext)
      /\ \A i \in 1..Len(tasks') :
            tasks'[i] = IF i <= Len(tasks) THEN tasks[i] ELSE ext[i - Len(tasks)]
    BY <1>1, ConcatProperties
<1>3. Queued = 1..Len(tasks) /\ Queued' = 1..(Len(tasks) + Len(ext))
    BY <1>2 DEF Queued
<1>4. ASSUME NEW i \in Queued' \ Queued
      PROVE  \E k \in 1..Len(ext) : i = Len(tasks) + k /\ tasks'[i] = ext[k]
    <2>1. i - Len(tasks) \in 1..Len(ext) /\ ~(i <= Len(tasks))
        BY <1>1, <1>3
    <2> QED BY <2>1, <1>1, <1>2, <1>3
<1>5. ASSUME NEW k \in 1..Len(ext)
      PROVE  Len(tasks) + k \in Queued' \ Queued /\ tasks'[Len(tasks) + k] = ext[k]
    <2>1. Len(tasks) + k \in 1..Len(tasks') /\ ~(Len(tasks) + k <= Len(tasks)) /\ Len(tasks) + k - Len(tasks) = k
        BY <1>1, <1>2
    <2> QED BY <2>1, <1>1, <1>2, <1>3
<1>6. \A i \in Queued : tasks'[i] = tasks[i]
    BY <1>1, <1>2, <1>3
<1>7. Queued \subseteq Queued' /\ \A i \in Queued, j \in Queued' \ Queued : i < j
    BY <1>1, <1>3
<1>8. \A j \in Queued' : j <= Len(tasks) + Len(ext)
    BY <1>1, <1>3
<1> QED BY <1>1, <1>2, <1>4, <1>5, <1>6, <1>7, <1>8

LEMMA PostKeeps ==
    ASSUME Sessions, Posted, NextDisplay, phase' \in Phase
    PROVE  Types' /\ Newest' /\ Newer' /\ InTurn' /\ Played'
<1> USE DEF Sessions
<1>1. Waiting' = Waiting /\ Queued \subseteq Queued' /\ Queued' \subseteq Nat /\ opens' \in Nat /\ opens <= opens'
    BY LenProperties DEF Posted, Waiting, Types, Queued
<1>2. Types'
    BY <1>1 DEF Types, Posted, NextDisplay, Maybe
<1>3. ASSUME NEW i \in Queued' \ Queued, NEW j \in Queued'
      PROVE  /\ IsOpen(tasks'[i]) \/ IsClose(tasks'[i])
             /\ IsClose(tasks'[i]) => tasks'[i].ses = display.ses /\ ~IsOpen(tasks'[i])
             /\ IsOpen(tasks'[i]) => /\ ~IsClose(tasks'[i]) /\ j <= i /\ tasks'[i].to = display'.n
                                     /\ tasks'[i].ses.n = opens + 1 /\ opens' = opens + 1
    BY DEF Posted, IsOpen, IsClose
<1>4. ASSUME NEW i \in Queued' PROVE tasks'[i].ses.n \in Nat /\ (IsOpen(tasks'[i]) => tasks'[i].to \in Nat)
    <2>1. tasks'[i] \in PlayerTask
        BY ElementOfSeq DEF Posted, Queued
    <2> QED BY <2>1, Kinds
<1>5. /\ display.n \in Nat /\ display'.n \in Nat /\ display.n <= display'.n /\ display.ses.n \in Nat
      /\ display'.ses.n \in Nat /\ display'.ses.n <= display.ses.n
    BY <1>2, Kinds DEF Types, NextDisplay
<1>6. \A i \in Queued : tasks'[i] = tasks[i]
    BY DEF Posted
<1>7. \A i \in Queued, j \in Queued' \ Queued : i < j
    BY DEF Posted
<1>8. Newest'
    <2>1. \A i \in Queued' : tasks'[i].ses.n <= opens'
        BY <1>1, <1>3, <1>5, <1>6, Elements DEF Newest, Posted
    <2>2. \A i, j \in Queued' : (IsOpen(tasks'[j]) /\ IsOpen(tasks'[i]) /\ i < j) => tasks'[i].ses.n < tasks'[j].ses.n
        <3> SUFFICES ASSUME NEW i \in Queued', NEW j \in Queued', IsOpen(tasks'[j]), IsOpen(tasks'[i]), i < j
                     PROVE  tasks'[i].ses.n < tasks'[j].ses.n
            OBVIOUS
        <3>1. CASE j \in Queued
            <4>1. i \in Queued
                <5> SUFFICES ASSUME i \notin Queued PROVE FALSE
                    OBVIOUS
                <5>1. j < i
                    BY <3>1, <1>7
                <5> QED BY <5>1, <1>1
            <4>2. tasks'[i] = tasks[i] /\ tasks'[j] = tasks[j]
                BY <3>1, <4>1, <1>6
            <4> QED BY <3>1, <4>1, <4>2 DEF Newest
        <3>2. CASE i \in Queued /\ j \notin Queued
            <4>1. tasks'[i].ses.n <= opens /\ tasks'[i].ses.n \in Nat /\ opens \in Nat
                BY <3>2, <1>4, <1>6 DEF Newest, Types
            <4>2. tasks'[j].ses.n = opens + 1
                BY <3>2, <1>3
            <4> QED BY <4>1, <4>2
        <3>3. i \in Queued \/ j \in Queued
            BY <1>1, <1>3
        <3> QED BY <3>1, <3>2, <3>3
    <2>3. \A i, j \in Queued' : (IsOpen(tasks'[j]) /\ IsClose(tasks'[i])) => tasks'[i].ses.n < tasks'[j].ses.n
        <3> SUFFICES ASSUME NEW i \in Queued', NEW j \in Queued', IsOpen(tasks'[j]), IsClose(tasks'[i])
                     PROVE  tasks'[i].ses.n < tasks'[j].ses.n
            OBVIOUS
        <3>1. tasks'[j].ses.n \in Nat /\ opens \in Nat
            BY <1>4 DEF Types
        <3>2. CASE i \in Queued /\ j \in Queued
            BY <3>2, <1>6 DEF Newest
        <3>3. CASE i \in Queued /\ j \notin Queued
            <4>1. tasks'[i].ses.n <= opens /\ tasks'[i].ses.n \in Nat
                BY <3>3, <1>4, <1>6 DEF Newest, Types
            <4>2. tasks'[j].ses.n = opens + 1
                BY <3>3, <1>3
            <4> QED BY <3>1, <4>1, <4>2
        <3>4. CASE i \notin Queued /\ j \in Queued
            BY <3>4, <1>3, <1>6 DEF Newest
        <3>5. CASE i \notin Queued /\ j \notin Queued
            BY <3>1, <3>5, <1>3, <1>5 DEF Newest
        <3> QED BY <3>2, <3>3, <3>4, <3>5
    <2>4. display'.ses.n <= opens'
        BY <1>1, <1>5 DEF Newest, Types
    <2>5. \A i \in Queued' : IsOpen(tasks'[i]) => display'.ses.n < tasks'[i].ses.n
        <3> SUFFICES ASSUME NEW i \in Queued', IsOpen(tasks'[i]) PROVE display.ses.n < tasks'[i].ses.n
            BY <1>4, <1>5
        <3>1. CASE i \in Queued
            BY <3>1, <1>6 DEF Newest
        <3>2. CASE i \notin Queued
            <4>1. tasks'[i].ses.n = opens + 1 /\ display.ses.n <= opens /\ opens \in Nat
                BY <3>2, <1>3 DEF Newest, Types
            <4> QED BY <4>1, <1>5
        <3> QED BY <3>1, <3>2
    <2> QED BY <2>1, <2>2, <2>3, <2>4, <2>5 DEF Newest
<1>9. Newer'
    <2>1. callbacks' = callbacks
        BY DEF Posted
    <2>0. \A i \in Waiting : IsOpened(callbacks[i]) => callbacks[i].ses.n <= opens'
        BY <1>1, Elements DEF Newer, Types
    <2>2. \A i \in Waiting : IsOpened(callbacks[i]) =>
             /\ callbacks[i].ses.n <= opens'
             /\ \A j \in Queued' : IsOpen(tasks'[j]) => callbacks[i].ses.n < tasks'[j].ses.n
        <3> SUFFICES ASSUME NEW i \in Waiting, IsOpened(callbacks[i]), NEW j \in Queued'
                     PROVE  /\ callbacks[i].ses.n <= opens'
                            /\ IsOpen(tasks'[j]) => callbacks[i].ses.n < tasks'[j].ses.n
            BY <1>1, <2>0 DEF Newer
        <3>1. callbacks[i].ses.n \in Nat /\ callbacks[i].ses.n <= opens /\ opens \in Nat
            BY Elements DEF Newer, Types
        <3>2. CASE j \in Queued
            BY <3>1, <3>2, <1>1, <1>6 DEF Newer
        <3>3. CASE j \notin Queued
            BY <3>1, <3>3, <1>1, <1>3
        <3> QED BY <3>2, <3>3
    <2>3. \A i \in Waiting : IsOpened(callbacks[i]) =>
             \/ callbacks[i].ses = NoSession
             \/ /\ display'.ses.n < callbacks[i].ses.n
                /\ \A j \in Queued' : IsClose(tasks'[j]) => tasks'[j].ses.n < callbacks[i].ses.n
        BY <1>1, <1>3, <1>5, <1>6, Elements DEF Newer
    <2> QED BY <1>1, <2>1, <2>2, <2>3 DEF Newer
<1>10. InTurn'
    <2>1. callbacks' = callbacks
        BY DEF Posted
    <2>2. \A i \in Queued' : IsOpen(tasks'[i]) => tasks'[i].to <= display'.n
        BY <1>1, <1>3, <1>4, <1>5, <1>6, Elements DEF InTurn
    <2>3. \A i \in Waiting : IsOpened(callbacks[i]) => callbacks[i].to <= display'.n
        BY <1>5, Elements DEF InTurn
    <2>4. \A i, j \in Queued' : (IsOpen(tasks'[i]) /\ IsOpen(tasks'[j]) /\ i < j) => tasks'[i].to <= tasks'[j].to
        BY <1>1, <1>3, <1>4, <1>6, <1>7, <2>2 DEF InTurn
    <2>5. \A i \in Waiting, j \in Queued' : (IsOpened(callbacks[i]) /\ IsOpen(tasks'[j])) =>
             callbacks[i].to <= tasks'[j].to
        BY <1>3, <1>6, <2>3 DEF InTurn
    <2>6. display'.ses # NoSession =>
             /\ \A i \in Queued' : IsOpen(tasks'[i]) => tasks'[i].to = display'.n
             /\ \A i \in Waiting : IsOpened(callbacks[i]) => callbacks[i].to = display'.n
        BY <1>3, <1>6 DEF InTurn, NextDisplay
    <2> QED BY <1>1, <2>1, <2>2, <2>3, <2>4, <2>5, <2>6 DEF InTurn
<1>11. Played'
    BY <1>1, <1>6 DEF Played, Posted, NextDisplay
<1> QED BY <1>2, <1>8, <1>9, <1>10, <1>11

LEMMA Asks ==
    ASSUME Types, NEW ext \in Seq(PlayerTask), tasks' = tasks \o ext,
           \A k \in 1..Len(ext) :
              \/ IsClose(ext[k]) /\ ext[k].ses = display.ses
              \/ /\ IsOpen(ext[k]) /\ k = Len(ext)
                 /\ ext[k].ses.n = opens + 1 /\ ext[k].to = display'.n /\ opens' = opens + 1,
           opens' \in {opens, opens + 1}, UNCHANGED <<callbacks, playing, open, orphans>>
    PROVE  Posted
<1>1. Len(tasks) \in Nat /\ Len(ext) \in Nat
    BY LenProperties DEF Types
<1>2. ASSUME NEW i \in Queued' \ Queued
      PROVE  \/ IsClose(tasks'[i]) /\ tasks'[i].ses = display.ses
             \/ /\ IsOpen(tasks'[i]) /\ \A j \in Queued' : j <= i
                /\ tasks'[i].ses.n = opens + 1 /\ tasks'[i].to = display'.n /\ opens' = opens + 1
    <2>1. PICK k \in 1..Len(ext) : i = Len(tasks) + k /\ tasks'[i] = ext[k]
        BY QueueGrows
    <2> QED BY <2>1, QueueGrows
<1> QED BY <1>2, QueueGrows DEF Posted

LEMMA AsksOne ==
    ASSUME Types, NEW t \in PlayerTask, tasks' = tasks \o <<t>>,
           \/ IsClose(t) /\ t.ses = display.ses /\ opens' = opens
           \/ IsOpen(t) /\ t.ses.n = opens + 1 /\ t.to = display'.n /\ opens' = opens + 1,
           UNCHANGED <<callbacks, playing, open, orphans>>
    PROVE  /\ Posted /\ \A i \in Queued' \ Queued : tasks'[i] = t
           /\ \E i \in Queued' \ Queued : tasks'[i] = t
           /\ \A i, j \in Queued' \ Queued : i = j
<1> DEFINE ext == <<t>>
<1>1. ext \in Seq(PlayerTask) /\ Len(ext) = 1 /\ \A k \in 1..Len(ext) : ext[k] = t /\ k = Len(ext)
    OBVIOUS
<1>2. tasks' = tasks \o ext
    OBVIOUS
<1> HIDE DEF ext
<1>3. Posted
    BY <1>1, <1>2, Asks
<1>4. \A i \in Queued' \ Queued : \E k \in 1..Len(ext) : i = Len(tasks) + k /\ tasks'[i] = ext[k]
    BY <1>1, <1>2, QueueGrows
<1>5. 1 \in 1..Len(ext)
    BY <1>1
<1>6. Len(tasks) + 1 \in Queued' \ Queued /\ tasks'[Len(tasks) + 1] = ext[1]
    BY <1>1, <1>2, <1>5, QueueGrows
<1> QED BY <1>1, <1>3, <1>4, <1>5, <1>6

LEMMA OpeningPosts ==
    ASSUME opens \in Nat, NEW v \in Video, NEW d \in Nat
    PROVE  LET o == Opening(v, d) IN
           o \in PlayerTask /\ IsOpen(o) /\ ~IsClose(o) /\ o.ses.n = opens + 1 /\ o.to = d /\ o.ses.item = v
<1> DEFINE ses == [n |-> opens + 1, item |-> v]
           o == [kind |-> "open", ses |-> ses, to |-> d]
<1>1. ses \in Session /\ ses.n = opens + 1 /\ ses.item = v
    BY DEF Session
<1> HIDE DEF ses
<1>2. o \in PlayerTask /\ IsOpen(o) /\ ~IsClose(o) /\ o.ses = ses /\ o.to = d
    BY <1>1 DEF PlayerTask, OpenTask, IsOpen, IsClose
<1>3. Opening(v, d) = o
    BY DEF Opening, ses
<1> QED BY <1>1, <1>2, <1>3

LEMMA ClosingPosts ==
    ASSUME Types, NEW tell \in BOOLEAN
    PROVE  /\ Closing(tell) \in Seq(PlayerTask)
           /\ display.ses = NoSession => Closing(tell) = <<>>
           /\ display.ses # NoSession => \E c \in PlayerTask : /\ Closing(tell) = <<c>> /\ IsClose(c)
                                                               /\ c.ses = display.ses /\ c.tell = tell
<1>1. CASE display.ses = NoSession
    BY <1>1 DEF Closing
<1>2. CASE display.ses # NoSession
    <2> DEFINE c == [kind |-> "close", ses |-> display.ses, tell |-> tell]
    <2>1. c \in PlayerTask /\ IsClose(c) /\ c.ses = display.ses /\ c.tell = tell
        BY <1>2 DEF Types, Maybe, PlayerTask, CloseTask, IsClose
    <2>2. Closing(tell) = <<c>>
        BY <1>2 DEF Closing
    <2> QED BY <1>2, <2>1, <2>2
<1> QED BY <1>1, <1>2

\* Posts of which nobody is told, while nothing is sure.
LEMMA CalmCloses ==
    ASSUME Types, Closes, Posted, \A i \in Queued' \ Queued : ~Tells(tasks'[i]),
           ~sure', UNCHANGED <<tardy, closedPlayer>>, phase' = phase \/ (phase = "tool" /\ phase' = "none")
    PROVE  Closes'
<1>1. Waiting' = Waiting /\ callbacks' = callbacks
    BY DEF Posted, Waiting
<1>2. \A i \in Queued' : Tells(tasks'[i]) => i \in Queued /\ tasks'[i] = tasks[i]
    BY DEF Posted
<1> QED BY <1>1, <1>2 DEF Closes, Tells

LEMMA ChangeTracksKeeps == ASSUME HandlesInv, ChangeTracks PROVE HandlesInv'
<1> USE DEF HandlesInv, detaching, previewing, decoders, closedEvents
<1> DEFINE o == Opening(display.items[1], display.n)
<1>1. /\ UNCHANGED <<display, phase, target, playable, playing, open, callbacks, slot, woken, preview, decoder1,
                     decoder2, alive, closedPlayer, closedPreview, tardy, orphans, unopened>>
      /\ tasks' = Append(tasks, o) /\ opens' = opens + 1 /\ ~sure'
    BY DEF ChangeTracks
<1>0. display.items[1] \in Video /\ display.n \in Nat /\ opens \in Nat
    BY DEF ChangeTracks, Videos, Item1, Types
<1>2. o \in PlayerTask /\ IsOpen(o) /\ ~IsClose(o) /\ o.ses.n = opens + 1 /\ o.to = display'.n
    BY <1>0, <1>1, OpeningPosts
<1> HIDE DEF o
<1>3. tasks' = tasks \o <<o>>
    BY <1>1, <1>2, AppendIsConcat DEF Types
<1>4. Posted /\ \A i \in Queued' \ Queued : tasks'[i] = o
    BY <1>1, <1>2, <1>3, AsksOne
<1>5. Types' /\ Newest' /\ Newer' /\ InTurn' /\ Played'
    BY <1>1, <1>4, PostKeeps DEF Sessions, NextDisplay, Types
<1>6. \A i \in Queued' \ Queued : tasks'[i] = o
    BY <1>4
<1>7. Displayed'
    <2>1. Waiting' = Waiting /\ Item1' = Item1 /\ Wanted' = Wanted /\ Reopening' = Reopening
        BY <1>1 DEF Waiting, Item1, Wanted, Reopening
    <2>2. SessionComes => SessionComes'
        BY <1>1, <1>4 DEF SessionComes, OpenComes, Posted, Waiting
    <2>3. \A i \in Queued' : (IsClose(tasks'[i]) /\ tasks'[i].ses = display'.ses) =>
             Reopening' \/ \E j \in Queued' : i < j /\ IsOpen(tasks'[j])
        BY <1>1, <1>2, <1>4, <1>6, <2>1 DEF Displayed, Posted
    <2> QED BY <1>1, <2>1, <2>2, <2>3 DEF Displayed
<1>8. Videos'
    BY <1>1 DEF Videos, ChangeTracks, Item1
<1>9. Closes'
    BY <1>1, <1>2, <1>4, <1>6, CalmCloses DEF Tells
<1>10. Previews'
    BY <1>1 DEF Previews
<1> QED BY <1>5, <1>7, <1>8, <1>9, <1>10

LEMMA SelectKeeps ==
    ASSUME HandlesInv, NEW items \in Shown(Item), LoadDisplay(items) PROVE HandlesInv'
<1> USE DEF HandlesInv, detaching, previewing, decoders, closedEvents
<1>1. /\ UNCHANGED <<phase, target, playable, playing, open, callbacks, slot, woken, preview, decoder1,
                     decoder2, alive, closedPlayer, closedPreview, tardy, orphans, unopened>>
      /\ ~sure' /\ display' = [n |-> display.n + 1, items |-> items, ses |-> NoSession]
    BY DEF LoadDisplay
<1>2. /\ display.n \in Nat /\ opens \in Nat /\ display'.n = display.n + 1 /\ display'.ses = NoSession
      /\ display'.items = items
    BY <1>1 DEF Types
<1> DEFINE video == Len(items) = 1 /\ items[1] \in Video
           last == Opening(items[1], display.n + 1)
           a == Closing(FALSE)
           b == IF video THEN <<last>> ELSE <<>>
           ext == a \o b
<1>3. video => /\ last \in PlayerTask /\ IsOpen(last) /\ ~IsClose(last)
               /\ last.ses.n = opens + 1 /\ last.to = display'.n
    BY <1>2, OpeningPosts
<1>4. /\ opens' = IF video THEN opens + 1 ELSE opens
      /\ tasks' = IF video THEN tasks \o Closing(FALSE) \o <<last>> ELSE tasks \o Closing(FALSE)
    BY DEF LoadDisplay
<1> HIDE DEF last, video
<1>5. /\ a \in Seq(PlayerTask) /\ Len(a) = IF display.ses = NoSession THEN 0 ELSE 1
      /\ display.ses # NoSession => IsClose(a[1]) /\ a[1].ses = display.ses /\ a[1].tell = FALSE
    <2>1. CASE display.ses = NoSession
        <3>1. a = <<>>
            BY <2>1, ClosingPosts
        <3> HIDE DEF a
        <3> QED BY <2>1, <3>1
    <2>2. CASE display.ses # NoSession
        <3>1. PICK c \in PlayerTask : a = <<c>> /\ IsClose(c) /\ c.ses = display.ses /\ c.tell = FALSE
            BY <2>2, ClosingPosts
        <3> HIDE DEF a
        <3>2. a[1] = c /\ Len(a) = 1 /\ a \in Seq(PlayerTask)
            BY <3>1
        <3> QED BY <2>2, <3>1, <3>2
    <2> QED BY <2>1, <2>2
<1>6. /\ b \in Seq(PlayerTask) /\ Len(b) = IF video THEN 1 ELSE 0
      /\ video => b[1] = last
    <2>1. CASE video
        <3>1. b = <<last>>
            BY <2>1
        <3> HIDE DEF b
        <3> QED BY <2>1, <3>1, <1>3
    <2>2. CASE ~video
        <3>1. b = <<>>
            BY <2>2
        <3> HIDE DEF b
        <3> QED BY <2>2, <3>1
    <2> QED BY <2>1, <2>2
<1>7. tasks' = (tasks \o a) \o b
    <2>1. CASE video
        BY <2>1, <1>4
    <2>2. CASE ~video
        <3>1. tasks' = tasks \o a /\ b = <<>>
            BY <2>2, <1>4
        <3> HIDE DEF a, b
        <3>2. tasks \o a \in Seq(PlayerTask)
            BY <1>5, ConcatProperties DEF Types
        <3> QED BY <3>1, <3>2, ConcatEmptySeq
    <2> QED BY <2>1, <2>2
<1> HIDE DEF a, b
<1>8. ext \in Seq(PlayerTask) /\ tasks' = tasks \o ext
    <2>1. tasks \in Seq(PlayerTask)
        BY DEF Types
    <2>2. (tasks \o a) \o b = tasks \o (a \o b)
        BY <2>1, <1>5, <1>6, ConcatAssociative
    <2>3. a \o b \in Seq(PlayerTask)
        BY <1>5, <1>6, ConcatProperties
    <2> QED BY <1>7, <2>2, <2>3
<1>9. /\ Len(ext) \in Nat
      /\ \A k \in 1..Len(ext) :
            \/ /\ IsClose(ext[k]) /\ ext[k].ses = display.ses /\ display.ses # NoSession /\ ext[k].tell = FALSE
            \/ video /\ k = Len(ext) /\ ext[k] = last
      /\ display.ses # NoSession => 1 \in 1..Len(ext) /\ IsClose(ext[1]) /\ ext[1].ses = display.ses
      /\ video => Len(ext) \in 1..Len(ext) /\ ext[Len(ext)] = last
    <2>1. /\ Len(ext) = Len(a) + Len(b)
          /\ \A k \in 1..Len(a) + Len(b) : ext[k] = IF k <= Len(a) THEN a[k] ELSE b[k - Len(a)]
        BY <1>5, <1>6, ConcatProperties
    <2> HIDE DEF ext
    <2>2. CASE display.ses = NoSession
        BY <2>1, <2>2, <1>5, <1>6
    <2>3. CASE display.ses # NoSession
        BY <2>1, <2>3, <1>5, <1>6
    <2> QED BY <2>2, <2>3
<1> HIDE DEF ext
<1>10. Posted
    BY <1>1, <1>3, <1>4, <1>8, <1>9, Asks
<1>11. \A i \in Queued' \ Queued : \E k \in 1..Len(ext) : i = Len(tasks) + k /\ tasks'[i] = ext[k]
    BY <1>8, QueueGrows
<1>12. \A k \in 1..Len(ext) : Len(tasks) + k \in Queued' /\ tasks'[Len(tasks) + k] = ext[k]
    BY <1>8, QueueGrows
<1>13. NextDisplay
    BY <1>1, <1>2, <1>9, <1>12 DEF NextDisplay
<1>14. Types' /\ Newest' /\ Newer' /\ InTurn' /\ Played'
    BY <1>1, <1>10, <1>13, PostKeeps DEF Sessions, Types
<1>15. Waiting' = Waiting
    BY <1>1 DEF Waiting
<1>16. Item1' = IF items = <<>> THEN {} ELSE {items[1]}
    BY <1>2 DEF Item1
<1>17. Displayed'
    <2>1. \A i \in Queued' : tasks'[i].ses # NoSession
        <3>1. \A i \in Queued' : tasks'[i] \in PlayerTask
            BY <1>10, ElementOfSeq DEF Posted, Queued
        <3> QED BY <3>1, Kinds
    <2>2. Wanted' => video
        <3>1. items = <<>> => Len(items) # 1
            OBVIOUS
        <3>2. Wanted' <=> Len(items) = 1 /\ Item1' \subseteq Video
            BY <1>2 DEF Wanted
        <3> QED BY <1>16, <3>1, <3>2 DEF video
    <2>3. video => SessionComes'
        BY <1>3, <1>9, <1>12 DEF SessionComes, OpenComes
    <2> QED BY <1>1, <1>2, <1>15, <2>1, <2>2, <2>3 DEF Displayed
<1>18. Videos'
    <2>1. \A i \in Waiting : IsOpened(callbacks[i]) => callbacks[i].to # display'.n
        BY <1>2, Elements DEF InTurn
    <2>2. \A i \in Queued : IsOpen(tasks[i]) => tasks[i].to # display'.n
        BY <1>2, Elements DEF InTurn
    <2>3. SessionComes' => \E i \in Queued' \ Queued : IsOpen(tasks'[i])
        BY <1>1, <1>10, <1>15, <2>1, <2>2 DEF SessionComes, OpenComes, Posted
    <2>4. SessionComes' => video
        BY <1>9, <1>11, <2>3 DEF IsOpen, IsClose
    <2>5. video => items # <<>> /\ items[1] \in Video
        BY DEF video
    <2> QED BY <1>1, <1>2, <1>16, <2>4, <2>5 DEF Videos
<1>19. Closes'
    <2>1. \A i \in Queued' \ Queued : ~Tells(tasks'[i])
        BY <1>3, <1>9, <1>11 DEF Tells
    <2> QED BY <1>1, <1>10, <2>1, CalmCloses
<1>20. Previews'
    BY <1>1 DEF Previews
<1> QED BY <1>14, <1>17, <1>18, <1>19, <1>20

LEMMA DetachKeeps == ASSUME HandlesInv, Detach PROVE HandlesInv'
<1> USE DEF HandlesInv, detaching, previewing, decoders, closedEvents
<1>1. /\ UNCHANGED <<display, playing, open, callbacks, preview, decoder1, decoder2, alive, opens, tardy, orphans,
                     unopened>>
      /\ phase = "none" /\ target' = Item1 /\ playable' = (display.ses # NoSession)
    BY DEF Detach, QueueMediaPreview
<1>2. Waiting' = Waiting /\ Item1' = Item1 /\ Wanted' = Wanted
    BY <1>1 DEF Waiting, Item1, Wanted
<1>3. CASE display.ses = NoSession
    <2>1. /\ UNCHANGED <<tasks, closedPlayer, closedPreview, sure>> /\ ~playable' /\ phase' = "tool"
          /\ slot' = {[kind |-> "close", items |-> <<>>]}
        BY <1>1, <1>3 DEF Detach, QueueMediaPreview
    <2>2. Sessions'
        BY <1>1, <2>1, SessionsStay DEF Sessions, Reopening, Item1, Played, Types, Phase
    <2>3. Closes'
        BY <1>1, <1>2, <2>1 DEF Closes, Queued
    <2>4. Previews'
        BY <1>1, <2>1 DEF Previews, Closes
    <2> QED BY <2>2, <2>3, <2>4 DEF Sessions
<1>4. CASE display.ses # NoSession
    <2>1. /\ tasks' = tasks \o Closing(TRUE) /\ playable' /\ phase' = "player"
          /\ slot' = {[kind |-> "closeAndSet", items |-> <<>>]} /\ ~closedPlayer' /\ ~closedPreview'
          /\ sure' => /\ ~tardy
                      /\ \A s \in OnTheirWay \cup open : s.item \in Item1 => s = display.ses
        BY <1>1, <1>4 DEF Detach, QueueMediaPreview
    <2>2. PICK c \in PlayerTask : Closing(TRUE) = <<c>> /\ IsClose(c) /\ c.ses = display.ses /\ c.tell = TRUE
        BY <1>4, ClosingPosts
    <2>3. /\ Posted /\ \A i \in Queued' \ Queued : tasks'[i] = c
          /\ \E i \in Queued' \ Queued : tasks'[i] = c
          /\ \A i, j \in Queued' \ Queued : i = j
        BY <1>1, <2>1, <2>2, AsksOne
    <2>4. Types' /\ Newest' /\ Newer' /\ InTurn' /\ Played'
        BY <1>1, <2>1, <2>3, PostKeeps DEF Sessions, NextDisplay, Phase
    <2>5. Reopening'
        BY <1>1, <1>2, <2>1 DEF Reopening
    <2>6. Displayed'
        <3>1. SessionComes => SessionComes'
            BY <1>1, <1>2, <2>3 DEF SessionComes, OpenComes, Posted
        <3> QED BY <1>1, <1>2, <2>5, <3>1 DEF Displayed
    <2>7. Videos'
        BY <1>1, <1>2, <1>4 DEF Videos
    <2>8. Closes'
        <3>1. ~tardy => (\A i \in Queued : ~Tells(tasks[i])) /\ \A i \in Waiting : IsOpened(callbacks[i])
            BY <1>1 DEF Closes
        <3>2. ~tardy => \A i, j \in Queued' : Tells(tasks'[i]) /\ Tells(tasks'[j]) => i = j
            <4>1. \A i, j \in Queued' \ Queued : i = j
                BY <2>3
            <4>2. ~tardy => \A i \in Queued' : Tells(tasks'[i]) => i \in Queued' \ Queued
                BY <2>3, <3>1 DEF Posted
            <4> QED BY <4>1, <4>2
        <3>3. ASSUME sure', NEW s \in open \cup {tasks'[i].ses : i \in {j \in Queued' : IsOpen(tasks'[j])}},
                     s.item \in Item1
              PROVE  \E i \in Queued' : Tells(tasks'[i]) /\ tasks'[i].ses = s
            <4>1. \A i \in Queued' : IsOpen(tasks'[i]) => i \in Queued /\ tasks'[i] = tasks[i]
                BY <2>2, <2>3 DEF Posted, IsOpen, IsClose
            <4>2. s \in OnTheirWay \cup open
                BY <4>1 DEF OnTheirWay, IsOpen, Queued
            <4>3. s = display.ses
                BY <2>1, <3>3, <4>2
            <4> QED BY <2>2, <2>3, <4>3 DEF Tells
        <3>4. sure' => ~tardy'
            BY <1>1, <2>1
        <3> QED BY <1>1, <1>2, <2>1, <3>1, <3>2, <3>3, <3>4 DEF Closes
    <2>9. Previews'
        BY <1>1, <2>1 DEF Previews, Closes
    <2> QED BY <2>4, <2>6, <2>7, <2>8, <2>9
<1> QED BY <1>3, <1>4

LEMMA AttachKeeps == ASSUME HandlesInv, Attach PROVE HandlesInv'
<1> USE DEF HandlesInv, detaching, previewing, decoders, closedEvents
<1>1. /\ UNCHANGED <<display, playing, open, callbacks, slot, woken, preview, decoder1, decoder2, alive,
                     closedPlayer, closedPreview, tardy, orphans, unopened>>
      /\ phase = "tool" /\ phase' = "none" /\ ~playable' /\ ~sure'
    BY DEF Attach
<1>2. Waiting' = Waiting /\ Item1' = Item1 /\ Wanted' = Wanted
    BY <1>1 DEF Waiting, Item1, Wanted
<1>3. Previews'
    BY <1>1 DEF Previews
<1>4. CASE playable /\ Item1 = target
    <2>1. tasks' = tasks \o Reopened /\ opens' = opens + 1
        BY <1>4 DEF Attach
    <2> DEFINE o == Opening(CHOOSE i \in target : TRUE, display.n)
    <2>2. (CHOOSE i \in target : TRUE) \in Video
        BY <1>4 DEF Videos
    <2>3. o \in PlayerTask /\ IsOpen(o) /\ ~IsClose(o) /\ o.ses.n = opens + 1 /\ o.to = display'.n
        BY <1>1, <2>2, OpeningPosts DEF Types
    <2>4. tasks' = tasks \o <<o>>
        BY <2>1 DEF Reopened
    <2> HIDE DEF o
    <2>5. /\ Posted /\ \A i \in Queued' \ Queued : tasks'[i] = o
          /\ \E i \in Queued' \ Queued : tasks'[i] = o
        BY <1>1, <2>1, <2>3, <2>4, AsksOne
    <2>6. Types' /\ Newest' /\ Newer' /\ InTurn' /\ Played'
        BY <1>1, <2>5, PostKeeps DEF Sessions, NextDisplay, Phase
    <2>7. SessionComes'
        BY <2>3, <2>5 DEF SessionComes, OpenComes
    <2>8. \A i \in Queued' : IsClose(tasks'[i]) => \E j \in Queued' : i < j /\ IsOpen(tasks'[j])
        BY <2>3, <2>5 DEF Posted
    <2>9. Displayed'
        BY <1>1, <1>2, <2>7, <2>8 DEF Displayed
    <2>10. Videos'
        BY <1>1, <1>2, <1>4 DEF Videos
    <2>11. Closes'
        BY <1>1, <2>3, <2>5, CalmCloses DEF Tells
    <2> QED BY <1>3, <2>6, <2>9, <2>10, <2>11
<1>5. CASE ~(playable /\ Item1 = target)
    <2>1. UNCHANGED <<tasks, opens>>
        BY <1>5 DEF Attach
    <2>2. Sessions'
        BY <1>1, <1>5, <2>1, SessionsStay DEF Sessions, Reopening, Played, Types, Phase
    <2>3. Closes'
        BY <1>1, <1>2, <2>1 DEF Closes, Queued
    <2> QED BY <1>3, <2>2, <2>3 DEF Sessions
<1> QED BY <1>4, <1>5

LEMMA AttachGoneKeeps == ASSUME HandlesInv, AttachGone PROVE HandlesInv'
<1> USE DEF HandlesInv, detaching, previewing, decoders, closedEvents
<1>1. /\ UNCHANGED <<playing, open, callbacks, preview, decoder1, decoder2, alive, closedPlayer, closedPreview, opens,
                     tardy, orphans, unopened>>
      /\ phase = "tool" /\ phase' = "none" /\ ~playable' /\ ~sure'
      /\ slot' = {[kind |-> "close", items |-> <<>>]}
      /\ display' = [n |-> display.n + 1, items |-> <<>>, ses |-> NoSession]
      /\ tasks' = tasks \o Closing(FALSE) \o Closing(FALSE)
    BY DEF AttachGone, QueueMediaPreview
<1>2. /\ display.n \in Nat /\ display'.n = display.n + 1 /\ display'.ses = NoSession
      /\ display'.items = <<>> /\ Waiting' = Waiting
    BY <1>1 DEF Types, Waiting
<1> DEFINE a == Closing(FALSE)
           ext == a \o a
<1>3. /\ a \in Seq(PlayerTask) /\ Len(a) = IF display.ses = NoSession THEN 0 ELSE 1
      /\ display.ses # NoSession => IsClose(a[1]) /\ a[1].ses = display.ses /\ a[1].tell = FALSE
    <2>1. CASE display.ses = NoSession
        <3>1. a = <<>>
            BY <2>1, ClosingPosts
        <3> HIDE DEF a
        <3> QED BY <2>1, <3>1
    <2>2. CASE display.ses # NoSession
        <3>1. PICK c \in PlayerTask : a = <<c>> /\ IsClose(c) /\ c.ses = display.ses /\ c.tell = FALSE
            BY <2>2, ClosingPosts
        <3> HIDE DEF a
        <3>2. a[1] = c /\ Len(a) = 1 /\ a \in Seq(PlayerTask)
            BY <3>1
        <3> QED BY <2>2, <3>1, <3>2
    <2> QED BY <2>1, <2>2
<1>4. ext \in Seq(PlayerTask) /\ tasks' = tasks \o ext
    <2>1. tasks \in Seq(PlayerTask)
        BY DEF Types
    <2>2. tasks' = (tasks \o a) \o a
        BY <1>1
    <2> HIDE DEF a
    <2>3. (tasks \o a) \o a = tasks \o (a \o a)
        BY <2>1, <1>3, ConcatAssociative
    <2>4. a \o a \in Seq(PlayerTask)
        BY <1>3, ConcatProperties
    <2> QED BY <2>2, <2>3, <2>4
<1> HIDE DEF a
<1>5. /\ Len(ext) \in Nat
      /\ \A k \in 1..Len(ext) : /\ IsClose(ext[k]) /\ ext[k].ses = display.ses /\ display.ses # NoSession
                                /\ ext[k].tell = FALSE
      /\ display.ses # NoSession => 1 \in 1..Len(ext)
    <2>1. /\ Len(ext) = Len(a) + Len(a)
          /\ \A k \in 1..Len(a) + Len(a) : ext[k] = IF k <= Len(a) THEN a[k] ELSE a[k - Len(a)]
        BY <1>3, ConcatProperties
    <2> HIDE DEF ext
    <2>2. CASE display.ses = NoSession
        BY <2>1, <2>2, <1>3
    <2>3. CASE display.ses # NoSession
        BY <2>1, <2>3, <1>3
    <2> QED BY <2>2, <2>3
<1> HIDE DEF ext
<1>6. Posted
    BY <1>1, <1>4, <1>5, Asks
<1>7. \A i \in Queued' \ Queued : \E k \in 1..Len(ext) : i = Len(tasks) + k /\ tasks'[i] = ext[k]
    BY <1>4, QueueGrows
<1>8. \A k \in 1..Len(ext) : Len(tasks) + k \in Queued' /\ tasks'[Len(tasks) + k] = ext[k]
    BY <1>4, QueueGrows
<1>9. NextDisplay
    BY <1>1, <1>2, <1>5, <1>8 DEF NextDisplay
<1>10. Types' /\ Newest' /\ Newer' /\ InTurn' /\ Played'
    BY <1>1, <1>6, <1>9, PostKeeps DEF Sessions, Phase
<1>11. Displayed'
    <2>1. \A i \in Queued' : tasks'[i].ses # NoSession
        <3>1. \A i \in Queued' : tasks'[i] \in PlayerTask
            BY <1>6, ElementOfSeq DEF Posted, Queued
        <3> QED BY <3>1, Kinds
    <2>2. ~Wanted'
        BY <1>2 DEF Wanted
    <2> QED BY <1>1, <1>2, <2>1, <2>2 DEF Displayed
<1>12. Videos'
    <2>1. \A i \in Waiting : IsOpened(callbacks[i]) => callbacks[i].to # display'.n
        BY <1>2, Elements DEF InTurn
    <2>2. \A i \in Queued : IsOpen(tasks[i]) => tasks[i].to # display'.n
        BY <1>2, Elements DEF InTurn
    <2>3. SessionComes' => \E i \in Queued' \ Queued : IsOpen(tasks'[i])
        BY <1>1, <1>2, <1>6, <2>1, <2>2 DEF SessionComes, OpenComes, Posted
    <2>4. ~SessionComes'
        BY <1>5, <1>7, <2>3 DEF IsOpen, IsClose
    <2> QED BY <1>1, <1>2, <2>4 DEF Videos
<1>13. Closes'
    <2>1. \A i \in Queued' \ Queued : ~Tells(tasks'[i])
        BY <1>5, <1>7 DEF Tells
    <2> QED BY <1>1, <1>6, <2>1, CalmCloses
<1>14. Previews'
    BY <1>1 DEF Previews
<1> QED BY <1>10, <1>11, <1>12, <1>13, <1>14

-----------------------------------------------------------------------------
(* Steps that take from a queue *)

LEMMA Taken ==
    ASSUME NEW S, NEW q \in Seq(S), q # <<>>, NEW r, r = Tail(q)
    PROVE  /\ r \in Seq(S) /\ Len(r) \in Nat /\ Len(q) = Len(r) + 1
           /\ Head(q) = q[1] /\ 1 \in 1..Len(q) /\ q[1] \in S
           /\ \A i \in 1..Len(r) : i \in Nat /\ i + 1 \in 1..Len(q) /\ i + 1 # 1 /\ r[i] = q[i + 1]
           /\ \A i, j \in 1..Len(r) : (i < j => i + 1 < j + 1) /\ (i + 1 = j + 1 => i = j)
           /\ \A i \in 1..Len(q) : i # 1 => i \in Nat /\ i > 1 /\ i - 1 \in 1..Len(r) /\ r[i - 1] = q[i]
<1>1. r \in Seq(S) /\ Len(r) = Len(q) - 1 /\ \A i \in 1..Len(r) : r[i] = q[i + 1]
    BY HeadTailProperties
<1>2. Len(q) \in Nat /\ Len(q) # 0
    BY EmptySeq, LenProperties
<1>3. \A i \in 1..Len(q) : i # 1 => i - 1 \in 1..Len(r) /\ (i - 1) + 1 = i
    BY <1>1, <1>2
<1>4. Head(q) = q[1] /\ 1 \in 1..Len(q)
    BY <1>2
<1>5. q[1] \in S
    BY <1>4, ElementOfSeq
<1>6. \A i \in 1..Len(r) : i \in Nat /\ i + 1 \in 1..Len(q) /\ i + 1 # 1 /\ r[i] = q[i + 1]
    BY <1>1, <1>2
<1>7. \A i, j \in 1..Len(r) : (i < j => i + 1 < j + 1) /\ (i + 1 = j + 1 => i = j)
    OBVIOUS
<1> QED BY <1>1, <1>2, <1>3, <1>4, <1>5, <1>6, <1>7

LEMMA RunCallbackKeeps == ASSUME HandlesInv, RunCallback PROVE HandlesInv'
<1> USE DEF HandlesInv, detaching, previewing, decoders, closedEvents
<1>1. /\ UNCHANGED <<phase, target, playable, tasks, playing, open, slot, woken, preview, decoder1, decoder2, alive,
                     closedPreview, opens, sure, tardy, unopened>>
      /\ callbacks # <<>> /\ callbacks' = Tail(callbacks)
    BY DEF RunCallback
<1>2. PICK c : c = Head(callbacks)
    OBVIOUS
<1>3. /\ callbacks' \in Seq(PlayerCallback) /\ 1 \in Waiting /\ callbacks[1] = c /\ c \in PlayerCallback
      /\ \A i \in Waiting' : i \in Nat /\ i + 1 \in Waiting /\ i + 1 # 1 /\ callbacks'[i] = callbacks[i + 1]
      /\ \A i, j \in Waiting' : (i < j => i + 1 < j + 1) /\ (i + 1 = j + 1 => i = j)
      /\ \A i \in Waiting : i # 1 =>
            i \in Nat /\ i > 1 /\ i - 1 \in Waiting' /\ callbacks'[i - 1] = callbacks[i]
    <2>1. callbacks \in Seq(PlayerCallback)
        BY DEF Types
    <2>2. PICK r : r = callbacks'
        OBVIOUS
    <2>3. r = Tail(callbacks)
        BY <1>1, <2>2
    <2>4. Waiting = 1..Len(callbacks) /\ Waiting' = 1..Len(r)
        BY <2>2 DEF Waiting
    <2>5. /\ r \in Seq(PlayerCallback) /\ Head(callbacks) = callbacks[1] /\ 1 \in 1..Len(callbacks)
          /\ callbacks[1] \in PlayerCallback
          /\ \A i \in 1..Len(r) : i \in Nat /\ i + 1 \in 1..Len(callbacks) /\ i + 1 # 1 /\ r[i] = callbacks[i + 1]
          /\ \A i, j \in 1..Len(r) : (i < j => i + 1 < j + 1) /\ (i + 1 = j + 1 => i = j)
          /\ \A i \in 1..Len(callbacks) : i # 1 =>
                i \in Nat /\ i > 1 /\ i - 1 \in 1..Len(r) /\ r[i - 1] = callbacks[i]
        BY <1>1, <2>1, <2>3, Taken
    <2> QED BY <1>2, <2>2, <2>4, <2>5
<1>4. Queued' = Queued /\ tasks' = tasks
    BY <1>1 DEF Queued
<1>5. \/ IsOpened(c) /\ c.to = display.n /\ display' = [display EXCEPT !.ses = c.ses]
            /\ UNCHANGED <<closedPlayer, orphans>>
      \/ IsOpened(c) /\ c.to # display.n /\ orphans' = orphans \cup ({c.ses} \ {NoSession})
            /\ UNCHANGED <<display, closedPlayer>>
      \/ ~IsOpened(c) /\ closedPlayer' /\ UNCHANGED <<display, orphans>>
    BY <1>2 DEF RunCallback, IsOpened
<1>6. IsOpened(c) => /\ c.ses \in Maybe /\ c.ses.n \in Nat /\ c.to \in Nat
                     /\ c.ses # NoSession => c.ses.n > 0 /\ c.ses \in Session
    BY <1>3, Kinds
<1>7. /\ display'.n = display.n /\ display'.items = display.items
      /\ display' = [n |-> display'.n, items |-> display'.items, ses |-> display'.ses]
      /\ \/ display'.ses = display.ses
         \/ IsOpened(c) /\ c.to = display.n /\ display'.ses = c.ses
      /\ IsOpened(c) /\ c.to = display.n => display'.ses = c.ses
    BY <1>5 DEF Types
<1>8. Types'
    BY <1>1, <1>3, <1>6, <1>7 DEF Types
<1>9. Item1' = Item1 /\ Wanted' = Wanted /\ Reopening' = Reopening
    BY <1>1, <1>7 DEF Item1, Wanted, Reopening
<1>10. Newest'
    <2>1. display'.ses.n <= opens
        BY <1>3, <1>7 DEF Newest, Newer
    <2>2. \A i \in Queued : IsOpen(tasks[i]) => display'.ses.n < tasks[i].ses.n
        BY <1>3, <1>7 DEF Newest, Newer
    <2> QED BY <1>1, <1>4, <2>1, <2>2 DEF Newest
<1>11. Newer'
    <2>1. \A i, j \in Waiting' : (IsOpened(callbacks'[i]) /\ IsOpened(callbacks'[j]) /\ i < j) =>
             callbacks'[j].ses = NoSession \/ callbacks'[i].ses.n < callbacks'[j].ses.n
        BY <1>3 DEF Newer
    <2>2. \A i \in Waiting' : (IsOpened(callbacks'[i]) /\ IsOpened(c)) =>
             callbacks'[i].ses = NoSession \/ c.ses.n < callbacks'[i].ses.n
        BY <1>3 DEF Newer
    <2>3. \A i \in Waiting' : IsOpened(callbacks'[i]) =>
             \/ callbacks'[i].ses = NoSession
             \/ /\ display'.ses.n < callbacks'[i].ses.n
                /\ \A j \in Queued : IsClose(tasks[j]) => tasks[j].ses.n < callbacks'[i].ses.n
        BY <1>3, <1>7, <2>2 DEF Newer
    <2> QED BY <1>1, <1>3, <1>4, <2>1, <2>3 DEF Newer
<1>12. InTurn'
    <2>1. \A i \in Waiting' : IsOpened(callbacks'[i]) => callbacks'[i].to <= display.n
        BY <1>3 DEF InTurn
    <2>2. \A i, j \in Waiting' : (IsOpened(callbacks'[i]) /\ IsOpened(callbacks'[j]) /\ i < j) =>
             callbacks'[i].to <= callbacks'[j].to
        BY <1>3 DEF InTurn
    <2>3. \A i \in Waiting', j \in Queued : (IsOpened(callbacks'[i]) /\ IsOpen(tasks[j])) =>
             callbacks'[i].to <= tasks[j].to
        BY <1>3 DEF InTurn
    <2>4. ASSUME IsOpened(c), c.to = display.n
          PROVE  /\ \A i \in Queued : IsOpen(tasks[i]) => tasks[i].to = display.n
                 /\ \A i \in Waiting' : IsOpened(callbacks'[i]) => callbacks'[i].to = display.n
        <3>1. \A i \in Queued : IsOpen(tasks[i]) => tasks[i].to <= display.n /\ display.n <= tasks[i].to
            BY <1>3, <2>4 DEF InTurn
        <3>2. \A i \in Waiting : (i # 1 /\ IsOpened(callbacks[i])) =>
                 callbacks[i].to <= display.n /\ display.n <= callbacks[i].to
            BY <1>3, <2>4 DEF InTurn
        <3>3. \A i \in Waiting' : IsOpened(callbacks'[i]) =>
                 callbacks'[i].to <= display.n /\ display.n <= callbacks'[i].to
            BY <1>3, <3>2
        <3>4. \A i \in Waiting' : IsOpened(callbacks'[i]) => callbacks'[i].to \in Nat
            BY <1>3, Elements
        <3> QED BY <3>1, <3>3, <3>4, Elements DEF Types
    <2>5. display'.ses # NoSession =>
             /\ \A i \in Queued : IsOpen(tasks[i]) => tasks[i].to = display.n
             /\ \A i \in Waiting' : IsOpened(callbacks'[i]) => callbacks'[i].to = display.n
        BY <1>3, <1>7, <2>4 DEF InTurn
    <2> QED BY <1>4, <1>7, <2>1, <2>2, <2>3, <2>5 DEF InTurn
<1>13. Played'
    <2>1. (\E i \in Waiting' : IsOpened(callbacks'[i])) =>
             \E i \in Waiting' : /\ IsOpened(callbacks'[i]) /\ playing = callbacks'[i].ses
                                 /\ \A j \in Waiting' : j > i => ~IsOpened(callbacks'[j])
        <3> SUFFICES ASSUME \E i \in Waiting' : IsOpened(callbacks'[i])
                     PROVE  \E i \in Waiting' : /\ IsOpened(callbacks'[i]) /\ playing = callbacks'[i].ses
                                                /\ \A j \in Waiting' : j > i => ~IsOpened(callbacks'[j])
            OBVIOUS
        <3>1. PICK k \in Waiting : /\ IsOpened(callbacks[k]) /\ playing = callbacks[k].ses
                                   /\ \A j \in Waiting : j > k => ~IsOpened(callbacks[j])
            BY <1>3 DEF Played
        <3>2. k # 1
            BY <1>3, <3>1
        <3>3. k - 1 \in Waiting' /\ callbacks'[k - 1] = callbacks[k]
            BY <1>3, <3>2
        <3>4. \A j \in Waiting' : j > k - 1 => ~IsOpened(callbacks'[j])
            BY <1>3, <3>1, <3>2
        <3> QED BY <3>1, <3>3, <3>4
    <2>2. playing # NoSession =>
             \/ playing = display'.ses \/ playing \in orphans'
             \/ \E i \in Waiting' : IsOpened(callbacks'[i]) /\ callbacks'[i].ses = playing
             \/ \E i \in Queued : IsClose(tasks[i]) /\ tasks[i].ses = playing
        <3> SUFFICES ASSUME playing # NoSession,
                            ~ \E i \in Queued : IsClose(tasks[i]) /\ tasks[i].ses = playing
                     PROVE  \/ playing = display'.ses \/ playing \in orphans'
                            \/ \E i \in Waiting' : IsOpened(callbacks'[i]) /\ callbacks'[i].ses = playing
            OBVIOUS
        <3>1. CASE IsOpened(c)
            <4>1. PICK k \in Waiting : IsOpened(callbacks[k]) /\ playing = callbacks[k].ses
                BY <1>3, <3>1 DEF Played
            <4>2. CASE k = 1
                <5>1. playing = c.ses
                    BY <4>1, <4>2, <1>3
                <5> QED BY <3>1, <5>1, <1>5, <1>7
            <4>3. CASE k # 1
                BY <4>1, <4>3, <1>3
            <4> QED BY <4>2, <4>3
        <3>2. CASE ~IsOpened(c)
            BY <3>2, <1>3, <1>5 DEF Played
        <3> QED BY <3>1, <3>2
    <2> QED BY <1>1, <1>4, <2>1, <2>2 DEF Played
<1>14. \A i \in Waiting : (IsOpened(callbacks[i]) /\ callbacks[i].to = display.n) => i = 1 \/ SessionComes'
    BY <1>3, <1>7 DEF SessionComes
<1>15. OpenComes => SessionComes'
    BY <1>4, <1>7 DEF SessionComes, OpenComes
<1>16. Displayed'
    <2>1. display'.ses # NoSession => playing = display'.ses \/ SessionComes' \/ Reopening
        <3>1. CASE IsOpened(c) /\ c.to = display.n
            <4>1. display'.ses = c.ses
                BY <3>1, <1>5 DEF Types
            <4>2. PICK k \in Waiting : IsOpened(callbacks[k]) /\ playing = callbacks[k].ses
                BY <1>3, <3>1 DEF Played
            <4>3. CASE k = 1
                BY <4>1, <4>2, <4>3, <1>3
            <4>4. CASE k # 1
                <5>1. callbacks[k].to <= display.n /\ display.n <= callbacks[k].to
                    BY <1>3, <3>1, <4>2, <4>4 DEF InTurn
                <5>2. callbacks[k].to = display.n
                    BY <4>2, <5>1, Elements DEF Types
                <5> QED BY <4>2, <4>4, <5>2, <1>14
            <4> QED BY <4>3, <4>4
        <3>2. CASE ~(IsOpened(c) /\ c.to = display.n)
            BY <3>2, <1>3, <1>7, <1>14, <1>15 DEF Displayed, SessionComes
        <3> QED BY <3>1, <3>2
    <2>2. \A i \in Queued : (IsClose(tasks[i]) /\ tasks[i].ses = display'.ses) =>
             Reopening \/ \E j \in Queued : i < j /\ IsOpen(tasks[j])
        <3>1. CASE display'.ses = display.ses
            BY <3>1 DEF Displayed
        <3>2. CASE IsOpened(c) /\ display'.ses = c.ses
            <4>1. c.ses # NoSession =>
                     \A j \in Queued : IsClose(tasks[j]) => tasks[j].ses.n < c.ses.n
                BY <3>2, <1>3 DEF Newer
            <4>2. \A j \in Queued : IsClose(tasks[j]) => tasks[j].ses # c.ses
                BY <4>1, <3>2, <1>6, Elements
            <4> QED BY <3>2, <4>2
        <3> QED BY <3>1, <3>2, <1>7
    <2>3. (Wanted /\ ~unopened) => display'.ses # NoSession \/ SessionComes'
        BY <1>3, <1>5, <1>7, <1>14, <1>15 DEF Displayed, SessionComes
    <2>4. ~unopened => \A i \in Waiting' : IsOpened(callbacks'[i]) => callbacks'[i].ses # NoSession
        BY <1>3 DEF Displayed
    <2> QED BY <1>1, <1>4, <1>9, <2>1, <2>2, <2>3, <2>4 DEF Displayed
<1>17. Videos'
    <2>1. SessionComes' => SessionComes
        BY <1>3, <1>4, <1>7 DEF SessionComes, OpenComes
    <2>2. IsOpened(c) /\ c.to = display.n => SessionComes
        BY <1>3 DEF SessionComes
    <2> QED BY <1>1, <1>7, <1>9, <2>1, <2>2 DEF Videos
<1>18. Closes'
    <2>1. closedPlayer' => closedPlayer \/ ~IsOpened(c)
        BY <1>5
    <2>2. (~tardy /\ ~IsOpened(c)) =>
             (\A i \in Queued : ~Tells(tasks[i])) /\ \A i \in Waiting' : IsOpened(callbacks'[i])
        <3> SUFFICES ASSUME ~tardy, ~IsOpened(c)
                     PROVE  (\A i \in Queued : ~Tells(tasks[i])) /\ \A i \in Waiting' : IsOpened(callbacks'[i])
            OBVIOUS
        <3>1. \A i \in Waiting : ~IsOpened(callbacks[i]) => i = 1
            BY <1>3 DEF Closes
        <3>2. \A i \in Waiting' : i + 1 # 1
            BY <1>3
        <3> QED BY <1>3, <3>1, <3>2 DEF Closes
    <2>3. \A i \in Waiting' : (\A j \in Waiting : IsOpened(callbacks[j])) => IsOpened(callbacks'[i])
        BY <1>3
    <2>4. ~tardy => \A i, j \in Waiting' : ~IsOpened(callbacks'[i]) /\ ~IsOpened(callbacks'[j]) => i = j
        <3>1. ~tardy => \A i, j \in Waiting' : ~IsOpened(callbacks'[i]) /\ ~IsOpened(callbacks'[j]) => i + 1 = j + 1
            BY <1>3 DEF Closes
        <3> QED BY <1>3, <3>1
    <2>5. ~tardy => \A i \in Queued, j \in Waiting' : ~(Tells(tasks[i]) /\ ~IsOpened(callbacks'[j]))
        BY <1>3 DEF Closes
    <2> QED BY <1>1, <1>4, <2>1, <2>2, <2>3, <2>4, <2>5 DEF Closes
<1>19. Previews'
    BY <1>1 DEF Previews
<1> QED BY <1>8, <1>10, <1>11, <1>12, <1>13, <1>16, <1>17, <1>18, <1>19

-----------------------------------------------------------------------------
(* The reading thread's steps take a task and post what came of it *)

LEMMA TaskTaken ==
    ASSUME Types, tasks # <<>>, tasks' = Tail(tasks), NEW t, t = Head(tasks)
    PROVE  /\ tasks' \in Seq(PlayerTask) /\ 1 \in Queued /\ tasks[1] = t /\ t \in PlayerTask
           /\ \A i \in Queued' : i \in Nat /\ i + 1 \in Queued /\ i + 1 # 1 /\ 1 < i + 1 /\ tasks'[i] = tasks[i + 1]
           /\ \A i, j \in Queued' : (i < j => i + 1 < j + 1) /\ (i + 1 = j + 1 => i = j)
           /\ \A i \in Queued : i # 1 => i \in Nat /\ i > 1 /\ i - 1 \in Queued' /\ tasks'[i - 1] = tasks[i]
<1>1. tasks \in Seq(PlayerTask)
    BY DEF Types
<1>2. PICK r : r = tasks'
    OBVIOUS
<1>3. r = Tail(tasks)
    BY <1>2
<1>4. Queued = 1..Len(tasks) /\ Queued' = 1..Len(r)
    BY <1>2 DEF Queued
<1>5. /\ r \in Seq(PlayerTask) /\ Head(tasks) = tasks[1] /\ 1 \in 1..Len(tasks) /\ tasks[1] \in PlayerTask
      /\ \A i \in 1..Len(r) : i \in Nat /\ i + 1 \in 1..Len(tasks) /\ i + 1 # 1 /\ r[i] = tasks[i + 1]
      /\ \A i, j \in 1..Len(r) : (i < j => i + 1 < j + 1) /\ (i + 1 = j + 1 => i = j)
      /\ \A i \in 1..Len(tasks) : i # 1 => i \in Nat /\ i > 1 /\ i - 1 \in 1..Len(r) /\ r[i - 1] = tasks[i]
    BY <1>1, <1>3, Taken
<1>6. \A i \in 1..Len(r) : 1 < i + 1
    OBVIOUS
<1> QED BY <1>2, <1>4, <1>5, <1>6

LEMMA CallbackPosted ==
    ASSUME Types, NEW d \in PlayerCallback, callbacks' = Append(callbacks, d)
    PROVE  /\ callbacks' \in Seq(PlayerCallback)
           /\ \E m \in Nat : /\ Waiting' = Waiting \cup {m} /\ m \notin Waiting /\ callbacks'[m] = d
                             /\ \A i \in Waiting : i < m /\ ~(m < i) /\ callbacks'[i] = callbacks[i]
<1>1. callbacks \in Seq(PlayerCallback) /\ Len(callbacks) \in Nat
    BY LenProperties DEF Types
<1>2. PICK r : r = callbacks'
    OBVIOUS
<1>3. /\ r \in Seq(PlayerCallback) /\ Len(r) = Len(callbacks) + 1
      /\ \A i \in 1..Len(callbacks) : r[i] = callbacks[i]
      /\ r[Len(callbacks) + 1] = d
    BY <1>1, <1>2, AppendProperties
<1>4. Waiting = 1..Len(callbacks) /\ Waiting' = 1..(Len(callbacks) + 1)
    BY <1>2, <1>3 DEF Waiting
<1>5. PICK m : m = Len(callbacks) + 1
    OBVIOUS
<1>6. m \in Nat /\ Waiting' = Waiting \cup {m} /\ m \notin Waiting /\ \A i \in Waiting : i < m /\ ~(m < i)
    BY <1>1, <1>4, <1>5
<1>7. callbacks'[m] = d /\ \A i \in Waiting : callbacks'[i] = callbacks[i]
    BY <1>2, <1>3, <1>4, <1>5
<1> QED BY <1>2, <1>3, <1>6, <1>7

\* The reader's queue is as ordered without its first task.
LEMMA TasksFollow ==
    ASSUME HandlesInv, tasks # <<>>, tasks' = Tail(tasks), UNCHANGED <<display, opens>>
    PROVE  /\ Newest'
           /\ \A i \in Queued' : IsOpen(tasks'[i]) => tasks'[i].to <= display.n
           /\ \A i, j \in Queued' : (IsOpen(tasks'[i]) /\ IsOpen(tasks'[j]) /\ i < j) => tasks'[i].to <= tasks'[j].to
           /\ \A i, j \in Queued' : Tells(tasks'[i]) /\ Tells(tasks'[j]) => tardy \/ i = j
<1> USE DEF HandlesInv
<1>1. /\ \A i \in Queued' : i + 1 \in Queued /\ tasks'[i] = tasks[i + 1]
      /\ \A i, j \in Queued' : (i < j => i + 1 < j + 1) /\ (i + 1 = j + 1 => i = j)
    <2>1. PICK t : t = Head(tasks)
        OBVIOUS
    <2> QED BY <2>1, TaskTaken
<1>2. Newest'
    <2>1. \A i \in Queued' : tasks'[i].ses.n <= opens
        BY <1>1 DEF Newest
    <2>2. \A i, j \in Queued' : (IsOpen(tasks'[j]) /\ IsOpen(tasks'[i]) /\ i < j) => tasks'[i].ses.n < tasks'[j].ses.n
        BY <1>1 DEF Newest
    <2>3. \A i, j \in Queued' : (IsOpen(tasks'[j]) /\ IsClose(tasks'[i])) => tasks'[i].ses.n < tasks'[j].ses.n
        BY <1>1 DEF Newest
    <2>4. \A i \in Queued' : IsOpen(tasks'[i]) => display.ses.n < tasks'[i].ses.n
        BY <1>1 DEF Newest
    <2> QED BY <2>1, <2>2, <2>3, <2>4 DEF Newest
<1>3. \A i \in Queued' : IsOpen(tasks'[i]) => tasks'[i].to <= display.n
    BY <1>1 DEF InTurn
<1>4. \A i, j \in Queued' : (IsOpen(tasks'[i]) /\ IsOpen(tasks'[j]) /\ i < j) => tasks'[i].to <= tasks'[j].to
    BY <1>1 DEF InTurn
<1>5. \A i, j \in Queued' : Tells(tasks'[i]) /\ Tells(tasks'[j]) => tardy \/ i = j
    BY <1>1 DEF Closes
<1> QED BY <1>2, <1>3, <1>4, <1>5

LEMMA OpenSessionKeeps == ASSUME HandlesInv, OpenSession PROVE HandlesInv'
<1> USE DEF HandlesInv, detaching, previewing, decoders, closedEvents
<1>1. /\ UNCHANGED <<display, phase, target, playable, slot, woken, preview, decoder1, decoder2, alive,
                     closedPlayer, closedPreview, opens, sure, tardy, orphans>>
      /\ tasks # <<>> /\ tasks' = Tail(tasks) /\ IsOpen(Head(tasks))
    BY DEF OpenSession, IsOpen
<1>2. PICK t : t = Head(tasks)
    OBVIOUS
<1>3. /\ tasks' \in Seq(PlayerTask) /\ 1 \in Queued /\ tasks[1] = t /\ t \in PlayerTask /\ IsOpen(t) /\ ~IsClose(t)
      /\ \A i \in Queued' : i \in Nat /\ i + 1 \in Queued /\ i + 1 # 1 /\ 1 < i + 1 /\ tasks'[i] = tasks[i + 1]
      /\ \A i \in Queued : i # 1 => i \in Nat /\ i > 1 /\ i - 1 \in Queued' /\ tasks'[i - 1] = tasks[i]
    BY <1>1, <1>2, TaskTaken DEF IsOpen, IsClose
<1>4. t.ses \in Session /\ t.ses # NoSession /\ t.ses.n \in Nat \ {0} /\ t.to \in Nat
    BY <1>3, Kinds
<1>5. PICK result \in {t.ses, NoSession} :
            /\ open' = open \cup ({result} \ {NoSession}) /\ playing' = result
            /\ callbacks' = Append(callbacks, [kind |-> "opened", ses |-> result, to |-> t.to])
            /\ unopened' = (unopened \/ result = NoSession)
    BY <1>2 DEF OpenSession
<1> DEFINE d == [kind |-> "opened", ses |-> result, to |-> t.to]
<1>6. /\ d \in PlayerCallback /\ IsOpened(d) /\ d.ses = result /\ d.to = t.to
      /\ result \in Maybe /\ result.n \in Nat /\ result.n <= t.ses.n
      /\ result = NoSession \/ result = t.ses
    BY <1>4, Kinds DEF PlayerCallback, IsOpened, Maybe
<1> HIDE DEF d
<1>7. PICK m \in Nat : /\ Waiting' = Waiting \cup {m} /\ m \notin Waiting /\ callbacks'[m] = d
                       /\ \A i \in Waiting : i < m /\ ~(m < i) /\ callbacks'[i] = callbacks[i]
    BY <1>5, <1>6, CallbackPosted DEF d
<1>8. callbacks' \in Seq(PlayerCallback)
    BY <1>5, <1>6, CallbackPosted DEF d
<1>9. Types'
    BY <1>1, <1>3, <1>4, <1>5, <1>6, <1>8 DEF Types, Maybe
<1>10. Newest'
    BY <1>1, TasksFollow
<1>11. \A j \in Queued' : IsOpen(tasks'[j]) => t.ses.n < tasks'[j].ses.n
    BY <1>3 DEF Newest
<1>12. \A j \in Queued' : IsClose(tasks'[j]) => tasks'[j].ses.n < t.ses.n
    BY <1>3 DEF Newest
<1>13. \A j \in Queued' : tasks'[j].ses.n \in Nat /\ (IsOpen(tasks'[j]) => tasks'[j].to \in Nat)
    BY <1>3, Elements
<1>14. Newer'
    <2>1. ASSUME NEW i \in Waiting', IsOpened(callbacks'[i])
          PROVE  /\ callbacks'[i].ses.n <= opens
                 /\ \A j \in Queued' : IsOpen(tasks'[j]) => callbacks'[i].ses.n < tasks'[j].ses.n
        <3>1. CASE i \in Waiting
            BY <2>1, <3>1, <1>3, <1>7 DEF Newer
        <3>2. CASE i = m
            <4>1. t.ses.n <= opens /\ opens \in Nat
                BY <1>3 DEF Newest, Types
            <4> QED BY <3>2, <4>1, <1>4, <1>6, <1>7, <1>11, <1>13
        <3> QED BY <3>1, <3>2, <1>7
    <2>2. ASSUME NEW i \in Waiting', NEW j \in Waiting', IsOpened(callbacks'[i]), IsOpened(callbacks'[j]), i < j
          PROVE  callbacks'[j].ses = NoSession \/ callbacks'[i].ses.n < callbacks'[j].ses.n
        <3>1. i # m /\ i \in Waiting
            BY <2>2, <1>7
        <3>2. CASE j \in Waiting
            BY <2>2, <3>1, <3>2, <1>7 DEF Newer
        <3>3. CASE j = m
            BY <2>2, <3>1, <3>3, <1>3, <1>6, <1>7 DEF Newer
        <3> QED BY <3>2, <3>3, <1>7
    <2>3. ASSUME NEW i \in Waiting', IsOpened(callbacks'[i])
          PROVE  \/ callbacks'[i].ses = NoSession
                 \/ /\ display.ses.n < callbacks'[i].ses.n
                    /\ \A j \in Queued' : IsClose(tasks'[j]) => tasks'[j].ses.n < callbacks'[i].ses.n
        <3>1. CASE i \in Waiting
            BY <2>3, <3>1, <1>3, <1>7 DEF Newer
        <3>2. CASE i = m
            <4>1. display.ses.n < t.ses.n
                BY <1>3 DEF Newest
            <4> QED BY <3>2, <4>1, <1>6, <1>7, <1>12
        <3> QED BY <3>1, <3>2, <1>7
    <2> QED BY <1>1, <2>1, <2>2, <2>3 DEF Newer
<1>15. InTurn'
    <2>1. t.to <= display.n
        BY <1>3 DEF InTurn
    <2>2. \A i \in Waiting' : IsOpened(callbacks'[i]) => callbacks'[i].to <= display.n
        BY <2>1, <1>6, <1>7 DEF InTurn
    <2>3. ASSUME NEW i \in Waiting', NEW j \in Waiting', IsOpened(callbacks'[i]), IsOpened(callbacks'[j]), i < j
          PROVE  callbacks'[i].to <= callbacks'[j].to
        <3>1. i # m /\ i \in Waiting
            BY <2>3, <1>7
        <3>2. CASE j \in Waiting
            BY <2>3, <3>1, <3>2, <1>7 DEF InTurn
        <3>3. CASE j = m
            BY <2>3, <3>1, <3>3, <1>3, <1>6, <1>7 DEF InTurn
        <3> QED BY <3>2, <3>3, <1>7
    <2>4. ASSUME NEW i \in Waiting', NEW j \in Queued', IsOpened(callbacks'[i]), IsOpen(tasks'[j])
          PROVE  callbacks'[i].to <= tasks'[j].to
        <3>1. CASE i \in Waiting
            BY <2>4, <3>1, <1>3, <1>7 DEF InTurn
        <3>2. CASE i = m
            <4>1. t.to <= tasks[j + 1].to
                BY <2>4, <1>3 DEF InTurn
            <4> QED BY <3>2, <4>1, <1>3, <1>6, <1>7
        <3> QED BY <3>1, <3>2, <1>7
    <2>5. display.ses # NoSession =>
             /\ \A i \in Queued' : IsOpen(tasks'[i]) => tasks'[i].to = display.n
             /\ \A i \in Waiting' : IsOpened(callbacks'[i]) => callbacks'[i].to = display.n
        <3> SUFFICES ASSUME display.ses # NoSession
                     PROVE  /\ \A i \in Queued' : IsOpen(tasks'[i]) => tasks'[i].to = display.n
                            /\ \A i \in Waiting' : IsOpened(callbacks'[i]) => callbacks'[i].to = display.n
            OBVIOUS
        <3>1. \A i \in Queued' : IsOpen(tasks'[i]) => tasks'[i].to = display.n
            BY <1>3 DEF InTurn
        <3>2. t.to = display.n
            BY <1>3 DEF InTurn
        <3>3. \A i \in Waiting : IsOpened(callbacks'[i]) => callbacks'[i].to = display.n
            BY <1>7 DEF InTurn
        <3> QED BY <3>1, <3>2, <3>3, <1>6, <1>7
    <2>6. /\ \A i \in Queued' : IsOpen(tasks'[i]) => tasks'[i].to <= display.n
          /\ \A i, j \in Queued' : (IsOpen(tasks'[i]) /\ IsOpen(tasks'[j]) /\ i < j) => tasks'[i].to <= tasks'[j].to
        BY <1>1, TasksFollow
    <2> QED BY <1>1, <2>2, <2>3, <2>4, <2>5, <2>6 DEF InTurn
<1>16. Played'
    <2>1. m \in Waiting' /\ IsOpened(callbacks'[m]) /\ callbacks'[m].ses = playing'
        BY <1>5, <1>6, <1>7
    <2>2. \A j \in Waiting' : ~(j > m)
        BY <1>7
    <2>3. playing' # NoSession => playing' \in open'
        BY <1>5
    <2> QED BY <2>1, <2>2, <2>3 DEF Played
<1>17. Item1' = Item1 /\ Wanted' = Wanted /\ Reopening' = Reopening
    BY <1>1 DEF Item1, Wanted, Reopening
<1>18. SessionComes => SessionComes'
    <2>1. ASSUME NEW i \in Queued, IsOpen(tasks[i]), tasks[i].to = display.n PROVE SessionComes'
        <3>1. CASE i = 1
            BY <2>1, <3>1, <1>1, <1>3, <1>6, <1>7 DEF SessionComes
        <3>2. CASE i # 1
            <4>1. i - 1 \in Queued' /\ IsOpen(tasks'[i - 1]) /\ tasks'[i - 1].to = display'.n
                BY <2>1, <3>2, <1>1, <1>3
            <4> QED BY <4>1 DEF SessionComes, OpenComes
        <3> QED BY <3>1, <3>2
    <2>2. ASSUME NEW i \in Waiting, IsOpened(callbacks[i]), callbacks[i].to = display.n PROVE SessionComes'
        BY <2>2, <1>1, <1>7 DEF SessionComes
    <2> QED BY <2>1, <2>2 DEF SessionComes, OpenComes
<1>19. SessionComes' => SessionComes
    <2>1. (\E i \in Queued' : IsOpen(tasks'[i]) /\ tasks'[i].to = display.n) => SessionComes
        BY <1>3 DEF SessionComes, OpenComes
    <2>2. (\E i \in Waiting' : IsOpened(callbacks'[i]) /\ callbacks'[i].to = display.n) => SessionComes
        BY <1>3, <1>6, <1>7 DEF SessionComes, OpenComes
    <2> QED BY <1>1, <2>1, <2>2 DEF SessionComes, OpenComes
<1>20. Displayed'
    <2>1. display.ses # NoSession => SessionComes'
        <3>1. display.ses # NoSession => t.to = display.n
            BY <1>3 DEF InTurn
        <3> QED BY <3>1, <1>1, <1>6, <1>7 DEF SessionComes
    <2>2. ASSUME NEW i \in Queued', IsClose(tasks'[i]), tasks'[i].ses = display.ses
          PROVE  Reopening \/ \E j \in Queued' : i < j /\ IsOpen(tasks'[j])
        <3>1. Reopening \/ \E j \in Queued : i + 1 < j /\ IsOpen(tasks[j])
            BY <2>2, <1>3 DEF Displayed
        <3>2. ASSUME NEW j \in Queued, i + 1 < j, IsOpen(tasks[j])
              PROVE  j - 1 \in Queued' /\ i < j - 1 /\ IsOpen(tasks'[j - 1])
            <4>1. j # 1
                BY <3>2, <1>3
            <4> QED BY <3>2, <4>1, <1>3
        <3> QED BY <3>1, <3>2
    <2>3. (Wanted /\ ~unopened) => display.ses # NoSession \/ SessionComes'
        BY <1>18 DEF Displayed
    <2>4. ~unopened' => \A i \in Waiting' : IsOpened(callbacks'[i]) => callbacks'[i].ses # NoSession
        BY <1>5, <1>6, <1>7 DEF Displayed
    <2>5. ~unopened' => ~unopened
        BY <1>5
    <2> QED BY <1>1, <1>17, <2>1, <2>2, <2>3, <2>4, <2>5 DEF Displayed
<1>21. Videos'
    BY <1>1, <1>17, <1>19 DEF Videos
<1>22. Closes'
    <2>1. \A i \in Queued' : i + 1 \in Queued /\ tasks'[i] = tasks[i + 1]
        BY <1>3
    <2>2. \A i \in Waiting' : ~IsOpened(callbacks'[i]) => i \in Waiting /\ callbacks'[i] = callbacks[i]
        BY <1>6, <1>7
    <2>3. \A i \in Queued : Tells(tasks[i]) => i - 1 \in Queued' /\ tasks'[i - 1] = tasks[i]
        BY <1>3 DEF Tells
    <2>4. ~tardy => \A i, j \in Queued' : Tells(tasks'[i]) /\ Tells(tasks'[j]) => i = j
        BY <1>1, TasksFollow
    <2>5. open' \cup {tasks'[i].ses : i \in {j \in Queued' : IsOpen(tasks'[j])}}
             \subseteq open \cup {tasks[i].ses : i \in {j \in Queued : IsOpen(tasks[j])}}
        <3>1. t.ses \in {tasks[i].ses : i \in {j \in Queued : IsOpen(tasks[j])}}
            BY <1>3
        <3>2. \A i \in Queued' : IsOpen(tasks'[i]) =>
                 tasks'[i].ses \in {tasks[k].ses : k \in {j \in Queued : IsOpen(tasks[j])}}
            BY <2>1
        <3> QED BY <3>1, <3>2, <1>5, <1>6
    <2>6. sure => \A s \in open' \cup {tasks'[i].ses : i \in {j \in Queued' : IsOpen(tasks'[j])}} :
             s.item \in target =>
                phase = "player" /\ \E i \in Queued' : Tells(tasks'[i]) /\ tasks'[i].ses = s
        <3>1. ASSUME sure, NEW s \in open \cup {tasks[i].ses : i \in {j \in Queued : IsOpen(tasks[j])}},
                     s.item \in target
              PROVE  phase = "player" /\ \E i \in Queued' : Tells(tasks'[i]) /\ tasks'[i].ses = s
            <4>1. PICK i \in Queued : phase = "player" /\ Tells(tasks[i]) /\ tasks[i].ses = s
                BY <3>1 DEF Closes
            <4> QED BY <4>1, <2>3
        <3> QED BY <3>1, <2>5
    <2> QED BY <1>1, <2>1, <2>2, <2>4, <2>6 DEF Closes
<1>23. Previews'
    BY <1>1 DEF Previews
<1> QED BY <1>9, <1>10, <1>14, <1>15, <1>16, <1>20, <1>21, <1>22, <1>23

LEMMA CloseSessionKeeps == ASSUME HandlesInv, CloseSession PROVE HandlesInv'
<1> USE DEF HandlesInv, detaching, previewing, decoders, closedEvents
<1>1. /\ UNCHANGED <<display, phase, target, playable, slot, woken, preview, decoder1, decoder2, alive,
                     closedPlayer, closedPreview, opens, sure, tardy, orphans, unopened>>
      /\ tasks # <<>> /\ tasks' = Tail(tasks) /\ IsClose(Head(tasks))
    BY DEF CloseSession, IsClose
<1>2. PICK t : t = Head(tasks)
    OBVIOUS
<1>3. /\ tasks' \in Seq(PlayerTask) /\ 1 \in Queued /\ tasks[1] = t /\ t \in PlayerTask /\ ~IsOpen(t) /\ IsClose(t)
      /\ \A i \in Queued' : i \in Nat /\ i + 1 \in Queued /\ i + 1 # 1 /\ 1 < i + 1 /\ tasks'[i] = tasks[i + 1]
      /\ \A i \in Queued : i # 1 => i \in Nat /\ i > 1 /\ i - 1 \in Queued' /\ tasks'[i - 1] = tasks[i]
    BY <1>1, <1>2, TaskTaken DEF IsOpen, IsClose
<1>4. t.ses \in Session /\ t.ses # NoSession /\ t.ses.n \in Nat \ {0} /\ t.tell \in BOOLEAN
    BY <1>3, Kinds
<1>5. /\ open' = open \ {t.ses} /\ playing' = IF playing = t.ses THEN NoSession ELSE playing
      /\ callbacks' = IF t.tell THEN Append(callbacks, [kind |-> "closed"]) ELSE callbacks
    BY <1>2 DEF CloseSession
<1>6. /\ callbacks' \in Seq(PlayerCallback) /\ Waiting \subseteq Waiting'
      /\ \A i \in Waiting : callbacks'[i] = callbacks[i]
      /\ \A i \in Waiting' \ Waiting : ~IsOpened(callbacks'[i]) /\ t.tell
      /\ \A i, j \in Waiting' \ Waiting : i = j
    <2>1. CASE t.tell
        <3> DEFINE d == [kind |-> "closed"]
        <3>1. d \in PlayerCallback /\ ~IsOpened(d)
            BY DEF PlayerCallback, IsOpened
        <3>2. callbacks' = Append(callbacks, d)
            BY <1>5, <2>1
        <3> HIDE DEF d
        <3>3. /\ callbacks' \in Seq(PlayerCallback)
              /\ \E m \in Nat : /\ Waiting' = Waiting \cup {m} /\ m \notin Waiting /\ callbacks'[m] = d
                                /\ \A i \in Waiting : i < m /\ ~(m < i) /\ callbacks'[i] = callbacks[i]
            BY <3>1, <3>2, CallbackPosted
        <3> QED BY <2>1, <3>1, <3>3
    <2>2. CASE ~t.tell
        <3>1. callbacks' = callbacks /\ Waiting' = Waiting
            BY <1>5, <2>2 DEF Waiting
        <3> QED BY <3>1 DEF Types
    <2> QED BY <2>1, <2>2
<1>7. Types'
    BY <1>1, <1>3, <1>5, <1>6 DEF Types, Maybe
<1>8. Newest'
    BY <1>1, TasksFollow
<1>9. \A i \in Waiting' : IsOpened(callbacks'[i]) => i \in Waiting /\ callbacks'[i] = callbacks[i]
    BY <1>6
<1>10. Newer'
    <2>1. \A i \in Waiting' : IsOpened(callbacks'[i]) =>
             /\ callbacks'[i].ses.n <= opens
             /\ \A j \in Queued' : IsOpen(tasks'[j]) => callbacks'[i].ses.n < tasks'[j].ses.n
        BY <1>3, <1>9 DEF Newer
    <2>2. \A i, j \in Waiting' : (IsOpened(callbacks'[i]) /\ IsOpened(callbacks'[j]) /\ i < j) =>
             callbacks'[j].ses = NoSession \/ callbacks'[i].ses.n < callbacks'[j].ses.n
        BY <1>9 DEF Newer
    <2>3. \A i \in Waiting' : IsOpened(callbacks'[i]) =>
             \/ callbacks'[i].ses = NoSession
             \/ /\ display.ses.n < callbacks'[i].ses.n
                /\ \A j \in Queued' : IsClose(tasks'[j]) => tasks'[j].ses.n < callbacks'[i].ses.n
        BY <1>3, <1>9 DEF Newer
    <2> QED BY <1>1, <2>1, <2>2, <2>3 DEF Newer
<1>11. InTurn'
    <2>1. \A i \in Waiting' : IsOpened(callbacks'[i]) => callbacks'[i].to <= display.n
        BY <1>9 DEF InTurn
    <2>2. \A i, j \in Waiting' : (IsOpened(callbacks'[i]) /\ IsOpened(callbacks'[j]) /\ i < j) =>
             callbacks'[i].to <= callbacks'[j].to
        BY <1>9 DEF InTurn
    <2>3. \A i \in Waiting', j \in Queued' : (IsOpened(callbacks'[i]) /\ IsOpen(tasks'[j])) =>
             callbacks'[i].to <= tasks'[j].to
        BY <1>3, <1>9 DEF InTurn
    <2>4. display.ses # NoSession =>
             /\ \A i \in Queued' : IsOpen(tasks'[i]) => tasks'[i].to = display.n
             /\ \A i \in Waiting' : IsOpened(callbacks'[i]) => callbacks'[i].to = display.n
        BY <1>3, <1>9 DEF InTurn
    <2>5. /\ \A i \in Queued' : IsOpen(tasks'[i]) => tasks'[i].to <= display.n
          /\ \A i, j \in Queued' : (IsOpen(tasks'[i]) /\ IsOpen(tasks'[j]) /\ i < j) => tasks'[i].to <= tasks'[j].to
        BY <1>1, TasksFollow
    <2> QED BY <1>1, <2>1, <2>2, <2>3, <2>4, <2>5 DEF InTurn
<1>12. Played'
    <2>1. playing' # NoSession => playing' = playing /\ playing # t.ses
        BY <1>5
    <2>2. playing' # NoSession => playing' \in open'
        BY <2>1, <1>5 DEF Played
    <2>3. (\E i \in Waiting' : IsOpened(callbacks'[i])) =>
             \E i \in Waiting' : /\ IsOpened(callbacks'[i]) /\ playing' = callbacks'[i].ses
                                 /\ \A j \in Waiting' : j > i => ~IsOpened(callbacks'[j])
        <3> SUFFICES ASSUME \E i \in Waiting' : IsOpened(callbacks'[i])
                     PROVE  \E i \in Waiting' : /\ IsOpened(callbacks'[i]) /\ playing' = callbacks'[i].ses
                                                /\ \A j \in Waiting' : j > i => ~IsOpened(callbacks'[j])
            OBVIOUS
        <3>1. PICK k \in Waiting : /\ IsOpened(callbacks[k]) /\ playing = callbacks[k].ses
                                   /\ \A j \in Waiting : j > k => ~IsOpened(callbacks[j])
            BY <1>9 DEF Played
        <3>2. playing # t.ses
            <4>1. playing = NoSession \/ t.ses.n < playing.n
                BY <3>1, <1>3 DEF Newer
            <4> QED BY <4>1, <1>4
        <3> QED BY <3>1, <3>2, <1>5, <1>6
    <2>4. ASSUME playing' # NoSession
          PROVE  \/ playing = display.ses \/ playing \in orphans
                 \/ \E i \in Waiting' : IsOpened(callbacks'[i]) /\ callbacks'[i].ses = playing
                 \/ \E i \in Queued' : IsClose(tasks'[i]) /\ tasks'[i].ses = playing
        <3>1. ASSUME NEW i \in Queued, IsClose(tasks[i]), tasks[i].ses = playing
              PROVE  i - 1 \in Queued' /\ tasks'[i - 1] = tasks[i]
            BY <2>1, <2>4, <3>1, <1>3
        <3>2. ASSUME NEW i \in Waiting, IsOpened(callbacks[i]), callbacks[i].ses = playing
              PROVE  i \in Waiting' /\ callbacks'[i] = callbacks[i]
            BY <1>6
        <3> QED BY <2>1, <2>4, <3>1, <3>2 DEF Played
    <2> QED BY <1>1, <2>1, <2>2, <2>3, <2>4 DEF Played
<1>13. Item1' = Item1 /\ Wanted' = Wanted /\ Reopening' = Reopening
    BY <1>1 DEF Item1, Wanted, Reopening
<1>14. SessionComes' <=> SessionComes
    <2>1. ASSUME NEW i \in Queued, IsOpen(tasks[i]) PROVE i - 1 \in Queued' /\ tasks'[i - 1] = tasks[i]
        BY <2>1, <1>3
    <2>2. OpenComes' <=> OpenComes
        <3>1. OpenComes => OpenComes'
            <4> SUFFICES ASSUME NEW i \in Queued, IsOpen(tasks[i]), tasks[i].to = display.n PROVE OpenComes'
                BY DEF OpenComes
            <4>1. i - 1 \in Queued' /\ IsOpen(tasks'[i - 1]) /\ tasks'[i - 1].to = display'.n
                BY <2>1, <1>1
            <4> QED BY <4>1 DEF OpenComes
        <3>2. OpenComes' => OpenComes
            <4> SUFFICES ASSUME NEW i \in Queued', IsOpen(tasks'[i]), tasks'[i].to = display'.n PROVE OpenComes
                BY DEF OpenComes
            <4>1. i + 1 \in Queued /\ IsOpen(tasks[i + 1]) /\ tasks[i + 1].to = display.n
                BY <1>1, <1>3
            <4> QED BY <4>1 DEF OpenComes
        <3> QED BY <3>1, <3>2
    <2>3. (\E i \in Waiting' : IsOpened(callbacks'[i]) /\ callbacks'[i].to = display'.n)
             <=> \E i \in Waiting : IsOpened(callbacks[i]) /\ callbacks[i].to = display.n
        BY <1>1, <1>6, <1>9
    <2> QED BY <2>2, <2>3 DEF SessionComes
<1>15. Displayed'
    <2>1. ASSUME NEW i \in Queued, NEW j \in Queued, i < j, IsOpen(tasks[j])
          PROVE  j - 1 \in Queued' /\ i - 1 < j - 1 /\ IsOpen(tasks'[j - 1])
        <3>1. j # 1
            BY <2>1, <1>3
        <3> QED BY <2>1, <3>1, <1>3
    <2>2. ASSUME display.ses # NoSession PROVE playing' = display.ses \/ SessionComes \/ Reopening
        <3>1. CASE t.ses = display.ses
            <4>1. Reopening \/ \E j \in Queued : IsOpen(tasks[j])
                BY <3>1, <1>3 DEF Displayed
            <4>2. (\E j \in Queued : IsOpen(tasks[j])) => SessionComes
                BY <2>2 DEF InTurn, SessionComes, OpenComes
            <4> QED BY <4>1, <4>2
        <3>2. CASE t.ses # display.ses
            BY <2>2, <3>2, <1>5 DEF Displayed
        <3> QED BY <3>1, <3>2
    <2>3. ASSUME NEW i \in Queued', IsClose(tasks'[i]), tasks'[i].ses = display.ses
          PROVE  Reopening \/ \E j \in Queued' : i < j /\ IsOpen(tasks'[j])
        <3>1. Reopening \/ \E j \in Queued : i + 1 < j /\ IsOpen(tasks[j])
            BY <2>3, <1>3 DEF Displayed
        <3>2. ASSUME NEW j \in Queued, i + 1 < j, IsOpen(tasks[j])
              PROVE  j - 1 \in Queued' /\ i < j - 1 /\ IsOpen(tasks'[j - 1])
            <4>1. j # 1
                BY <3>2, <1>3
            <4> QED BY <3>2, <4>1, <1>3
        <3> QED BY <3>1, <3>2
    <2>4. ~unopened => \A i \in Waiting' : IsOpened(callbacks'[i]) => callbacks'[i].ses # NoSession
        BY <1>9 DEF Displayed
    <2> QED BY <1>1, <1>13, <1>14, <2>2, <2>3, <2>4 DEF Displayed
<1>16. Videos'
    BY <1>1, <1>13, <1>14 DEF Videos
<1>17. Closes'
    <2>1. \A i \in Queued' : i + 1 \in Queued /\ i + 1 # 1 /\ tasks'[i] = tasks[i + 1]
        BY <1>3
    <2>2. \A i \in Queued : i # 1 => i - 1 \in Queued' /\ tasks'[i - 1] = tasks[i]
        BY <1>3
    <2>3. ~tardy => \A i, j \in Queued' : Tells(tasks'[i]) /\ Tells(tasks'[j]) => i = j
        BY <1>1, TasksFollow
    <2>4. t.tell => Tells(tasks[1])
        BY <1>3 DEF Tells
    <2>5. (~tardy /\ t.tell) => /\ \A i \in Queued' : ~Tells(tasks'[i])
                                /\ \A i \in Waiting : IsOpened(callbacks[i])
                                /\ phase = "player" /\ ~closedPlayer
        BY <1>3, <2>1, <2>4 DEF Closes
    <2>6. ~tardy => /\ (closedPlayer \/ phase # "player") =>
                         (\A i \in Queued' : ~Tells(tasks'[i])) /\ \A i \in Waiting' : IsOpened(callbacks'[i])
                    /\ \A i, j \in Waiting' : ~IsOpened(callbacks'[i]) /\ ~IsOpened(callbacks'[j]) => i = j
                    /\ \A i \in Queued', j \in Waiting' : ~(Tells(tasks'[i]) /\ ~IsOpened(callbacks'[j]))
        <3>1. CASE ~tardy /\ t.tell
            <4>1. \A i \in Waiting' : ~IsOpened(callbacks'[i]) => i \in Waiting' \ Waiting
                BY <3>1, <2>5, <1>6
            <4> QED BY <3>1, <4>1, <2>5, <1>6
        <3>2. CASE ~tardy /\ ~t.tell
            <4>1. Waiting' = Waiting
                BY <3>2, <1>6
            <4>2. /\ (closedPlayer \/ phase # "player") =>
                         (\A i \in Queued' : ~Tells(tasks'[i])) /\ \A i \in Waiting : IsOpened(callbacks[i])
                  /\ \A i, j \in Waiting : ~IsOpened(callbacks[i]) /\ ~IsOpened(callbacks[j]) => i = j
                  /\ \A i \in Queued', j \in Waiting : ~(Tells(tasks'[i]) /\ ~IsOpened(callbacks[j]))
                BY <3>2, <2>1 DEF Closes
            <4> QED BY <4>1, <4>2, <1>6
        <3> QED BY <3>1, <3>2
    <2>7. ASSUME sure, NEW s \in open' \cup {tasks'[i].ses : i \in {j \in Queued' : IsOpen(tasks'[j])}},
                 s.item \in target
          PROVE  phase = "player" /\ \E i \in Queued' : Tells(tasks'[i]) /\ tasks'[i].ses = s
        <3>1. s \in open \cup {tasks[i].ses : i \in {j \in Queued : IsOpen(tasks[j])}}
            BY <2>1, <1>5
        <3>2. PICK i \in Queued : phase = "player" /\ Tells(tasks[i]) /\ tasks[i].ses = s
            BY <2>7, <3>1 DEF Closes
        <3>3. s # t.ses
            <4>1. CASE s \in open'
                BY <4>1, <1>5
            <4>2. ASSUME NEW j \in Queued', IsOpen(tasks'[j]), s = tasks'[j].ses PROVE s # t.ses
                <5>1. t.ses.n < s.n
                    BY <4>2, <2>1, <1>3 DEF Newest
                <5> QED BY <5>1, <1>4
            <4> QED BY <4>1, <4>2
        <3>4. i # 1
            BY <3>2, <3>3, <1>3
        <3> QED BY <3>2, <3>4, <2>2
    <2> QED BY <1>1, <2>3, <2>6, <2>7 DEF Closes
<1>18. Previews'
    BY <1>1 DEF Previews
<1> QED BY <1>7, <1>8, <1>10, <1>11, <1>12, <1>15, <1>16, <1>17, <1>18

-----------------------------------------------------------------------------

LEMMA StepHandles == ASSUME HandlesInv, [MediaNext]_mediaVars PROVE HandlesInv'
<1>1. CASE MediaAct
    <2>1. CASE \E items \in Shown(Item) : LoadDisplay(items)
        BY <2>1, SelectKeeps
    <2>2. CASE PixelDifference \/ \E items : ShowPreview(items)
        BY <2>2, ShowKeeps
    <2> QED BY <1>1, <2>1, <2>2, ChangeTracksKeeps, DetachKeeps DEF MediaAct
<1>2. CASE MediaWork
    BY <1>2, LetGoKeeps, PreviewThreadKeeps, WaitKeeps, AttachKeeps, AttachGoneKeeps, RunCallbackKeeps,
       OpenSessionKeeps, CloseSessionKeeps DEF MediaWork
<1>3. CASE UNCHANGED mediaVars
    <2>1. UNCHANGED <<display, phase, target, playable, tasks, playing, open, callbacks, slot, woken, preview,
                      decoder1, decoder2, alive, closedPlayer, closedPreview, opens, sure, tardy, orphans,
                      unopened>>
        BY <1>3 DEF mediaVars, detaching, previewing, decoders, closedEvents, mediaHistory
    <2>2. Sessions'
        BY <2>1, SessionsStay DEF HandlesInv, Sessions, Reopening, Item1, Played, Types, Videos
    <2>3. Closes'
        BY <2>1 DEF HandlesInv, Closes, Queued, Waiting
    <2>4. Previews'
        BY <2>1 DEF HandlesInv, Previews
    <2> QED BY <2>2, <2>3, <2>4 DEF HandlesInv, Sessions
<1> QED BY <1>1, <1>2, <1>3 DEF MediaNext

\* However often the user acts and however the player's, the preview's and the UI's threads
\* take turns: the sessions' numbers follow the order of the queues, one that is played is known
\* to the display, a task or a callback, and each event of detach_file_handles still has at most
\* one task or callback that sets it.
THEOREM HandlesInvariant == MediaSpec => []HandlesInv
<1>1. HandlesInv /\ [MediaNext]_mediaVars => HandlesInv'
    BY StepHandles
<1> QED BY <1>1, InitHandles, PTL DEF MediaSpec

\* However displays are loaded, closed and detached, and however late their sessions come:
\* what load_display_state, update_av_session and the player's queue leave behind once they
\* are done is the displayed session, played and alone open.
THEOREM SessionIsPlayed == MediaSpec => []SessionSettles
<1>1. ASSUME HandlesInv PROVE SessionSettles
    <2> SUFFICES ASSUME phase = "none", tasks = <<>>, callbacks = <<>>, Loose = {}
                 PROVE  /\ display.ses # NoSession => playing = display.ses /\ display.ses \in open
                        /\ playing \in {display.ses} \cup orphans \cup {NoSession}
                        /\ open = {playing} \ {NoSession}
                        /\ (Len(display.items) = 1 /\ Item1 \subseteq Video /\ ~unopened) =>
                              display.ses # NoSession
        BY DEF SessionSettles
    <2> USE <1>1 DEF HandlesInv
    <2>1. Queued = {} /\ Waiting = {}
        BY DEF Queued, Waiting
    <2>2. ~SessionComes /\ ~Reopening
        BY <2>1 DEF SessionComes, OpenComes, Reopening
    <2>3. display.ses # NoSession => playing = display.ses /\ display.ses \in open
        BY <2>2 DEF Displayed, Played
    <2>4. playing \in {display.ses} \cup orphans \cup {NoSession}
        BY <2>1 DEF Played
    <2>5. open = {playing} \ {NoSession}
        <3>1. OnTheirWay \subseteq {} /\ {tasks[i].ses : i \in 1..Len(tasks)} = {}
            BY DEF OnTheirWay
        <3>2. open \subseteq {playing, display.ses}
            BY <3>1 DEF Loose
        <3>3. NoSession \notin open
            BY Kinds DEF Types
        <3> QED BY <2>3, <3>2, <3>3 DEF Played
    <2>6. Wanted /\ ~unopened => display.ses # NoSession
        BY <2>2 DEF Displayed
    <2> QED BY <2>3, <2>4, <2>5, <2>6 DEF Wanted
<1> QED BY <1>1, HandlesInvariant, PTL

\* However calls cross in detach_file_handles: when a tool gets the file, unless a wait was
\* given up or the user played it again, neither the player nor the preview has it open.
THEOREM HandlesAreReleased == MediaSpec => []HandlesReleased
<1>1. ASSUME HandlesInv PROVE HandlesReleased
    BY <1>1 DEF HandlesInv, HandlesReleased, Closes, Previews
<1> QED BY <1>1, HandlesInvariant, PTL

-----------------------------------------------------------------------------
(* The types *)

AtMostOne(s) == \A a, b \in s : a = b

\* A preview that is to be shown has something to show, and a thread that has ended has
\* closed its decoders.
PreviewTyped ==
    /\ slot \subseteq PreviewTask /\ AtMostOne(slot) /\ preview \subseteq PreviewTask /\ AtMostOne(preview)
    /\ \A t \in slot \cup preview : t.kind = "show" => t.items # <<>>
    /\ decoder1 \subseteq Video /\ decoder2 \subseteq Video
    /\ ~alive => decoder1 = {} /\ decoder2 = {} /\ preview = {}
    /\ woken \in BOOLEAN /\ closedPreview \in BOOLEAN

DetachTyped ==
    /\ display.items \in Shown(Item)
    /\ target \subseteq Item /\ AtMostOne(target) /\ playable \in BOOLEAN
    /\ phase \in {"player", "preview"} => playable
    /\ closedPlayer \in BOOLEAN /\ orphans \subseteq Session

LEMMA ShownIs ==
    ASSUME NEW S, NEW items \in Shown(S)
    PROVE  /\ items # <<>> => items[1] \in S
           /\ items # <<>> /\ Len(items) # 1 => items[2] \in S
           /\ items = <<>> \/ Len(items) \in {1, 2}
<1>1. CASE items = <<>>
    BY <1>1
<1>2. CASE items \in {<<i>> : i \in S}
    <2>1. PICK i \in S : items = <<i>>
        BY <1>2
    <2> QED BY <2>1
<1>3. CASE items \in {ij \in S \X S : ij[1] # ij[2]}
    <2>1. items \in S \X S
        BY <1>3
    <2>2. PICK i \in S, j \in S : items = <<i, j>>
        BY <2>1
    <2>3. Len(items) = 2 /\ items[1] = i /\ items[2] = j
        BY <2>2
    <2> QED BY <2>3
<1> QED BY <1>1, <1>2, <1>3 DEF Shown

LEMMA Item1Typed ==
    ASSUME DetachTyped PROVE Item1 \subseteq Item /\ AtMostOne(Item1)
BY ShownIs DEF DetachTyped, Item1, AtMostOne

\* Whoever queues a preview replaces the one that waited.
LEMMA QueuedPreview ==
    ASSUME PreviewTyped, NEW kind \in {"show", "close", "closeAndSet", "compute"}, NEW items \in Shown(Video),
           kind = "show" => items # <<>>, QueueMediaPreview(kind, items), closedPreview' \in BOOLEAN
    PROVE  PreviewTyped'
BY DEF PreviewTyped, QueueMediaPreview, AtMostOne, PreviewTask, decoders

LEMMA NothingShown == ASSUME NEW S PROVE <<>> \in Shown(S)
BY DEF Shown

LEMMA UserStaysTyped ==
    ASSUME HandlesInv, PreviewTyped, DetachTyped, MediaAct PROVE PreviewTyped' /\ DetachTyped'
<1> USE NothingShown DEF detaching, previewing, closedEvents, decoders
<1>1. ASSUME NEW items \in Shown(Item), LoadDisplay(items) PROVE PreviewTyped' /\ DetachTyped'
    BY <1>1 DEF LoadDisplay, PreviewTyped, DetachTyped
<1>2. CASE ChangeTracks
    BY <1>2 DEF ChangeTracks, PreviewTyped, DetachTyped
<1>3. CASE PixelDifference
    <2>1. PreviewTyped'
        BY <1>3, QueuedPreview DEF PixelDifference, PreviewTyped
    <2> QED BY <1>3, <2>1 DEF PixelDifference, DetachTyped
<1>4. CASE Detach
    <2>1. closedPreview' \in BOOLEAN /\ closedPlayer' \in BOOLEAN
        BY <1>4 DEF Detach, PreviewTyped, DetachTyped
    <2>2. PreviewTyped'
        BY <1>4, <2>1, QueuedPreview DEF Detach
    <2>3. target' = Item1 /\ playable' = (display.ses # NoSession) /\ UNCHANGED <<display, orphans>>
          /\ phase' = IF display.ses # NoSession THEN "player" ELSE "tool"
        BY <1>4 DEF Detach
    <2>4. DetachTyped'
        BY <2>1, <2>3, Item1Typed DEF DetachTyped
    <2> QED BY <2>2, <2>4
<1>5. ASSUME NEW items \in Shown(Video) \ {<<>>}, ShowPreview(items) PROVE PreviewTyped' /\ DetachTyped'
    <2>1. PreviewTyped'
        BY <1>5, QueuedPreview DEF ShowPreview, PreviewTyped
    <2> QED BY <1>5, <2>1 DEF ShowPreview, DetachTyped
<1> QED BY <1>1, <1>2, <1>3, <1>4, <1>5 DEF MediaAct

LEMMA DetachStaysTyped ==
    ASSUME HandlesInv, PreviewTyped, DetachTyped,
           PlayerClosed \/ PreviewClosed \/ Attach \/ AttachGone \/ RunCallback
    PROVE  PreviewTyped' /\ DetachTyped'
<1> USE NothingShown DEF detaching, previewing, closedEvents, decoders
<1>1. CASE PlayerClosed
    BY <1>1 DEF PlayerClosed, PreviewTyped, DetachTyped
<1>2. CASE PreviewClosed
    <2>1. PreviewTyped'
        BY <1>2, QueuedPreview DEF PreviewClosed, PreviewTyped
    <2> QED BY <1>2, <2>1 DEF PreviewClosed, DetachTyped
<1>3. CASE Attach
    BY <1>3 DEF Attach, PreviewTyped, DetachTyped, AtMostOne
<1>4. CASE AttachGone
    <2>1. PreviewTyped'
        BY <1>4, QueuedPreview DEF AttachGone, PreviewTyped
    <2> QED BY <1>4, <2>1 DEF AttachGone, DetachTyped, AtMostOne
<1>5. CASE RunCallback
    <2> DEFINE c == Head(callbacks)
    <2>1. c \in PlayerCallback
        BY <1>5, HeadTailProperties DEF RunCallback, HandlesInv, Types
    <2>2. \/ c.kind = "opened" /\ display' = [display EXCEPT !.ses = c.ses] /\ UNCHANGED <<closedPlayer, orphans>>
          \/ c.kind = "opened" /\ orphans' = orphans \cup ({c.ses} \ {NoSession}) /\ UNCHANGED <<display, closedPlayer>>
          \/ closedPlayer' = TRUE /\ UNCHANGED <<display, orphans>>
        BY <1>5 DEF RunCallback
    <2>3. c.kind = "opened" => c.ses \in Session \cup {NoSession}
        BY <2>1 DEF PlayerCallback, Maybe
    <2> HIDE DEF c
    <2>4. display = [n |-> display.n, items |-> display.items, ses |-> display.ses]
        BY DEF HandlesInv, Types
    <2>5. display'.items = display.items
        BY <2>2, <2>4
    <2>6. orphans' \subseteq Session /\ closedPlayer' \in BOOLEAN
        BY <2>2, <2>3 DEF DetachTyped
    <2> QED BY <1>5, <2>5, <2>6 DEF RunCallback, PreviewTyped, DetachTyped
<1> QED BY <1>1, <1>2, <1>3, <1>4, <1>5

LEMMA ThreadStaysTyped ==
    ASSUME PreviewTyped, DetachTyped, OpenSession \/ CloseSession \/ LetGo \/ TakePreview \/ RunPreview
               \/ PreviewThrows \/ PreviewIdles
    PROVE  PreviewTyped' /\ DetachTyped'
<1> USE DEF detaching, previewing, closedEvents, decoders
<1>1. CASE OpenSession \/ CloseSession \/ LetGo
    BY <1>1 DEF OpenSession, CloseSession, LetGo, PreviewTyped, DetachTyped
<1>2. CASE TakePreview
    BY <1>2 DEF TakePreview, PreviewTyped, DetachTyped, AtMostOne
<1>3. CASE RunPreview
    <2>1. PICK t \in preview :
              /\ \/ /\ t.kind = "show"
                    /\ decoder1' \in {{t.items[1]}, {}}
                    /\ IF decoder1' = {} \/ Len(t.items) = 1
                       THEN UNCHANGED decoder2
                       ELSE decoder2' \in {{t.items[2]}, {}}
                 \/ t.kind \in {"close", "closeAndSet"} /\ decoder1' = {} /\ decoder2' = {}
                 \/ t.kind = "compute" /\ UNCHANGED decoders
              /\ closedPreview' = (closedPreview \/ t.kind = "closeAndSet")
        BY <1>3 DEF RunPreview
    <2>2. preview' = {} /\ UNCHANGED <<display, detaching, slot, woken, alive, closedPlayer, orphans>>
        BY <1>3 DEF RunPreview
    <2>3. t.items \in Shown(Video) /\ (t.kind = "show" => t.items # <<>>) /\ alive
        BY <2>1 DEF PreviewTyped, PreviewTask
    <2>4. t.kind = "show" => t.items[1] \in Video /\ (Len(t.items) # 1 => t.items[2] \in Video)
        BY <2>3, ShownIs
    <2>5. decoder1' \subseteq Video /\ decoder2' \subseteq Video /\ closedPreview' \in BOOLEAN
        BY <2>1, <2>4 DEF PreviewTyped
    <2> QED BY <2>2, <2>3, <2>5 DEF PreviewTyped, DetachTyped, AtMostOne
<1>4. CASE PreviewThrows
    BY <1>4 DEF PreviewThrows, PreviewTyped, DetachTyped, AtMostOne
<1>5. CASE PreviewIdles
    BY <1>5 DEF PreviewIdles, PreviewTyped, DetachTyped
<1> QED BY <1>1, <1>2, <1>3, <1>4, <1>5

LEMMA HasOne ==
    ASSUME NEW S, AtMostOne(S) PROVE Cardinality(S) <= 1
<1>1. CASE S = {}
    BY <1>1, FS_EmptySet
<1>2. CASE S # {}
    <2>1. PICK a \in S : TRUE
        BY <1>2
    <2>2. S = {a}
        BY <2>1 DEF AtMostOne
    <2>3. Cardinality({a}) = 1
        BY FS_Singleton
    <2> QED BY <2>2, <2>3
<1> QED BY <1>1, <1>2

\* The variables keep their types: what is displayed is nothing, one item or two, each
\* thread has one task, and a preview thread that threw has let go of its files.
THEOREM MediaTypeCorrect == MediaSpec => []MediaTypeOK
<1>1. MediaInit => PreviewTyped /\ DetachTyped
    <2> SUFFICES ASSUME MediaInit PROVE PreviewTyped /\ DetachTyped
        OBVIOUS
    <2>1. <<>> \in Shown(Item)
        BY NothingShown
    <2>2. PreviewTyped
        BY DEF MediaInit, PreviewTyped, AtMostOne
    <2> QED BY <2>1, <2>2 DEF MediaInit, DetachTyped, AtMostOne
<1>2. ASSUME HandlesInv, PreviewTyped, DetachTyped, [MediaNext]_mediaVars PROVE PreviewTyped' /\ DetachTyped'
    <2>1. CASE UNCHANGED mediaVars
        BY <1>2, <2>1 DEF mediaVars, detaching, previewing, decoders, closedEvents, mediaHistory, PreviewTyped,
                          DetachTyped
    <2>2. CASE MediaAct
        BY <1>2, <2>2, UserStaysTyped
    <2>3. CASE MediaWork
        BY <1>2, <2>3, DetachStaysTyped, ThreadStaysTyped DEF MediaWork
    <2> QED BY <1>2, <2>1, <2>2, <2>3 DEF MediaNext
<1>3. ASSUME HandlesInv, PreviewTyped, DetachTyped PROVE MediaTypeOK
    <2> USE <1>3 DEF HandlesInv, Types, PreviewTyped, DetachTyped
    <2>1. display \in Display
        BY DEF Display, Maybe
    <2>2. \A i \in 1..Len(tasks) : tasks[i] \in OpenTask \cup CloseTask
        BY ElementOfSeq DEF PlayerTask
    <2>3. \A i \in 1..Len(callbacks) : callbacks[i].kind = "opened" => callbacks[i].ses \in Session \cup {NoSession}
        <3>1. \A i \in 1..Len(callbacks) : callbacks[i] \in PlayerCallback
            BY ElementOfSeq
        <3> QED BY <3>1 DEF PlayerCallback, Maybe
    <2>4. Cardinality(target) <= 1 /\ Cardinality(slot) <= 1 /\ Cardinality(preview) <= 1
        BY HasOne
    <2> QED BY <2>1, <2>2, <2>3, <2>4 DEF MediaTypeOK, Phase, Maybe, Videos
<1> QED BY <1>1, <1>2, <1>3, HandlesInvariant, PTL DEF MediaSpec
=============================================================================
