----------------------------- MODULE FileHandles -----------------------------
(***************************************************************************)
(* Who has a media file open: the player with its session, the media       *)
(* preview with its decoders, and detach_file_handles, with which a        *)
(* command makes both let go before a tool works on the file.              *)
(*                                                                         *)
(* Sessions are opened and closed by the player's reading thread, in the   *)
(* order of its queue, and handed to their display through the UI queue.   *)
(* The preview thread has a slot for one task, which the next one takes    *)
(* the place of.  detach_file_handles waits for both on the UI thread, and *)
(* that wait runs the message loop: meanwhile the user goes on and the     *)
(* callbacks come in.                                                      *)
(***************************************************************************)
EXTENDS Naturals, FiniteSets, Sequences

CONSTANTS
    Video,          \* the items that can be played
    Other,          \* those that cannot
    MaxMediaActs    \* bound: what the user does

ASSUME HandlesAssumption == Video \cap Other = {} /\ MaxMediaActs \in Nat

Item == Video \cup Other

Session == [n : Nat \ {0}, item : Video]
NoSession == [n |-> 0]

VARIABLES
    display,    \* _display: its number, _item1 and _item2, _session
    phase,      \* what detach_file_handles is doing
    target,     \* detach_file_handles::_i, at most one item
    playable,   \* its _is_playable
    tasks,      \* av_player::_q
    playing,    \* _thread_session
    open,       \* the sessions whose decoder has its file open
    callbacks,  \* the UI queue
    slot,       \* next_media_preview, with at most one task
    woken,      \* media_preview_event
    preview,    \* what the preview thread runs, at most one task
    decoder1, decoder2, \* the items media_preview_state has open, at most one each
    alive,      \* the preview thread has not ended
    closedPlayer, closedPreview,    \* the two events detach_file_handles waits for
    opens,      \* the sessions that were asked for
    sure,       \* nothing came between this detach and its wait
    tardy,      \* a wait was given up
    orphans,    \* sessions whose display was gone when they were handed to it
    unopened,   \* a session could not be opened
    mediaActs   \* how much the user did

decoders == <<decoder1, decoder2>>
previewing == <<slot, woken, preview, decoders, alive>>
closedEvents == <<closedPlayer, closedPreview>>
detaching == <<phase, target, playable>>
mediaHistory == <<opens, sure, tardy, orphans, unopened>>
mediaVars == <<display, detaching, tasks, playing, open, callbacks, previewing, closedEvents, mediaHistory, mediaActs>>

\* What is displayed: nothing, an item, or two to be compared.
Shown(of) == {<<>>} \cup {<<i>> : i \in of} \cup {ij \in of \X of : ij[1] # ij[2]}

Display == [n : Nat, items : Shown(Item), ses : Session \cup {NoSession}]

OpenTask == [kind : {"open"}, ses : Session, to : Nat]
CloseTask == [kind : {"close"}, ses : Session, tell : BOOLEAN]

PreviewTask == [items : Shown(Video), kind : {"show", "close", "closeAndSet", "compute"}]

MediaTypeOK ==
    /\ display \in Display
    /\ phase \in {"none", "player", "preview", "tool"}
    /\ target \subseteq Item /\ Cardinality(target) <= 1 /\ playable \in BOOLEAN
    /\ \A i \in 1..Len(tasks) : tasks[i] \in OpenTask \cup CloseTask
    /\ playing \in Session \cup {NoSession} /\ open \subseteq Session
    /\ \A i \in 1..Len(callbacks) :
          callbacks[i].kind = "opened" => callbacks[i].ses \in Session \cup {NoSession}
    /\ slot \subseteq PreviewTask /\ Cardinality(slot) <= 1
    /\ preview \subseteq PreviewTask /\ Cardinality(preview) <= 1
    /\ decoder1 \subseteq Video /\ decoder2 \subseteq Video
    /\ ~alive => decoder1 \cup decoder2 = {}
    /\ woken \in BOOLEAN /\ closedPlayer \in BOOLEAN /\ closedPreview \in BOOLEAN
    /\ orphans \subseteq Session
    /\ phase \in {"player", "preview"} => playable
    /\ playable => target # {}

MediaInit ==
    /\ display = [n |-> 0, items |-> <<>>, ses |-> NoSession]
    /\ phase = "none" /\ target = {} /\ playable = FALSE
    /\ tasks = <<>> /\ playing = NoSession /\ open = {} /\ callbacks = <<>>
    /\ slot = {} /\ woken = FALSE /\ preview = {} /\ decoder1 = {} /\ decoder2 = {} /\ alive = TRUE
    /\ closedPlayer = FALSE /\ closedPreview = FALSE
    /\ opens = 0 /\ sure = FALSE /\ tardy = FALSE /\ orphans = {} /\ unopened = FALSE
    /\ mediaActs = 0

-----------------------------------------------------------------------------
(* Posts *)

\* av_player::open for display d, av_player::close
Opening(i, d) == [kind |-> "open", ses |-> [n |-> opens + 1, item |-> i], to |-> d]

Closing(tell) ==
    IF display.ses = NoSession THEN <<>> ELSE <<[kind |-> "close", ses |-> display.ses, tell |-> tell]>>

QueueMediaPreview(kind, items) ==
    /\ slot' = {[kind |-> kind, items |-> items]}
    /\ woken' = TRUE
    /\ UNCHANGED <<preview, decoders, alive>>

-----------------------------------------------------------------------------
(* Slips of the kind these steps invite, no part of Spec. *)

\* the previews are posted whether the handles are detached or not
AttachedAlways == TRUE

\* the session that was open is not opened again
ReopenedNever == <<>>

-----------------------------------------------------------------------------

\* df::file_handles_detached is 0
Attached == phase = "none"

\* Sessions that are to be opened, or were and have not reached their display.
OnTheirWay ==
    {tasks[i].ses : i \in {j \in 1..Len(tasks) : tasks[j].kind = "open"}}
        \cup ({callbacks[i].ses : i \in {j \in 1..Len(callbacks) : callbacks[j].kind = "opened"}} \ {NoSession})

-----------------------------------------------------------------------------
(* The user, on the UI thread: also while detach_file_handles waits *)

\* view_state::load_display_state, for a selection of none, one or two
LoadDisplay(items) ==
    /\ display' = [n |-> display.n + 1, items |-> items, ses |-> NoSession]
    /\ IF Len(items) = 1 /\ items[1] \in Video
       THEN /\ tasks' = tasks \o Closing(FALSE) \o
                   <<Opening(items[1], display.n + 1)>>
            /\ opens' = opens + 1
       ELSE tasks' = tasks \o Closing(FALSE) /\ UNCHANGED opens
    /\ sure' = FALSE
    /\ UNCHANGED <<detaching, playing, open, callbacks, previewing, closedEvents, tardy, orphans, unopened>>

\* change_tracks: another session for the same display
ChangeTracks ==
    /\ display.ses # NoSession
    /\ tasks' = Append(tasks, Opening(display.items[1], display.n))
    /\ opens' = opens + 1
    /\ sure' = FALSE
    /\ UNCHANGED <<display, detaching, playing, open, callbacks, previewing, closedEvents, tardy, orphans, unopened>>

\* load_hover_thumb of any item, load_seek_preview and load_compare_preview of those
\* displayed
ShowPreview(items) ==
    /\ Attached
    /\ QueueMediaPreview("show", items)
    /\ UNCHANGED <<display, detaching, tasks, playing, open, callbacks, closedEvents, opens, sure, tardy, orphans,
                   unopened>>

\* calc_pixel_difference, when the picture of one of two items has changed
PixelDifference ==
    /\ Len(display.items) = 2
    /\ QueueMediaPreview("compute", <<>>)
    /\ UNCHANGED <<display, detaching, tasks, playing, open, callbacks, closedEvents, opens, sure, tardy, orphans,
                   unopened>>

-----------------------------------------------------------------------------
(* detach_file_handles *)

Item1 == IF display.items = <<>> THEN {} ELSE {display.items[1]}

\* A session is closed, and so is the preview; without a session nobody waits.
Detach ==
    /\ phase = "none"
    /\ target' = Item1
    /\ playable' = (display.ses # NoSession)
    /\ IF display.ses # NoSession
       THEN /\ tasks' = tasks \o Closing(TRUE)
            /\ QueueMediaPreview("closeAndSet", <<>>)
            /\ closedPlayer' = FALSE /\ closedPreview' = FALSE
            /\ sure' = (~tardy /\ \A s \in OnTheirWay \cup open : s.item \in Item1 => s = display.ses)
            /\ phase' = "player"
       ELSE /\ QueueMediaPreview("close", <<>>)
            /\ phase' = "tool"
            /\ UNCHANGED <<tasks, closedEvents, sure>>
    /\ UNCHANGED <<display, playing, open, callbacks, opens, tardy, orphans, unopened>>

\* the wait for the player ends, and then the one for the preview: with the event or
\* after ten seconds without one message
PlayerClosed ==
    /\ phase = "player"
    /\ phase' = "preview"
    /\ IF closedPlayer THEN UNCHANGED <<sure, tardy>> ELSE sure' = FALSE /\ tardy' = TRUE
    /\ UNCHANGED <<display, target, playable, tasks, playing, open, callbacks, previewing, closedEvents, opens, orphans,
                   unopened>>

PreviewClosed ==
    /\ phase = "preview"
    /\ phase' = "tool"
    /\ QueueMediaPreview("close", <<>>)
    /\ IF closedPreview THEN UNCHANGED <<sure, tardy>> ELSE sure' = FALSE /\ tardy' = TRUE
    /\ UNCHANGED <<display, target, playable, tasks, playing, open, callbacks, closedEvents, opens, orphans, unopened>>

\* ~detach_file_handles: if the item is displayed its session is opened again
Reopened == <<Opening(CHOOSE i \in target : TRUE, display.n)>>

Attach ==
    /\ phase = "tool"
    /\ IF playable /\ Item1 = target
       THEN tasks' = tasks \o Reopened /\ opens' = opens + 1
       ELSE UNCHANGED <<tasks, opens>>
    /\ phase' = "none" /\ target' = {} /\ playable' = FALSE /\ sure' = FALSE
    /\ UNCHANGED <<display, playing, open, callbacks, previewing, closedEvents, tardy, orphans, unopened>>

\* or its file is there no more: nothing is selected, and view_state::close; then the
\* display follows the selection
AttachGone ==
    /\ phase = "tool" /\ target # {} /\ Item1 = target
    /\ tasks' = tasks \o Closing(FALSE) \o Closing(FALSE)
    /\ QueueMediaPreview("close", <<>>)
    /\ display' = [n |-> display.n + 1, items |-> <<>>, ses |-> NoSession]
    /\ phase' = "none" /\ target' = {} /\ playable' = FALSE /\ sure' = FALSE
    /\ UNCHANGED <<playing, open, callbacks, closedEvents, opens, tardy, orphans, unopened>>

-----------------------------------------------------------------------------
(* The callbacks *)

\* update_av_session; or the event is set
RunCallback ==
    /\ callbacks # <<>>
    /\ callbacks' = Tail(callbacks)
    /\ LET c == Head(callbacks) IN
       \/ /\ c.kind = "opened" /\ c.to = display.n
          /\ display' = [display EXCEPT !.ses = c.ses]
          /\ UNCHANGED <<closedPlayer, orphans>>
       \/ /\ c.kind = "opened" /\ c.to # display.n
          /\ orphans' = orphans \cup ({c.ses} \ {NoSession})
          /\ UNCHANGED <<display, closedPlayer>>
       \/ /\ c.kind = "closed"
          /\ closedPlayer' = TRUE
          /\ UNCHANGED <<display, orphans>>
    /\ UNCHANGED <<detaching, tasks, playing, open, previewing, closedPreview, opens, sure, tardy, unopened>>

-----------------------------------------------------------------------------
(* The player's reading thread *)

\* open_impl
OpenSession ==
    /\ tasks # <<>> /\ Head(tasks).kind = "open"
    /\ tasks' = Tail(tasks)
    /\ LET t == Head(tasks) IN
       \E result \in {t.ses, NoSession} :
          /\ open' = open \cup ({result} \ {NoSession})
          /\ playing' = result
          /\ callbacks' = Append(callbacks, [kind |-> "opened", ses |-> result, to |-> t.to])
          /\ unopened' = (unopened \/ result = NoSession)
    /\ UNCHANGED <<display, detaching, previewing, closedEvents, opens, sure, tardy, orphans>>

\* close_impl
CloseSession ==
    /\ tasks # <<>> /\ Head(tasks).kind = "close"
    /\ tasks' = Tail(tasks)
    /\ LET t == Head(tasks) IN
       /\ open' = open \ {t.ses}
       /\ playing' = IF playing = t.ses THEN NoSession ELSE playing
       /\ callbacks' = IF t.tell THEN Append(callbacks, [kind |-> "closed"]) ELSE callbacks
    /\ UNCHANGED <<display, detaching, previewing, closedEvents, opens, sure, tardy, orphans, unopened>>

\* ~av_session, once the decoding threads have seen that another one is played
Loose == open \ (OnTheirWay \cup {playing, display.ses} \cup {tasks[i].ses : i \in 1..Len(tasks)})

LetGo ==
    /\ \E s \in Loose : open' = open \ {s}
    /\ UNCHANGED <<display, detaching, tasks, playing, callbacks, previewing, closedEvents, opens, sure, tardy,
                   orphans, unopened>>

-----------------------------------------------------------------------------
(* The preview thread *)

TakePreview ==
    /\ alive /\ woken /\ preview = {}
    /\ woken' = FALSE
    /\ preview' = slot /\ slot' = {}
    /\ UNCHANGED <<display, detaching, tasks, playing, open, callbacks, decoders, alive, closedEvents, opens, sure,
                   tardy, orphans, unopened>>

\* open1 and open2; a file that cannot be opened leaves no decoder in its place
RunPreview ==
    /\ \E t \in preview :
          /\ \/ /\ t.kind = "show"
                /\ decoder1' \in {{t.items[1]}, {}}
                /\ IF decoder1' = {} \/ Len(t.items) = 1
                   THEN UNCHANGED decoder2
                   ELSE decoder2' \in {{t.items[2]}, {}}
             \/ t.kind \in {"close", "closeAndSet"} /\ decoder1' = {} /\ decoder2' = {}
             \/ t.kind = "compute" /\ UNCHANGED decoders
          /\ closedPreview' = (closedPreview \/ t.kind = "closeAndSet")
    /\ preview' = {}
    /\ UNCHANGED <<display, detaching, tasks, playing, open, callbacks, slot, woken, alive, closedPlayer, opens,
                   sure, tardy, orphans, unopened>>

\* the catch is outside the loop
PreviewThrows ==
    /\ \E t \in preview : t.kind \in {"show", "compute"}
    /\ preview' = {} /\ decoder1' = {} /\ decoder2' = {} /\ alive' = FALSE
    /\ UNCHANGED <<display, detaching, tasks, playing, open, callbacks, slot, woken, closedEvents, opens, sure, tardy,
                   orphans, unopened>>

\* five seconds without a task
PreviewIdles ==
    /\ alive /\ ~woken /\ preview = {} /\ decoder1 \cup decoder2 # {}
    /\ decoder1' = {} /\ decoder2' = {}
    /\ UNCHANGED <<display, detaching, tasks, playing, open, callbacks, slot, woken, preview, alive, closedEvents,
                   opens, sure, tardy, orphans, unopened>>

-----------------------------------------------------------------------------

MediaAct ==
    /\ mediaActs < MaxMediaActs
    /\ mediaActs' = mediaActs + 1
    /\ \/ \E items \in Shown(Item) : LoadDisplay(items)
       \/ ChangeTracks \/ PixelDifference \/ Detach
       \/ \E items \in Shown(Video) \ {<<>>} : (Len(items) = 1 \/ items = display.items) /\ ShowPreview(items)

MediaWork ==
    /\ \/ PlayerClosed \/ PreviewClosed \/ Attach \/ AttachGone \/ RunCallback
       \/ OpenSession \/ CloseSession \/ LetGo
       \/ TakePreview \/ RunPreview \/ PreviewThrows \/ PreviewIdles
    /\ UNCHANGED mediaActs

MediaNext == MediaAct \/ MediaWork

MediaSpec == MediaInit /\ [][MediaNext]_mediaVars

-----------------------------------------------------------------------------

\* While a tool works on the item that was played, no session and no preview has its
\* file open: unless the wait was given up, a session was on its way already, or the
\* user selected or changed the tracks meanwhile.
HandlesReleased ==
    (phase = "tool" /\ sure) => /\ \A s \in open : s.item \notin target
                                /\ (decoder1 \cup decoder2) \cap target = {}

\* When nothing is on its way any more the display has the session that is played, and
\* that one alone has its file open; without one only a session that came for a display
\* that was gone is played, and nobody stops that one.
SessionSettles ==
    (phase = "none" /\ tasks = <<>> /\ callbacks = <<>> /\ Loose = {}) =>
        /\ display.ses # NoSession => playing = display.ses /\ display.ses \in open
        /\ playing \in {display.ses} \cup orphans \cup {NoSession}
        /\ open = {playing} \ {NoSession}
        /\ (Len(display.items) = 1 /\ Item1 \subseteq Video /\ ~unopened) => display.ses # NoSession
=============================================================================
