# A verification development for Diffractor

Diffractor is a photo and video organizer for Windows. The user interface runs on
one thread; behind it a dozen threads index folders, keep a cache database, load
images, decode and play media, and change files. They share memory and talk to each
other through task queues and events, mostly without locks on the data itself. This
directory has TLA+ models of the parts where that matters, the TLC configurations
that check them on small instances, and theorems about them that TLAPS has proved for
every instance. Every definition was translated from the source; `PROJECT.json`
("map") names the lines each one stands for. Paths below are relative to the
repository's `src/` directory (so `app.cpp` is `src/src/app.cpp` seen from here).

Contents

1. The system: components, state, operations, interactions
2. The hard behaviours
3. The modules, and how they correspond to the code
4. The runs: what each checks, its bounds and why they are enough
5. Fairness
6. What is proved
7. What the models show about the code
8. What is not modelled
9. The plan

## 1. The system

### Threads

| thread | started in | serves |
|---|---|---|
| UI | `platform_win_ui.cpp` message loop | `_ui_queue`, input, the frame timer (`complete_pending_events`, presenting) |
| work, load, load-raw, render, query, locations, sidebar, web, cloud ... | `app.cpp:992` `start_worker`, `app.cpp:3737` `start_workers` | one `task_queue` each |
| index | `app_frame::start_workers` | `index_task_queue` (first task, scans, reindexes) |
| deferred index workers (seven) | `scan_uncached_func` (`app.cpp:3747`) when the init is complete | crc, predictions, summary, presence, three scan queues |
| database | `app.cpp:882` `start_database` | opening, loading, `_db_task_queue`, queued writes |
| media preview | `app.cpp` `start_media_preview` | a slot with one task; keeps two decoders |
| media reader | `av_player` | opens and closes sessions, seeks, `process_io` |
| audio, video decoder | `av_player` | one stream each |

### Components

For each: the state it keeps, its operations, what makes it correct.

**Task queues and worker threads** (`platform.h:480`-`620`, `app.cpp:992`). State: a
deque under a lock, an auto-reset event, the batch each worker took, `is_closing`,
`event_exit`. Operations: `enqueue`, `reset_and_enqueue`, `dequeue_all`, the loop
of `start_worker` with its `catch`. Correct when no posted task waits for an
event nobody will signal, none is run twice, they run in order, what is discarded
is discarded for a reason, and the workers end. All other components stand on it.

**Start-up and indexing protocol** (`app.cpp:1740`-`1810`, `3737`-`3815`,
`model_index.cpp:1351`, `1993`). State: the two flags of `is_init_complete`, the
`index_version` behind every `cancel_token`, `view_invalid::index`, the index
queue, which folders are in the collection, which files are to be scanned.
Correct when the callback that comes last starts the scan and the deferred workers,
and when all is quiet the collection is whole and scanned, but for the files whose scan
failed.

**Item index and cache database** (`model_index.*`, `model_db.*`). State: per
folder a node with an entry for each file (metadata, scan date, modification
date), the queued writes, the committed rows. Operations: listing a folder
(`validate_folder`), scanning a file (`scan_item`), saving a location into metadata that
others share, merging the database's rows, committing, compacting, restart. Correct when
an entry that counts as up to date has the file's metadata, in memory and in the database.

**File update** (`files_core.cpp:1690`-`1900`, `metadata_xmp.cpp`). State: the photo,
its sidecar, the temporary files, the backup. One operation, `files::update`, whose
every call may fail. Correct when the photo survives whatever happens, a failure
leaves it as it was, its metadata outlive an edit and the first original is kept.

**Sync and import** (`app_util.cpp:150`-`640`, `view_import.cpp:480`-`640`,
`model_db.cpp`). State: what each place has, what the analysis saw and decided, the
table of imported items. Correct when the copy does what the analysis listed, what was
imported is not imported again, and what was moved is not overwritten by an older file.

**View search and selection, history** (`model.cpp:2560`-`2760`, `model.h:219`). State:
the search, the history with its position, the items shown, the flags of those
selected, the query queue, the results on the UI queue, the folder that is watched.
Correct when the page comes to show what is in its folder, and a selection follows the
items through refreshes and moves.

**Image loading and display state** (`model.cpp:2980`-`3120`, `app.cpp:2440`-`2500`).
State: a texture with the time of its load, what was loaded, staged and drawn, and the
setting that says whether previews are wanted. Loads, raw renderings and surfaces come
from three threads. Correct when the photo that is in
the file is on the screen in the end.

**Media preview and file handles** (`model.cpp:250`-`340`, `app.cpp:940`-`990`,
`av_player.h:780`-`1010`). State: the reader's queue and sessions, the preview's slot,
event and decoders, the two events of `detach_file_handles`. Correct when no decoder
has a file open while a tool works on it, and when the session that is displayed is the
one that is played.

**Media playback session** (`av_player.h`, `av_format.*`, `av_sound.h`). State: the
generation counted by seeks, packet and frame queues, what the codecs hold back,
the audio buffer, the clock and the flags that say it has to be set anew.
Operations: seek, read, decode, fill and play sound, show a picture, play and
pause. Correct when nothing from before a seek passes for the new place, and the
clock and the picture come to be those of the last seek.

**UI message loop and nested waits** (`platform_win_ui.cpp:8692`). `ui_wait_for_signal`
runs the message loop inside a callback. The wait of `detach_file_handles` is part of
its component above.

**Database thread loop** (`app.cpp:882`-`930`, `model_db.cpp:833`), **locations and the
k-d tree**, **wildcard selectors and search terms**, **crash-file database**, and
**settings, commands and dialogs, views and controls, rendering, metadata parsers,
image formats, web services, text and other utilities, the platform layer,
application texts, tests**: see section 8.

### How they interact

```
  UI thread --- reset_and_enqueue / enqueue ---> index, query, load, raw, render queues
     ^   ^                                          |
     |   +---------- _ui_queue callbacks -----------+
     |                                              |  nodes and entries
     |  merge_folder (rows)                         v  (no lock on an entry)
  database thread <------ _db_writes -------- index_state <--- scanners
     |   ^
     |   +-- item_imports --- work thread: import, sync, update ---> files
     +-- index_loaded_func (callback)                ^
                                                     | detach_file_handles
  UI thread --- open, close, play, seek ---> av_session <--- reader, audio, video threads
     +--------- slot ---> media preview
```

`TaskQueue` is the mechanism the arrows at the top stand for. `IndexStartup` is the
protocol that runs over them, and takes from `TaskQueue` that posts are taken in
order and in batches. `ItemStore` is what the scans of that protocol do to one
file's entry. `Browse` asks the index for the items of a page, `Texture` and
`FileHandles` show those that are selected; `MediaSession` is one session that
`FileHandles` opened. `FileUpdate`, `Sync` and `Import` are tasks of the work thread.

## 2. The hard behaviours

`PROJECT.json` ("hazards") lists them at their lines. In short:

- **Check, then act, without a lock.** An entry's metadata and its scan date are two
  stores and two loads; `_pending_time_sync`, `_reset_time_offset` and `_seek_gen` are
  read and written by three threads, one at a time.
- **Two steps that belong together.** The append and the event; the empty packet and
  the clear of the queue; the walk and its cancel token; the two replacements of a photo
  and its sidecar.
- **Stale copies.** A scan publishes into a node that has been replaced since; a
  decoder holds a packet of the generation before; a place is saved into metadata that was
  read anew since it was asked for; a query finds objects that a later one has replaced; a
  sync copies what it saw before somebody changed it.
- **Who comes last.** Two callbacks race to complete the init; rows arrive while the
  folders are walked; a session is handed to a display that has been replaced; a
  rendering arrives after a newer load.
- **What nobody repeats.** A reindex that is cancelled, a pending flag nobody clears, a
  task discarded with its callback, a scan that failed, a raw rendering thrown out of its
  queue.
- **Waiting in a callback.** While `detach_file_handles` waits the user selects something
  else and the callbacks of what he did run.
- **Crash and restart.** Queued writes are lost, rows that were written are believed; an
  update ends between its two replacements.
- **Failure.** A task that throws takes its batch with it; a scan, a listing, a copy or
  any call of an update fails; the database does not open.

## 3. The modules

| module | component | what it is |
|---|---|---|
| `TaskQueue` | task queues and workers | one queue, its event, its posters, its workers, the window's close |
| `Mailbox` | | what a queue promises its posters, without event and batch |
| `TaskQueueMailbox` | | the refinement mapping from `TaskQueue` to `Mailbox` |
| `IndexStartup` | start-up and indexing protocol | work, database, UI and index thread, the window's close |
| `ItemStore` | item index and cache database | one file's entry, row and queued write; scanners, location look-up, database thread |
| `FileUpdate` | file update | one photo, its sidecar, its temporary files and its backup, through edits, failures and crashes |
| `Sync` | sync | local roots and a remote folder; analysis, then one copy or deletion at a time |
| `Import` | import | sources, destination and the table of imports; UI, database and work thread |
| `FileTools` | | update, sync and import side by side, for TLC |
| `Browse` | view search, selection, history | UI thread, query thread, monitor, user |
| `Texture` | image loading and display | UI thread; load, raw and render threads |
| `FileHandles` | media preview and file handles | UI thread with the wait of a detach; the player's reader, the preview thread |
| `View` | | the page, the pictures and the media of what is selected side by side, for TLC |
| `MediaSession` | media playback session | reader, decoders, audio thread, UI thread, user |
| `..._proofs` | | the theorems about the module they are named after; `Files_proofs` is about `FileUpdate`, `Sync` and `Import`, `View_proofs` about `Texture` |
| `MC...` | | instances for TLC: symmetry sets, views, sets of streams |

In each module the definitions under "Slips of the kind these steps invite" are no
part of `Spec`. Each is a plausible wrong version of one definition (an event that is
not set, an off-by-one, a dropped reset), kept so that every property can be checked
against a wrong program as well (`PROJECT.json`, "mutants"): a property that did not
notice its slip would say nothing.

An action is one step between two points where another thread can get in: a lock's
release, an event, or a plain load or store that another thread's step depends on.

### TaskQueue

| variable | code |
|---|---|
| `storage` | `queue::_storage` |
| `event` | `task_queue::_event` (auto-reset) |
| `posting` | a caller that has appended and has not reached `_event.set()` |
| `closing`, `exitEvent` | `df::is_closing`, `platform::event_exit` |
| `pc`, `batch` | where a worker is in `start_worker`; what `dequeue_all` gave it, less what it has run |
| `fate` | history: what became of each task |

`Enqueue`/`ResetAndEnqueue` are the locked halves of the two posts, `SetEvent` what
ends both. `TestClosing`, `WakeForTasks`, `WakeForNothing`, `DequeueAll`, `BeginTask`,
`TaskReturns`, `TaskThrows`, `EndBatch` are the steps of the worker's loop. A task may
post (`CanPost`) and may throw. Tasks are distinct closures: `fate[t] = "new"` guards a
post because a closure is made for it.

`Mailbox` says what the posters rely on: letters in order; a server takes all the mail
there is in hand and serves it one letter at a time; a latest letter removes what nobody
has in hand; a failure loses the rest of what that server has in hand, and nothing
else. The mapping: the mail is the deque, what a server has in hand its worker's batch,
a server is serving while its worker is in a task, a letter is sent once its task is
not new.

### IndexStartup

`WorkThread` is `start_workers`, `DatabaseThread` is `start_database` up to the end of
the load, `UiThread` the passes of `complete_pending_events` with the callbacks they
run, `IndexThread` the index queue's worker with the bodies of its tasks, one step per
folder walked or scanned. `idxToken` is the token the current task goes by; a token is
cancelled when `version` is another. A folder stands for itself and its files. A
cancelled walk keeps what it has taken out: `WalkFirst` and `WalkAgain` take every
folder out of the collection, as `index_folders` does before its loop. A folder's scan
succeeds (`ScanFolder`) or fails (`ScanFails`): a file that cannot be read, or that is in
the list of crash files, keeps the scan date it had and is still to be scanned.
`IndexTaskThrows` is the `catch` of `start_worker`: the task ends wherever it is, and the
rest of its batch with it, the first task's callback included. `early`, `failed` and
`lost` are histories: an invalidation came before the index was up, these folders have a
file whose last scan failed, a walk or a scan went down with a task.

### ItemStore

`node`, `cur` and `held` are the folder's nodes, the one in the index, and those the
threads hold; `work` a thread's local copies. `CopyMetadata` and `CopyScannedAndReplace`
are the two copies `validate_folder` makes of an entry, `PublishScanned` and
`StoreMetadata` the two stores of `scan_item`, `MergeMetadata` and `MergeScanned` those of
`merge_folder`, `LocateRead`, `LocateEmpty`, `LocatePlace`, `LocateDate` and `LocateWrite` the
steps of `save_location`. `pending` is the last of the queued writes of the file: a batch is
committed in one transaction and each write replaces the whole row, so that only the
last counts. `Restart` is a crash or an exit at any point: memory and the queue are
gone, the row stays.

Metadata is a reference: the version of the file it was read from (`of`, which never
changes), and which object it is (`at`). Entries, copies of entries and queued writes
share objects, and `places` has what changes in an object: the version whose coordinates
its place was looked up for. A look-up is asked for with the coordinates of one version
and saved whenever it is done into the object the entry has by then, as the code does,
so that metadata of a newer version may come to have an older version's place; `misplaced`
says that it happened. A write packs its object when it is performed and not when it is
queued.

### FileUpdate

`disk` is the files there are (the photo, the name it is saved under, the backup, the
temporary file, the sidecars), each the set of the edits that are in it, or torn. `pc`
goes through `files::update`: render, create the temporary file, fill or copy it, read
the metadata there are, put and flush the new ones with the XMP library (into the file
or a sidecar, `Source`, `TargetSidecar`, `DstSidecar`), replace the photo, replace the
sidecar. Each call has its failing action; `Catch` is the `catch` with its clean-up,
`Crash` the end of the program anywhere. `saved` and `noted` are histories: the edits of
which an update said OK.

### Sync

`tree[p][f]` is a file's date at a place, root or remote. `ListRoot` and `ListRemote` are
the two halves of `sync_analysis`. A listing leaves files out (`Visible`): hidden ones,
which `can_show_file` skips in a folder that was listed, and those of a folder that is
hidden or excluded or cannot be opened. Which ones is any set, at each place anew.
`Decided` its decision per file, `Perform` and `PerformFails` one file of `sync_copy`,
`Change` another program. `unlisted` (something was left out), `changed`, `undone` and `twins` are histories that
say what went wrong in this run.

### Import

`Ask` is `import_view::run` up to its wait, `CancelRun` the close of its dialog,
`LoadItemImports` and `WritesItemImports` the tasks of the database thread. `Analyse`,
`AnalyseItem` and `Analysed` are `import_analysis`, file by file, so that a cancel can cut
it off; the entries it makes are `plan`. `Skip`, `Copy` and `NotCopied` are one entry of
`import_copy`: it is not to be imported, it is copied or moved, it fails. `Complete` and
`PostImports` are the two ends of the run: the interface goes on at the first, the records
are posted at the second. `EditSource` and `Discard` are other programs. `gen` is
`cancel_gen`; `known` in a run is a history, and so is `moved`: what has been moved to a
name and has no source any more, until somebody discards it or the run that moved it puts
another file of that name over it (section 7, finding 5).

### Browse

| variable | code |
|---|---|
| `search`, `entries`, `pos` | `_search`, `history_state` (position counted from 1) |
| `shown`, `flagged`, `selected` | `_search_items`, the flag of each item object, `_selected` |
| `listDue`, `refreshDue` | `view_invalid::selection_list`, `refresh_items` |
| `queries`, `running`, `results` | the query queue, the query that has listed its folder, its callback |
| `monitored`, `signalled` | the folder monitor |
| `wanted`, `unsure`, `unseen`, `refused` | histories for the properties |

An item is an object for a file: a query finds the object that was shown when it was
posted or makes a new one, whose flag is clear. `Opened` is `view_state::open` with the
history and the query; `ShowAnswer` is `append_items` with the selection and the watch;
`UpdateSelection`, `Refresh` and `FolderChanged` are the idle work. A cancelled query
answers with any part of what it found.

### Texture

`RefreshTexture`, `TakeLoaded`, `TakeSurface` and `Draw` are the UI thread's steps on a
`texture_state`; `LoadReads`/`LoadEnds`, `RawReads`/`RawEnds` and `Render` the three
threads, a read separate from the post of its result. `ResetAndEnqueue` is what the raw
queue does with what waits. A picture is the version of the file it was read from and
whether it is the full rendering.

`timestamp` is `_photo_timestamp`, the time of the last load. `OutOfDate` is the test of
`refresh`, which compares it with the modification date of the item and with the date of
its thumbnail, so that a photo is also loaded again when its thumbnail was (`ThumbnailScanned`).
A write of the file (`FileWritten`) gives it any date up to the time: a file that is replaced
by one with an older date is not loaded again. `ShowRaw` is "Show this RAW photo" and
"Always show RAW photos" of the menu, `SetPreview` "Always show preview" and the command
that turns the setting over; both change `setting.raw_preview`, and what is on other
photos stays there. `since`, `failed`, `dropped`, `overtaken`, `missed` (the last write has
a date that is not after the last load) and `kept` (the preview came when previews were
wanted) are histories.

### FileHandles

`display` is the number of the display, its items and its session: a new display is a
new number. `tasks`, `playing` and `open` are the reader's queue, `_thread_session` and
the sessions with an open decoder; `callbacks` the UI queue; `slot`, `woken`, `preview`,
`decoder1` and `decoder2` the media preview. `phase` is where `detach_file_handles` is:
waiting for the player, waiting for the preview, or in the tool that asked for it. The
user's acts (`LoadDisplay`, `ChangeTracks`, `ShowPreview`, `PixelDifference`) and `RunCallback`
are enabled in all phases, because the waits run the message loop. `LetGo` is the end of
a session nobody refers to. `Attach` and `AttachGone` are the destructor. `sure`,
`tardy`, `orphans` and `unopened` are histories.

### MediaSession

`SeekDecoder` ... `AskForSync` are the steps of `av_session::seek` on the reader thread,
`ReadPacket` and `ReadEof` are `process_io`, `VideoPop`/`VideoDecode` and
`AudioPop`/`AudioDecode` the two halves of `receive_frames` (between them a packet is in
nobody's queue): a packet of the end becomes a frame of the end and no codec hears of it
(`DecodeEof`), the empty packet of a seek clears the frames and flushes the codec
(`DecodeFlush`), and any other is sent to the codec (`SendPacket`), which then gives out all
the frames it does not keep for the next packet, one by one (`ReceiveFrame`). `AudioTop` ... `AudioSync` the loop of the audio thread, `UiDecide` ...
`UiSync` the steps of `update_for_present`. A place in the media is named after the
generation that seeks to it; a frame is wrong when its content is of another place
than its generation. `codec` is what a codec has accepted and not given out, in its order; how
many frames it keeps and how many a packet has is part of the file (`heldBack`,
`perPacket`). `device` says whether there is an audio device: `NewDevice` may fail, and then
none is tried again in the session.

### Compositions

`FileTools` and `View` put three components each side by side so that one run checks all
three. The initial state chooses one, a behaviour is that one's from its beginning to its
end, and the others stay where they begin. Nothing is claimed of an update that follows
an import, or of a page that changes while its photos load: the theorems are about the
components alone.

## 4. The runs

State counts are distinct states; times are on two cores.

| run | module, cfg | checks | size |
|---|---|---|---|
| `queue_workers` | `MCTaskQueue`, `TaskQueue_two.cfg` | `TypeOK` `NoLostWakeup` `EachTaskOnce` `RunsOnce` `EveryTaskSettles` `WorkersStop` `ImplementsMailbox` | 40,693, 20 s |
| `startup` | `MCIndexStartup`, `IndexStartup_all.cfg` | `TypeOK` `CollectionSettled` `ScanSettled` `DormantOnlyIfLost` `DeferredStart` `ComesToRest` | 213,862, 41 s |
| `startup_reindex_race` | `MCIndexStartup`, `IndexStartup_race.cfg` | `EarlyCollectionSettled`, violated | |
| `store_scans` | `MCItemStore`, `ItemStore_scans.cfg` | `TypeOK` `FreshEntry` `MissingOnlyIfFailed` `HonestRow` | 826,381, 150 s |
| `store_torn_copy` | `MCItemStore`, `ItemStore_stale.cfg` | `NeverStale`, violated | |
| `files` | `MCFiles`, `Files_tools.cfg` | `TypesOK` `PhotoSurvives` `FailedLeavesPhoto` `EmbeddedMetadataKept` `OriginalIsKept` `SyncSettles` `LabelsHoldWhenListed` `ImportedOnce` `MovedIsKept` `OverwritesNewerOnce` | 2,611,137, 92 s |
| `sync_labels` | `Sync`, `Sync_labels.cfg` | `LabelsHold`, violated | |
| `import_overwrites` | `MCImport`, `Import_over.cfg` | `OverwritesOnlyNewer`, violated | |
| `view` | `MCView`, `View_page.cfg` | `TypesOK` `ShownSettles` `SelectionFollows` `HistoryFollows` `PictureIsCurrent` `HandlesReleased` `SessionSettles` | 1,763,041, 113 s |
| `raw_shown` | `Texture`, `Texture_raw.cfg` | `RawIsShown`, violated | |
| `media_play` | `MCMediaSession`, `MediaSession_play.cfg` | `TypeOK` `OldSoundIsFirst` `FramesAreWhereTheySay` `ShowsTheSeek` `ClockFollowsSeek` `SoundIsHeeded` | 173,502, 106 s |
| `media_heard` | `MCMediaSession`, `MediaSession_heard.cfg` | `HeardIsWhereItSays`, violated | |

Bounds, and why the interesting cases are inside them:

- `queue_workers`: three tasks, one producer, two workers. Two tasks make a batch and a
  rest, the third is posted behind a batch another worker holds, or supersedes; with
  two workers an event can wake one for what the other has taken. Tasks post too, so
  that a worker is a producer as well and two posts can be between append and event.
- `startup`: two folders, so that a walk or scan can be cut between them; any subset of
  them cached; any of them changed, or failing to be scanned, at any time; tasks that throw
  at any step. One invalidation (`MaxReindex`), at any step of everybody, is enough for a
  reindex to meet the first task, both callbacks and a load; a second one can only meet
  the first one's task as that met the first task's (1.7 million states, no violation),
  and the theorems are for any number.
- `store_scans`: a clock of two ticks (`MaxClock`) is a file that changes once, at any
  step, including the same tick as a scan; a third tick only adds a second change. Three
  settings share the run: maintenance and a restart; a location look-up, of the version
  that may have changed when the place comes, with maintenance; and two scanners. One
  look-up waits at a time, which with a change of the file between its read and its save is
  the case that matters; more of them, and a restart together with one, are left to the
  theorems. `View` makes states equal that differ
  in the numbers of their nodes and objects only: they are told apart only by who uses
  them. `Calm` stops where two threads have been inside one entry at once: the
  invariants say nothing of what follows, and `store_torn_copy` shows why.
- `files`: three edits (`MaxEdits`), so that an edit follows one that failed and one that
  left a sidecar; two roots and the remote, two files and two dates, so that each order of
  older and newer occurs, with any of the files left out of each listing; two imports
  (`MaxRuns`) of a photo with its sidecar and of another photo with the same name.
- `view`: two pages with the files on one of them (moving away and back, and refreshing,
  are the cases that matter), two files, a history of two entries so that it overflows,
  two pending queries and five acts; two photos (what is thrown out of the raw queue needs
  two) with two ticks of the time (`MaxTime`: a write may be dated before, at and after the
  last load) and one event (`MaxEvents`) of a write, a thumbnail, a request for a rendering
  or a change of the setting, at any step of the loads that come first; two videos and another item with four
  acts, enough for a session, its detach, and two selections during the wait. With five
  acts the media part alone (4.87 million states) shows nothing new.
- `media_play`: two files, one with sound, whose codec keeps nothing, and one with a
  picture, whose packets have up to two frames and whose codec keeps one of them. `QueueSize`
  is 16 in the code and 1 here, `Capacity` 4 and 2 here: with a short queue full and empty
  queues are the common case. `MaxPackets` 1 cuts a queue off that the code lets grow
  without bound (section 7). `MaxGen` 2: the opening counts as the first seek, so that
  there is one seek into the play, at any step of everybody; the theorems are for any
  number. A file with both streams is left to the theorems too.

`CHECK_DEADLOCK FALSE` is set where the system may stop: a queue whose tasks are all
posted and settled and whose workers have left; a start-up that was closed; a session
at the bound of its seeks and at the end of the media; a user at the bound of his acts.

Symmetry is used only in runs without liveness properties.

## 5. Fairness

- `TaskQueue`: weak fairness of `SetEvent` for each caller and of each worker's step as a
  whole, and of `SetExitEvent` after `StartClosing`. The threads are the system's; a
  caller that has appended does nothing but set the event; `start_worker` waits at most
  ten seconds. That a task ends is assumed (weak fairness of the step after
  `BeginTask`): the tasks are loops with a cancel token, or single loads. Nothing makes
  anybody post or close the window.
- `IndexStartup`: weak fairness of each of the four threads as a whole. The frame timer
  keeps the UI's passes coming. No fairness for invalidation or close.
- `MediaSession`: weak fairness of each thread; each waits for its event for at most 50
  or 100 ms. Strong fairness of single steps: that a device that plays makes room
  again and again (`AudioWrite` of something), that the audio thread's inner loop
  ends (`AudioCheck` towards `play`; the loop counts `max_loop_iteration`), and that of the
  packets sent to a codec again and again some have frames (`SendPacket`): a codec that
  refuses every packet shows nothing. No fairness for the user, nor for the device.
- The other modules state safety only and have no fairness. Where they say what comes
  about "in the end" it is a property of the states in which nothing is on its way.


## 6. What is proved

TLC checks the instances of section 4. The theorems below hold for every value of the
constants: any number of files, folders, threads, queue sizes, dates, acts. Each invariant
and each action property of a passing run is stated by one of them (`TypesOK`, of the
compositions, by those of its three parts); what is left to TLC is liveness. A module's proofs go from one inductive invariant, or from a few in layers (types
first, then what they mean), each with its steps proved action by action.

| module | theorems | the invariant, and why it is needed |
|---|---|---|
| `TaskQueue_proofs` | `TypeCorrect`, `WakeupsAreKept`, `TasksAreInOnePlace`, `NoTaskRunsTwice`, `QueueIsMailbox` | `TypeOK`, `NoLostWakeup` and `EachTaskOnce` are inductive together. A post makes the deque non-empty and puts the caller between append and event; a worker resets the event only to go to `dequeue_all`, which empties the deque into a batch that is empty whenever its worker is not in the loop. `QueueIsMailbox` is the refinement: every step of a queue is one of `Mailbox` or none |
| `IndexStartup_proofs` | `StartupInvariant`, `CollectionIsWhole`, `OnlyFailedLeftToScan`, `OnlyLostIsDormant` | `StartupInv`: `Stages` and `FirstIsTold` say where the threads and the first task are; from them, whatever is still missing has somebody under way who will see to it, or failed, or was lost with a task: the deferred workers a callback, unless the first task was thrown away or threw (`DeferredIsDue`), unscanned files a flag, a callback or a task whose token holds (`FilesAreScanned`), the collection a walk that no other token overtakes (`WalksAreCurrent`) |
| | `TypeCorrect` | `CountInv`, above `StartupInv`: each of the two callbacks waits in one place at most and starts the deferred workers once, and the version is counted up by them, by the first task and by the flags only. `TypeOK` bounds it by `MaxReindex + 3`, so that no step adds a token nobody accounts for |
| `ItemStore_proofs` | `TypeCorrect`, `EntriesAreFresh`, `MissingMetadataMeansFailure`, `RowsAreHonest` | `StoreInv`: what a pair of metadata and scan date may be (`SoundFor`), of the row, the queued write, each entry nobody is between two writes to, and each thread's copies, by its `pc` (`AllSound`). A copy is what the entry has (`Copies`) because the one who writes is alone there (`Alone`), which is what `~torn` says. `Dated` (nothing is dated after the present) is what makes the first scan of a file that changes again an old one. A free node exists because each thread holds one at most (`FreeNodeIsFree`). `Heap` is about places: references to one object agree on its version, so that whoever fills in a place does it for all who share the object, and unless one was misplaced each object's place is of its version or not known |
| `Files_proofs` | `TypeCorrect`, `PhotoIsSafe`, `FailureLeavesPhoto`, `OriginalStays` | of `FileUpdate`: `UpdateInv` = `TypeOK`, `Ways` (which steps a way of saving goes through), `Contents` (what is in each file at each step). The photo is touched by the last steps only, and what takes its place was written and closed before |
| | `MetadataIsKept` | `MetadataKept`, above it: as long as no update failed to read what there was, a photo with its metadata inside has every edit an update said OK of, and so has the file that will replace it: what is put there was read from the photo first |
| | `SyncTypeCorrect`, `LabelsAreKept`, `SettlesAll` | of `Sync`: `Informed` (what was seen is there, as long as nobody else changed it), `Unique` (without twins a decision is about one root), `Settling` (what has been copied needs no copy any more) |
| | `ImportTypeCorrect`, `ImportsOnce`, `MovesAreKept`, `ImportsOverwriteOlder` | of `Import`: `ImportInv` = types, `Known` and `PlanIsCurrent`. What was posted before a run was asked for is in the table, or in a write that is ahead of the run's load in the database thread's queue, so that the run knows it. What the analysis found of an entry is still so when it is copied, unless the run itself has put something there; from it, a file that was moved is overwritten by a newer one only, or by its own run (`CopyKeepsMoved`) |
| `MediaSession_proofs` | `TypeCorrect`, `FramesAreTrue`, `OldSoundStaysFirst` | `SessionInv`: `PipesOK` and `ThreadsOK` are the types; `Seeks`, `Hands`, `Truth`, `InLine` say of everything a queue, a codec or a thread holds which place it is of, and that an empty packet is between two places. Without `InLine` a codec, which gives out all its frames under the generation of the packet in hand, could give out an old picture under the new one |
| `Browse_proofs` | `PageTypeCorrect` | `ShapeInv`: an item's objects are where they may be (shown, kept by a query, in an answer), one of a file in each place, and there are fewer places than objects, so that a query that makes an object finds a number that is free (`NewObjectIsNew`) |
| | `HistoryIsAtPage`, `PageSettles` | `PageInv`, above it: the entry at the position is the page (`HistoryFollows`), the last query or answer counts (`LastCounts`), and each change of a folder that is not shown yet has somebody who will tell: the monitor, an invalidation, a query that has not listed, an answer (`Covered`) |
| | `SelectionIsKept` | `SelectionInv`, above both: the flags of the objects say what is selected, or the list is due (`ListFollows`). What the user selected last is what the last query is told to select, or is selected among the objects it was given and nothing before it selects others (`QueryFollows`, `Bare`); the same of an answer, less what has gone from the disk (`AnswerFollows`), and of the page (`ShownFollows`) |
| `View_proofs` | `ScreenShowsFile` | of `Texture`: `PictureInv`: nothing is newer than the file (`NotNewer`); each photo whose file is not dated after its last load has that load, its rendering or its surface still on its way, or has been drawn (`Followed`): a write with a later date makes `refresh` load again, and one that is not later is `missed`. The order of the queues is not needed, so that the theorem holds for several load threads too |
| | `PictureTypeCorrect` | `PictureTyped`: a version counts the writes of a file, so that no picture is of one out of bounds, and the raw queue holds one task at most |
| `FileHandles_proofs` | `HandlesInvariant`, `SessionIsPlayed`, `HandlesAreReleased` | `HandlesInv`: sessions are numbered as they are asked for, and a number says where its session can be: to be opened (the greatest), waiting to be handed over, handed over or to be closed (the least). From that order a session that is being closed is never the one that comes (`Newest`, `Newer`, `InTurn`), what is played is known to somebody (`Played`), and a display's session is played or will be replaced (`Displayed`, `Videos`). `Closes` and `Previews` say who will set each of the two events, and that a decoder that was closed stays closed |
| | `MediaTypeCorrect` | `PreviewTyped`, `DetachTyped`: the preview's slot and its thread have one task at most, a preview to be shown has items, and a preview thread that has ended has closed its decoders |

Assumptions, each named in the module that declares the constants and evaluated by TLC:
`StartupAssumption`, `TextureAssumption` and `HandlesAssumption` say that the bounds of
invalidations and acts are numbers, and that a video is no other item; `StoreAssumption` that there are
finitely many threads; `SyncAssumption` that there is a root; `ImportAssumption` what the
listings are sequences of; `BrowseAssumption` that there is room for one history entry,
that no folder is called `Nowhere`, and that there are more object numbers of a file than
pending queries; `SessionAssumption` the sizes of the session's queues. `TaskQueue` and
`FileUpdate` use none.
Object numbers stand for addresses, which the program does not run out of: with `MaxPending`
queries a file has at most one object in each query and one on the page, and
`MaxPending < MaxObjects` keeps one free. The other bounds of acts and writes matter to
the type theorems only, where a counter is said to stay within them.

Lemmas say once what append, tail and concatenation do to the places of a queue
(`Taken`, `QueueGrows`, `AmongAppended`, `AppendedOnce`, `UniqueAppend` and the like); the
steps are proved with places or sets of elements from there on.

Left to TLC: liveness (`EveryTaskSettles`, `WorkersStop`, `DeferredStart`, `ComesToRest`,
`ClockFollowsSeek`, `SoundIsHeeded`, `ShowsTheSeek`), which needs fairness and ENABLED
that the prover does not handle; and the counterexamples of section 7, which are runs of
the models and nothing to prove.

## 7. What the models show about the code

What holds is the list of properties in section 4. What does not, each with a run
that shows it (`PROJECT.json`, "findings"):

1. **An early reindex is lost** (`startup_reindex_race`; `app.cpp:1797`). All walks and
   scans share one `index_version`, and a new token cancels the older ones. The
   reindex's token is made when it is posted; the first task's when it runs, and the
   callbacks' when they post the scan. A reindex posted before one of those is
   cancelled before it starts, `index_folders` takes all folders out of the collection
   and walks none, and nothing posts the reindex again. `CollectionSettled` is the
   property with the condition under which it holds: no invalidation before the index
   is up.
2. **A torn copy of an entry stays** (`store_torn_copy`; `model_index.cpp:774`).
   `validate_folder` copies metadata then date, `scan_item` publishes date then metadata:
   the copy may have the old metadata with the new date. The invariants of the passing
   store run hold while no two threads are inside one entry at once (`torn`).
3. **Old sound behind a seek** (`media_heard`; `av_sound.h:131`). `audio_buffer::append`
   for a new generation copies the samples behind those it has and sets the end to
   their length: the oldest old samples are played as the first new ones.
   `OldSoundIsFirst` is what holds: behind the first piece there is nothing old.
4. **What is not listed counts as missing** (`sync_labels`; `app_util.cpp:469`): the files
   of a folder that cannot be opened, and hidden files (`platform_win.cpp:464`). A sync
   deletes local files whose counterpart was not listed, or overwrites newer ones.
   `LabelsHoldWhenListed` is what holds.
5. **An import overwrites its own copies** (`import_overwrites`; `app_util.cpp:196`). A
   sidecar is given its photo's name, and dates are compared with what was there before
   the import began. `OverwritesNewerOnce` is what holds.
6. **A raw photo's rendering is thrown away** (`raw_shown`; `app.cpp:2475`) when that of
   another one is posted to the same queue. `PictureIsCurrent` is what holds: the file is
   shown, as a preview at least.

Met while modelling, without a line of the repository that says otherwise, and in the
models unless section 8 says so:

- Index: Reset saves the cache back with its scan dates, so that the reindex reads
  nothing again (`model_index.h:510`). A task that throws takes the rest of its batch with
  it (`app.cpp:1018`); if it is the first task, the deferred workers are never started. A
  file whose scan failed is scanned again by every scan of the session.
- Locations: a place that was looked up for a file's older version is saved into the
  metadata of the newer one (`model_index.cpp:1934`). Metadata with a place asks for no
  look-up, so that the wrong place stays until the file changes again.
- Files: a sidecar that cannot be read is taken for empty and written anew
  (`metadata_xmp.cpp:765`); when the photo has been replaced and its sidecar fails, the
  update reports the sidecar's result (`files_core.cpp:1856`). Files of one name in two
  roots do not settle in a sync.
- Pictures: a load that failed is not tried again until something else asks. A photo that
  is replaced by a file with an older date than its last load is not loaded again
  (`model.cpp:3091`); one that is dated in the future would be loaded at every tick, so
  that the model has no such dates. After "Always show RAW photos" the other photos on the
  screen keep their previews (`ui.cpp:1059`).
- Media: video without sound does not go on after a pause (`av_player.h:922`: the pending
  flag that without sound only a seek gets cleared). Without a sound device nobody
  clears it: of a file with sound only the first picture after a seek is shown. None is
  tried again in the session (`av_player.h:785`). A seek between the test and the clears of
  `update_for_present` loses its request (`av_player.h:442`). `process_io` reads while either queue has
  room (`av_format.cpp:1806`).
- File handles: a session that was being opened when its display was replaced is played
  for an item that is not selected, until the next one (`model.cpp:2787`). A detach of an
  item without a session posts the preview's close and does not wait for it
  (`model.cpp:310`). An exception ends the preview thread (`app.cpp:986`); a detach then
  waits its ten seconds. `calc_pixel_difference` may take the slot of the closing task.
  The wait's timeout starts again at every wake of the UI thread. The two track
  numbers are kept the wrong way round for the session that is opened again
  (`model.cpp:268`).

Outside the models: inverting or toggling a selection unselects the pinned item, which
`app_text.h:164` says stays selected.

## 8. What is not modelled

Inside the modelled components: what a task of a queue does (it returns, throws or
posts); a folder's files one by one in `IndexStartup`; crc, media position, thumbnails,
the folder tree, summaries and predictions in `ItemStore`, the other tables of the
database, and two threads that create one node at once; the rename of items; what
`ReplaceFileW` leaves when it fails half way (it fails as a whole, or succeeds; a slip of
`FileUpdate` has the half); the focus, the pinned and the edited item (`model.cpp:644`), the
filter and the groups of a page, and the match of a search term (a page is a folder); fades, scales and thumbnails
of a texture; a detach inside a detach's wait, and the rest of a batch of callbacks that
a wait interrupts; the close of the shown session when the graphics resources are freed
(`app.cpp:4223`; no call of it was found that does so); volume, visualizer, still capture and the codecs' inner life. The
demuxer, the codecs, the XMP library and the audio device are not code of the
repository; what the models say of them is what the code relies on (they may fail, hold
something back, take nothing for a while).

Not at all, and why: the database thread's loop, the k-d tree, wildcards and the
crash-file database (planned, section 9); settings (values, no protocol); commands,
dialogs, views, controls, rendering, texts (layout and drawing); metadata parsers and
image formats (byte formats; a scan yields metadata or fails); web services (single
requests); strings, spelling, hashes (sequential, within reach of unit tests); the
platform layer but for its queues and events; the tests.

That is why the share of mapped lines is small: of some 134,000 lines most are parsers
of byte formats, the user interface, the platform layer, stubs of a media library and
vendored hash maps. What keeps state across threads, and can therefore go wrong in an
order nobody tested, is in a dozen files, and the protocols in them are what the
modules are about.

## 9. The plan

In this order:

1. `DatabaseLoop`: when writes are performed, what an exception and a close lose; composed
   with `ItemStore`'s `pending`.
2. The other handlers that wait in `ui_wait_for_signal` (maintenance, the tag view), on
   top of the UI's queue: what order the callbacks of an interrupted batch keep.
3. `ItemStore` for a folder tree: two threads that create one node (`model_index.h:203`), crc.
4. Pure algorithms against their definitions: the wildcard match, the nearest neighbour
   of the k-d tree.

Next theorems:

- Abstract specifications in the way of `Mailbox`: what the store promises who reads it (an
  entry is of a version of the file, the row of one it has been), and what a detach
  promises the tool that asked (the file is nobody's), with `ItemStore` and `FileHandles`
  shown to implement them.
- Safety halves of the liveness properties: what has to be true in every state for them to
  hold (somebody is under way who will see to it), as `StartupInv` has it for the start-up,
  for `MediaSession`: a seek that is not shown yet has a frame, a packet or a read to come.
- `ItemStore` with threads that are inside one entry at once: how much of `AllSound` is left
  when `torn` (dates stay in order; only the pair is lost).
