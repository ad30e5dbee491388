---------------------------- MODULE IndexStartup ----------------------------
(***************************************************************************)
(* How the index comes up, and how a reindex gets in its way.              *)
(*                                                                         *)
(* app_frame::start_workers starts the database thread, which loads the    *)
(* cached rows and then posts index_loaded_func to the UI, and the index   *)
(* thread, whose first task walks the collection's folders and then posts  *)
(* scan_uncached_func to the UI.  Both callbacks look at is_init_complete; *)
(* the one that finds the cache loaded and the folders indexed posts the   *)
(* scan of the uncached files and starts seven more workers.  At any time  *)
(* view_invalid::index makes the UI replace what waits in the index queue  *)
(* by a task that walks the folders again and scans.  Each walk and scan   *)
(* has a cancel_token on the one index_version, made on the index thread   *)
(* (the first task) or on the UI thread (all the others).  A task that     *)
(* throws ends there, and what start_worker took with it is gone.          *)
(*                                                                         *)
(* The queues and their workers are what TaskQueue shows them to be: posts *)
(* in order, taken in batches.  A folder stands for itself and its files.  *)
(***************************************************************************)
EXTENDS Naturals, Sequences

CONSTANTS
    Folder,         \* the folders of the collection
    MaxReindex      \* bound on the invalidations

ASSUME StartupAssumption == MaxReindex \in Nat

VARIABLES
    closing,        \* df::is_closing
    workPc,         \* the work thread in start_workers
    dbPc,           \* the database thread in start_database
    rows,           \* the folders with cached rows that are still to be merged
    cacheLoaded,    \* index_state::_cache_items_loaded
    foldersIndexed, \* index_state::_folders_indexed
    version,        \* index_version
    indexFlag,      \* view_invalid::index is set
    reindexes,      \* how many times it was set
    uiPc,           \* the UI thread in complete_pending_events
    uiQueue,        \* the callbacks in _ui_queue
    uiBatch,        \* the callbacks this pass took
    idxQueue,       \* index_task_queue
    idxBatch,       \* the tasks the index thread took, the current one first
    idxPc,          \* the index thread
    idxToken,       \* job_version of the token the current task goes by
    toVisit,        \* folders index_folders has still to walk
    toScan,         \* folders whose files scan_uncached has listed and not scanned
    collected,      \* the folders whose node has is_in_collection
    unscanned,      \* the folders with a file that needs_scan_impl wants scanned
    first,          \* what became of the first index task
    deferred,       \* how many times the deferred workers were started
    early,          \* history: the index was invalidated before it was up
    failed,         \* history: the folders with a file whose last scan brought no metadata
    lost            \* history: a "walk" or a "scan" went down with a task and was not made up for

uiVars == <<uiPc, uiQueue, uiBatch>>
idxVars == <<idxQueue, idxBatch, idxPc, idxToken, toVisit, toScan>>
dbVars == <<dbPc, rows>>
marks == <<reindexes, early, lost>>
flags == <<cacheLoaded, foldersIndexed, version, indexFlag, marks>>
nodes == <<collected, unscanned, failed>>
vars == <<closing, workPc, first, deferred, dbVars, flags, uiVars, idxVars, nodes>>

\* The versions a token can have: three posters make tokens at startup, each
\* invalidation makes one more.
Version == 0..(MaxReindex + 3)

IndexTask == [kind : {"first", "scan", "reindex"}, token : Version]

FirstTask == [kind |-> "first", token |-> 0]

TypeOK ==
    /\ closing \in BOOLEAN
    /\ workPc \in {"database", "index", "post", "done"}
    /\ dbPc \in {"off", "open", "load", "loaded", "serve", "failed"}
    /\ rows \in SUBSET Folder
    /\ cacheLoaded \in BOOLEAN /\ foldersIndexed \in BOOLEAN /\ indexFlag \in BOOLEAN
    /\ version \in Version
    /\ reindexes \in 0..MaxReindex
    /\ uiPc \in {"idle", "callbacks", "token", "flag", "reindex"}
    /\ uiQueue \in Seq({"loaded", "indexed", "fail"})
    /\ uiBatch \in Seq({"loaded", "indexed", "fail"})
    /\ idxQueue \in Seq(IndexTask) /\ idxBatch \in Seq(IndexTask)
    /\ idxPc \in {"off", "take", "next", "token", "walk", "list", "scan", "stopped"}
    /\ idxToken \in Version
    /\ toVisit \in SUBSET Folder /\ toScan \in SUBSET Folder
    /\ collected \in SUBSET Folder /\ unscanned \in SUBSET Folder
    /\ first \in {"unposted", "queued", "taken", "done", "discarded", "thrown"}
    /\ deferred \in 0..2 /\ early \in BOOLEAN
    /\ failed \in SUBSET Folder /\ lost \in SUBSET {"walk", "scan"}

Init ==
    /\ closing = FALSE
    /\ workPc = "database" /\ first = "unposted" /\ deferred = 0
    /\ dbPc = "off" /\ rows \in SUBSET Folder
    /\ cacheLoaded = FALSE /\ foldersIndexed = FALSE
    /\ version = 0 /\ indexFlag = FALSE /\ reindexes = 0 /\ early = FALSE
    /\ uiPc = "idle" /\ uiQueue = <<>> /\ uiBatch = <<>>
    /\ idxQueue = <<>> /\ idxBatch = <<>> /\ idxPc = "off" /\ idxToken = 0
    /\ toVisit = {} /\ toScan = {}
    /\ collected = {} /\ unscanned = Folder
    /\ failed = {} /\ lost = {}

Cancelled(token) == closing \/ token # version

Elements(s) == {s[i] : i \in 1..Len(s)}

-----------------------------------------------------------------------------
(* Slips of the kind these steps invite.  They are no part of Spec: each     *)
(* takes the place of the definition it is named after when the properties   *)
(* are checked against it.                                                   *)

\* index_loaded_func is lost
PostIndexLoadedNever ==
    /\ dbPc = "loaded"
    /\ dbPc' = "serve"
    /\ UNCHANGED <<closing, workPc, rows, first, deferred, flags, uiVars, idxVars, nodes>>

\* the callbacks are copied and stay in the queue
TakeCallbacksCopies ==
    /\ uiPc = "idle" /\ ~closing
    /\ uiBatch' = uiQueue
    /\ uiPc' = "callbacks"
    /\ UNCHANGED <<closing, workPc, first, deferred, uiQueue, dbVars, flags, idxVars, nodes>>

\* the token takes the version from before it was counted up
PostReindexStale ==
    /\ uiPc = "reindex"
    /\ idxQueue' = <<[kind |-> "reindex", token |-> version - 1]>>
    /\ first' = IF FirstTask \in Elements(idxQueue) THEN "discarded" ELSE first
    /\ uiPc' = "idle"
    /\ UNCHANGED <<closing, workPc, deferred, dbVars, flags, uiQueue, uiBatch, nodes,
                   idxBatch, idxPc, idxToken, toVisit, toScan>>

\* the folders count as indexed only when the walk was not cancelled
EndFirstUnlessCancelled ==
    /\ idxPc = "walk" /\ (toVisit = {} \/ Cancelled(idxToken))
    /\ Head(idxBatch).kind = "first"
    /\ foldersIndexed' = (foldersIndexed \/ ~Cancelled(idxToken))
    /\ uiQueue' = Append(uiQueue, "indexed")
    /\ first' = "done"
    /\ toVisit' = {}
    /\ idxBatch' = Tail(idxBatch) /\ idxPc' = "next"
    /\ UNCHANGED <<closing, workPc, deferred, dbVars, cacheLoaded, version, indexFlag, marks,
                   uiPc, uiBatch, nodes, idxQueue, idxToken, toScan>>

\* the first task does not post its callback
EndFirstSilently ==
    /\ idxPc = "walk" /\ (toVisit = {} \/ Cancelled(idxToken))
    /\ Head(idxBatch).kind = "first"
    /\ foldersIndexed' = TRUE
    /\ first' = "done"
    /\ toVisit' = {}
    /\ idxBatch' = Tail(idxBatch) /\ idxPc' = "next"
    /\ UNCHANGED <<closing, workPc, deferred, dbVars, cacheLoaded, version, indexFlag, marks,
                   uiVars, nodes, idxQueue, idxToken, toScan>>

\* a cancelled scan starts over
EndScanRetries ==
    /\ idxPc = "scan" /\ (toScan = {} \/ Cancelled(idxToken))
    /\ toScan' = {}
    /\ IF Cancelled(idxToken)
       THEN idxPc' = "list" /\ idxBatch' = idxBatch
       ELSE idxPc' = "next" /\ idxBatch' = Tail(idxBatch)
    /\ UNCHANGED <<closing, workPc, first, deferred, dbVars, flags, uiVars, nodes,
                   idxQueue, idxToken, toVisit>>

-----------------------------------------------------------------------------
(* The work thread: start_workers *)

StartDatabaseThread ==
    /\ workPc = "database"
    /\ workPc' = "index" /\ dbPc' = "open"
    /\ UNCHANGED <<closing, rows, first, deferred, flags, uiVars, idxVars, nodes>>

StartIndexThread ==
    /\ workPc = "index"
    /\ workPc' = "post" /\ idxPc' = "take"
    /\ UNCHANGED <<closing, first, deferred, dbVars, flags, uiVars, nodes,
                   idxQueue, idxBatch, idxToken, toVisit, toScan>>

PostFirstTask ==
    /\ workPc = "post"
    /\ workPc' = "done"
    /\ idxQueue' = Append(idxQueue, FirstTask)
    /\ first' = "queued"
    /\ UNCHANGED <<closing, deferred, dbVars, flags, uiVars, nodes,
                   idxBatch, idxPc, idxToken, toVisit, toScan>>

-----------------------------------------------------------------------------
(* The database thread: database::open and start_database *)

\* sqlite3_open succeeds and the schema is there
OpenDatabase ==
    /\ dbPc = "open"
    /\ dbPc' = "load"
    /\ UNCHANGED <<closing, workPc, rows, first, deferred, flags, uiVars, idxVars, nodes>>

\* sqlite3_open fails: nothing is loaded, and index_loaded_func is posted all
\* the same; or the schema fails: open throws, and app_fail is posted
OpenFails ==
    /\ dbPc = "open"
    /\ dbPc' = "failed"
    /\ \E callback \in {"loaded", "fail"} : uiQueue' = Append(uiQueue, callback)
    /\ UNCHANGED <<closing, workPc, rows, first, deferred, flags, uiPc, uiBatch, idxVars, nodes>>

\* merge_folder for one folder's rows.  The rows' scan dates replace those of
\* the index: files become scanned, or unscanned again.
MergeFolder(f) ==
    /\ dbPc = "load" /\ f \in rows /\ ~closing
    /\ rows' = rows \ {f}
    /\ cacheLoaded' = TRUE
    /\ unscanned' \in {unscanned \ {f}, unscanned \cup {f}}
    /\ failed' = failed \ {f}
    /\ UNCHANGED <<closing, workPc, dbPc, first, deferred, foldersIndexed, version, indexFlag,
                   marks, uiVars, idxVars, collected>>

CacheLoadComplete ==
    /\ dbPc = "load" /\ (rows = {} \/ closing)
    /\ dbPc' = "loaded"
    /\ cacheLoaded' = TRUE
    /\ UNCHANGED <<closing, workPc, rows, first, deferred, foldersIndexed, version, indexFlag,
                   marks, uiVars, idxVars, nodes>>

PostIndexLoaded ==
    /\ dbPc = "loaded"
    /\ dbPc' = "serve"
    /\ uiQueue' = Append(uiQueue, "loaded")
    /\ UNCHANGED <<closing, workPc, rows, first, deferred, flags, uiPc, uiBatch, idxVars, nodes>>

-----------------------------------------------------------------------------
(* The UI thread: complete_pending_events *)

TakeCallbacks ==
    /\ uiPc = "idle" /\ ~closing
    /\ uiBatch' = uiQueue /\ uiQueue' = <<>>
    /\ uiPc' = "callbacks"
    /\ UNCHANGED <<closing, workPc, first, deferred, dbVars, flags, idxVars, nodes>>

InitComplete == cacheLoaded /\ foldersIndexed

\* scan_uncached_func, directly or from index_loaded_func: init is complete,
\* and the cancel_token's constructor counts the version up
CallbackStartsScan ==
    /\ uiPc = "callbacks" /\ uiBatch # <<>> /\ Head(uiBatch) # "fail"
    /\ ~closing /\ InitComplete
    /\ version' = version + 1
    /\ uiPc' = "token"
    /\ UNCHANGED <<closing, workPc, first, deferred, dbVars, cacheLoaded, foldersIndexed,
                   indexFlag, marks, uiQueue, uiBatch, idxVars, nodes>>

\* the constructor reads the version back; the scan is posted and the deferred
\* workers are started
CallbackPostsScan ==
    /\ uiPc = "token"
    /\ idxQueue' = Append(idxQueue, [kind |-> "scan", token |-> version])
    /\ deferred' = deferred + 1
    /\ uiBatch' = Tail(uiBatch)
    /\ uiPc' = "callbacks"
    /\ UNCHANGED <<closing, workPc, first, dbVars, flags, uiQueue, nodes,
                   idxBatch, idxPc, idxToken, toVisit, toScan>>

\* the callback comes too early or too late: it only repaints
CallbackPasses ==
    /\ uiPc = "callbacks" /\ uiBatch # <<>> /\ Head(uiBatch) # "fail"
    /\ closing \/ ~InitComplete
    /\ uiBatch' = Tail(uiBatch)
    /\ UNCHANGED <<closing, workPc, first, deferred, dbVars, flags, uiPc, uiQueue, idxVars, nodes>>

\* app_fail's dialog is closed, and the window with it
CallbackFails ==
    /\ uiPc = "callbacks" /\ uiBatch # <<>> /\ Head(uiBatch) = "fail"
    /\ uiBatch' = Tail(uiBatch)
    /\ closing' = TRUE
    /\ UNCHANGED <<workPc, first, deferred, dbVars, flags, uiPc, uiQueue, idxVars, nodes>>

\* the callbacks are done, the flags are looked at
PopIndexFlag ==
    /\ uiPc = "callbacks" /\ uiBatch = <<>>
    /\ indexFlag' = FALSE
    /\ IF indexFlag THEN version' = version + 1 /\ uiPc' = "reindex"
                    ELSE version' = version /\ uiPc' = "idle"
    /\ UNCHANGED <<closing, workPc, first, deferred, dbVars, cacheLoaded, foldersIndexed,
                   marks, uiQueue, uiBatch, idxVars, nodes>>

\* the token reads the version back, and reset_and_enqueue clears the queue
PostReindex ==
    /\ uiPc = "reindex"
    /\ idxQueue' = <<[kind |-> "reindex", token |-> version]>>
    /\ first' = IF FirstTask \in Elements(idxQueue) THEN "discarded" ELSE first
    /\ uiPc' = "idle"
    /\ UNCHANGED <<closing, workPc, deferred, dbVars, flags, uiQueue, uiBatch, nodes,
                   idxBatch, idxPc, idxToken, toVisit, toScan>>

-----------------------------------------------------------------------------
(* The index thread *)

TakeIndexTasks ==
    /\ idxPc = "take" /\ ~closing /\ idxQueue # <<>>
    /\ idxBatch' = idxQueue /\ idxQueue' = <<>>
    /\ idxPc' = "next"
    /\ first' = IF FirstTask \in Elements(idxQueue) THEN "taken" ELSE first
    /\ UNCHANGED <<closing, workPc, deferred, dbVars, flags, uiVars, nodes, idxToken, toVisit, toScan>>

\* the first task makes its token when it runs
BeginFirst ==
    /\ idxPc = "next" /\ idxBatch # <<>> /\ Head(idxBatch).kind = "first"
    /\ version' = version + 1
    /\ idxPc' = "token"
    /\ UNCHANGED <<closing, workPc, first, deferred, dbVars, cacheLoaded, foldersIndexed,
                   indexFlag, marks, uiVars, nodes, idxQueue, idxBatch, idxToken, toVisit, toScan>>

\* index_folders takes every folder out of the collection and starts from the roots
BeginWalk(token) ==
    /\ idxToken' = token
    /\ collected' = {}
    /\ toVisit' = Folder
    /\ lost' = lost \ {"walk"}
    /\ idxPc' = "walk"
    /\ UNCHANGED <<closing, workPc, first, deferred, dbVars, cacheLoaded, foldersIndexed, version,
                   indexFlag, reindexes, early, uiVars, unscanned, failed, idxQueue, idxBatch, toScan>>

WalkFirst == idxPc = "token" /\ BeginWalk(version)

WalkAgain ==
    /\ idxPc = "next" /\ idxBatch # <<>> /\ Head(idxBatch).kind = "reindex"
    /\ BeginWalk(Head(idxBatch).token)

\* one round of index_folders' loop: the folder's node is validated
VisitFolder(f) ==
    /\ idxPc = "walk" /\ f \in toVisit /\ ~Cancelled(idxToken)
    /\ toVisit' = toVisit \ {f}
    /\ collected' = collected \cup {f}
    /\ UNCHANGED <<closing, workPc, first, deferred, dbVars, flags, uiVars, unscanned, failed,
                   idxQueue, idxBatch, idxPc, idxToken, toScan>>

WalkOver == idxPc = "walk" /\ (toVisit = {} \/ Cancelled(idxToken))

\* the first task posts scan_uncached_func and ends
EndFirst ==
    /\ WalkOver /\ Head(idxBatch).kind = "first"
    /\ foldersIndexed' = TRUE
    /\ uiQueue' = Append(uiQueue, "indexed")
    /\ first' = "done"
    /\ toVisit' = {}
    /\ idxBatch' = Tail(idxBatch) /\ idxPc' = "next"
    /\ UNCHANGED <<closing, workPc, deferred, dbVars, cacheLoaded, version, indexFlag, marks,
                   uiPc, uiBatch, nodes, idxQueue, idxToken, toScan>>

\* a reindex goes on with the scan
EndWalk ==
    /\ WalkOver /\ Head(idxBatch).kind = "reindex"
    /\ foldersIndexed' = TRUE
    /\ toVisit' = {}
    /\ idxPc' = "list"
    /\ UNCHANGED <<closing, workPc, first, deferred, dbVars, cacheLoaded, version, indexFlag,
                   marks, uiVars, nodes, idxQueue, idxBatch, idxToken, toScan>>

BeginScan ==
    /\ idxPc = "next" /\ idxBatch # <<>> /\ Head(idxBatch).kind = "scan"
    /\ idxToken' = Head(idxBatch).token
    /\ idxPc' = "list"
    /\ UNCHANGED <<closing, workPc, first, deferred, dbVars, flags, uiVars, nodes,
                   idxQueue, idxBatch, toVisit, toScan>>

\* scan_uncached lists what needs a scan in the collection
ListUncached ==
    /\ idxPc = "list"
    /\ toScan' = collected \cap unscanned
    /\ lost' = IF Cancelled(idxToken) THEN lost ELSE lost \ {"scan"}
    /\ idxPc' = "scan"
    /\ UNCHANGED <<closing, workPc, first, deferred, dbVars, cacheLoaded, foldersIndexed, version,
                   indexFlag, reindexes, early, uiVars, nodes, idxQueue, idxBatch, idxToken, toVisit>>

ScanNext(f) ==
    /\ idxPc = "scan" /\ f \in toScan /\ ~Cancelled(idxToken)
    /\ toScan' = toScan \ {f}
    /\ UNCHANGED <<closing, workPc, first, deferred, dbVars, flags, uiVars, collected,
                   idxQueue, idxBatch, idxPc, idxToken, toVisit>>

\* every file of the folder that needs it is scanned
ScanFolder(f) ==
    /\ ScanNext(f)
    /\ unscanned' = unscanned \ {f} /\ failed' = failed \ {f}

\* one of them cannot be read, or it is a known crash file: only a row is queued, or nothing, and
\* the entry keeps the scan date it had
ScanFails(f) ==
    /\ ScanNext(f)
    /\ unscanned' = unscanned /\ failed' = failed \cup {f}

EndScan ==
    /\ idxPc = "scan" /\ (toScan = {} \/ Cancelled(idxToken))
    /\ toScan' = {}
    /\ idxBatch' = Tail(idxBatch) /\ idxPc' = "next"
    /\ UNCHANGED <<closing, workPc, first, deferred, dbVars, flags, uiVars, nodes,
                   idxQueue, idxToken, toVisit>>

EndIndexBatch ==
    /\ idxPc = "next" /\ idxBatch = <<>>
    /\ idxPc' = "take"
    /\ UNCHANGED <<closing, workPc, first, deferred, dbVars, flags, uiVars, nodes,
                   idxQueue, idxBatch, idxToken, toVisit, toScan>>

\* The current task throws, at any point of it, and start_worker drops the rest of the batch.  The
\* first task may get as far as _folders_indexed.
IndexTaskThrows ==
    /\ idxPc \in {"next", "token", "walk", "list", "scan"} /\ idxBatch # <<>>
    /\ idxBatch' = <<>> /\ idxPc' = "take"
    /\ toVisit' = {} /\ toScan' = {}
    /\ foldersIndexed' \in {foldersIndexed, foldersIndexed \/ WalkOver}
    /\ first' = IF FirstTask \in Elements(idxBatch) THEN "thrown" ELSE first
    /\ lost' = {"scan"} \cup IF \E t \in Elements(idxBatch) : t.kind # "scan" THEN {"walk"} ELSE lost
    /\ UNCHANGED <<closing, workPc, deferred, dbVars, cacheLoaded, version, indexFlag, reindexes, early,
                   uiVars, nodes, idxQueue, idxToken>>

StopIndexThread ==
    /\ idxPc = "take" /\ closing
    /\ idxPc' = "stopped"
    /\ UNCHANGED <<closing, workPc, first, deferred, dbVars, flags, uiVars, nodes,
                   idxQueue, idxBatch, idxToken, toVisit, toScan>>

-----------------------------------------------------------------------------
(* The user and the system *)

\* Both callbacks have run: the index is as up as it gets.
IsUp == /\ first = "done" /\ dbPc = "serve"
        /\ uiQueue = <<>> /\ uiBatch = <<>>

\* reload, a device change, new index settings, maintenance or an import sets
\* view_invalid::index; a folder may have changed
InvalidateIndex ==
    /\ reindexes < MaxReindex /\ ~closing
    /\ reindexes' = reindexes + 1 /\ early' = (early \/ ~IsUp)
    /\ indexFlag' = TRUE
    /\ \E changed \in SUBSET Folder :
           unscanned' = unscanned \cup changed /\ failed' = failed \ changed
    /\ UNCHANGED <<closing, workPc, first, deferred, dbVars, cacheLoaded, foldersIndexed,
                   version, lost, uiVars, idxVars, collected>>

CloseWindow ==
    /\ ~closing
    /\ uiPc = "idle"
    /\ closing' = TRUE
    /\ UNCHANGED <<workPc, first, deferred, dbVars, flags, uiVars, idxVars, nodes>>

WorkThread == StartDatabaseThread \/ StartIndexThread \/ PostFirstTask

DatabaseThread ==
    \/ OpenDatabase \/ OpenFails \/ CacheLoadComplete \/ PostIndexLoaded
    \/ \E f \in Folder : MergeFolder(f)

UiThread ==
    \/ TakeCallbacks \/ CallbackStartsScan \/ CallbackPostsScan \/ CallbackPasses
    \/ CallbackFails \/ PopIndexFlag \/ PostReindex

IndexThread ==
    \/ TakeIndexTasks \/ BeginFirst \/ WalkFirst \/ WalkAgain \/ EndFirst \/ EndWalk
    \/ BeginScan \/ ListUncached \/ EndScan \/ EndIndexBatch \/ IndexTaskThrows \/ StopIndexThread
    \/ \E f \in Folder : VisitFolder(f) \/ ScanFolder(f) \/ ScanFails(f)

Next == WorkThread \/ DatabaseThread \/ UiThread \/ IndexThread \/ InvalidateIndex \/ CloseWindow

Spec == Init /\ [][Next]_vars

\* The threads are scheduled; a frame timer keeps the UI's passes coming.
Fairness ==
    /\ WF_vars(WorkThread)
    /\ WF_vars(DatabaseThread)
    /\ WF_vars(UiThread)
    /\ WF_vars(IndexThread)

FairSpec == Spec /\ Fairness

-----------------------------------------------------------------------------

\* Nothing is under way: no task, no callback, no flag, no row to load.
Quiet ==
    /\ workPc = "done" /\ dbPc \in {"serve", "failed"}
    /\ uiPc \in {"idle", "callbacks"} /\ uiQueue = <<>> /\ uiBatch = <<>> /\ ~indexFlag
    /\ idxPc = "take" /\ idxQueue = <<>> /\ idxBatch = <<>>
    /\ ~closing

\* When all is quiet the collection is whole: the last walk was not cut short by somebody else's
\* token.  It holds if the index was only ever invalidated once it was up and the last walk asked
\* for did not go down with a task that threw.
CollectionSettled == Quiet /\ foldersIndexed /\ ~early /\ "walk" \notin lost => collected = Folder

\* The same whenever the index is invalidated, which the code does not keep: the first task's
\* token, or the callbacks', cancels an early reindex that nobody repeats, and its cancelled walk
\* has taken every folder out of the collection.
EarlyCollectionSettled == Quiet /\ foldersIndexed /\ "walk" \notin lost => collected = Folder

\* When all is quiet and the init was completed, no file of the collection is left to scan but those
\* whose scan failed, although the database's rows may arrive after the walk and mark files of
\* scanned folders unscanned again; unless the last scan asked for went down with its task.
ScanSettled ==
    Quiet /\ InitComplete /\ deferred > 0 /\ "scan" \notin lost => collected \cap unscanned \subseteq failed

\* When all is quiet, with the cache loaded, and the deferred workers (crc, predictions, summary,
\* presence, three scans) do not run, it is because the first index task and its callback with it
\* were thrown away by a reindex or went down with an exception.
DormantOnlyIfLost ==
    Quiet /\ dbPc = "serve" /\ deferred = 0 => first \in {"discarded", "thrown"}

\* Once the database serves and the first task ran to its end the deferred
\* workers are started, whichever of the two was first.
DeferredStart ==
    (dbPc = "serve" /\ first = "done") ~> (deferred > 0 \/ closing)

\* After an invalidation the collection comes to rest again.
ComesToRest == indexFlag ~> (Quiet \/ closing)
=============================================================================
