----------------------------- MODULE ItemStore -----------------------------
(***************************************************************************)
(* One media file in index_state's memory and in the database.             *)
(*                                                                         *)
(* The index holds one node per folder; a node's entry for the file says   *)
(* what the metadata is, when it was scanned and which modification date   *)
(* the last listing of the folder saw.  Several threads list the folder    *)
(* (validate_folder builds a new node out of the old one and replaces it)  *)
(* and scan the file (scan_item publishes into the node its caller holds,  *)
(* which may have been replaced), without a lock on the entries.  Scans    *)
(* queue writes for the database thread, which commits them in batches.    *)
(* At a start the database's row is merged into the index.                 *)
(*                                                                         *)
(* A date is a tick of a clock that ticks when time passes, and a version  *)
(* of the file is the date of that change: 0 stands for no file.           *)
(*                                                                         *)
(* Metadata is an object that entries, copies and queued writes share.     *)
(* The version it was read from never changes and is kept with each        *)
(* reference; the place of its coordinates, which save_location fills in,  *)
(* is changed in the object itself.                                        *)
(***************************************************************************)
EXTENDS Naturals, FiniteSets, Sequences

CONSTANTS
    Thread,     \* the threads that may list and scan
    Setting,    \* what a run of the program may be: the threads that do, the versions of
                \* the file with coordinates and no place, bounds on the look-ups that wait,
                \* on the restarts and on the maintenances
    MaxClock    \* bound on the time that passes

ASSUME StoreAssumption ==
    /\ IsFiniteSet(Thread) /\ MaxClock \in Nat \ {0}
    /\ \A s \in Setting :
        /\ s.scanners \subseteq Thread /\ s.located \subseteq Nat \ {0}
        /\ s.lookups \in Nat /\ s.restarts \in Nat /\ s.maintenances \in Nat

Date == 0..MaxClock

\* Enough nodes for the index, every thread that holds one and a new one.
Node == 1..(Cardinality(Thread) + 4)

\* A reference to metadata: the version it was read from (none, when it was made
\* empty), and which object it is.
Metadata == [of : Date, at : Nat]

Null == [of |-> 0, at |-> 0]

Entry == [has : BOOLEAN, md : Metadata, scanned : Date, modified : Date]

NoEntry == [has |-> FALSE, md |-> Null, scanned |-> 0, modified |-> 0]

\* A queued write refers to the metadata, which is packed when it is performed.
\* perform_writes replaces the whole row whether the write has metadata (a scan,
\* a location, the cache saved by a reset) or only the date of a failed scan.  It
\* commits all the writes it has taken in one transaction, so that of those that
\* wait only the last counts.
NoWrite == [md |-> Null, scanned |-> 0, there |-> FALSE]

Writes == [md : Metadata, scanned : Date, there : {TRUE}] \cup {NoWrite}

Write(md, scanned) == [md |-> md, scanned |-> scanned, there |-> TRUE]

NoRow == [md |-> 0, place |-> 0, scanned |-> 0, there |-> FALSE]

Row == [md : Date, place : Date, scanned : Date, there : {TRUE}] \cup {NoRow}

VARIABLES
    setting,    \* the setting of this run
    clock,      \* the time
    file,       \* the version of the file on disk
    cur,        \* the folder's node in index_items, or 0
    node,       \* the entries of the nodes
    places,     \* for each object of metadata the version its place was looked up for, or 0
    pc,         \* what each scanner does
    held,       \* the node it works on
    work,       \* its copies: the listing, the copied or the scanned metadata, `now`
    pending,    \* the last write in _db_writes, or NoWrite
    row,        \* the file's committed row
    dbPc,       \* what the database thread does
    dbNode,     \* the node it merges into or caches from
    dbMd,       \* the metadata it caches
    lookups,    \* the versions whose coordinates wait to be looked up
    loc,        \* the result that is being saved
    misplaced,  \* a place was saved into metadata of another version than it is of
    torn,       \* two threads were at one entry at the same time
    failed,     \* the file's scan failed once
    restarts, maintenance   \* how many there were

db == <<dbPc, dbNode, dbMd>>
locating == <<places, lookups, loc, misplaced>>
memory == <<cur, node, places, pc, held, work, pending, db, lookups, loc>>
counts == <<restarts, maintenance>>
past == <<torn, failed, counts>>
vars == <<clock, file, row, memory, misplaced, past>>

Scanner == setting.scanners

NoWork == [listed |-> 0, md |-> Null, now |-> 0]

NoLoc == [pc |-> "none", for |-> 0, node |-> 0, md |-> Null, scanned |-> 0]

\* Every variable has its type; who is past the look-up of a node holds one,
\* and nobody else does.
TypeOK ==
    /\ setting \in Setting
    /\ clock \in Date /\ file \in Date
    /\ cur \in Node \cup {0}
    /\ node \in [Node -> Entry]
    /\ pc \in [Scanner -> {"idle", "list", "copy", "replace", "held",
                           "read", "publish", "store", "write"}]
    /\ held \in [Scanner -> Node \cup {0}]
    /\ work \in [Scanner -> [listed : Date, md : Metadata, now : Date]]
    /\ pending \in Writes /\ row \in Row /\ places \in Seq(Date)
    /\ dbPc \in {"load", "merge", "idle", "cache"}
    /\ dbNode \in Node \cup {0} /\ dbMd \in Metadata
    /\ \A a \in Scanner :
        /\ pc[a] = "idle" => held[a] = 0
        /\ pc[a] \in {"replace", "held", "read", "publish", "store", "write"} => held[a] # 0
    /\ dbNode # 0 <=> dbPc \in {"merge", "cache"}
    /\ lookups \in Seq(Date)
    /\ loc \in [pc : {"none", "null", "read", "placed", "dated"}, for : Date,
                node : Node \cup {0}, md : Metadata, scanned : Date]
    /\ misplaced \in BOOLEAN /\ torn \in BOOLEAN /\ failed \in BOOLEAN
    /\ restarts \in 0..setting.restarts /\ maintenance \in 0..setting.maintenances

\* The memory of a program that has just been started.
FreshMemory ==
    /\ cur = 0
    /\ node = [n \in Node |-> NoEntry]
    /\ pc = [a \in Scanner |-> "idle"]
    /\ held = [a \in Scanner |-> 0]
    /\ work = [a \in Scanner |-> NoWork]
    /\ places = <<>> /\ pending = NoWrite
    /\ dbPc = "load" /\ dbNode = 0 /\ dbMd = Null
    /\ lookups = <<>> /\ loc = NoLoc

Init ==
    /\ setting \in Setting
    /\ clock = 1 /\ file = 1 /\ row = NoRow
    /\ FreshMemory
    /\ misplaced = FALSE /\ torn = FALSE /\ failed = FALSE /\ restarts = 0 /\ maintenance = 0

-----------------------------------------------------------------------------
(* The nodes *)

InUse == {cur, dbNode, loc.node} \cup {held[a] : a \in Scanner}

FreeNode == CHOOSE n \in Node : n \notin InUse

HasEntry(n) == n # 0 /\ node[n].has

\* Makes a new node with entry e the folder's node, and a's.
Replace(a, e) ==
    /\ node' = [node EXCEPT ![FreeNode] = e]
    /\ cur' = FreeNode
    /\ held' = [held EXCEPT ![a] = FreeNode]
    /\ work' = [work EXCEPT ![a] = NoWork]
    /\ pc' = [pc EXCEPT ![a] = "held"]

\* needs_scan_impl for a file without sidecar whose thumbnail is not asked for
NeedsScan(e) == e.scanned < e.modified

\* The threads between the two halves of what they write into the entry of n:
\* a scan's publication and a merge.
WritersAt(n) ==
    {a \in Scanner : pc[a] = "store" /\ held[a] = n}
        \cup {d \in {"db"} : dbPc = "merge" /\ dbNode = n}

\* The threads between the two halves of what they read there.
ReadersAt(n) ==
    {a \in Scanner : pc[a] = "replace" /\ held[a] = n}
        \cup {l \in {"loc"} : loc.pc \in {"null", "read", "placed"} /\ loc.node = n}
        \cup {d \in {"db"} : dbPc = "cache" /\ dbNode = n}

-----------------------------------------------------------------------------
(* Metadata *)

\* a new object, whose place is not known
NewMetadata(version) == [of |-> version, at |-> Len(places) + 1]

Place(m) == IF m = Null THEN 0 ELSE places[m.at]

\* Coordinates without a place: the place has to be looked up.
WantsPlace(m) == m.of \in setting.located /\ Place(m) = 0

\* What load_index_values makes of the row: no object for a failed scan's row.
Unpacked == IF row.md = 0 /\ row.place = 0 THEN Null ELSE NewMetadata(row.md)

\* The metadata of the row is made anew.
Unpack == places' = IF Unpacked = Null THEN places ELSE Append(places, row.place)

-----------------------------------------------------------------------------
(* Slips of the kind these steps invite.  They are no part of Spec: each     *)
(* takes the place of the definition it is named after when the properties   *)
(* are checked against it.                                                   *)

\* `now` is rounded up
BeginScanRoundsUp(a) ==
    /\ pc[a] = "held" /\ HasEntry(held[a])
    /\ work' = [work EXCEPT ![a].now = clock + 1]
    /\ pc' = [pc EXCEPT ![a] = "read"]
    /\ UNCHANGED <<clock, file, row, cur, node, held, pending, db, locating, past>>

\* the scan date is the date of the publication
PublishScannedLate(a) ==
    /\ pc[a] = "publish"
    /\ node' = [node EXCEPT ![held[a]].scanned = clock]
    /\ pc' = [pc EXCEPT ![a] = "store"]
    /\ torn' = (torn \/ WritersAt(held[a]) \cup ReadersAt(held[a]) # {})
    /\ UNCHANGED <<clock, file, row, cur, held, work, pending, db, locating, failed, counts>>

\* the metadata is stored only over metadata
StoreMetadataOver(a) ==
    /\ pc[a] = "store"
    /\ node' = [node EXCEPT ![held[a]].md = IF @ = Null THEN Null ELSE work[a].md]
    /\ pc' = [pc EXCEPT ![a] = "write"]
    /\ UNCHANGED <<clock, file, row, cur, held, work, pending, db, locating, past>>

\* the write takes the date at which it is queued
QueueWriteLate(a) ==
    /\ pc[a] = "write"
    /\ pending' = Write(work[a].md, clock)
    /\ work' = [work EXCEPT ![a] = NoWork]
    /\ pc' = [pc EXCEPT ![a] = "held"]
    /\ UNCHANGED <<clock, file, row, cur, node, held, db, locating, past>>

-----------------------------------------------------------------------------
(* validate_folder, with refresh_from_file_system *)

\* the index's node is looked up
BeginValidate(a) ==
    /\ pc[a] = "idle"
    /\ held' = [held EXCEPT ![a] = cur]
    /\ pc' = [pc EXCEPT ![a] = "list"]
    /\ UNCHANGED <<clock, file, row, cur, node, work, pending, db, locating, past>>

\* the folder is listed
List(a) ==
    /\ pc[a] = "list"
    /\ work' = [work EXCEPT ![a].listed = file]
    /\ pc' = [pc EXCEPT ![a] = "copy"]
    /\ UNCHANGED <<clock, file, row, cur, node, held, pending, db, locating, past>>

\* the metadata of the old entry is copied
CopyMetadata(a) ==
    /\ pc[a] = "copy"
    /\ work[a].listed # 0 /\ HasEntry(held[a])
    /\ work' = [work EXCEPT ![a].md = node[held[a]].md]
    /\ pc' = [pc EXCEPT ![a] = "replace"]
    /\ torn' = (torn \/ WritersAt(held[a]) # {})
    /\ UNCHANGED <<clock, file, row, cur, node, held, pending, db, locating, failed, counts>>

\* its scan date is copied; the new node goes into the index if the listing
\* differs from the old node, otherwise the old node is returned
CopyScannedAndReplace(a) ==
    /\ pc[a] = "replace"
    /\ \/ /\ node[held[a]].modified = work[a].listed
          /\ work' = [work EXCEPT ![a] = NoWork]
          /\ pc' = [pc EXCEPT ![a] = "held"]
          /\ UNCHANGED <<cur, node, held>>
       \/ Replace(a, [has |-> TRUE, md |-> work[a].md, scanned |-> node[held[a]].scanned,
                      modified |-> work[a].listed])
    /\ UNCHANGED <<clock, file, row, pending, db, locating, past>>

\* the file is new to the folder or gone from it, or the folder new to the index
ReplaceUncopied(a) ==
    /\ pc[a] = "copy"
    /\ work[a].listed = 0 \/ ~HasEntry(held[a])
    /\ Replace(a, [NoEntry EXCEPT !.has = work[a].listed # 0, !.modified = work[a].listed])
    /\ UNCHANGED <<clock, file, row, pending, db, locating, past>>

\* the caller of validate_folder does not scan, or has scanned
LetGo(a) ==
    /\ pc[a] = "held"
    /\ pc' = [pc EXCEPT ![a] = "idle"]
    /\ held' = [held EXCEPT ![a] = 0]
    /\ UNCHANGED <<clock, file, row, cur, node, work, pending, db, locating, past>>

-----------------------------------------------------------------------------
(* scan_item *)

\* scan_uncached looks the node up again for each file it has listed
FindNode(a) ==
    /\ pc[a] = "idle" /\ HasEntry(cur)
    /\ held' = [held EXCEPT ![a] = cur]
    /\ pc' = [pc EXCEPT ![a] = "held"]
    /\ UNCHANGED <<clock, file, row, cur, node, work, pending, db, locating, past>>

\* `now` is taken before the file is opened.  A file whose thumbnail is wanted
\* is scanned even when its metadata is new enough.
BeginScan(a) ==
    /\ pc[a] = "held" /\ HasEntry(held[a])
    /\ \E wantsThumbnail \in BOOLEAN : wantsThumbnail \/ NeedsScan(node[held[a]])
    /\ work' = [work EXCEPT ![a].now = clock]
    /\ pc' = [pc EXCEPT ![a] = "read"]
    /\ UNCHANGED <<clock, file, row, cur, node, held, pending, db, locating, past>>

\* scan_file succeeds
ReadFile(a) ==
    /\ pc[a] = "read" /\ file # 0
    /\ work' = [work EXCEPT ![a].md = NewMetadata(file)]
    /\ places' = Append(places, 0)
    /\ pc' = [pc EXCEPT ![a] = "publish"]
    /\ UNCHANGED <<clock, file, row, cur, node, held, pending, db, lookups, loc, misplaced, past>>

\* scan_file fails, on a missing, locked or broken file: the date is written to
\* the database, not to the index
ScanFails(a) ==
    /\ pc[a] = "read"
    /\ pending' = Write(Null, work[a].now)
    /\ failed' = TRUE
    /\ work' = [work EXCEPT ![a] = NoWork]
    /\ pc' = [pc EXCEPT ![a] = "held"]
    /\ UNCHANGED <<clock, file, row, cur, node, held, db, locating,
                   torn, counts>>

\* found_file->metadata_scanned = now
PublishScanned(a) ==
    /\ pc[a] = "publish"
    /\ node' = [node EXCEPT ![held[a]].scanned = work[a].now]
    /\ pc' = [pc EXCEPT ![a] = "store"]
    /\ torn' = (torn \/ WritersAt(held[a]) \cup ReadersAt(held[a]) # {})
    /\ UNCHANGED <<clock, file, row, cur, held, work, pending, db, locating, failed, counts>>

\* found_file->metadata.store(metadata)
StoreMetadata(a) ==
    /\ pc[a] = "store"
    /\ node' = [node EXCEPT ![held[a]].md = work[a].md]
    /\ pc' = [pc EXCEPT ![a] = "write"]
    /\ UNCHANGED <<clock, file, row, cur, held, work, pending, db, locating, past>>

\* the write is queued, and so is a look-up for coordinates without a place
QueueWrite(a) ==
    /\ pc[a] = "write"
    /\ pending' = Write(work[a].md, work[a].now)
    /\ \/ ~WantsPlace(work[a].md) /\ UNCHANGED lookups
       \/ /\ WantsPlace(work[a].md) /\ Len(lookups) < setting.lookups
          /\ lookups' = Append(lookups, work[a].md.of)
    /\ work' = [work EXCEPT ![a] = NoWork]
    /\ pc' = [pc EXCEPT ![a] = "held"]
    /\ UNCHANGED <<clock, file, row, cur, node, held, db, places, loc, misplaced, past>>

-----------------------------------------------------------------------------
(* save_location, on the work thread *)

\* the entry is looked up, if it is still there, and its metadata taken, if it has any
LocateRead ==
    /\ loc.pc = "none" /\ lookups # <<>>
    /\ lookups' = Tail(lookups)
    /\ \/ /\ HasEntry(cur)
          /\ loc' = [NoLoc EXCEPT !.pc = IF node[cur].md = Null THEN "null" ELSE "read",
                                  !.for = Head(lookups), !.node = cur, !.md = node[cur].md]
          /\ torn' = (torn \/ WritersAt(cur) # {})
       \/ ~HasEntry(cur) /\ UNCHANGED <<loc, torn>>
    /\ UNCHANGED <<clock, file, row, cur, node, pc, held, work, pending, db, places, misplaced, failed, counts>>

\* safe_ps stores an empty object where there is none
LocateEmpty ==
    /\ loc.pc = "null"
    /\ node' = [node EXCEPT ![loc.node].md = NewMetadata(0)]
    /\ places' = Append(places, 0)
    /\ loc' = [loc EXCEPT !.pc = "read", !.md = NewMetadata(0)]
    /\ UNCHANGED <<clock, file, row, cur, pc, held, work, pending, db, lookups, misplaced, past>>

\* the place goes into the object, whichever version of the file that was read from
LocatePlace ==
    /\ loc.pc = "read"
    /\ places' = [places EXCEPT ![loc.md.at] = loc.for]
    /\ misplaced' = (misplaced \/ loc.for # loc.md.of)
    /\ loc' = [loc EXCEPT !.pc = "placed"]
    /\ UNCHANGED <<clock, file, row, cur, node, pc, held, work, pending, db, lookups, past>>

\* the write takes the entry's scan date
LocateDate ==
    /\ loc.pc = "placed"
    /\ loc' = [loc EXCEPT !.pc = "dated", !.scanned = node[loc.node].scanned]
    /\ UNCHANGED <<clock, file, row, cur, node, pc, held, work, pending, db, places, lookups, misplaced, past>>

LocateWrite ==
    /\ loc.pc = "dated"
    /\ pending' = Write(loc.md, loc.scanned)
    /\ loc' = NoLoc
    /\ UNCHANGED <<clock, file, row, cur, node, pc, held, work, db, places, lookups, misplaced, past>>

-----------------------------------------------------------------------------
(* The database thread *)

\* merge_folder finds no file in the folder's node: the rows become the node
LoadNode ==
    /\ dbPc = "load" /\ row # NoRow /\ ~HasEntry(cur)
    /\ node' = [node EXCEPT ![FreeNode] = [NoEntry EXCEPT !.has = TRUE, !.md = Unpacked,
                                                         !.scanned = row.scanned]]
    /\ Unpack
    /\ cur' = FreeNode
    /\ dbPc' = "idle"
    /\ UNCHANGED <<clock, file, row, pc, held, work, pending, dbNode, dbMd, lookups, loc, misplaced, past>>

\* merge_folder finds the file: the row's metadata replaces the index's
MergeMetadata ==
    /\ dbPc = "load" /\ row # NoRow /\ HasEntry(cur)
    /\ node' = [node EXCEPT ![cur].md = Unpacked]
    /\ Unpack
    /\ dbNode' = cur
    /\ dbPc' = "merge"
    /\ torn' = (torn \/ WritersAt(cur) \cup ReadersAt(cur) # {})
    /\ UNCHANGED <<clock, file, row, cur, pc, held, work, pending, dbMd, lookups, loc, misplaced,
                   failed, counts>>

\* and then its scan date
MergeScanned ==
    /\ dbPc = "merge"
    /\ node' = [node EXCEPT ![dbNode].scanned = row.scanned]
    /\ dbNode' = 0
    /\ dbPc' = "idle"
    /\ UNCHANGED <<clock, file, row, cur, pc, held, work, pending, dbMd, locating, past>>

\* there is no row, or merge_folder passes it over: the node has files, not this one
LoadNothing ==
    /\ dbPc = "load"
    /\ row = NoRow \/ (cur # 0 /\ ~HasEntry(cur))
    /\ dbPc' = "idle"
    /\ UNCHANGED <<clock, file, row, cur, node, pc, held, work, pending, dbNode, dbMd, locating, past>>

\* perform_writes takes all the writes and commits them in one transaction, on
\* the thread that reads the row; the metadata is packed as it is then
PerformWrites ==
    /\ dbPc = "idle" /\ pending # NoWrite
    /\ row' = [md |-> pending.md.of, place |-> Place(pending.md), scanned |-> pending.scanned, there |-> TRUE]
    /\ pending' = NoWrite
    /\ UNCHANGED <<clock, file, cur, node, pc, held, work, db, locating, past>>

\* maintenance: the database is closed and opened, which loads it again.
Compact ==
    /\ dbPc = "idle" /\ maintenance < setting.maintenances
    /\ maintenance' = maintenance + 1
    /\ dbPc' = "load"
    /\ UNCHANGED <<clock, file, row, cur, node, pc, held, work, pending, dbNode, dbMd, locating,
                   torn, failed, restarts>>

\* A reset deletes the database's file first; save_all_cached_items finds the
\* metadata of the file's entry
Reset ==
    /\ dbPc = "idle" /\ maintenance < setting.maintenances
    /\ maintenance' = maintenance + 1
    /\ row' = NoRow
    /\ \/ /\ HasEntry(cur) /\ node[cur].md # Null
          /\ dbMd' = node[cur].md
          /\ dbNode' = cur
          /\ dbPc' = "cache"
          /\ torn' = (torn \/ WritersAt(cur) # {})
       \/ /\ HasEntry(cur) => node[cur].md = Null
          /\ dbPc' = "load"
          /\ UNCHANGED <<dbMd, dbNode, torn>>
    /\ UNCHANGED <<clock, file, cur, node, pc, held, work, pending, locating, failed, restarts>>

\* and its scan date, and queues both for writing
SaveCached ==
    /\ dbPc = "cache"
    /\ pending' = Write(dbMd, node[dbNode].scanned)
    /\ dbMd' = Null
    /\ dbNode' = 0
    /\ dbPc' = "load"
    /\ UNCHANGED <<clock, file, row, cur, node, pc, held, work, locating, past>>

-----------------------------------------------------------------------------
(* The world *)

\* Time passes.  Another program may write the file, delete it, or make it anew.
Tick ==
    /\ clock < MaxClock
    /\ clock' = clock + 1
    /\ file' \in {file, 0, clock + 1}
    /\ UNCHANGED <<row, memory, misplaced, past>>

\* The program ends, without a last perform_writes, and is started again.
Restart ==
    /\ restarts < setting.restarts
    /\ restarts' = restarts + 1
    /\ cur' = 0 /\ node' = [n \in Node |-> NoEntry]
    /\ pc' = [a \in Scanner |-> "idle"] /\ held' = [a \in Scanner |-> 0]
    /\ work' = [a \in Scanner |-> NoWork]
    /\ places' = <<>> /\ pending' = NoWrite
    /\ dbPc' = "load" /\ dbNode' = 0 /\ dbMd' = Null /\ lookups' = <<>> /\ loc' = NoLoc
    /\ UNCHANGED <<clock, file, row, misplaced, torn, failed, maintenance>>

Validate(a) == BeginValidate(a) \/ List(a) \/ CopyMetadata(a) \/ CopyScannedAndReplace(a)
               \/ ReplaceUncopied(a) \/ LetGo(a)

Scan(a) == FindNode(a) \/ BeginScan(a) \/ ReadFile(a) \/ ScanFails(a)
           \/ PublishScanned(a) \/ StoreMetadata(a) \/ QueueWrite(a)

Locate == LocateRead \/ LocateEmpty \/ LocatePlace \/ LocateDate \/ LocateWrite

Database == LoadNode \/ MergeMetadata \/ MergeScanned \/ LoadNothing \/ PerformWrites
            \/ Compact \/ Reset \/ SaveCached

Next ==
    /\ \/ \E a \in Scanner : Validate(a) \/ Scan(a)
       \/ Locate \/ Database \/ Tick \/ Restart
    /\ UNCHANGED setting

Spec == Init /\ [][Next]_<<vars, setting>>

-----------------------------------------------------------------------------

\* The file is there and has an entry, and nobody is between two writes to it.
Settled == file # 0 /\ HasEntry(cur) /\ WritersAt(cur) = {}

\* An entry that needs no scan, of a file that has not changed since it was
\* listed, has the metadata of the file as it is, or none.  This is what the
\* order of the steps of scan_item is for (the date is taken before the file is
\* read, so that a change during the scan asks for another one).  It holds as
\* long as no two threads were inside the same entry at once: nothing locks an
\* entry, and a torn copy pairs old metadata with a new date for good.  The place
\* with it is the file's as well unless save_location found a newer version's
\* metadata when it came with an older one's place.
FreshEntry ==
    (Settled /\ ~torn /\ ~NeedsScan(node[cur]) /\ node[cur].modified = file)
        => /\ node[cur].md.of \in {0, file}
           /\ ~misplaced => Place(node[cur].md) \in {0, file}

\* An entry that needs no scan and has no metadata, or an empty object, is one
\* whose scan failed: the failed scan's date reaches the index through the
\* database.
MissingOnlyIfFailed ==
    (Settled /\ ~torn /\ ~failed /\ ~NeedsScan(node[cur]) /\ node[cur].modified # 0)
        => node[cur].md.of # 0

\* The database never vouches for metadata that is not the file's: a row dated
\* after the last change has the metadata of that change, and its place unless
\* one was misplaced, whenever its object was packed.
HonestRow ==
    (row # NoRow /\ row.md # 0 /\ file # 0 /\ row.scanned >= file /\ ~torn)
        => /\ row.md = file
           /\ ~misplaced => row.place \in {0, file}

\* The index's copy of the metadata, when it passes for up to date, is the
\* file's, or there is none.
NeverStale ==
    (Settled /\ ~NeedsScan(node[cur]) /\ node[cur].modified = file) => node[cur].md.of \in {0, file}
=============================================================================
