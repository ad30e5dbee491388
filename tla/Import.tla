------------------------------- MODULE Import -------------------------------
(***************************************************************************)
(* The import of files into a folder of the collection: import_view::run,  *)
(* import_analysis and import_copy, and the table of what was imported.    *)
(*                                                                         *)
(* A run asks the database thread for the imports on record, then the work *)
(* thread decides for each file found, copies or moves them one by one,    *)
(* and last posts the new records to the database thread.  The user        *)
(* interface waits for the copies only: the next run may be asked for      *)
(* before the records of this one are posted.                              *)
(*                                                                         *)
(* The destination is one folder; a file keeps its name.  A file's content *)
(* is the file it comes from and its date, which a copy keeps.             *)
(***************************************************************************)
EXTENDS Naturals, Sequences, SequencesExt

CONSTANTS
    Items,      \* the files found at the sources, in the order of the listing
    NameOf,       \* NameOf[i], the name of each
    Sidecars,   \* Sidecars[i], its sidecars as the index has them, in order
    MaxFileDate,    \* bound on the dates
    MaxRuns     \* bound on the runs

Item == ToSet(Items)

ASSUME ImportAssumption ==
    /\ Items \in Seq(Item) /\ Sidecars \in [Item -> Seq(Item)]
    /\ MaxFileDate \in Nat \ {0} /\ MaxRuns \in Nat

FileDate == 0..MaxFileDate
Names == {NameOf[i] : i \in Item}

\* item_import: name, date and size, not the folder it was found in
Record == Names \X (1..MaxFileDate)

Option == [move : BOOLEAN, overwrite : BOOLEAN, ignore : BOOLEAN]

NoFile == [of |-> "none", date |-> 0]

VARIABLES
    source,     \* source[i], the date of a file at its source, 0 for none
    dest,       \* dest[n], what the destination has under a name
    moved,      \* a history: what was moved from its source to a name, until somebody
                \* discards what is there or the run that moved it overwrites it
    rows,       \* the table item_imports
    tasks,      \* the database thread's queue: loads and writes; known, a history, is what
                \* had been posted before the run was asked for
    runs,       \* the work thread's queue
    gen,        \* ui::cancel_gen
    waiting,    \* the user interface waits for a run
    import,     \* what the work thread does with the first of runs
    left,       \* the files it has still to analyse
    plan,       \* and what it has still to copy
    imports,    \* import_result.imports
    asked       \* the runs so far

places == <<source, dest, moved>>
work == <<import, left, plan, imports>>
importVars == <<places, rows, tasks, runs, gen, waiting, work, asked>>

Run == Head(runs)

\* import_copy is at an entry that is to be imported
AtImport == import = "copy" /\ plan # <<>> /\ Run.gen = gen /\ Head(plan).wanted

ImportTypeOK ==
    /\ source \in [Item -> FileDate]
    /\ \A n \in Names : dest[n] = NoFile \/ (dest[n].of \in Item /\ dest[n].date \in 1..MaxFileDate)
    /\ \A m \in moved : m.of \in Item /\ m.date \in 1..MaxFileDate /\ m.as \in Names
    /\ rows \subseteq Record /\ imports \subseteq Record
    /\ import \in {"idle", "analyse", "copy", "post"} /\ waiting \in BOOLEAN
    /\ import # "idle" => runs # <<>>
    /\ \A r \in ToSet(runs) : r.previous \subseteq Record /\ r.gen <= gen

ImportInit ==
    /\ source \in [Item -> 1..MaxFileDate]
    /\ dest = [n \in Names |-> NoFile] /\ moved = {}
    /\ rows = {} /\ tasks = <<>> /\ runs = <<>>
    /\ gen = 0 /\ waiting = FALSE
    /\ import = "idle" /\ left = <<>> /\ plan = <<>> /\ imports = {}
    /\ asked = 0

-----------------------------------------------------------------------------
(* A slip of the kind these steps invite, no part of ImportSpec. *)

\* the imports on record are asked for once the earlier run's copies are done,
\* ahead of what is queued
LoadItemImportsAhead ==
    /\ \E k \in DOMAIN tasks :
        /\ tasks[k].kind = "load"
        /\ runs' = Append(runs, [option |-> tasks[k].option, gen |-> tasks[k].gen,
                                 known |-> tasks[k].known,
                                 previous |-> IF tasks[k].option.ignore THEN rows ELSE {}])
        /\ tasks' = RemoveAt(tasks, k)
    /\ UNCHANGED <<places, rows, gen, waiting, work, asked>>

-----------------------------------------------------------------------------
(* The user interface and the database thread *)

Posted == rows \cup UNION {t.records : t \in ToSet(tasks)}

\* import_view::run up to its wait
Ask(o) ==
    /\ ~waiting /\ asked < MaxRuns
    /\ tasks' = Append(tasks, [kind |-> "load", records |-> {}, option |-> o, gen |-> gen,
                               known |-> Posted])
    /\ waiting' = TRUE /\ asked' = asked + 1
    /\ UNCHANGED <<places, rows, runs, gen, work>>

\* the dialog is closed: the wait ends
CancelRun ==
    /\ waiting
    /\ gen' = gen + 1 /\ waiting' = FALSE
    /\ UNCHANGED <<places, rows, tasks, runs, work, asked>>

LoadItemImports ==
    /\ tasks # <<>> /\ Head(tasks).kind = "load"
    /\ LET t == Head(tasks) IN
       runs' = Append(runs, [option |-> t.option, gen |-> t.gen, known |-> t.known,
                             previous |-> IF t.option.ignore THEN rows ELSE {}])
    /\ tasks' = Tail(tasks)
    /\ UNCHANGED <<places, rows, gen, waiting, work, asked>>

WritesItemImports ==
    /\ tasks # <<>> /\ Head(tasks).kind = "write"
    /\ rows' = rows \cup Head(tasks).records
    /\ tasks' = Tail(tasks)
    /\ UNCHANGED <<places, runs, gen, waiting, work, asked>>

\* Somebody works on the files while no run is under way.
EditSource(i, d) ==
    /\ ~waiting /\ runs = <<>> /\ d > source[i]
    /\ source' = [source EXCEPT ![i] = d]
    /\ UNCHANGED <<dest, moved, rows, tasks, runs, gen, waiting, work, asked>>

Discard(n) ==
    /\ ~waiting /\ runs = <<>> /\ dest[n] # NoFile
    /\ dest' = [dest EXCEPT ![n] = NoFile]
    /\ moved' = {m \in moved : m.as # n}
    /\ UNCHANGED <<source, rows, tasks, runs, gen, waiting, work, asked>>

-----------------------------------------------------------------------------
(* A slip of the kind this step invites, no part of ImportSpec. *)

\* a file that is to overwrite if newer is never ignored
IgnoreNone(i, n) == dest[n] # NoFile /\ ~Run.option.overwrite

-----------------------------------------------------------------------------
(* import_analysis *)

\* ignore_existing
Ignored(i, n) ==
    /\ dest[n] # NoFile
    /\ Run.option.overwrite => source[i] <= dest[n].date

RecordOf(i) == <<NameOf[i], source[i]>>

ToImport(i) ==
    /\ source[i] # 0
    /\ RecordOf(i) \notin Run.previous
    /\ ~Ignored(i, NameOf[i])

\* A file with its sidecars, which go where it goes, under its name; wanted says
\* whether the action is import_action::import.  For a sidecar that is ignored, or one of
\* a file that is not imported, there is no entry in the code; here it is one not wanted.
Entries(i) ==
    LET files == <<i>> \o Sidecars[i] IN
    [k \in DOMAIN files |->
        [from |-> files[k], to |-> NameOf[i], record |-> RecordOf(i),
         wanted |-> ToImport(i) /\ ~Ignored(files[k], NameOf[i])]]

\* the work thread takes the run, and scan_items lists the files
Analyse ==
    /\ import = "idle" /\ runs # <<>>
    /\ import' = "analyse" /\ left' = Items
    /\ UNCHANGED <<places, rows, tasks, runs, gen, waiting, plan, imports, asked>>

AnalyseItem ==
    /\ import = "analyse" /\ left # <<>> /\ Run.gen = gen
    /\ plan' = plan \o Entries(Head(left))
    /\ left' = Tail(left)
    /\ UNCHANGED <<places, rows, tasks, runs, gen, waiting, import, imports, asked>>

\* all is analysed, or the run was cancelled; when the folder cannot be created
\* nothing is copied into it
Analysed ==
    /\ import = "analyse"
    /\ left = <<>> \/ Run.gen # gen
    /\ plan' \in {plan, <<>>}
    /\ import' = "copy" /\ left' = <<>>
    /\ UNCHANGED <<places, rows, tasks, runs, gen, waiting, imports, asked>>

-----------------------------------------------------------------------------
(* import_copy *)

\* the run has put something under the name
PutThereByRun(n) == \E r \in imports : r[1] = n

\* the files of an entry that is moved or copied, and the history of those moved
MoveOrCopy(e) ==
    LET own == {m \in moved : Run.option.overwrite /\ PutThereByRun(e.to) /\ m.as = e.to}
        now == {[of |-> e.from, date |-> source[e.from], as |-> e.to]}
    IN  /\ dest' = [dest EXCEPT ![e.to] = [of |-> e.from, date |-> source[e.from]]]
        /\ source' = IF Run.option.move THEN [source EXCEPT ![e.from] = 0] ELSE source
        /\ moved' = (moved \ own) \cup IF Run.option.move THEN now ELSE {}

\* A slip of the kind this step invites, no part of ImportSpec: fail_if_exists is not
\* passed on.
CopyAnyway ==
    LET e == Head(plan) IN
    /\ AtImport
    /\ source[e.from] # 0
    /\ MoveOrCopy(e)
    /\ imports' = imports \cup {e.record}
    /\ plan' = Tail(plan)
    /\ UNCHANGED <<rows, tasks, runs, gen, waiting, import, left, asked>>

Skip ==
    /\ import = "copy" /\ plan # <<>> /\ Run.gen = gen
    /\ ~Head(plan).wanted
    /\ plan' = Tail(plan)
    /\ UNCHANGED <<places, rows, tasks, runs, gen, waiting, import, left, imports, asked>>

\* move_or_copy
Copy ==
    LET e == Head(plan) IN
    /\ AtImport
    /\ source[e.from] # 0
    /\ Run.option.overwrite \/ dest[e.to] = NoFile
    /\ MoveOrCopy(e)
    /\ imports' = imports \cup {e.record}
    /\ plan' = Tail(plan)
    /\ UNCHANGED <<rows, tasks, runs, gen, waiting, import, left, asked>>

\* it exists already, it is in use, there is no room
NotCopied ==
    /\ AtImport /\ plan' = Tail(plan)
    /\ UNCHANGED <<places, rows, tasks, runs, gen, waiting, import, left, imports, asked>>

\* all is copied, or the run was cancelled; who waits for this run waits no longer
Complete ==
    /\ import = "copy"
    /\ plan = <<>> \/ Run.gen # gen
    /\ waiting' = (waiting /\ Run.gen # gen)
    /\ plan' = <<>>
    /\ import' = "post"
    /\ UNCHANGED <<places, rows, tasks, runs, gen, left, imports, asked>>

\* and the task posts its records
PostImports ==
    /\ import = "post"
    /\ tasks' = Append(tasks, [kind |-> "write", records |-> imports])
    /\ runs' = Tail(runs)
    /\ import' = "idle" /\ imports' = {}
    /\ UNCHANGED <<places, rows, gen, waiting, left, plan, asked>>

-----------------------------------------------------------------------------

ImportNext ==
    \/ \E o \in Option : Ask(o)
    \/ CancelRun \/ LoadItemImports \/ WritesItemImports
    \/ \E i \in Item, d \in FileDate : EditSource(i, d)
    \/ \E n \in Names : Discard(n)
    \/ Analyse \/ AnalyseItem \/ Analysed \/ Skip \/ Copy \/ NotCopied \/ Complete \/ PostImports

ImportSpec == ImportInit /\ [][ImportNext]_importVars

-----------------------------------------------------------------------------

PutEntry == Head(plan)
Puts == import = "copy" /\ plan # <<>> /\ dest' # dest

\* A file that was on record when the run was asked for is not imported again by a
\* run that ignores such: the records of a run are posted before anybody can ask
\* whether they are there, and the database thread keeps the order.
IgnoresPrevious == (Puts /\ Run.option.ignore) => PutEntry.record \notin Run.known

ImportedOnce == [][IgnoresPrevious]_importVars

\* What was moved from its source is at the destination, or something newer has taken
\* its place, whatever the runs overwrite, however many fail or are cancelled and
\* whatever their plans were made of; unless somebody discarded it, or the same run put
\* there another file of that name, as one that may overwrite does.
MovedIsKept ==
    \A m \in moved : dest[m.as] = [of |-> m.of, date |-> m.date] \/ dest[m.as].date > m.date

\* What is overwritten is older than what takes its place.
Overwrites == Puts /\ dest[PutEntry.to] # NoFile

OverwritesOlder == Overwrites => dest[PutEntry.to].date < source[PutEntry.from]

OverwritesOnlyNewer == [][OverwritesOlder]_importVars

\* It is so for what was at the destination before the run: only what the run itself
\* put there, another file of that name or a photo, may be newer than a twin or a
\* sidecar that takes its place.
OverwritesOlderOnce == (Overwrites /\ ~PutThereByRun(PutEntry.to)) => OverwritesOlder

OverwritesNewerOnce == [][OverwritesOlderOnce]_importVars
=============================================================================
