------------------------------- MODULE Browse -------------------------------
(***************************************************************************)
(* The page of items: view_state's search, its history, the items shown    *)
(* and those selected, with the query thread, the idle work of the UI      *)
(* thread and the monitor of the folder that is shown.                     *)
(*                                                                         *)
(* A page is a folder.  An item is an object for a file; whether it is     *)
(* selected is a flag of the object, so that what a refresh keeps of a     *)
(* selection depends on whether the query finds the objects again.         *)
(*                                                                         *)
(* The focus, the pinned item, the filter and the groups are left out.     *)
(***************************************************************************)
EXTENDS Naturals, FiniteSets, Sequences

CONSTANTS
    Folder, File,
    In,             \* In[f], the folder of a file
    MaxHistory,     \* history_state::max_history_size
    MaxObjects,     \* bound: how many objects of one file live at once
    MaxPending,     \* bound: queries that are not answered yet
    MaxPicked,      \* bound: files that are to be selected on a page that is opened
    MaxActs         \* bound: what the user and the others do

Nowhere == "nowhere"

ASSUME BrowseAssumption ==
    /\ In \in [File -> Folder] /\ Nowhere \notin Folder
    /\ MaxHistory \in Nat \ {0}
    \* one object of a file may be shown, and one kept for each query that is not answered
    /\ MaxPending \in Nat /\ MaxObjects \in Nat /\ MaxPending < MaxObjects

Object == File \X (1..MaxObjects)
Files(objects) == {o[1] : o \in objects}

VARIABLES
    disk,       \* the files there are
    view,       \* the view that is shown: items or another one
    search,     \* _search
    entries,    \* history._history
    pos,        \* history._pos, counted from 1
    shown,      \* _search_items
    flagged,    \* the objects whose selected flag is set
    selected,   \* _selected, as files
    listDue,    \* view_invalid::selection_list
    refreshDue, \* view_invalid::refresh_items
    queries,    \* the query queue
    running,    \* the query that has listed its folder, with what it found, if one has
    results,    \* the UI queue
    monitored, signalled,   \* the folder that is watched, and that it has changed
    wanted,     \* what the user selected last, and is still there
    unsure,     \* the user selected among items that a pending result replaces
    unseen,     \* folders that changed after they were listed, and nobody told
    refused,    \* a step back or forward was refused
    acts        \* how much the user and the others did

history == <<entries, pos>>
items == <<shown, flagged, selected, listDue>>
asking == <<queries, running, results>>
watch == <<monitored, signalled>>
vars == <<disk, view, search, history, items, refreshDue, asking, watch, wanted, unsure, unseen, refused, acts>>

Query == [search : Folder, existing : SUBSET Object, sel : SUBSET File, moved : BOOLEAN, live : BOOLEAN]

TypeOK ==
    /\ disk \subseteq File
    /\ view \in {"items", "edit"}
    /\ search \in Folder \cup {Nowhere}
    /\ entries \in Seq([search : Folder, sel : SUBSET File])
    /\ Len(entries) <= MaxHistory /\ pos \in 0..Len(entries)
    /\ shown \subseteq Object /\ flagged \subseteq Object /\ selected \subseteq File
    /\ listDue \in BOOLEAN /\ refreshDue \in BOOLEAN
    /\ \A i \in 1..Len(queries) : queries[i] \in Query
    /\ \A i \in 1..Len(results) : results[i].items \subseteq Object
    /\ \A o, p \in shown : o[1] = p[1] => o = p
    /\ \A i, j \in 1..Len(queries) : queries[i].live => i >= j
    /\ monitored \in Folder \cup {Nowhere}

Init ==
    /\ disk \in SUBSET File
    /\ view = "items" /\ search = Nowhere
    /\ entries = <<>> /\ pos = 0
    /\ shown = {} /\ flagged = {} /\ selected = {} /\ listDue = FALSE
    /\ refreshDue = FALSE
    /\ queries = <<>> /\ running = {} /\ results = <<>>
    /\ monitored = Nowhere /\ signalled = FALSE
    /\ wanted = {} /\ unsure = FALSE /\ unseen = {} /\ refused = FALSE /\ acts = 0

-----------------------------------------------------------------------------

\* What waits for an answer, and for its answer to be shown.
Asked == {queries[i] : i \in 1..Len(queries)} \cup
         {r.query : r \in running}
Answers == {results[i] : i \in 1..Len(results)}
Pending(s) == {q \in Asked : q.search = s} \cup {r \in Answers : r.search = s}

Alive == shown \cup (UNION {q.existing : q \in Asked}) \cup (UNION {r.items : r \in Answers})

\* The object a query returns for a file: the one that was shown when it was posted,
\* or a new one, whose flag is clear.
NewObject(f) ==
    <<f, CHOOSE n \in 1..MaxObjects : <<f, n>> \notin Alive>>

-----------------------------------------------------------------------------
(* Slips of the kind these steps invite, no part of Spec. *)

\* the item is looked up in nothing
FoundAnew(q, f) == NewObject(f)

\* when the history is full the entry that falls off is the new one
HistoryAddDropsNewest(s, at) ==
    LET kept == IF at = 0 THEN <<>> ELSE [SubSeq(entries, 1, at) EXCEPT ![at].sel = selected]
        all == Append(kept, [search |-> s, sel |-> {}])
    IN  IF at # 0 /\ entries[at].search = s
        THEN entries' = [entries EXCEPT ![at].sel = selected] /\ pos' = at
        ELSE /\ entries' = IF Len(all) > MaxHistory THEN SubSeq(all, 1, MaxHistory) ELSE all
             /\ pos' = Len(entries')

\* every answer is shown
AcceptedAlways(r) == TRUE

-----------------------------------------------------------------------------

Found(q, f) ==
    IF f \in Files(q.existing) THEN CHOOSE o \in q.existing : o[1] = f ELSE NewObject(f)

-----------------------------------------------------------------------------
(* view_state::open *)

\* history_state::history_add from position at
HistoryAdd(s, at) ==
    LET kept == IF at = 0 THEN <<>> ELSE [SubSeq(entries, 1, at) EXCEPT ![at].sel = selected]
        all == Append(kept, [search |-> s, sel |-> {}])
    IN  IF at # 0 /\ entries[at].search = s
        THEN entries' = [entries EXCEPT ![at].sel = selected] /\ pos' = at
        ELSE /\ entries' = IF Len(all) > MaxHistory THEN Tail(all) ELSE all
             /\ pos' = Len(entries')

\* A query for page s is posted; those before it are cancelled.
PostQuery(s, sel) ==
    /\ Len(queries) + Len(results) + Cardinality(running) < MaxPending
    /\ queries' = Append([i \in 1..Len(queries) |-> [queries[i] EXCEPT !.live = FALSE]],
                         [search |-> s, existing |-> shown, sel |-> sel, moved |-> s # search, live |-> TRUE])
    /\ running' = {[r EXCEPT !.query.live = FALSE] : r \in running}
    /\ UNCHANGED results

\* The page will have selected what was asked for or is selected now, unless an older
\* result is to select objects this query cannot know, or the page shows the little a
\* cancelled query had found, so that what was selected is not among the existing items.
Opened(s, sel, at) ==
    /\ search' = s
    /\ IF s = search THEN pos' = at /\ UNCHANGED entries ELSE HistoryAdd(s, at)
    /\ PostQuery(s, sel)
    /\ wanted' = IF sel # {} THEN sel ELSE IF s = search THEN wanted ELSE Files(flagged \cap shown)
    /\ unsure' = /\ sel = {}
                  /\ \/ unsure \/ \E p \in Pending(s) : p.sel # {}
                     \/ s = search /\ Files(flagged \cap shown) # wanted
    /\ refused' = (refused /\ at = pos /\ s = search)
    /\ UNCHANGED <<disk, view, items, watch, unseen>>

Open(s, sel) == Opened(s, sel, pos) /\ UNCHANGED refreshDue

\* browse_back, browse_forward: the position is moved before the page is opened; a
\* view with unsaved changes refuses to be left.
Browse(at) ==
    /\ at \in 1..Len(entries)
    /\ at = pos + 1 \/ pos = at + 1
    /\ \/ Opened(entries[at].search, entries[at].sel, at) /\ UNCHANGED refreshDue
       \/ /\ view = "edit"
          /\ pos' = at
          /\ refused' = TRUE
          /\ UNCHANGED <<disk, view, search, entries, items, refreshDue, asking, watch, wanted, unsure, unseen>>

-----------------------------------------------------------------------------
(* index_state::query_items, on the query thread *)

ListFolder ==
    /\ running = {} /\ queries # <<>>
    /\ LET q == Head(queries)
       IN  /\ running' = {[query |-> q, found |-> {f \in disk : In[f] = q.search}]}
           /\ unseen' = IF q.live THEN unseen \ {q.search} ELSE unseen
    /\ queries' = Tail(queries)
    /\ UNCHANGED <<disk, view, search, history, items, refreshDue, results, watch, wanted, unsure, refused>>

\* A query that was cancelled stops somewhere and answers with what it has.
Matches(q, found) == IF q.live THEN {found} ELSE SUBSET found

Answer ==
    /\ \E r \in running : \E found \in Matches(r.query, r.found) :
           LET q == r.query
               objects == {Found(q, f) : f \in found}
           IN  /\ results' = Append(results, [search |-> q.search, items |-> objects,
                                              sel |-> q.sel, moved |-> q.moved])
               /\ flagged' = flagged \ (objects \ q.existing)
    /\ running' = {}
    /\ UNCHANGED <<disk, view, search, history, shown, selected, listDue, refreshDue, queries, watch,
                   wanted, unsure, unseen, refused>>

-----------------------------------------------------------------------------
(* The UI thread *)

Accepted(r) == r.search = search

\* append_items with search_complete: the answer replaces what is shown, if it is one
\* for the page that is shown
ShowAnswer ==
    /\ results # <<>>
    /\ results' = Tail(results)
    /\ LET r == Head(results)
           picked == IF r.sel = {} THEN flagged \cap r.items ELSE {o \in r.items : o[1] \in r.sel}
       IN  IF Accepted(r)
           THEN /\ shown' = r.items
                /\ flagged' = ((flagged \ r.items) \cup picked) \cap (r.items \cup Alive)
                /\ selected' = Files(picked)
                /\ listDue' = TRUE
                /\ IF r.moved
                   THEN /\ monitored' = r.search /\ signalled' = FALSE
                        /\ unseen' = IF signalled /\ monitored = r.search THEN unseen \cup {r.search} ELSE unseen
                   ELSE UNCHANGED <<watch, unseen>>
                /\ wanted' = IF Tail(results) = <<>> /\ ~\E q \in Asked : q.search = search
                             THEN wanted \cap Files(r.items) ELSE wanted
           ELSE UNCHANGED <<items, watch, unseen, wanted>>
    /\ UNCHANGED <<disk, view, search, history, refreshDue, queries, running, unsure, refused>>

\* update_selection
UpdateSelection ==
    /\ listDue
    /\ listDue' = FALSE
    /\ selected' = Files(flagged \cap shown)
    /\ UNCHANGED <<disk, view, search, history, shown, flagged, refreshDue, asking, watch>>
    /\ UNCHANGED <<wanted, unsure, unseen, refused>>

\* The refresh of the view that is shown: only the views of the items ask again.  While
\* files are detached or a command runs it is put off.
Refresh ==
    /\ refreshDue
    /\ refreshDue' = FALSE
    /\ \/ view = "items" /\ search # Nowhere /\ Opened(search, {}, pos)
       \/ /\ view = "edit" \/ search = Nowhere
          /\ unseen' = unseen \cup ({search} \ {Nowhere})
          /\ UNCHANGED <<disk, view, search, history, items, asking, watch, wanted, unsure, refused>>

\* on_folder_changed
FolderChanged ==
    /\ signalled
    /\ signalled' = FALSE
    /\ refreshDue' = TRUE
    /\ UNCHANGED <<disk, view, search, history, items, asking, monitored, wanted, unsure, unseen, refused>>

\* The user selects: one item alone, one more or less, all, none, the others.
Choices ==
    {{o} : o \in shown} \cup {(flagged \cap shown) \cup {o} : o \in shown}
        \cup {(flagged \cap shown) \ {o} : o \in shown} \cup {shown, {}, shown \ flagged}

Select ==
    /\ \E now \in Choices :
           /\ now # flagged \cap shown
           /\ flagged' = (flagged \ shown) \cup now
           /\ wanted' = Files(now)
    /\ unsure' = \E p \in Pending(search) :
                    p.sel # {} \/ p \notin Asked \/ p.existing # shown
    /\ listDue' = TRUE
    /\ UNCHANGED <<disk, view, search, history, shown, selected, refreshDue, asking, watch, unseen, refused>>

\* view_mode
ChangeView ==
    /\ view' = IF view = "items" THEN "edit" ELSE "items"
    /\ UNCHANGED <<disk, search, history, items, refreshDue, asking, watch, wanted, unsure, unseen, refused>>

-----------------------------------------------------------------------------

\* Somebody makes or deletes a file.
Change(f) ==
    /\ disk' = IF f \in disk THEN disk \ {f} ELSE disk \cup {f}
    /\ IF monitored = In[f]
       THEN signalled' = TRUE /\ UNCHANGED <<monitored, unseen>>
       ELSE unseen' = unseen \cup {In[f]} /\ UNCHANGED watch
    /\ UNCHANGED <<view, search, history, items, refreshDue, asking, wanted, unsure, refused>>

Act ==
    /\ acts < MaxActs
    /\ acts' = acts + 1
    /\ \/ \E s \in Folder :
          \E sel \in {x \in SUBSET File : Cardinality(x) <= MaxPicked /\ \A f \in x : In[f] = s} :
              Open(s, sel)
       \/ \E at \in 1..MaxHistory : Browse(at)
       \/ Select \/ ChangeView
       \/ \E f \in File : Change(f)

Work ==
    /\ ListFolder \/ Answer \/ ShowAnswer \/ UpdateSelection \/ Refresh \/ FolderChanged
    /\ UNCHANGED acts

Next == Act \/ Work

Spec == Init /\ [][Next]_vars

-----------------------------------------------------------------------------

Quiet == Asked = {} /\ Answers = {} /\ ~refreshDue /\ ~signalled /\ ~listDue

\* When nothing is on its way the page shows the files of its folder, unless a change
\* fell between the listing and the watch, or a view that does not ask again took the
\* refresh.
ShownSettles ==
    (Quiet /\ search \notin unseen) => Files(shown) = {f \in disk : In[f] = search}

\* When nothing is on its way, what the user selected last is selected, as far as it is
\* still there: no refresh, no cancelled query and no move between the pages loses it or
\* selects anything else, unless it was selected among items that were being replaced.
SelectionFollows ==
    (Quiet /\ ~unsure) => selected = wanted /\ Files(flagged \cap shown) = wanted

\* The entry the history is at is the page that is shown.
HistoryFollows ==
    ~refused => (pos = 0 <=> search = Nowhere) /\ (pos # 0 => entries[pos].search = search)
=============================================================================
