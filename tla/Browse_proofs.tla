--------------------------- MODULE Browse_proofs ---------------------------
(***************************************************************************)
(* For any folders and files, however long the history may be and however  *)
(* many queries wait: the page that is shown is the one the history is at, *)
(* and when nothing is on its way it shows the files of its folder, with   *)
(* those selected that the user selected.                                  *)
(*                                                                         *)
(* Three invariants, each above the one before: what the state is made of, *)
(* with one object for a file wherever items are kept; what is on its way  *)
(* to the page; and what is on its way to the selection.                   *)
(***************************************************************************)
EXTENDS Browse, SequenceTheorems, FiniteSetTheorems, TLAPS

\* Items as they are shown, asked for again or found: a file is there once.
OneEach(objects) == \A o, p \in objects : o[1] = p[1] => o = p
ItemSet == {s \in SUBSET Object : OneEach(s)}

Entry == [search : Folder, sel : SUBSET File]
AskedQuery == [search : Folder, existing : ItemSet, sel : SUBSET File, moved : BOOLEAN, live : BOOLEAN]
Listed == [query : AskedQuery, found : SUBSET File]
Result == [search : Folder, items : ItemSet, sel : SUBSET File, moved : BOOLEAN]

Placed ==
    /\ disk \subseteq File
    /\ view \in {"items", "edit"}
    /\ search \in Folder \cup {Nowhere} /\ monitored \in Folder \cup {Nowhere}
    /\ listDue \in BOOLEAN /\ refreshDue \in BOOLEAN

ItemsTyped == shown \in ItemSet /\ flagged \subseteq Object /\ selected \subseteq File

HistoryTyped == entries \in Seq(Entry) /\ Len(entries) <= MaxHistory /\ pos \in 0..Len(entries)

AskingTyped == queries \in Seq(AskedQuery) /\ running \subseteq Listed /\ results \in Seq(Result)

\* One query is answered at a time, and no more than MaxPending wait.
Bounded ==
    /\ \A r, t \in running : r = t
    /\ Len(queries) + Len(results) + (IF running = {} THEN 0 ELSE 1) <= MaxPending

\* A query that another one follows is cancelled.
LastLives == \A i, j \in 1..Len(queries) : queries[i].live => i >= j

ShapeInv == Placed /\ ItemsTyped /\ HistoryTyped /\ AskingTyped /\ Bounded /\ LastLives

-----------------------------------------------------------------------------
(* What the steps do to the queues, the items and the history. *)

LEMMA WhoKeeps ==
    ASSUME NEW o \in Alive
    PROVE  o \in shown \/ (\E q \in Asked : o \in q.existing) \/ \E a \in Answers : o \in a.items
BY Zenon DEF Alive

\* What is alive of a file is what is shown and what each query or answer that waits keeps
\* of it, so that there is always an object left.
LEMMA NewObjectIsNew ==
    ASSUME ShapeInv, NEW r \in running, NEW f \in File, f \notin Files(r.query.existing)
    PROVE  NewObject(f) \in Object /\ NewObject(f) \notin Alive
<1> DEFINE m == Len(queries)
           k == Len(queries) + Len(results)
           kept == [i \in 0..k |-> IF i = 0 THEN shown ELSE IF i <= m THEN queries[i].existing
                                   ELSE results[i - m].items]
           number == [i \in 0..k |-> CHOOSE n \in 1..MaxObjects : <<f, n>> \in kept[i]]
           used == {number[i] : i \in 0..k}
<1>1. m \in Nat /\ k \in Nat /\ Len(results) \in Nat /\ k + 1 <= MaxPending
      /\ MaxPending \in Nat /\ MaxObjects \in Nat /\ MaxPending < MaxObjects
    BY LenProperties, BrowseAssumption DEF ShapeInv, AskingTyped, Bounded
<1>2. \A i \in 0..k : kept[i] \in ItemSet
    <2> SUFFICES ASSUME NEW i \in 0..k PROVE kept[i] \in ItemSet
        OBVIOUS
    <2>1. CASE i = 0
        BY <2>1, <1>1 DEF ShapeInv, ItemsTyped
    <2>2. CASE i # 0 /\ i <= m
        <3>1. i \in 1..Len(queries)
            BY <2>2, <1>1
        <3>2. queries[i] \in AskedQuery
            BY <3>1, ElementOfSeq DEF ShapeInv, AskingTyped
        <3> QED BY <3>2, <2>2 DEF AskedQuery
    <2>3. CASE i # 0 /\ ~(i <= m)
        <3>1. i - m \in 1..Len(results)
            BY <2>3, <1>1
        <3>2. results[i - m] \in Result
            BY <3>1, ElementOfSeq DEF ShapeInv, AskingTyped
        <3> QED BY <3>2, <2>3 DEF Result
    <2> QED BY <2>1, <2>2, <2>3
<1>3. ASSUME NEW i \in 0..k, NEW n \in 1..MaxObjects, <<f, n>> \in kept[i] PROVE n \in used
    <2> DEFINE c == CHOOSE x \in 1..MaxObjects : <<f, x>> \in kept[i]
    <2>1. <<f, c>> \in kept[i]
        BY <1>3
    <2>2. <<f, c>> = <<f, n>>
        BY <2>1, <1>3, <1>2 DEF ItemSet, OneEach
    <2>3. number[i] = c
        OBVIOUS
    <2> QED BY <2>2, <2>3
<1>4. ASSUME NEW n \in 1..MaxObjects, <<f, n>> \in Alive PROVE n \in used
    <2>1. CASE <<f, n>> \in shown
        <3>1. 0 \in 0..k /\ kept[0] = shown
            BY <1>1
        <3> QED BY <3>1, <2>1, <1>3
    <2>2. ASSUME NEW i \in 1..Len(queries), <<f, n>> \in queries[i].existing PROVE n \in used
        <3>1. i \in 0..k /\ kept[i] = queries[i].existing
            BY <1>1
        <3> QED BY <3>1, <2>2, <1>3
    <2>3. ASSUME NEW i \in 1..Len(results), <<f, n>> \in results[i].items PROVE n \in used
        <3>1. i + m \in 0..k /\ kept[i + m] = results[i].items
            BY <1>1
        <3> QED BY <3>1, <2>3, <1>3
    <2>4. ASSUME NEW t \in running PROVE <<f, n>> \notin t.query.existing
        <3>1. t = r
            BY DEF ShapeInv, Bounded
        <3> QED BY <3>1 DEF Files
    <2>5. CASE \E q \in Asked : <<f, n>> \in q.existing
        BY <2>5, <2>2, <2>4 DEF Asked
    <2>6. CASE \E a \in Answers : <<f, n>> \in a.items
        BY <2>6, <2>3 DEF Answers
    <2>7. <<f, n>> \in shown \/ (\E q \in Asked : <<f, n>> \in q.existing)
              \/ \E a \in Answers : <<f, n>> \in a.items
        BY <1>4, WhoKeeps
    <2> QED BY <2>1, <2>5, <2>6, <2>7
<1>5. IsFiniteSet(used) /\ Cardinality(used) <= k + 1 /\ Cardinality(used) \in Nat
    <2>1. IsFiniteSet(0..k) /\ Cardinality(0..k) = k + 1
        BY <1>1, FS_Interval
    <2>2. number \in Surjection(0..k, used)
        BY DEF Surjection
    <2> HIDE DEF number, used
    <2> QED BY <2>1, <2>2, FS_Surjection, FS_CardinalityType
<1> HIDE DEF used
<1>6. ~(1..MaxObjects \subseteq used)
    <2> SUFFICES ASSUME 1..MaxObjects \subseteq used PROVE FALSE
        OBVIOUS
    <2>1. Cardinality(1..MaxObjects) = MaxObjects
        BY <1>1, FS_Interval
    <2>2. Cardinality(1..MaxObjects) <= Cardinality(used)
        BY <1>5, FS_Subset
    <2> QED BY <2>1, <2>2, <1>1, <1>5
<1>7. \E n \in 1..MaxObjects : <<f, n>> \notin Alive
    BY <1>4, <1>6
<1> QED BY <1>7 DEF NewObject, Object

\* A query returns one object for each file it found: the one that was shown when it was
\* posted, or one that nobody has.
LEMMA FoundObjects ==
    ASSUME ShapeInv, NEW r \in running, NEW found \in SUBSET File
    PROVE  LET objects == {Found(r.query, f) : f \in found}
           IN  /\ objects \in ItemSet /\ Files(objects) = found
               /\ (objects \ r.query.existing) \cap Alive = {}
               /\ \A o \in objects, e \in r.query.existing : o[1] = e[1] => o = e
<1> DEFINE q == r.query
           objects == {Found(q, f) : f \in found}
<1>1. q.existing \in ItemSet
    BY DEF ShapeInv, AskingTyped, Listed, AskedQuery
<1>2. ASSUME NEW f \in found
      PROVE  /\ Found(q, f) \in Object /\ Found(q, f)[1] = f
             /\ Found(q, f) \in q.existing \/ Found(q, f) \notin Alive
             /\ \A e \in q.existing : e[1] = f => Found(q, f) = e
    <2>1. CASE f \in Files(q.existing)
        <3>1. \E o \in q.existing : o[1] = f
            BY <2>1 DEF Files
        <3> QED BY <3>1, <2>1, <1>1 DEF Found, ItemSet, OneEach
    <2>2. CASE f \notin Files(q.existing)
        <3>1. NewObject(f) \in Object /\ NewObject(f) \notin Alive
            BY <2>2, NewObjectIsNew
        <3>2. NewObject(f)[1] = f
            BY DEF NewObject
        <3>3. \A e \in q.existing : e[1] # f
            BY <2>2 DEF Files
        <3> QED BY <3>1, <3>2, <3>3, <2>2 DEF Found
    <2> QED BY <2>1, <2>2
<1>3. objects \in ItemSet
    BY <1>2 DEF ItemSet, OneEach
<1>4. Files(objects) = found
    BY <1>2 DEF Files
<1> QED BY <1>2, <1>3, <1>4

NewQuery(s, sel) == [search |-> s, existing |-> shown, sel |-> sel, moved |-> s # search, live |-> TRUE]

LEMMA QueryPosted ==
    ASSUME ShapeInv, NEW s \in Folder, NEW sel \in SUBSET File, PostQuery(s, sel)
    PROVE  /\ queries' \in Seq(AskedQuery) /\ Len(queries') = Len(queries) + 1 /\ queries' # <<>>
           /\ queries'[Len(queries')] = NewQuery(s, sel)
           /\ \A i \in 1..Len(queries) : queries'[i] = [queries[i] EXCEPT !.live = FALSE]
           /\ running' = {[r EXCEPT !.query.live = FALSE] : r \in running} /\ running' \subseteq Listed
           /\ results' = results
<1> DEFINE old == [i \in 1..Len(queries) |-> [queries[i] EXCEPT !.live = FALSE]]
           new == NewQuery(s, sel)
<1>1. new \in AskedQuery
    BY DEF NewQuery, AskedQuery, ShapeInv, ItemsTyped
<1>2. \A i \in 1..Len(queries) : queries[i] \in AskedQuery
    BY ElementOfSeq DEF ShapeInv, AskingTyped
<1>3. Len(queries) \in Nat
    BY LenProperties DEF ShapeInv, AskingTyped
<1>4. old \in Seq(AskedQuery) /\ Len(old) = Len(queries)
    <2>1. \A i \in 1..Len(queries) : [queries[i] EXCEPT !.live = FALSE] \in AskedQuery
        BY <1>2 DEF AskedQuery
    <2> QED BY <2>1, <1>3
<1>5. \A i \in 1..Len(queries) : old[i] = [queries[i] EXCEPT !.live = FALSE]
    OBVIOUS
<1>6. queries' = Append(old, new) /\ running' = {[r EXCEPT !.query.live = FALSE] : r \in running}
      /\ results' = results
    BY DEF PostQuery, NewQuery
<1> HIDE DEF old, new
<1>7. /\ queries' \in Seq(AskedQuery) /\ Len(queries') = Len(queries) + 1 /\ queries' # <<>>
      /\ queries'[Len(queries')] = new /\ \A i \in 1..Len(queries) : queries'[i] = old[i]
    BY <1>1, <1>3, <1>4, <1>6, AppendProperties
<1>8. running' \subseteq Listed
    <2> SUFFICES ASSUME NEW r \in running PROVE [r EXCEPT !.query.live = FALSE] \in Listed
        BY <1>6
    <2>1. r \in Listed
        BY DEF ShapeInv, AskingTyped
    <2> QED BY <2>1 DEF Listed, AskedQuery
<1> QED BY <1>5, <1>6, <1>7, <1>8 DEF new

LEMMA FolderListed ==
    ASSUME ShapeInv, ListFolder
    PROVE  /\ running = {} /\ queries # <<>> /\ queries' \in Seq(AskedQuery) /\ Len(queries) \in Nat
           /\ Len(queries') = Len(queries) - 1 /\ \A i \in 1..Len(queries') : queries'[i] = queries[i + 1]
           /\ queries[1] \in AskedQuery /\ 1 \in 1..Len(queries)
           /\ running' = {[query |-> queries[1], found |-> {f \in disk : In[f] = queries[1].search}]}
           /\ running' \subseteq Listed
           /\ unseen' = IF queries[1].live THEN unseen \ {queries[1].search} ELSE unseen
<1>1. /\ running = {} /\ queries # <<>> /\ queries' = Tail(queries) /\ Head(queries) = queries[1]
      /\ running' = {[query |-> Head(queries), found |-> {f \in disk : In[f] = Head(queries).search}]}
      /\ unseen' = IF Head(queries).live THEN unseen \ {Head(queries).search} ELSE unseen
    BY DEF ListFolder
<1>2. queries \in Seq(AskedQuery)
    BY DEF ShapeInv, AskingTyped
<1>3. /\ Head(queries) \in AskedQuery /\ queries' \in Seq(AskedQuery) /\ Len(queries) \in Nat
      /\ Len(queries') = Len(queries) - 1 /\ \A i \in 1..Len(queries') : queries'[i] = queries[i + 1]
    BY <1>1, <1>2, HeadTailProperties, LenProperties
<1>4. 1 \in 1..Len(queries)
    BY <1>1, <1>2, <1>3, EmptySeq
<1>5. running' \subseteq Listed
    BY <1>1, <1>3 DEF Listed, ShapeInv, Placed
<1> QED BY <1>1, <1>3, <1>4, <1>5

AnswerTo(q, found) ==
    [search |-> q.search, items |-> {Found(q, f) : f \in found}, sel |-> q.sel, moved |-> q.moved]

LEMMA AnswerGiven ==
    ASSUME ShapeInv, Answer
    PROVE  \E r \in running : \E found \in Matches(r.query, r.found) : LET a == AnswerTo(r.query, found) IN
               /\ r.query \in AskedQuery /\ running' = {}
               /\ a \in Result /\ Files(a.items) = found /\ (a.items \ r.query.existing) \cap Alive = {}
               /\ \A o \in a.items, e \in r.query.existing : o[1] = e[1] => o = e
               /\ results' \in Seq(Result) /\ Len(results') = Len(results) + 1 /\ results' # <<>>
               /\ results'[Len(results')] = a /\ \A i \in 1..Len(results) : results'[i] = results[i]
               /\ flagged' = flagged \ (a.items \ r.query.existing)
<1>1. PICK r \in running : \E found \in Matches(r.query, r.found) :
          /\ results' = Append(results, AnswerTo(r.query, found))
          /\ flagged' = flagged \ (AnswerTo(r.query, found).items \ r.query.existing)
    BY DEF Answer, AnswerTo
<1>2. PICK found \in Matches(r.query, r.found) :
          /\ results' = Append(results, AnswerTo(r.query, found))
          /\ flagged' = flagged \ (AnswerTo(r.query, found).items \ r.query.existing)
    BY <1>1
<1> DEFINE a == AnswerTo(r.query, found)
<1>3. r.query \in AskedQuery /\ r.found \in SUBSET File
    BY DEF ShapeInv, AskingTyped, Listed
<1>4. found \in SUBSET File
    BY <1>2, <1>3 DEF Matches
<1>5. a.items \in ItemSet /\ Files(a.items) = found /\ (a.items \ r.query.existing) \cap Alive = {}
      /\ \A o \in a.items, e \in r.query.existing : o[1] = e[1] => o = e
    BY <1>4, FoundObjects DEF AnswerTo
<1>6. a \in Result
    BY <1>3, <1>5 DEF AnswerTo, Result, AskedQuery
<1>7. running' = {}
    BY DEF Answer
<1> HIDE DEF a
<1>8. /\ results' \in Seq(Result) /\ Len(results') = Len(results) + 1 /\ results' # <<>>
      /\ results'[Len(results')] = a /\ \A i \in 1..Len(results) : results'[i] = results[i]
    <2>1. results \in Seq(Result) /\ Len(results) \in Nat
        BY LenProperties DEF ShapeInv, AskingTyped
    <2> QED BY <2>1, <1>2, <1>6, AppendProperties DEF a
<1> QED BY <1>2, <1>3, <1>5, <1>6, <1>7, <1>8 DEF a

LEMMA AnswerTaken ==
    ASSUME ShapeInv, ShowAnswer
    PROVE  /\ results # <<>> /\ results' \in Seq(Result) /\ Len(results) \in Nat
           /\ Len(results') = Len(results) - 1 /\ \A i \in 1..Len(results') : results'[i] = results[i + 1]
           /\ results[1] \in Result /\ 1 \in 1..Len(results) /\ results[1] = Head(results)
<1>1. results # <<>> /\ results' = Tail(results) /\ results \in Seq(Result)
    BY DEF ShowAnswer, ShapeInv, AskingTyped
<1>2. /\ Head(results) \in Result /\ results' \in Seq(Result) /\ Len(results) \in Nat
      /\ Len(results') = Len(results) - 1 /\ \A i \in 1..Len(results') : results'[i] = results[i + 1]
    BY <1>1, HeadTailProperties, LenProperties
<1>3. 1 \in 1..Len(results)
    BY <1>1, <1>2, EmptySeq
<1> QED BY <1>1, <1>2, <1>3

\* history_add puts the position at the page that is opened, whether the history is
\* full or not.
LEMMA HistoryAddIsAtPage ==
    ASSUME ShapeInv, NEW s \in Folder, NEW at \in 0..Len(entries), HistoryAdd(s, at)
    PROVE  /\ entries' \in Seq(Entry) /\ Len(entries') <= MaxHistory
           /\ pos' \in 1..Len(entries') /\ entries'[pos'].search = s
<1> DEFINE kept == IF at = 0 THEN <<>> ELSE [SubSeq(entries, 1, at) EXCEPT ![at].sel = selected]
           new == [search |-> s, sel |-> {}]
           all == Append(kept, new)
<1>0. entries \in Seq(Entry) /\ Len(entries) <= MaxHistory /\ Len(entries) \in Nat
      /\ selected \in SUBSET File /\ MaxHistory \in Nat /\ MaxHistory > 0
    BY LenProperties, BrowseAssumption DEF ShapeInv, HistoryTyped, ItemsTyped
<1>1. new \in Entry /\ new.search = s
    BY DEF Entry
<1>2. ASSUME at # 0
      PROVE  entries[at] \in Entry /\ [entries[at] EXCEPT !.sel = selected] \in Entry
             /\ [entries[at] EXCEPT !.sel = selected].search = entries[at].search
    <2>1. entries[at] \in Entry
        BY <1>0, <1>2, ElementOfSeq
    <2> QED BY <2>1, <1>0 DEF Entry
<1>3. kept \in Seq(Entry) /\ Len(kept) = at
    <2>1. CASE at = 0
        BY <2>1, EmptySeq
    <2>2. CASE at # 0
        <3> DEFINE sub == SubSeq(entries, 1, at)
        <3>1. \A i \in 1..at : entries[i] \in Entry
            BY <1>0, ElementOfSeq
        <3>2. sub \in Seq(Entry) /\ Len(sub) = at /\ sub[at] = entries[at]
            BY <3>1, <2>2, <1>0, SubSeqProperties
        <3> HIDE DEF sub
        <3>3. [sub EXCEPT ![at] = [entries[at] EXCEPT !.sel = selected]] \in Seq(Entry)
              /\ Len([sub EXCEPT ![at] = [entries[at] EXCEPT !.sel = selected]]) = at
            BY <3>2, <1>2, <2>2, ExceptSeq
        <3>4. kept = [sub EXCEPT ![at] = [entries[at] EXCEPT !.sel = selected]]
            BY <2>2, <3>2 DEF sub
        <3> QED BY <3>3, <3>4
    <2> QED BY <2>1, <2>2
<1> HIDE DEF kept, new
<1>4. all \in Seq(Entry) /\ Len(all) = at + 1 /\ all[at + 1] = new
    BY <1>1, <1>3, AppendProperties
<1> HIDE DEF all
<1>5. CASE at # 0 /\ entries[at].search = s
    <2> DEFINE e == [entries[at] EXCEPT !.sel = selected]
    <2>1. entries' = [entries EXCEPT ![at] = e] /\ pos' = at
        BY <1>5 DEF HistoryAdd
    <2>2. e \in Entry /\ e.search = s
        BY <1>5, <1>2
    <2> HIDE DEF e
    <2>3. at \in 1..Len(entries)
        BY <1>5
    <2>4. entries' \in Seq(Entry) /\ Len(entries') = Len(entries) /\ entries'[at] = e
        BY <2>1, <2>2, <2>3, <1>0, ExceptSeq
    <2> QED BY <2>1, <2>2, <2>3, <2>4, <1>0
<1>6. CASE ~(at # 0 /\ entries[at].search = s)
    <2>1. entries' = (IF Len(all) > MaxHistory THEN Tail(all) ELSE all) /\ pos' = Len(entries')
        BY <1>6 DEF HistoryAdd, all, kept, new
    <2>2. CASE Len(all) > MaxHistory
        <3>1. at \in Nat /\ at > 0 /\ all # <<>>
            BY <2>2, <1>0, <1>4, EmptySeq
        <3>2. Tail(all) \in Seq(Entry) /\ Len(Tail(all)) = at /\ Tail(all)[at] = new
            BY <3>1, <1>4, HeadTailProperties
        <3> QED BY <3>1, <3>2, <2>1, <2>2, <1>0, <1>1
    <2>3. CASE ~(Len(all) > MaxHistory)
        BY <2>3, <2>1, <1>0, <1>1, <1>4
    <2> QED BY <2>2, <2>3
<1> QED BY <1>5, <1>6

-----------------------------------------------------------------------------
(* What the state is made of. *)

LEMMA InitShape == Init => ShapeInv
<1> SUFFICES ASSUME Init PROVE ShapeInv
    OBVIOUS
<1> USE DEF Init
<1>1. Placed /\ ItemsTyped
    BY DEF Placed, ItemsTyped, ItemSet, OneEach
<1>2. HistoryTyped /\ AskingTyped /\ Bounded /\ LastLives
    BY EmptySeq, BrowseAssumption DEF HistoryTyped, AskingTyped, Bounded, LastLives
<1> QED BY <1>1, <1>2 DEF ShapeInv

LEMMA OpenedKeepsShape ==
    ASSUME ShapeInv, NEW s \in Folder, NEW sel \in SUBSET File, NEW at \in 0..Len(entries),
           Opened(s, sel, at), refreshDue' \in BOOLEAN
    PROVE  ShapeInv'
<1>1. /\ search' = s /\ PostQuery(s, sel)
      /\ UNCHANGED <<disk, view, shown, flagged, selected, listDue, monitored>>
      /\ IF s = search THEN pos' = at /\ UNCHANGED entries ELSE HistoryAdd(s, at)
    BY DEF Opened, items, watch
<1>2. /\ queries' \in Seq(AskedQuery) /\ Len(queries') = Len(queries) + 1 /\ queries' # <<>>
      /\ queries'[Len(queries')] = NewQuery(s, sel)
      /\ \A i \in 1..Len(queries) : queries'[i] = [queries[i] EXCEPT !.live = FALSE]
      /\ running' = {[r EXCEPT !.query.live = FALSE] : r \in running} /\ running' \subseteq Listed
      /\ results' = results
    BY <1>1, QueryPosted
<1>3. Placed' /\ ItemsTyped'
    BY <1>1 DEF ShapeInv, Placed, ItemsTyped
<1>4. HistoryTyped'
    <2>1. CASE s = search
        BY <2>1, <1>1 DEF ShapeInv, HistoryTyped
    <2>2. CASE s # search
        <3>1. /\ entries' \in Seq(Entry) /\ Len(entries') <= MaxHistory
              /\ pos' \in 1..Len(entries')
            BY <2>2, <1>1, HistoryAddIsAtPage
        <3> QED BY <3>1 DEF HistoryTyped
    <2> QED BY <2>1, <2>2
<1>5. AskingTyped'
    BY <1>2 DEF ShapeInv, AskingTyped
<1>6. Bounded'
    <2>1. \A r, t \in running' : r = t
        BY <1>2 DEF ShapeInv, Bounded
    <2>2. running = {} <=> running' = {}
        <3> DEFINE Cancelled(r) == [r EXCEPT !.query.live = FALSE]
        <3>1. running' = {Cancelled(r) : r \in running}
            BY <1>2
        <3> QED BY <3>1
    <2>3. Cardinality(running) = IF running = {} THEN 0 ELSE 1
        <3>1. CASE running = {}
            BY <3>1, FS_EmptySet
        <3>2. CASE running # {}
            <4>1. PICK r \in running : TRUE
                BY <3>2
            <4>2. running = {r}
                BY <4>1 DEF ShapeInv, Bounded
            <4> QED BY <4>2, FS_Singleton
        <3> QED BY <3>1, <3>2
    <2>4. Len(queries) + Len(results) + Cardinality(running) < MaxPending
        BY <1>1 DEF PostQuery
    <2>5. Len(queries) \in Nat /\ Len(results) \in Nat /\ MaxPending \in Nat
        BY LenProperties, BrowseAssumption DEF ShapeInv, AskingTyped
    <2>6. Len(queries') + Len(results') + (IF running' = {} THEN 0 ELSE 1) <= MaxPending
        BY <2>2, <2>3, <2>4, <2>5, <1>2
    <2> QED BY <2>1, <2>6 DEF Bounded
<1>7. LastLives'
    <2> SUFFICES ASSUME NEW i \in 1..Len(queries'), NEW j \in 1..Len(queries'), queries'[i].live
                 PROVE  i >= j
        BY DEF LastLives
    <2>1. Len(queries) \in Nat
        BY LenProperties DEF ShapeInv, AskingTyped
    <2>2. i \notin 1..Len(queries)
        <3> SUFFICES ASSUME i \in 1..Len(queries) PROVE FALSE
            OBVIOUS
        <3>1. queries[i] \in AskedQuery
            BY ElementOfSeq DEF ShapeInv, AskingTyped
        <3> QED BY <3>1, <1>2 DEF AskedQuery
    <2> QED BY <2>1, <2>2, <1>2
<1> QED BY <1>3, <1>4, <1>5, <1>6, <1>7 DEF ShapeInv

LEMMA UserKeepsShape ==
    ASSUME ShapeInv, Act PROVE ShapeInv'
<1> USE DEF ShapeInv
<1>1. ASSUME NEW s \in Folder, NEW sel \in SUBSET File, Open(s, sel) PROVE ShapeInv'
    BY <1>1, OpenedKeepsShape DEF Open, HistoryTyped, Placed
<1>2. ASSUME NEW at \in 1..MaxHistory, Browse(at) PROVE ShapeInv'
    <2>1. at \in 1..Len(entries) /\ entries[at] \in Entry
        BY <1>2, ElementOfSeq DEF Browse, HistoryTyped
    <2>2. CASE Opened(entries[at].search, entries[at].sel, at) /\ UNCHANGED refreshDue
        <3>1. entries[at].search \in Folder /\ entries[at].sel \in SUBSET File /\ at \in 0..Len(entries)
            BY <2>1 DEF Entry
        <3> QED BY <2>2, <3>1, OpenedKeepsShape DEF Placed
    <2>3. CASE /\ pos' = at
               /\ UNCHANGED <<disk, view, search, entries, items, refreshDue, asking, watch, wanted, unsure, unseen>>
        BY <2>1, <2>3 DEF Placed, ItemsTyped, HistoryTyped, AskingTyped, Bounded, LastLives, items, asking, watch
    <2> QED BY <1>2, <2>2, <2>3 DEF Browse
<1>3. CASE Select
    <2>1. PICK now \in Choices : flagged' = (flagged \ shown) \cup now
        BY <1>3 DEF Select
    <2>2. now \subseteq shown
        BY DEF Choices
    <2>3. ItemsTyped'
        BY <1>3, <2>1, <2>2 DEF Select, ItemsTyped, ItemSet
    <2> QED BY <1>3, <2>3 DEF Select, Placed, HistoryTyped, AskingTyped, Bounded, LastLives, history, asking, watch
<1>4. CASE ChangeView
    BY <1>4 DEF ChangeView, Placed, ItemsTyped, HistoryTyped, AskingTyped, Bounded, LastLives, history, items,
                asking, watch
<1>5. ASSUME NEW f \in File, Change(f) PROVE ShapeInv'
    BY <1>5 DEF Change, Placed, ItemsTyped, HistoryTyped, AskingTyped, Bounded, LastLives, history, items, asking,
                watch
<1> QED BY <1>1, <1>2, <1>3, <1>4, <1>5 DEF Act

LEMMA ThreadKeepsShape ==
    ASSUME ShapeInv, ListFolder \/ Answer PROVE ShapeInv'
<1> USE DEF ShapeInv
<1>0. Len(queries) \in Nat /\ Len(results) \in Nat /\ MaxPending \in Nat
    BY LenProperties, BrowseAssumption DEF AskingTyped
<1>1. CASE ListFolder
    <2>1. /\ running = {} /\ queries' \in Seq(AskedQuery)
          /\ Len(queries') = Len(queries) - 1 /\ \A i \in 1..Len(queries') : queries'[i] = queries[i + 1]
          /\ running' = {[query |-> queries[1], found |-> {f \in disk : In[f] = queries[1].search}]}
          /\ running' \subseteq Listed
        BY <1>1, FolderListed
    <2>2. UNCHANGED <<disk, view, search, history, items, refreshDue, results, watch>>
        BY <1>1 DEF ListFolder
    <2>3. Placed' /\ ItemsTyped' /\ HistoryTyped' /\ AskingTyped'
        BY <2>1, <2>2 DEF Placed, ItemsTyped, HistoryTyped, AskingTyped, history, items, watch
    <2>4. Bounded'
        BY <2>1, <2>2, <1>0 DEF Bounded
    <2>5. LastLives'
        BY <2>1, <1>0 DEF LastLives
    <2> QED BY <2>3, <2>4, <2>5
<1>2. CASE Answer
    <2>1. PICK r \in running : \E found \in Matches(r.query, r.found) : LET a == AnswerTo(r.query, found) IN
              /\ results' \in Seq(Result) /\ Len(results') = Len(results) + 1
              /\ flagged' = flagged \ (a.items \ r.query.existing)
        BY <1>2, AnswerGiven
    <2>2. UNCHANGED <<disk, view, search, history, shown, selected, listDue, refreshDue, queries, watch>>
          /\ running' = {}
        BY <1>2 DEF Answer
    <2>3. Placed' /\ ItemsTyped' /\ HistoryTyped' /\ AskingTyped'
        BY <2>1, <2>2 DEF Placed, ItemsTyped, HistoryTyped, AskingTyped, history, watch
    <2>4. Bounded'
        BY <2>1, <2>2, <1>0 DEF Bounded
    <2>5. LastLives'
        BY <2>2 DEF LastLives
    <2> QED BY <2>3, <2>4, <2>5
<1> QED BY <1>1, <1>2

LEMMA UiKeepsShape ==
    ASSUME ShapeInv, ShowAnswer \/ UpdateSelection \/ Refresh \/ FolderChanged PROVE ShapeInv'
<1> USE DEF ShapeInv
<1>1. CASE ShowAnswer
    <2> DEFINE r == Head(results)
               picked == IF r.sel = {} THEN flagged \cap r.items ELSE {o \in r.items : o[1] \in r.sel}
    <2>1. /\ results' \in Seq(Result) /\ Len(results) \in Nat /\ Len(results') = Len(results) - 1 /\ r \in Result
        BY <1>1, AnswerTaken
    <2>2. UNCHANGED <<disk, view, search, history, refreshDue, queries, running>>
        BY <1>1 DEF ShowAnswer
    <2>5. Placed' /\ ItemsTyped'
        <3>1. CASE Accepted(r)
            <4>1. /\ shown' = r.items /\ flagged' \subseteq flagged \cup picked /\ selected' = Files(picked)
                  /\ listDue' \in BOOLEAN /\ monitored' \in {r.search, monitored}
                BY <1>1, <3>1 DEF ShowAnswer, watch
            <4>2. r.items \in ItemSet /\ r.search \in Folder
                BY <2>1 DEF Result
            <4> HIDE DEF r
            <4>3. picked \subseteq r.items
                OBVIOUS
            <4> HIDE DEF picked
            <4>4. Files(picked) \subseteq File
                BY <4>2, <4>3 DEF Files, ItemSet, Object
            <4> QED BY <2>2, <4>1, <4>2, <4>3, <4>4 DEF Placed, ItemsTyped, ItemSet
        <3>2. CASE ~Accepted(r)
            <4>1. UNCHANGED <<items, watch>>
                BY <1>1, <3>2 DEF ShowAnswer
            <4> QED BY <2>2, <4>1 DEF Placed, ItemsTyped, items, watch
        <3> QED BY <3>1, <3>2
    <2>6. HistoryTyped' /\ AskingTyped' /\ LastLives'
        BY <2>1, <2>2 DEF HistoryTyped, AskingTyped, LastLives, history
    <2>7. Bounded'
        <3>1. Len(queries) \in Nat /\ MaxPending \in Nat
            BY LenProperties, BrowseAssumption DEF AskingTyped
        <3> QED BY <3>1, <2>1, <2>2 DEF Bounded
    <2> QED BY <2>5, <2>6, <2>7
<1>2. CASE UpdateSelection
    <2>1. selected' \subseteq File
        BY <1>2 DEF UpdateSelection, ItemsTyped, ItemSet, Files, Object
    <2> QED BY <1>2, <2>1 DEF UpdateSelection, Placed, ItemsTyped, HistoryTyped, AskingTyped, Bounded, LastLives,
                              history, asking, watch
<1>3. CASE FolderChanged
    BY <1>3 DEF FolderChanged, Placed, ItemsTyped, HistoryTyped, AskingTyped, Bounded, LastLives, history, items,
                asking
<1>4. CASE Refresh
    <2>1. CASE search # Nowhere /\ Opened(search, {}, pos)
        <3>1. search \in Folder /\ pos \in 0..Len(entries) /\ {} \in SUBSET File
            BY <2>1 DEF Placed, HistoryTyped
        <3> QED BY <1>4, <3>1, <2>1, OpenedKeepsShape DEF Refresh
    <2>2. CASE UNCHANGED <<disk, view, search, history, items, asking, watch>>
        BY <1>4, <2>2 DEF Refresh, Placed, ItemsTyped, HistoryTyped, AskingTyped, Bounded, LastLives, history, items,
                          asking, watch
    <2> QED BY <1>4, <2>1, <2>2 DEF Refresh
<1> QED BY <1>1, <1>2, <1>3, <1>4

LEMMA StepShape == ShapeInv /\ [Next]_vars => ShapeInv'
<1> SUFFICES ASSUME ShapeInv, [Next]_vars PROVE ShapeInv'
    OBVIOUS
<1>1. CASE Act
    BY <1>1, UserKeepsShape
<1>2. CASE Work
    BY <1>2, ThreadKeepsShape, UiKeepsShape DEF Work
<1>3. CASE UNCHANGED vars
    BY <1>3 DEF ShapeInv, Placed, ItemsTyped, HistoryTyped, AskingTyped, Bounded, LastLives, vars, history, items,
                asking, watch
<1> QED BY <1>1, <1>2, <1>3 DEF Next

LEMMA ShapeInvHolds == Spec => []ShapeInv
    BY InitShape, StepShape, PTL DEF Spec

\* The variables keep their types; no page ever shows two objects of a file, and of the
\* queries that wait only the last one is not cancelled.
THEOREM PageTypeCorrect == Spec => []TypeOK
<1>1. ASSUME ShapeInv PROVE TypeOK
    <2> USE <1>1 DEF ShapeInv
    <2>1. entries \in Seq([search : Folder, sel : SUBSET File])
        BY DEF HistoryTyped, Entry
    <2>2. \A i \in 1..Len(queries) : queries[i] \in Query
        <3>1. \A i \in 1..Len(queries) : queries[i] \in AskedQuery
            BY ElementOfSeq DEF AskingTyped
        <3> QED BY <3>1 DEF AskedQuery, Query, ItemSet
    <2>3. \A i \in 1..Len(results) : results[i].items \subseteq Object
        <3>1. \A i \in 1..Len(results) : results[i] \in Result
            BY ElementOfSeq DEF AskingTyped
        <3> QED BY <3>1 DEF Result, ItemSet
    <2> QED BY <2>1, <2>2, <2>3 DEF TypeOK, Placed, ItemsTyped, HistoryTyped, LastLives, ItemSet, OneEach
<1> QED BY <1>1, ShapeInvHolds, PTL

-----------------------------------------------------------------------------
(* What is on its way to the page. *)

\* The last query that was posted is the only one that counts, and it is for the page
\* that is shown.
LastCounts ==
    /\ queries # <<>> => queries[Len(queries)].live /\ queries[Len(queries)].search = search
    /\ queries = <<>> => \A r \in running : r.query.live /\ r.query.search = search

\* Before the first page is opened nothing is asked and nothing is shown.
Blank ==
    search = Nowhere => queries = <<>> /\ running = {} /\ results = <<>> /\ shown = {}

Listing == {f \in disk : In[f] = search}

\* The files of the page are on their way to it, or have come, unless it will be asked
\* again or nobody knows of a change.
Covered ==
    search = Nowhere \/ queries # <<>> \/ refreshDue \/ search \in unseen
        \/ (signalled /\ monitored = search)
        \/ (running # {} /\ \A r \in running : r.found = Listing)
        \/ (running = {} /\ results # <<>> /\ results[Len(results)].search = search
               /\ Files(results[Len(results)].items) = Listing)
        \/ (running = {} /\ results = <<>> /\ Files(shown) = Listing)

PageInv == HistoryFollows /\ LastCounts /\ Blank /\ Covered

LEMMA InitPage == Init => PageInv
BY DEF Init, PageInv, HistoryFollows, LastCounts, Blank, Covered

\* Opening a page, whether the user asks for it, goes back or forward to it, or it is
\* asked again.
LEMMA OpenedKeepsPage ==
    ASSUME ShapeInv, PageInv, NEW s \in Folder, NEW sel \in SUBSET File, NEW at \in 0..Len(entries),
           at = pos \/ (at # 0 /\ entries[at].search = s), Opened(s, sel, at)
    PROVE  PageInv'
<1>1. search' = s /\ PostQuery(s, sel) /\ s # Nowhere
    BY BrowseAssumption DEF Opened
<1>2. queries' # <<>> /\ queries'[Len(queries')] = NewQuery(s, sel)
    BY <1>1, QueryPosted
<1>3. HistoryFollows'
    <2>1. CASE s = search
        <3>1. pos' = at /\ entries' = entries /\ search' = search /\ refused' = (refused /\ at = pos)
            BY <2>1 DEF Opened
        <3>2. ~refused' => (~refused \/ at # pos)
            BY <3>1
        <3> QED BY <3>1, <3>2, <2>1, <1>1 DEF PageInv, HistoryFollows
    <2>2. CASE s # search
        <3>1. HistoryAdd(s, at)
            BY <2>2 DEF Opened
        <3>2. pos' \in 1..Len(entries') /\ entries'[pos'].search = s
            BY <3>1, HistoryAddIsAtPage
        <3> QED BY <3>2, <1>1 DEF HistoryFollows
    <2> QED BY <2>1, <2>2
<1>4. LastCounts' /\ Blank' /\ Covered'
    BY <1>1, <1>2 DEF LastCounts, NewQuery, Blank, Covered
<1> QED BY <1>3, <1>4 DEF PageInv

LEMMA UserKeepsPage ==
    ASSUME ShapeInv, PageInv, Act PROVE PageInv'
<1> USE DEF PageInv
<1>1. ASSUME NEW s \in Folder, NEW sel \in SUBSET File, Open(s, sel) PROVE PageInv'
    BY <1>1, OpenedKeepsPage DEF Open, ShapeInv, HistoryTyped
<1>2. ASSUME NEW at \in 1..MaxHistory, Browse(at) PROVE PageInv'
    <2>1. at \in 1..Len(entries) /\ entries[at] \in Entry
        BY <1>2, ElementOfSeq DEF Browse, ShapeInv, HistoryTyped
    <2>2. CASE Opened(entries[at].search, entries[at].sel, at)
        <3>1. entries[at].search \in Folder /\ entries[at].sel \in SUBSET File
            BY <2>1 DEF Entry
        <3>2. at \in 0..Len(entries) /\ at # 0
            BY <2>1
        <3> QED BY <2>2, <3>1, <3>2, OpenedKeepsPage
    <2>3. CASE /\ pos' = at /\ refused' = TRUE
               /\ UNCHANGED <<disk, view, search, entries, items, refreshDue, asking, watch, wanted, unsure, unseen>>
        BY <2>3 DEF HistoryFollows, LastCounts, Blank, Covered, Listing, items, asking, watch
    <2> QED BY <1>2, <2>2, <2>3 DEF Browse
<1>3. ASSUME Select \/ ChangeView PROVE PageInv'
    <2>1. UNCHANGED <<disk, search, history, shown, refreshDue, asking, watch, unseen, refused>>
        BY <1>3 DEF Select, ChangeView, items
    <2> QED BY <2>1 DEF HistoryFollows, LastCounts, Blank, Covered, Listing, history, asking, watch
<1>4. ASSUME NEW f \in File, Change(f) PROVE PageInv'
    <2>1. /\ UNCHANGED <<search, history, shown, refreshDue, asking, monitored, refused>>
          /\ disk' = IF f \in disk THEN disk \ {f} ELSE disk \cup {f}
          /\ IF monitored = In[f] THEN signalled' = TRUE /\ UNCHANGED unseen
                                  ELSE unseen' = unseen \cup {In[f]} /\ UNCHANGED signalled
        BY <1>4 DEF Change, items, watch
    <2> USE <2>1 DEF history, asking
    <2>2. HistoryFollows' /\ LastCounts' /\ Blank'
        BY DEF HistoryFollows, LastCounts, Blank
    <2>3. Covered'
        <3>1. CASE In[f] = search
            BY <3>1 DEF Covered
        <3>2. CASE In[f] # search
            <4>1. Listing' = Listing
                BY <3>2 DEF Listing
            <4> QED BY <4>1 DEF Covered
        <3> QED BY <3>1, <3>2
    <2> QED BY <2>2, <2>3
<1> QED BY <1>1, <1>2, <1>3, <1>4 DEF Act

LEMMA ThreadKeepsPage ==
    ASSUME ShapeInv, PageInv, ListFolder \/ Answer PROVE PageInv'
<1> USE DEF PageInv
<1>1. CASE ListFolder
    <2> DEFINE q == queries[1]
    <2>1. /\ UNCHANGED <<disk, search, entries, pos, shown, refreshDue, results, monitored, signalled, refused>>
          /\ running = {} /\ queries # <<>> /\ Len(queries) \in Nat /\ 1 \in 1..Len(queries)
          /\ queries' \in Seq(AskedQuery) /\ Len(queries') = Len(queries) - 1
          /\ \A i \in 1..Len(queries') : queries'[i] = queries[i + 1]
          /\ running' = {[query |-> q, found |-> {f \in disk : In[f] = q.search}]}
          /\ unseen' = IF q.live THEN unseen \ {q.search} ELSE unseen
        BY <1>1, FolderListed DEF ListFolder, items, history, watch
    <2>2. HistoryFollows'
        BY <2>1 DEF HistoryFollows
    <2>3. CASE queries' # <<>>
        <3>1. Len(queries') > 0
            BY <2>1, <2>3, EmptySeq
        <3>2. queries'[Len(queries')] = queries[Len(queries)]
            BY <3>1, <2>1
        <3> QED BY <2>1, <2>2, <2>3, <3>2 DEF LastCounts, Blank, Covered
    <2>4. CASE queries' = <<>>
        <3>1. Len(queries) = 1
            BY <2>1, <2>4, EmptySeq
        <3>2. q.live /\ q.search = search
            BY <3>1, <2>1 DEF LastCounts
        <3>3. LastCounts' /\ Blank'
            BY <2>1, <2>4, <3>2 DEF LastCounts, Blank
        <3>4. running' # {} /\ \A r \in running' : r.found = Listing'
            BY <2>1, <3>2 DEF Listing
        <3> QED BY <2>2, <3>3, <3>4 DEF Covered
    <2> QED BY <2>3, <2>4
<1>2. CASE Answer
    <2>1. PICK r \in running : \E found \in Matches(r.query, r.found) : LET a == AnswerTo(r.query, found) IN
              /\ running' = {} /\ Files(a.items) = found
              /\ results' # <<>> /\ results'[Len(results')] = a
        BY <1>2, AnswerGiven
    <2>2. PICK found \in Matches(r.query, r.found) :
              /\ running' = {} /\ Files(AnswerTo(r.query, found).items) = found
              /\ results' # <<>> /\ results'[Len(results')] = AnswerTo(r.query, found)
        BY <2>1
    <2>3. UNCHANGED <<disk, search, entries, pos, shown, refreshDue, queries, monitored, signalled, unseen, refused>>
        BY <1>2 DEF Answer, history, watch
    <2>4. HistoryFollows' /\ LastCounts' /\ Blank'
        BY <2>1, <2>2, <2>3 DEF HistoryFollows, LastCounts, Blank
    <2>5. CASE running # {} /\ queries = <<>> /\ \A t \in running : t.found = Listing
        <3>1. r.query.live /\ r.query.search = search
            BY <2>1, <2>5 DEF LastCounts
        <3>2. found = Listing /\ Listing' = Listing
            BY <3>1, <2>2, <2>3, <2>5 DEF Matches, Listing
        <3>3. AnswerTo(r.query, found).search = search
            BY <3>1 DEF AnswerTo
        <3>4. Covered'
            BY <3>2, <3>3, <2>2, <2>3 DEF Covered
        <3> QED BY <2>4, <3>4
    <2>6. CASE ~(running # {} /\ queries = <<>> /\ \A t \in running : t.found = Listing)
        BY <2>1, <2>3, <2>4, <2>6 DEF Covered
    <2> QED BY <2>5, <2>6
<1> QED BY <1>1, <1>2

LEMMA UiKeepsPage ==
    ASSUME ShapeInv, PageInv, ShowAnswer \/ UpdateSelection \/ Refresh \/ FolderChanged PROVE PageInv'
<1> USE DEF PageInv, history, watch, items, asking
<1>1. CASE ShowAnswer
    <2> DEFINE r == results[1]
    <2>1. /\ results # <<>> /\ Len(results) \in Nat /\ Len(results') = Len(results) - 1
          /\ results' \in Seq(Result) /\ \A i \in 1..Len(results') : results'[i] = results[i + 1]
          /\ r = Head(results)
        BY <1>1, AnswerTaken
    <2>2. /\ UNCHANGED <<disk, search, history, refreshDue, queries, running, refused>>
          /\ r.search # search => UNCHANGED <<shown, watch, unseen>>
          /\ r.search = search =>
                /\ shown' = r.items
                /\ unseen \subseteq unseen'
                /\ (signalled /\ monitored = search) =>
                       search \in unseen' \/ (signalled' /\ monitored' = search)
        BY <1>1, <2>1 DEF ShowAnswer, Accepted
    <2> HIDE DEF r
    <2>3. HistoryFollows' /\ LastCounts' /\ Blank' /\ Listing' = Listing
        BY <2>1, <2>2 DEF HistoryFollows, LastCounts, Blank, Listing
    <2>4. CASE /\ running = {} /\ results[Len(results)].search = search
               /\ Files(results[Len(results)].items) = Listing
        <3>1. CASE results' = <<>>
            <4>1. Len(results) = 1
                BY <3>1, <2>1, EmptySeq
            <4>2. shown' = results[Len(results)].items
                BY <4>1, <2>2, <2>4 DEF r
            <4> QED BY <4>2, <3>1, <2>2, <2>3, <2>4 DEF Covered
        <3>2. CASE results' # <<>>
            <4>1. Len(results') > 0
                BY <3>2, <2>1, EmptySeq
            <4>2. results'[Len(results')] = results[Len(results)]
                BY <4>1, <2>1
            <4> QED BY <4>2, <3>2, <2>2, <2>3, <2>4 DEF Covered
        <3> QED BY <3>1, <3>2
    <2>5. CASE ~(/\ running = {} /\ results[Len(results)].search = search
                 /\ Files(results[Len(results)].items) = Listing)
        BY <2>1, <2>2, <2>3, <2>5 DEF Covered
    <2> QED BY <2>4, <2>5
<1>2. CASE UpdateSelection
    BY <1>2 DEF UpdateSelection, HistoryFollows, LastCounts, Blank, Covered, Listing
<1>3. CASE FolderChanged
    BY <1>3 DEF FolderChanged, HistoryFollows, LastCounts, Blank, Covered
<1>4. CASE Refresh
    <2>1. CASE search # Nowhere /\ Opened(search, {}, pos)
        <3>1. search \in Folder /\ pos \in 0..Len(entries) /\ {} \in SUBSET File
            BY <2>1 DEF ShapeInv, Placed, HistoryTyped
        <3> QED BY <3>1, <2>1, OpenedKeepsPage
    <2>2. CASE /\ unseen' = unseen \cup ({search} \ {Nowhere})
               /\ UNCHANGED <<disk, view, search, history, items, asking, watch, wanted, unsure, refused>>
        BY <2>2 DEF HistoryFollows, LastCounts, Blank, Covered
    <2> QED BY <1>4, <2>1, <2>2 DEF Refresh
<1> QED BY <1>1, <1>2, <1>3, <1>4

LEMMA StepPage == ShapeInv /\ PageInv /\ [Next]_vars => PageInv'
<1> SUFFICES ASSUME ShapeInv, PageInv, [Next]_vars PROVE PageInv'
    OBVIOUS
<1>1. CASE Act
    BY <1>1, UserKeepsPage
<1>2. CASE Work
    BY <1>2, ThreadKeepsPage, UiKeepsPage DEF Work
<1>3. CASE UNCHANGED vars
    BY <1>3 DEF PageInv, HistoryFollows, LastCounts, Blank, Covered, Listing, vars, history, items, asking, watch
<1> QED BY <1>1, <1>2, <1>3 DEF Next

LEMMA PageInvHolds == Spec => []PageInv
BY InitPage, StepPage, ShapeInvHolds, PTL DEF Spec

\* However many pages were opened, and however few entries the history keeps, its
\* position is at the page that is shown.
THEOREM HistoryIsAtPage == Spec => []HistoryFollows
<1>1. PageInv => HistoryFollows
    BY DEF PageInv
<1> QED BY <1>1, PageInvHolds, PTL

LEMMA NothingIsPending ==
    ASSUME ShapeInv, Quiet PROVE queries = <<>> /\ running = {} /\ results = <<>>
<1>1. \A i \in 1..Len(queries) : FALSE
    BY DEF Quiet, Asked
<1>2. \A i \in 1..Len(results) : FALSE
    BY DEF Quiet, Answers
<1>3. Len(queries) = 0 /\ Len(results) = 0
    BY <1>1, <1>2, LenProperties DEF ShapeInv, AskingTyped
<1>4. running = {}
    BY DEF Quiet, Asked
<1> QED BY <1>3, <1>4, EmptySeq DEF ShapeInv, AskingTyped

\* However many queries and answers overtook each other, when nothing is on its way the
\* page shows the files of its folder, unless nobody was told of a change.
THEOREM PageSettles == Spec => []ShownSettles
<1>1. ASSUME ShapeInv, PageInv, Quiet, search \notin unseen
      PROVE  Files(shown) = {f \in disk : In[f] = search}
    <2>1. CASE search = Nowhere
        <3>1. shown = {}
            BY <2>1, <1>1 DEF PageInv, Blank
        <3>2. \A f \in disk : In[f] # search
            BY <2>1, <1>1, BrowseAssumption DEF ShapeInv, Placed
        <3> QED BY <3>1, <3>2 DEF Files
    <2>2. CASE search # Nowhere
        BY <2>2, <1>1, NothingIsPending DEF PageInv, Covered, Quiet, Listing
    <2> QED BY <2>1, <2>2
<1>2. ShapeInv /\ PageInv => ShownSettles
    BY <1>1 DEF ShownSettles
<1> QED BY <1>2, ShapeInvHolds, PageInvHolds, PTL

-----------------------------------------------------------------------------
(* What is on its way to the selection. *)

Picked(objects) == Files(flagged \cap objects)

\* Nothing that is on its way to the page selects anything by itself.
Bare == \A p \in Pending(search) : p.sel = {}

\* The query that counts, and when none waits the answer that does.
NewestQuery(q) == IF queries # <<>> THEN q = queries[Len(queries)] ELSE \E r \in running : q = r.query
NewestAnswer(a) == queries = <<>> /\ running = {} /\ results # <<>> /\ a = results[Len(results)]

\* The list of those selected is what the flags say, or is due.
ListFollows == ~listDue => selected = Picked(shown)

\* What the user selected last is what the last query is told to select, or else it is
\* selected among the items the query was given, and nothing before it selects others.
QueryFollows ==
    \A q : NewestQuery(q) => IF q.sel # {} THEN wanted = q.sel ELSE Bare /\ Picked(q.existing) = wanted

\* An answer may have lost some of them with the files.
AnswerFollows ==
    \A a : NewestAnswer(a) =>
        IF a.sel # {} THEN wanted = a.sel ELSE Bare /\ Picked(a.items) = wanted \cap Files(a.items)

ShownFollows == queries = <<>> /\ running = {} /\ results = <<>> => Picked(shown) = wanted

\* An answer after which nothing comes is for the page that is shown.
AnswerCounts == \A a : NewestAnswer(a) => a.search = search

SelectionInv ==
    /\ ListFollows
    /\ AnswerCounts
    /\ ~unsure => QueryFollows /\ AnswerFollows /\ ShownFollows

LEMMA InitSelection == Init => SelectionInv
<1> SUFFICES ASSUME Init PROVE SelectionInv
    OBVIOUS
<1> USE DEF Init
<1>1. Picked(shown) = {}
    BY DEF Picked, Files
<1> QED BY <1>1 DEF SelectionInv, ListFollows, AnswerCounts, QueryFollows, AnswerFollows, ShownFollows, NewestQuery,
                    NewestAnswer

\* Opening a page: what is to be selected goes with the query, or is selected among the
\* items it is given.
LEMMA OpenedKeepsSelection ==
    ASSUME ShapeInv, SelectionInv, NEW s \in Folder, NEW sel \in SUBSET File, NEW at, Opened(s, sel, at)
    PROVE  SelectionInv'
<1> DEFINE new == NewQuery(s, sel)
<1>1. /\ queries' # <<>> /\ queries'[Len(queries')] = new /\ Len(queries') = Len(queries) + 1
      /\ \A i \in 1..Len(queries) : queries'[i] = [queries[i] EXCEPT !.live = FALSE]
      /\ running' = {[r EXCEPT !.query.live = FALSE] : r \in running} /\ results' = results
    BY QueryPosted DEF Opened
<1>2. /\ search' = s /\ UNCHANGED <<shown, flagged, selected, listDue>>
      /\ wanted' = IF sel # {} THEN sel ELSE IF s = search THEN wanted ELSE Picked(shown)
      /\ unsure' = /\ sel = {}
                   /\ \/ unsure \/ \E p \in Pending(s) : p.sel # {}
                      \/ s = search /\ Picked(shown) # wanted
    BY DEF Opened, items, Picked
<1>3. ListFollows' /\ AnswerCounts' /\ AnswerFollows' /\ ShownFollows'
    BY <1>1, <1>2 DEF SelectionInv, ListFollows, AnswerCounts, AnswerFollows, ShownFollows, NewestAnswer, Picked
<1>4. ASSUME ~unsure' PROVE QueryFollows'
    <2>1. CASE sel # {}
        BY <2>1, <1>1, <1>2 DEF QueryFollows, NewestQuery, NewQuery
    <2>2. CASE sel = {}
        <3>1. \A p \in Pending(s) : p.sel = {}
            BY <2>2, <1>2, <1>4
        <3>2. Bare'
            <4> SUFFICES ASSUME NEW p \in Pending(search)' PROVE p.sel = {}
                BY DEF Bare
            <4>1. CASE p \in Answers'
                <5>1. p \in Pending(s)
                    BY <4>1, <1>1, <1>2 DEF Pending, Asked, Answers, NewQuery
                <5> QED BY <5>1, <3>1
            <4>2. ASSUME NEW i \in 1..Len(queries), p = queries'[i] PROVE p.sel = {}
                <5>1. queries[i] \in AskedQuery
                    BY ElementOfSeq DEF ShapeInv, AskingTyped
                <5>2. p.sel = queries[i].sel /\ p.search = queries[i].search
                    BY <4>2, <5>1, <1>1 DEF AskedQuery
                <5>3. p.search = s
                    BY <1>2 DEF Pending
                <5> QED BY <5>2, <5>3, <3>1 DEF Pending, Asked
            <4>3. ASSUME NEW r \in running, p = [r EXCEPT !.query.live = FALSE].query PROVE p.sel = {}
                <5>1. r \in Listed
                    BY DEF ShapeInv, AskingTyped
                <5>2. p.sel = r.query.sel /\ p.search = r.query.search
                    BY <4>3, <5>1 DEF Listed, AskedQuery
                <5>3. p.search = s
                    BY <1>2 DEF Pending
                <5> QED BY <5>2, <5>3, <3>1 DEF Pending, Asked
            <4>4. CASE p = new
                BY <4>4, <2>2 DEF NewQuery
            <4>5. Len(queries) \in Nat
                BY LenProperties DEF ShapeInv, AskingTyped
            <4>6. CASE p \in Asked'
                <5>1. CASE \E i \in 1..Len(queries') : p = queries'[i]
                    BY <5>1, <4>2, <4>4, <4>5, <1>1
                <5>2. CASE \E t \in running' : p = t.query
                    BY <5>2, <4>3, <1>1
                <5> QED BY <4>6, <5>1, <5>2 DEF Asked
            <4> QED BY <4>1, <4>6 DEF Pending
        <3>3. Picked(shown)' = wanted'
            BY <2>2, <1>2, <1>4 DEF Picked
        <3> QED BY <3>2, <3>3, <2>2, <1>1, <1>2 DEF QueryFollows, NewestQuery, NewQuery
    <2> QED BY <2>1, <2>2
<1> QED BY <1>3, <1>4 DEF SelectionInv

LEMMA NewestQueryIsAsked ==
    ASSUME ShapeInv, PageInv, NEW q, NewestQuery(q)
    PROVE  q \in Asked /\ q.search = search /\ q \in Pending(search) /\ q.existing \subseteq Alive
<1>1. CASE queries # <<>>
    <2>1. Len(queries) \in 1..Len(queries)
        BY <1>1, EmptySeq, LenProperties DEF ShapeInv, AskingTyped
    <2>2. q = queries[Len(queries)] /\ q.search = search
        BY <1>1 DEF NewestQuery, PageInv, LastCounts
    <2> QED BY <2>1, <2>2 DEF Asked, Pending, Alive
<1>2. CASE queries = <<>>
    BY <1>2 DEF NewestQuery, PageInv, LastCounts, Asked, Pending, Alive
<1> QED BY <1>1, <1>2

LEMMA NewestAnswerWaits ==
    ASSUME ShapeInv, NEW a, NewestAnswer(a)
    PROVE  a \in Answers /\ Asked = {} /\ a.items \subseteq Alive
<1>1. Len(results) \in 1..Len(results)
    BY EmptySeq, LenProperties DEF ShapeInv, AskingTyped, NewestAnswer
<1>2. a \in Answers
    BY <1>1 DEF NewestAnswer, Answers
<1>3. Asked = {}
    BY EmptySeq DEF NewestAnswer, Asked
<1> QED BY <1>2, <1>3 DEF Alive

\* What takes the place of something that waited has its selection.
LEMMA BareStays ==
    ASSUME Bare, search' = search,
           \A p \in Pending(search)' : \E q \in Pending(search) : p.sel = q.sel
    PROVE  Bare'
BY DEF Bare

LEMMA KeptSelection ==
    ASSUME SelectionInv,
           UNCHANGED <<search, shown, flagged, selected, listDue, queries, running, results, wanted, unsure>>
    PROVE  SelectionInv'
<1>1. Pending(search)' = Pending(search)
    BY DEF Pending, Asked, Answers
<1> QED BY <1>1 DEF SelectionInv, ListFollows, AnswerCounts, QueryFollows, AnswerFollows, ShownFollows, NewestQuery,
                    NewestAnswer, Picked, Bare

LEMMA SelectKeepsSelection ==
    ASSUME ShapeInv, PageInv, SelectionInv, Select PROVE SelectionInv'
<1>1. PICK now \in Choices : flagged' = (flagged \ shown) \cup now /\ wanted' = Files(now)
    BY DEF Select
<1>2. /\ unsure' = \E p \in Pending(search) : p.sel # {} \/ p \notin Asked \/ p.existing # shown
      /\ listDue' = TRUE /\ UNCHANGED <<search, shown, queries, running, results>>
    BY DEF Select, asking
<1>3. now \subseteq shown
    BY DEF Choices
<1>4. Picked(shown)' = wanted'
    <2>1. flagged' \cap shown' = now
        BY <1>1, <1>2, <1>3
    <2> QED BY <2>1, <1>1 DEF Picked
<1>5. Pending(search)' = Pending(search) /\ Asked' = Asked
    BY <1>2 DEF Pending, Asked, Answers
<1>6. ListFollows' /\ AnswerCounts' /\ ShownFollows'
    BY <1>2, <1>4 DEF SelectionInv, ListFollows, AnswerCounts, ShownFollows, NewestAnswer
<1>7. ASSUME ~unsure' PROVE QueryFollows' /\ AnswerFollows'
    <2>1. Bare'
        BY <1>2, <1>5, <1>7 DEF Bare
    <2>2. ASSUME NEW q, NewestQuery(q)' PROVE q.sel = {} /\ q.existing = shown
        <3>1. NewestQuery(q)
            BY <2>2, <1>2 DEF NewestQuery
        <3> QED BY <3>1, <1>2, <1>7, NewestQueryIsAsked
    <2>3. ASSUME NEW a, NewestAnswer(a)' PROVE FALSE
        <3>1. NewestAnswer(a)
            BY <2>3, <1>2 DEF NewestAnswer
        <3>2. a \in Answers /\ a \notin Asked /\ a.search = search
            BY <3>1, NewestAnswerWaits DEF SelectionInv, AnswerCounts
        <3> QED BY <3>2, <1>2, <1>7 DEF Pending
    <2>4. QueryFollows'
        BY <2>1, <2>2, <1>2, <1>4 DEF QueryFollows
    <2>5. AnswerFollows'
        BY <2>3 DEF AnswerFollows
    <2> QED BY <2>4, <2>5
<1> QED BY <1>6, <1>7 DEF SelectionInv

LEMMA UserKeepsSelection ==
    ASSUME ShapeInv, PageInv, SelectionInv, Act PROVE SelectionInv'
<1>1. ASSUME NEW s \in Folder, NEW sel \in SUBSET File, Open(s, sel) PROVE SelectionInv'
    BY <1>1, OpenedKeepsSelection DEF Open
<1>2. ASSUME NEW at \in 1..MaxHistory, Browse(at) PROVE SelectionInv'
    <2>1. at \in 1..Len(entries) /\ entries[at] \in Entry
        BY <1>2, ElementOfSeq DEF Browse, ShapeInv, HistoryTyped
    <2>2. CASE Opened(entries[at].search, entries[at].sel, at)
        <3>1. entries[at].search \in Folder /\ entries[at].sel \in SUBSET File
            BY <2>1 DEF Entry
        <3> QED BY <2>2, <3>1, OpenedKeepsSelection
    <2>3. CASE UNCHANGED <<search, items, asking, wanted, unsure>>
        BY <2>3, KeptSelection DEF items, asking
    <2> QED BY <1>2, <2>2, <2>3 DEF Browse
<1>3. CASE Select
    BY <1>3, SelectKeepsSelection
<1>4. CASE ChangeView
    BY <1>4, KeptSelection DEF ChangeView, items, asking
<1>5. ASSUME NEW f \in File, Change(f) PROVE SelectionInv'
    BY <1>5, KeptSelection DEF Change, items, asking
<1> QED BY <1>1, <1>2, <1>3, <1>4, <1>5 DEF Act

LEMMA ListFolderKeepsSelection ==
    ASSUME ShapeInv, SelectionInv, ListFolder PROVE SelectionInv'
<1>1. /\ running = {} /\ queries # <<>> /\ queries' \in Seq(AskedQuery) /\ Len(queries) \in Nat
      /\ Len(queries') = Len(queries) - 1 /\ \A i \in 1..Len(queries') : queries'[i] = queries[i + 1]
      /\ 1 \in 1..Len(queries)
      /\ running' = {[query |-> queries[1], found |-> {f \in disk : In[f] = queries[1].search}]}
    BY FolderListed
<1>2. UNCHANGED <<search, shown, flagged, selected, listDue, results, wanted, unsure>>
    BY DEF ListFolder, items
<1>3. ASSUME NEW q, NewestQuery(q)' PROVE NewestQuery(q)
    <2>1. CASE queries' # <<>>
        <3>1. Len(queries') > 0
            BY <2>1, <1>1, EmptySeq
        <3>2. queries'[Len(queries')] = queries[Len(queries)]
            BY <3>1, <1>1
        <3> QED BY <3>2, <2>1, <1>1, <1>3 DEF NewestQuery
    <2>2. CASE queries' = <<>>
        <3>1. Len(queries) = 1
            BY <2>2, <1>1, EmptySeq
        <3> QED BY <3>1, <2>2, <1>1, <1>3 DEF NewestQuery
    <2> QED BY <2>1, <2>2
<1>4. Bare => Bare'
    <2>1. Asked' \subseteq Asked
        <3> SUFFICES ASSUME NEW p \in Asked' PROVE p \in Asked
            OBVIOUS
        <3>1. CASE \E i \in 1..Len(queries') : p = queries'[i]
            <4>1. PICK i \in 1..Len(queries') : p = queries'[i]
                BY <3>1
            <4>2. i + 1 \in 1..Len(queries) /\ p = queries[i + 1]
                BY <4>1, <1>1
            <4> QED BY <4>2 DEF Asked
        <3>2. CASE \E t \in running' : p = t.query
            BY <3>2, <1>1 DEF Asked
        <3> QED BY <3>1, <3>2 DEF Asked
    <2>2. Pending(search)' \subseteq Pending(search)
        BY <2>1, <1>2 DEF Pending, Answers
    <2> QED BY <2>2, <1>2 DEF Bare
<1> QED BY <1>1, <1>2, <1>3, <1>4 DEF SelectionInv, ListFollows, AnswerCounts, QueryFollows, AnswerFollows,
                                      ShownFollows, NewestAnswer, Picked

\* The answer of the query that counts has the objects of the files it found, flagged
\* where the existing ones were; the new ones are nobody else's.
LEMMA AnswerKeepsSelection ==
    ASSUME ShapeInv, PageInv, SelectionInv, Answer PROVE SelectionInv'
<1>1. PICK r \in running : \E found \in Matches(r.query, r.found) : LET a == AnswerTo(r.query, found) IN
          /\ running' = {} /\ (a.items \ r.query.existing) \cap Alive = {}
          /\ \A o \in a.items, e \in r.query.existing : o[1] = e[1] => o = e
          /\ results' # <<>> /\ Len(results') = Len(results) + 1
          /\ results'[Len(results')] = a /\ \A i \in 1..Len(results) : results'[i] = results[i]
          /\ flagged' = flagged \ (a.items \ r.query.existing)
    BY AnswerGiven
<1>2. PICK found \in Matches(r.query, r.found) : LET a == AnswerTo(r.query, found) IN
          /\ running' = {} /\ (a.items \ r.query.existing) \cap Alive = {}
          /\ \A o \in a.items, e \in r.query.existing : o[1] = e[1] => o = e
          /\ results' # <<>> /\ Len(results') = Len(results) + 1
          /\ results'[Len(results')] = a /\ \A i \in 1..Len(results) : results'[i] = results[i]
          /\ flagged' = flagged \ (a.items \ r.query.existing)
    BY <1>1
<1> DEFINE a == AnswerTo(r.query, found)
<1>3. a.sel = r.query.sel /\ a.search = r.query.search
    BY DEF AnswerTo
<1>4. /\ running' = {} /\ (a.items \ r.query.existing) \cap Alive = {}
      /\ \A o \in a.items, e \in r.query.existing : o[1] = e[1] => o = e
      /\ results' # <<>> /\ Len(results') = Len(results) + 1
      /\ results'[Len(results')] = a /\ \A i \in 1..Len(results) : results'[i] = results[i]
      /\ flagged' = flagged \ (a.items \ r.query.existing)
    BY <1>2
<1> HIDE DEF a
<1>5. UNCHANGED <<search, shown, selected, listDue, queries, wanted, unsure>>
    BY DEF Answer
<1>6. ASSUME NEW x, x \subseteq Alive PROVE Files(flagged' \cap x) = Picked(x)
    <2>1. flagged' \cap x = flagged \cap x
        BY <1>4, <1>6
    <2> QED BY <2>1 DEF Picked
<1>7. Bare => Bare'
    <2>1. ASSUME NEW p \in Pending(search)' PROVE \E q \in Pending(search) : p.sel = q.sel
        <3>1. CASE p \in Asked'
            <4>1. p \in Asked
                BY <3>1, <1>4, <1>5 DEF Asked
            <4> QED BY <4>1, <2>1, <1>5 DEF Pending
        <3>2. CASE p = a
            <4>1. r.query \in Pending(search)
                BY <3>2, <2>1, <1>3, <1>5 DEF Pending, Asked
            <4> QED BY <4>1, <3>2, <1>3
        <3>3. ASSUME NEW i \in 1..Len(results), p = results[i] PROVE p \in Pending(search)
            BY <3>3, <2>1, <1>5 DEF Pending, Answers
        <3>4. Len(results) \in Nat
            BY LenProperties DEF ShapeInv, AskingTyped
        <3>5. CASE p \in Answers'
            <4>1. PICK i \in 1..Len(results') : p = results'[i]
                BY <3>5 DEF Answers
            <4> QED BY <4>1, <3>2, <3>3, <3>4, <1>4
        <3> QED BY <2>1, <3>1, <3>5 DEF Pending
    <2> QED BY <2>1, <1>5, BareStays
<1>8. ListFollows'
    <2>1. shown \subseteq Alive
        BY DEF Alive
    <2>2. Picked(shown)' = Picked(shown)
        BY <2>1, <1>5, <1>6 DEF Picked
    <2> QED BY <2>2, <1>5 DEF SelectionInv, ListFollows
<1>9. CASE queries # <<>>
    <2>2. AnswerCounts' /\ AnswerFollows' /\ ShownFollows'
        BY <1>5, <1>9 DEF AnswerCounts, AnswerFollows, ShownFollows, NewestAnswer
    <2>3. ASSUME ~unsure, NEW q, NewestQuery(q)'
          PROVE  IF q.sel # {} THEN wanted' = q.sel ELSE Bare' /\ Picked(q.existing)' = wanted'
        <3>1. NewestQuery(q)
            BY <2>3, <1>5, <1>9 DEF NewestQuery
        <3>2. Files(flagged' \cap q.existing) = Picked(q.existing)
            BY <3>1, <1>6, NewestQueryIsAsked
        <3> QED BY <2>3, <3>1, <3>2, <1>5, <1>7 DEF SelectionInv, QueryFollows, Picked
    <2>4. ~unsure' => QueryFollows'
        BY <2>3, <1>5 DEF QueryFollows
    <2> QED BY <2>2, <2>4, <1>8 DEF SelectionInv
<1>10. CASE queries = <<>>
    <2>1. NewestQuery(r.query) /\ r.query.search = search
        BY <1>10, <1>1 DEF NewestQuery, PageInv, LastCounts
    <2>2. QueryFollows' /\ ShownFollows'
        BY <1>4, <1>5, <1>10 DEF QueryFollows, ShownFollows, NewestQuery
    <2>3. AnswerCounts'
        BY <2>1, <1>3, <1>4, <1>5 DEF AnswerCounts, NewestAnswer
    <2>4. ASSUME ~unsure
          PROVE  IF a.sel # {} THEN wanted' = a.sel
                 ELSE Bare' /\ Files(flagged' \cap a.items) = wanted' \cap Files(a.items)
        <3>1. CASE a.sel # {}
            BY <2>1, <2>4, <3>1, <1>3, <1>5 DEF SelectionInv, QueryFollows
        <3>2. CASE a.sel = {}
            <4>1. Bare /\ Picked(r.query.existing) = wanted
                BY <2>1, <2>4, <3>2, <1>3 DEF SelectionInv, QueryFollows
            <4>2. flagged' \cap a.items = flagged \cap (a.items \cap r.query.existing)
                BY <1>4
            <4>3. Files(flagged \cap (a.items \cap r.query.existing)) = Picked(r.query.existing) \cap Files(a.items)
                <5>1. ASSUME NEW o \in a.items, NEW e \in flagged \cap r.query.existing, o[1] = e[1]
                      PROVE  e \in flagged \cap (a.items \cap r.query.existing)
                    BY <5>1, <1>4
                <5> QED BY <5>1 DEF Picked, Files
            <4> QED BY <4>1, <4>2, <4>3, <3>2, <1>5, <1>7 DEF Picked
        <3> QED BY <3>1, <3>2
    <2>5. ~unsure' => AnswerFollows'
        BY <2>4, <1>4, <1>5 DEF AnswerFollows, NewestAnswer, Picked
    <2> QED BY <2>2, <2>3, <2>5, <1>8 DEF SelectionInv
<1> QED BY <1>9, <1>10

\* What an answer that is shown selects is its own; the flags of what others wait with
\* stay, if it was asked for no selection.
LEMMA ShowAnswerKeepsSelection ==
    ASSUME ShapeInv, PageInv, SelectionInv, ShowAnswer PROVE SelectionInv'
<1> DEFINE r == results[1]
<1>1. /\ results # <<>> /\ Len(results) \in Nat /\ Len(results') = Len(results) - 1
      /\ results' \in Seq(Result) /\ \A i \in 1..Len(results') : results'[i] = results[i + 1]
      /\ r = Head(results) /\ 1 \in 1..Len(results) /\ results' = Tail(results)
    BY AnswerTaken DEF ShowAnswer
<1>2. UNCHANGED <<search, queries, running, unsure>> /\ Asked' = Asked
    BY DEF ShowAnswer, Asked
<1>3. ASSUME results' # <<>> PROVE results'[Len(results')] = results[Len(results)]
    <2>1. Len(results') > 0
        BY <1>1, <1>3, EmptySeq
    <2> QED BY <2>1, <1>1
<1>4. ASSUME NEW q, NewestQuery(q)' PROVE NewestQuery(q)
    BY <1>2, <1>4 DEF NewestQuery
<1>5. ASSUME NEW a, NewestAnswer(a)' PROVE NewestAnswer(a)
    BY <1>1, <1>2, <1>3, <1>5 DEF NewestAnswer
<1>6. ASSUME results' = <<>>, queries = <<>>, running = {} PROVE NewestAnswer(r)
    <2>1. Len(results) = 1
        BY <1>1, <1>6, EmptySeq
    <2> QED BY <2>1, <1>1, <1>6 DEF NewestAnswer
<1>7. Bare => Bare'
    <2>1. Answers' \subseteq Answers
        <3> SUFFICES ASSUME NEW i \in 1..Len(results') PROVE results'[i] \in Answers
            BY DEF Answers
        <3>1. i + 1 \in 1..Len(results) /\ results'[i] = results[i + 1]
            BY <1>1
        <3> QED BY <3>1 DEF Answers
    <2>2. Pending(search)' \subseteq Pending(search)
        BY <2>1, <1>2 DEF Pending
    <2> QED BY <2>2 DEF Bare
<1>8. AnswerCounts'
    BY <1>2, <1>5 DEF SelectionInv, AnswerCounts
<1>9. CASE Accepted(r)
    <2> DEFINE picked == IF r.sel = {} THEN flagged \cap r.items ELSE {o \in r.items : o[1] \in r.sel}
    <2>1. /\ shown' = r.items /\ listDue' = TRUE
          /\ flagged' = ((flagged \ r.items) \cup picked) \cap (r.items \cup Alive)
          /\ wanted' = IF results' = <<>> /\ ~\E q \in Asked : q.search = search
                       THEN wanted \cap Files(r.items) ELSE wanted
        BY <1>1, <1>9 DEF ShowAnswer
    <2>2. r.search = search /\ r \in Pending(search)
        BY <1>1, <1>9 DEF Accepted, Pending, Answers
    <2>3. picked \subseteq r.items
        OBVIOUS
    <2>4. ASSUME r.sel = {}, NEW x, x \subseteq Alive PROVE Files(flagged' \cap x) = Picked(x)
        <3>1. flagged' \cap x = flagged \cap x
            BY <2>1, <2>4
        <3> QED BY <3>1 DEF Picked
    <2>5. flagged' \cap r.items = picked
        BY <2>1, <2>3
    <2>6. r.sel # {} => Files(picked) = r.sel \cap Files(r.items)
        BY DEF Files
    <2>7. r.sel = {} => Files(picked) = Picked(r.items)
        BY DEF Picked
    <2> HIDE DEF r, picked
    <2>8. ASSUME ~unsure PROVE QueryFollows'
        <3> SUFFICES ASSUME NEW q, NewestQuery(q)'
                     PROVE  IF q.sel # {} THEN wanted' = q.sel
                            ELSE Bare' /\ Files(flagged' \cap q.existing) = wanted'
            BY DEF QueryFollows, Picked
        <3>1. NewestQuery(q) /\ q \in Asked /\ q.search = search /\ q.existing \subseteq Alive
            BY <1>4, NewestQueryIsAsked
        <3>2. wanted' = wanted
            BY <2>1, <3>1
        <3>3. IF q.sel # {} THEN wanted = q.sel ELSE Bare /\ Picked(q.existing) = wanted
            BY <2>8, <3>1 DEF SelectionInv, QueryFollows
        <3>4. Bare => r.sel = {}
            BY <2>2 DEF Bare
        <3> QED BY <3>1, <3>2, <3>3, <3>4, <2>4, <1>7
    <2>9. ASSUME ~unsure PROVE AnswerFollows'
        <3> SUFFICES ASSUME NEW a, NewestAnswer(a)'
                     PROVE  IF a.sel # {} THEN wanted' = a.sel
                            ELSE Bare' /\ Files(flagged' \cap a.items) = wanted' \cap Files(a.items)
            BY DEF AnswerFollows, Picked
        <3>1. NewestAnswer(a) /\ a.items \subseteq Alive
            BY <1>5, NewestAnswerWaits
        <3>2. wanted' = wanted
            BY <2>1 DEF NewestAnswer
        <3>3. IF a.sel # {} THEN wanted = a.sel ELSE Bare /\ Picked(a.items) = wanted \cap Files(a.items)
            BY <2>9, <3>1 DEF SelectionInv, AnswerFollows
        <3>4. Bare => r.sel = {}
            BY <2>2 DEF Bare
        <3> QED BY <3>1, <3>2, <3>3, <3>4, <2>4, <1>7
    <2>10. ASSUME ~unsure PROVE ShownFollows'
        <3> SUFFICES ASSUME queries = <<>>, running = {}, results' = <<>> PROVE Files(flagged' \cap shown') = wanted'
            BY <1>2 DEF ShownFollows, Picked
        <3>1. NewestAnswer(r)
            BY <1>6 DEF r
        <3>2. Asked = {}
            BY <3>1, NewestAnswerWaits
        <3>3. wanted' = wanted \cap Files(r.items)
            BY <2>1, <3>2
        <3>4. IF r.sel # {} THEN wanted = r.sel ELSE Picked(r.items) = wanted \cap Files(r.items)
            BY <2>10, <3>1 DEF SelectionInv, AnswerFollows
        <3>5. Files(flagged' \cap shown') = Files(picked)
            BY <2>1, <2>5
        <3> QED BY <3>3, <3>4, <3>5, <2>6, <2>7
    <2>11. ListFollows'
        BY <2>1 DEF ListFollows
    <2> QED BY <2>8, <2>9, <2>10, <2>11, <1>2, <1>8 DEF SelectionInv
<1>10. CASE ~Accepted(r)
    <2>1. UNCHANGED <<shown, flagged, selected, listDue, wanted>>
        BY <1>1, <1>10 DEF ShowAnswer, items
    <2>2. ~NewestAnswer(r)
        BY <1>10 DEF SelectionInv, AnswerCounts, Accepted
    <2>3. ListFollows'
        BY <2>1 DEF SelectionInv, ListFollows, Picked
    <2>4. ~unsure => QueryFollows'
        BY <2>1, <1>4, <1>7 DEF SelectionInv, QueryFollows, Picked
    <2>5. ~unsure => AnswerFollows'
        BY <2>1, <1>5, <1>7 DEF SelectionInv, AnswerFollows, Picked
    <2>6. ShownFollows'
        BY <2>2, <1>2, <1>6 DEF ShownFollows
    <2> QED BY <2>3, <2>4, <2>5, <2>6, <1>2, <1>8 DEF SelectionInv
<1> QED BY <1>9, <1>10

LEMMA StepSelection == ShapeInv /\ PageInv /\ SelectionInv /\ [Next]_vars => SelectionInv'
<1> SUFFICES ASSUME ShapeInv, PageInv, SelectionInv, [Next]_vars PROVE SelectionInv'
    OBVIOUS
<1>1. CASE Act
    BY <1>1, UserKeepsSelection
<1>2. CASE ListFolder \/ Answer \/ ShowAnswer
    BY <1>2, ListFolderKeepsSelection, AnswerKeepsSelection, ShowAnswerKeepsSelection
<1>3. CASE UpdateSelection
    <2>1. selected' = Files(flagged \cap shown)
          /\ UNCHANGED <<search, shown, flagged, queries, running, results, wanted, unsure>>
        BY <1>3 DEF UpdateSelection, asking
    <2>2. Pending(search)' = Pending(search)
        BY <2>1 DEF Pending, Asked, Answers
    <2> QED BY <2>1, <2>2 DEF SelectionInv, ListFollows, AnswerCounts, QueryFollows, AnswerFollows, ShownFollows,
                              NewestQuery, NewestAnswer, Picked, Bare
<1>4. CASE Refresh
    <2>1. CASE search # Nowhere /\ Opened(search, {}, pos)
        <3>1. search \in Folder /\ {} \in SUBSET File
            BY <2>1 DEF ShapeInv, Placed
        <3> QED BY <3>1, <2>1, OpenedKeepsSelection
    <2>2. CASE UNCHANGED <<search, items, asking, wanted, unsure>>
        BY <2>2, KeptSelection DEF items, asking
    <2> QED BY <1>4, <2>1, <2>2 DEF Refresh
<1>5. CASE FolderChanged
    BY <1>5, KeptSelection DEF FolderChanged, items, asking
<1>6. CASE UNCHANGED vars
    BY <1>6, KeptSelection DEF vars, items, asking
<1> QED BY <1>1, <1>2, <1>3, <1>4, <1>5, <1>6 DEF Next, Work

\* However many pages were opened and queries cancelled, when nothing is on its way those
\* are selected that the user selected last and that are still there, unless they were
\* selected among items that were being replaced.
THEOREM SelectionIsKept == Spec => []SelectionFollows
<1>1. ASSUME ShapeInv, SelectionInv, Quiet, ~unsure
      PROVE  selected = wanted /\ Files(flagged \cap shown) = wanted
    <2>1. Picked(shown) = wanted
        BY <1>1, NothingIsPending DEF SelectionInv, ShownFollows
    <2>2. ~listDue
        BY <1>1 DEF Quiet
    <2> QED BY <2>1, <2>2, <1>1 DEF SelectionInv, ListFollows, Picked
<1>2. ShapeInv /\ SelectionInv => SelectionFollows
    BY <1>1 DEF SelectionFollows
<1>3. Spec => []SelectionInv
    BY InitSelection, StepSelection, ShapeInvHolds, PageInvHolds, PTL DEF Spec
<1> QED BY <1>2, <1>3, ShapeInvHolds, PTL
=============================================================================
