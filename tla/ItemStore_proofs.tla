-------------------------- MODULE ItemStore_proofs --------------------------
(***************************************************************************)
(* For any number of threads that list and scan, any number of restarts    *)
(* and maintenances and however long they run: an entry that passes for up *)
(* to date has the file's metadata, one without has a scan that failed,    *)
(* and so has the database's row, as long as no two threads were inside    *)
(* one entry at a time.                                                    *)
(***************************************************************************)
EXTENDS ItemStore, FiniteSetTheorems, SequenceTheorems, TLAPS

Work == [listed : Date, md : Metadata, now : Date]

\* The parts of TypeOK.
WorldTyped ==
    /\ setting \in Setting /\ clock \in Date /\ file \in Date
    /\ pending \in Writes /\ row \in Row
    /\ torn \in BOOLEAN /\ failed \in BOOLEAN
    /\ restarts \in 0..setting.restarts /\ maintenance \in 0..setting.maintenances

NodesTyped == cur \in Node \cup {0} /\ node \in [Node -> Entry]

ThreadsTyped ==
    /\ pc \in [Scanner -> {"idle", "list", "copy", "replace", "held",
                           "read", "publish", "store", "write"}]
    /\ held \in [Scanner -> Node \cup {0}]
    /\ work \in [Scanner -> Work]
    /\ \A a \in Scanner :
        /\ pc[a] = "idle" => held[a] = 0
        /\ pc[a] \in {"replace", "held", "read", "publish", "store", "write"} => held[a] # 0

DbTyped ==
    /\ dbPc \in {"load", "merge", "idle", "cache"}
    /\ dbNode \in Node \cup {0} /\ dbMd \in Metadata
    /\ dbNode # 0 <=> dbPc \in {"merge", "cache"}

Saving == [pc : {"none", "null", "read", "placed", "dated"}, for : Date, node : Node \cup {0},
           md : Metadata, scanned : Date]

LocTyped ==
    /\ places \in Seq(Date) /\ lookups \in Seq(Date) /\ misplaced \in BOOLEAN
    /\ loc \in Saving

\* Nothing is dated after the present, and a scan that is under way has a date.
Dated ==
    /\ clock # 0 /\ file <= clock
    /\ row.scanned <= clock /\ pending.scanned <= clock /\ loc.scanned <= clock
    /\ \A n \in Node : node[n].scanned <= clock
    /\ \A a \in Scanner :
        /\ work[a].now <= clock
        /\ pc[a] \in {"read", "publish", "store", "write"} => work[a].now # 0

\* Who looks at a node's entry has one.
Holding == (loc.node # 0 <=> loc.pc # "none") /\ (loc.pc = "null" => loc.md = Null)

\* Metadata md with scan date s: when a file has not changed since s they are the file's,
\* and there are some unless a scan failed.
SoundFor(f, bad, md, s) ==
    /\ md # 0 /\ f # 0 /\ s >= f => md = f
    /\ s # 0 /\ ~bad => md # 0

\* Who writes to an entry is alone there.
Alone ==
    /\ \A a \in Scanner : pc[a] = "store" =>
        /\ \A b \in Scanner \ {a} : pc[b] \in {"store", "replace"} => held[b] # held[a]
        /\ dbNode # held[a]
        /\ loc.pc \in {"null", "read", "placed"} => loc.node # held[a]
    /\ dbPc = "merge" =>
        /\ \A b \in Scanner : pc[b] = "replace" => held[b] # dbNode
        /\ loc.pc \in {"null", "read", "placed"} => loc.node # dbNode

\* Nobody is between two writes to the entry of n.
Still(n) == (\A a \in Scanner : pc[a] = "store" => held[a] # n) /\ (dbPc = "merge" => dbNode # n)

\* What was copied of an entry, or written to it, is what the entry has.
Copies ==
    /\ \A a \in Scanner :
        /\ pc[a] = "replace" => work[a].md.of = node[held[a]].md.of
        /\ pc[a] = "store" => work[a].now = node[held[a]].scanned
    /\ loc.pc \in {"null", "read", "placed"} => loc.md.of = node[loc.node].md.of
    /\ dbPc = "cache" => dbMd.of = node[dbNode].md.of
    /\ dbPc = "merge" => row.md = node[dbNode].md.of

AllSound ==
    /\ SoundFor(file, failed, row.md, row.scanned) /\ SoundFor(file, failed, pending.md.of, pending.scanned)
    /\ \A n \in Node : Still(n) => SoundFor(file, failed, node[n].md.of, node[n].scanned)
    /\ \A a \in Scanner : pc[a] \in {"publish", "store", "write"} => SoundFor(file, failed, work[a].md.of, work[a].now)
    /\ loc.pc = "dated" => SoundFor(file, failed, loc.md.of, loc.scanned)

\* Who holds metadata, and what the references say: there is such an object, one
\* object has one version, and its place is of that version if it has one, as is the
\* row's, unless a place was misplaced.
Refs == {node[n].md : n \in Node} \cup {work[a].md : a \in Scanner} \cup {pending.md, dbMd, loc.md}

Heap ==
    /\ \A m \in Refs : m.at <= Len(places) /\ (m.at = 0 => m = Null)
    /\ \A m, k \in Refs : m.at = k.at => m = k
    /\ ~misplaced => \A m \in Refs : m.at # 0 => places[m.at] \in {0, m.of}
    /\ ~misplaced => row.place \in {0, row.md}

StoreInv ==
    /\ WorldTyped /\ NodesTyped /\ ThreadsTyped /\ DbTyped /\ LocTyped
    /\ Dated /\ Holding
    /\ ~torn => Alone /\ Copies /\ AllSound

-----------------------------------------------------------------------------
(* Nodes and who is at them *)

LEMMA OneMore ==
    ASSUME NEW S, NEW x, IsFiniteSet(S), Cardinality(S) \in Nat
    PROVE /\ IsFiniteSet(S \cup {x}) /\ Cardinality(S \cup {x}) \in Nat
          /\ Cardinality(S \cup {x}) <= Cardinality(S) + 1
<1>1. IsFiniteSet(S \cup {x}) /\ Cardinality(S \cup {x}) = IF x \in S THEN Cardinality(S) ELSE Cardinality(S) + 1
    BY FS_AddElement
<1>2. CASE x \in S
    BY <1>1, <1>2
<1>3. CASE x \notin S
    BY <1>1, <1>3
<1> QED BY <1>2, <1>3

LEMMA FreeNodeIsFree == ASSUME StoreInv PROVE FreeNode \in Node /\ FreeNode \notin InUse
<1> DEFINE H == {held[a] : a \in Scanner}
           c == Cardinality(Thread)
<1>1. Scanner \subseteq Thread /\ IsFiniteSet(Thread) /\ held \in [Scanner -> Node \cup {0}]
    BY StoreAssumption DEF StoreInv, WorldTyped, ThreadsTyped, Scanner
<1>2. IsFiniteSet(Scanner) /\ Cardinality(Scanner) <= c /\ c \in Nat /\ Cardinality(Scanner) \in Nat
    BY <1>1, FS_Subset, FS_CardinalityType
<1>3. held \in Surjection(Scanner, H)
    BY <1>1 DEF Surjection
<1>4. IsFiniteSet(H) /\ Cardinality(H) <= Cardinality(Scanner)
    BY <1>2, <1>3, FS_Surjection
<1>5. Cardinality(H) \in Nat
    BY <1>4, FS_CardinalityType
<1> HIDE DEF H
<1> DEFINE H1 == H \cup {cur}
           H2 == H1 \cup {dbNode}
           H3 == H2 \cup {loc.node}
<1>6. IsFiniteSet(H1) /\ Cardinality(H1) \in Nat /\ Cardinality(H1) <= Cardinality(H) + 1
    BY <1>4, <1>5, OneMore
<1>7. IsFiniteSet(H2) /\ Cardinality(H2) \in Nat /\ Cardinality(H2) <= Cardinality(H1) + 1
    BY <1>6, OneMore
<1>8. IsFiniteSet(H3) /\ Cardinality(H3) \in Nat /\ Cardinality(H3) <= Cardinality(H2) + 1
    BY <1>7, OneMore
<1>9. InUse = H3
    BY DEF InUse, H
<1> HIDE DEF H1, H2, H3
<1>10. IsFiniteSet(Node) /\ Cardinality(Node) = c + 4
    <2>1. 1..(c + 4) = Node /\ 1 \in Int /\ c + 4 \in Int /\ 1 <= c + 4
        BY <1>2 DEF Node
    <2>2. Cardinality(1..(c + 4)) = IF 1 > c + 4 THEN 0 ELSE (c + 4) - 1 + 1
        BY <2>1, FS_Interval
    <2>3. IsFiniteSet(1..(c + 4))
        BY <2>1, FS_Interval
    <2> QED BY <2>1, <2>2, <2>3, <1>2
<1>11. ~(Node \subseteq InUse)
    <2> SUFFICES ASSUME Node \subseteq InUse PROVE FALSE
        OBVIOUS
    <2>1. Cardinality(Node) <= Cardinality(H3)
        BY <1>8, <1>9, FS_Subset
    <2> QED BY <2>1, <1>2, <1>4, <1>5, <1>6, <1>7, <1>8, <1>10
<1> QED BY <1>11 DEF FreeNode

LEMMA Parts == TypeOK <=> WorldTyped /\ NodesTyped /\ ThreadsTyped /\ DbTyped /\ LocTyped
BY DEF TypeOK, Work, Saving, WorldTyped, NodesTyped, ThreadsTyped, DbTyped, LocTyped

LEMMA RowTyped == ASSUME NEW r \in Row PROVE r.md \in Date /\ r.place \in Date /\ r.scanned \in Date
<1>1. 0 \in Date
    BY StoreAssumption DEF Date
<1>2. CASE r = NoRow
    BY <1>1, <1>2 DEF NoRow
<1>3. CASE r \in [md : Date, place : Date, scanned : Date, there : {TRUE}]
    BY <1>3, Zenon
<1> QED BY <1>2, <1>3 DEF Row

LEMMA WritesTyped == ASSUME NEW w \in Writes PROVE w.md \in Metadata /\ w.scanned \in Date
<1>1. 0 \in Date /\ Null \in Metadata
    BY StoreAssumption DEF Date, Null, Metadata
<1>2. CASE w = NoWrite
    BY <1>1, <1>2 DEF NoWrite
<1>3. CASE w \in [md : Metadata, scanned : Date, there : {TRUE}]
    BY <1>3, Zenon
<1> QED BY <1>2, <1>3 DEF Writes

LEMMA WriteTyped ==
    ASSUME NEW md \in Metadata, NEW s \in Date
    PROVE Write(md, s) \in Writes /\ Write(md, s).md = md /\ Write(md, s).scanned = s
BY DEF Writes, Write

\* One field of what a thread has copied, or of a node's entry, is changed.
LEMMA WorkListed ==
    ASSUME NEW S, NEW w \in [S -> Work], NEW a \in S, NEW d \in Date, NEW v, v = [w EXCEPT ![a].listed = d]
    PROVE /\ v \in [S -> Work] /\ v[a].listed = d
          /\ v[a].md = w[a].md /\ v[a].now = w[a].now
          /\ \A b \in S \ {a} : v[b] = w[b]
<1>1. v \in [S -> Work]
    BY DEF Work
<1>2. v[a].listed = d /\ v[a].md = w[a].md /\ v[a].now = w[a].now
    BY DEF Work
<1>3. \A b \in S \ {a} : v[b] = w[b]
    BY DEF Work
<1> QED BY <1>1, <1>2, <1>3

LEMMA WorkMd ==
    ASSUME NEW S, NEW w \in [S -> Work], NEW a \in S, NEW d \in Metadata, NEW v, v = [w EXCEPT ![a].md = d]
    PROVE /\ v \in [S -> Work] /\ v[a].md = d
          /\ v[a].listed = w[a].listed /\ v[a].now = w[a].now
          /\ \A b \in S \ {a} : v[b] = w[b]
<1>1. v \in [S -> Work]
    BY DEF Work
<1>2. v[a].md = d /\ v[a].listed = w[a].listed /\ v[a].now = w[a].now
    BY DEF Work
<1>3. \A b \in S \ {a} : v[b] = w[b]
    BY DEF Work
<1> QED BY <1>1, <1>2, <1>3

LEMMA WorkNow ==
    ASSUME NEW S, NEW w \in [S -> Work], NEW a \in S, NEW d \in Date, NEW v, v = [w EXCEPT ![a].now = d]
    PROVE /\ v \in [S -> Work] /\ v[a].now = d
          /\ v[a].listed = w[a].listed /\ v[a].md = w[a].md
          /\ \A b \in S \ {a} : v[b] = w[b]
<1>1. v \in [S -> Work]
    BY DEF Work
<1>2. v[a].now = d /\ v[a].listed = w[a].listed /\ v[a].md = w[a].md
    BY DEF Work
<1>3. \A b \in S \ {a} : v[b] = w[b]
    BY DEF Work
<1> QED BY <1>1, <1>2, <1>3

LEMMA EntryMd ==
    ASSUME NEW S, NEW w \in [S -> Entry], NEW a \in S, NEW d \in Metadata, NEW v, v = [w EXCEPT ![a].md = d]
    PROVE /\ v \in [S -> Entry] /\ v[a].md = d
          /\ v[a].has = w[a].has /\ v[a].scanned = w[a].scanned /\ v[a].modified = w[a].modified
          /\ \A b \in S \ {a} : v[b] = w[b]
<1>1. v \in [S -> Entry]
    BY DEF Entry
<1>2. v[a].md = d /\ v[a].has = w[a].has /\ v[a].scanned = w[a].scanned /\ v[a].modified = w[a].modified
    BY DEF Entry
<1>3. \A b \in S \ {a} : v[b] = w[b]
    BY DEF Entry
<1> QED BY <1>1, <1>2, <1>3

LEMMA EntryScanned ==
    ASSUME NEW S, NEW w \in [S -> Entry], NEW a \in S, NEW d \in Date, NEW v, v = [w EXCEPT ![a].scanned = d]
    PROVE /\ v \in [S -> Entry] /\ v[a].scanned = d
          /\ v[a].has = w[a].has /\ v[a].md = w[a].md /\ v[a].modified = w[a].modified
          /\ \A b \in S \ {a} : v[b] = w[b]
<1>1. v \in [S -> Entry]
    BY DEF Entry
<1>2. v[a].scanned = d /\ v[a].has = w[a].has /\ v[a].md = w[a].md /\ v[a].modified = w[a].modified
    BY DEF Entry
<1>3. \A b \in S \ {a} : v[b] = w[b]
    BY DEF Entry
<1> QED BY <1>1, <1>2, <1>3

LEMMA Basics ==
    /\ 0 \in Date /\ Date \subseteq Nat /\ 0 \notin Node
    /\ Null \in Metadata /\ Null.of = 0 /\ \A m \in Metadata : m.of \in Date
    /\ NoEntry \in Entry /\ NoRow \in Row /\ NoRow.md = 0 /\ NoRow.scanned = 0
    /\ NoWrite \in Writes /\ NoWrite.md = Null /\ NoWrite.scanned = 0
    /\ NoWork \in Work /\ NoWork.now = 0 /\ NoWork.md = Null
    /\ NoLoc \in Saving /\ NoLoc.scanned = 0 /\ NoLoc.pc = "none" /\ NoLoc.node = 0 /\ NoLoc.md = Null
    /\ \A r \in Row : r.md \in Date /\ r.place \in Date /\ r.scanned \in Date
    /\ \A w \in Writes : w.md \in Metadata /\ w.scanned \in Date
<1>1. 0 \in Date /\ Date \subseteq Nat /\ 0 \notin Node
    BY StoreAssumption DEF Date, Node
<1>2. Null \in Metadata /\ Null.of = 0 /\ \A m \in Metadata : m.of \in Date
    BY <1>1 DEF Null, Metadata
<1>3. /\ NoEntry \in Entry /\ NoRow \in Row /\ NoRow.md = 0 /\ NoRow.scanned = 0
      /\ NoWrite \in Writes /\ NoWrite.md = Null /\ NoWrite.scanned = 0
    BY <1>1, <1>2 DEF NoEntry, Entry, NoRow, Row, NoWrite, Writes
<1>4. /\ NoWork \in Work /\ NoWork.now = 0 /\ NoWork.md = Null
      /\ NoLoc \in Saving /\ NoLoc.scanned = 0 /\ NoLoc.pc = "none" /\ NoLoc.node = 0 /\ NoLoc.md = Null
    BY <1>1, <1>2 DEF NoWork, Work, NoLoc, Saving
<1> QED BY <1>1, <1>2, <1>3, <1>4, RowTyped, WritesTyped

\* A new object of metadata, and what a row becomes when it is loaded.
LEMMA MadeMetadata ==
    ASSUME LocTyped, row \in Row
    PROVE /\ \A v \in Date : NewMetadata(v) \in Metadata /\ NewMetadata(v).of = v
          /\ Unpacked \in Metadata /\ Unpacked.of = row.md
          /\ Append(places, 0) \in Seq(Date)
          /\ Unpack => places' \in Seq(Date)
<1>1. places \in Seq(Date) /\ Len(places) \in Nat /\ 0 \in Date
    BY StoreAssumption DEF LocTyped, Date
<1>2. \A v \in Date : NewMetadata(v) \in Metadata /\ NewMetadata(v).of = v
    BY <1>1 DEF NewMetadata, Metadata
<1>3. row.md \in Date /\ row.place \in Date
    BY RowTyped
<1>4. Unpacked \in Metadata /\ Unpacked.of = row.md
    BY <1>2, <1>3, Basics DEF Unpacked, Null
<1> QED BY <1>1, <1>2, <1>3, <1>4 DEF Unpack

LEMMA PlaceTyped == ASSUME Heap, LocTyped, NEW m \in Refs, m \in Metadata PROVE Place(m) \in Date
<1>1. 0 \in Date /\ places \in Seq(Date) /\ m.at \in Nat /\ m.at <= Len(places) /\ (m.at = 0 => m = Null)
    BY Basics DEF Heap, LocTyped, Metadata
<1>2. CASE m = Null
    BY <1>1, <1>2 DEF Place
<1>3. CASE m # Null
    <2>1. m.at \in 1..Len(places)
        BY <1>1, <1>3
    <2>2. places[m.at] \in Date
        BY <1>1, <2>1
    <2> QED BY <1>3, <2>2 DEF Place
<1> QED BY <1>2, <1>3

\* What is sound remains so when time passes and the file is changed, and when a scan fails.
LEMMA SoundRemains ==
    ASSUME NEW f, NEW bad, NEW md, NEW s, SoundFor(f, bad, md, s)
    PROVE /\ \A now \in Nat : s \in Nat /\ s <= now => SoundFor(now + 1, bad, md, s)
          /\ SoundFor(0, bad, md, s) /\ SoundFor(f, TRUE, md, s)
BY DEF SoundFor

\* No metadata and no date, or a failed scan's, is sound, and so is what a file has just been read for.
LEMMA NothingIsSound ==
    ASSUME NEW f, NEW bad, NEW s
    PROVE /\ SoundFor(f, bad, 0, 0) /\ SoundFor(f, TRUE, 0, s)
          /\ f # 0 => SoundFor(f, bad, f, s)
BY DEF SoundFor

LEMMA NobodyWrites == ASSUME NEW n PROVE WritersAt(n) = {} <=> Still(n) 
BY DEF WritersAt, Still

LEMMA NobodyReads ==
    ASSUME NEW n, ReadersAt(n) = {}
    PROVE /\ \A a \in Scanner : pc[a] = "replace" => held[a] # n
          /\ loc.pc \in {"null", "read", "placed"} => loc.node # n
          /\ dbPc = "cache" => dbNode # n
BY DEF ReadersAt

-----------------------------------------------------------------------------

\* The two outcomes of three steps.
KeepsNode(a) ==
    /\ pc[a] = "replace"
    /\ work' = [work EXCEPT ![a] = NoWork] /\ pc' = [pc EXCEPT ![a] = "held"]
    /\ UNCHANGED <<cur, node, held, clock, file, row, pending, db, locating, past>>

Copied(a) == [has |-> TRUE, md |-> work[a].md, scanned |-> node[held[a]].scanned,
              modified |-> work[a].listed]

ReplacesNode(a) ==
    /\ pc[a] = "replace" /\ Replace(a, Copied(a))
    /\ UNCHANGED <<clock, file, row, pending, db, locating, past>>

LocateFinds ==
    /\ loc.pc = "none" /\ lookups # <<>> /\ lookups' = Tail(lookups) /\ HasEntry(cur)
    /\ loc' = [NoLoc EXCEPT !.pc = IF node[cur].md = Null THEN "null" ELSE "read",
                            !.for = Head(lookups), !.node = cur, !.md = node[cur].md]
    /\ torn' = (torn \/ WritersAt(cur) # {})
    /\ UNCHANGED <<clock, file, row, cur, node, pc, held, work, pending, db, places, misplaced, failed, counts>>

LocateMisses ==
    /\ lookups # <<>> /\ lookups' = Tail(lookups)
    /\ UNCHANGED <<clock, file, row, cur, node, pc, held, work, pending, db, places, loc, misplaced, past>>

ResetCaches ==
    /\ dbPc = "idle" /\ maintenance < setting.maintenances /\ maintenance' = maintenance + 1
    /\ row' = NoRow /\ HasEntry(cur) /\ dbMd' = node[cur].md /\ dbNode' = cur /\ dbPc' = "cache"
    /\ torn' = (torn \/ WritersAt(cur) # {})
    /\ UNCHANGED <<clock, file, cur, node, pc, held, work, pending, locating, failed, restarts>>

ResetDrops ==
    /\ dbPc = "idle" /\ maintenance < setting.maintenances /\ maintenance' = maintenance + 1
    /\ row' = NoRow /\ dbPc' = "load"
    /\ UNCHANGED <<clock, file, cur, node, pc, held, work, pending, locating, failed, restarts,
                   dbMd, dbNode, torn>>

LEMMA Outcomes ==
    ASSUME StoreInv
    PROVE /\ \A a : CopyScannedAndReplace(a) => KeepsNode(a) \/ ReplacesNode(a)
          /\ LocateRead => LocateFinds \/ LocateMisses
          /\ Reset => ResetCaches \/ ResetDrops
<1>1. ASSUME NEW a, CopyScannedAndReplace(a) PROVE KeepsNode(a) \/ ReplacesNode(a)
    BY <1>1, Zenon DEF CopyScannedAndReplace, KeepsNode, ReplacesNode, Copied
<1>2. LocateRead => LocateFinds \/ LocateMisses
    BY Zenon DEF LocateRead, LocateFinds, LocateMisses, past, counts
<1>3. Reset => ResetCaches \/ ResetDrops
    BY Zenon DEF Reset, ResetCaches, ResetDrops
<1> QED BY <1>1, <1>2, <1>3

\* What a replacement does to the nodes and to the thread that makes it.
NewNode(a, e) ==
    /\ FreeNode \in Node /\ FreeNode # dbNode /\ FreeNode # loc.node
    /\ \A b \in Scanner : held[b] # FreeNode
    /\ cur' = FreeNode
    /\ node' \in [Node -> Entry] /\ node'[FreeNode] = e
    /\ \A n \in Node \ {FreeNode} : node'[n] = node[n]
    /\ held' \in [Scanner -> Node \cup {0}] /\ held'[a] = FreeNode
    /\ \A b \in Scanner \ {a} : held'[b] = held[b]
    /\ work' \in [Scanner -> Work] /\ work'[a] = NoWork
    /\ \A b \in Scanner \ {a} : work'[b] = work[b]
    /\ pc' \in [Scanner -> {"idle", "list", "copy", "replace", "held",
                            "read", "publish", "store", "write"}]
    /\ pc'[a] = "held" /\ \A b \in Scanner \ {a} : pc'[b] = pc[b]

LEMMA Replaced ==
    ASSUME StoreInv, NEW a \in Scanner, NEW e \in Entry, Replace(a, e) PROVE NewNode(a, e)
<1>1. FreeNode \in Node /\ FreeNode \notin InUse
    BY FreeNodeIsFree
<1>2. NoWork \in Work
    BY Basics
<1> HIDE DEF NoWork
<1>3. FreeNode # dbNode /\ FreeNode # loc.node /\ \A b \in Scanner : held[b] # FreeNode
    BY <1>1 DEF InUse
<1> QED BY <1>1, <1>2, <1>3 DEF NewNode, Replace, StoreInv, NodesTyped, ThreadsTyped

LEMMA StoreStarts == Init => StoreInv
<1> SUFFICES ASSUME Init PROVE StoreInv
    OBVIOUS
<1> USE DEF Init, FreshMemory
<1>a. 1 \in Date /\ \A s \in Setting : s.restarts \in Nat /\ s.maintenances \in Nat
    BY StoreAssumption DEF Date
<1>b. WorldTyped
    <2>1. setting \in Setting /\ clock \in Date /\ file \in Date /\ pending \in Writes /\ row \in Row
        BY <1>a, Basics
    <2>2. torn \in BOOLEAN /\ failed \in BOOLEAN
        BY Zenon
    <2>3. restarts \in 0..setting.restarts /\ maintenance \in 0..setting.maintenances
        BY <1>a
    <2> QED BY <2>1, <2>2, <2>3 DEF WorldTyped
<1>c. NodesTyped
    BY <1>a, Basics DEF NodesTyped
<1>d. DbTyped /\ LocTyped
    <2>1. misplaced \in BOOLEAN
        BY Zenon
    <2> QED BY <1>a, <2>1, Basics DEF DbTyped, LocTyped
<1>1. WorldTyped /\ NodesTyped /\ DbTyped /\ LocTyped
    BY <1>b, <1>c, <1>d
<1>2. ThreadsTyped
    BY Basics DEF ThreadsTyped, Work
<1>3. Dated /\ Holding
    BY <1>a, Basics DEF Dated, Holding, NoEntry
<1>4. Alone /\ Copies /\ AllSound
    BY NothingIsSound, Basics DEF Alone, Copies, AllSound, Still, NoEntry
<1> QED BY <1>1, <1>2, <1>3, <1>4 DEF StoreInv

LEMMA ValidateKeeps == ASSUME StoreInv, UNCHANGED setting, NEW a \in Scanner, Validate(a) PROVE StoreInv'
<1>0. Scanner' = Scanner
    BY DEF Scanner
<1> USE <1>0, Basics DEF StoreInv, memory, counts, past, db, locating, Work
<1>1. CASE BeginValidate(a)
    <2>1. WorldTyped' /\ NodesTyped' /\ DbTyped' /\ LocTyped' /\ Holding'
        BY <1>1 DEF BeginValidate, WorldTyped, NodesTyped, DbTyped, LocTyped, Holding
    <2>2. ThreadsTyped'
        BY <1>1 DEF BeginValidate, ThreadsTyped, NodesTyped, WorldTyped
    <2>3. Dated'
        BY <1>1 DEF BeginValidate, WorldTyped, NodesTyped, ThreadsTyped, DbTyped, LocTyped, Dated, Entry,
            NoEntry
    <2>4. ~torn' => Alone'
        BY <1>1 DEF BeginValidate, ThreadsTyped, NodesTyped, DbTyped, LocTyped, Holding, Alone, Still
    <2>5. ~torn' => Copies'
        BY <1>1 DEF BeginValidate, ThreadsTyped, NodesTyped, DbTyped, LocTyped, Holding, Alone, Copies, Still
    <2>6. ~torn' => AllSound'
        BY <1>1 DEF BeginValidate, WorldTyped, ThreadsTyped, NodesTyped, DbTyped, LocTyped, Holding, Dated,
            Alone, Copies, AllSound, Still
    <2> QED BY <2>1, <2>2, <2>3, <2>4, <2>5, <2>6
<1>2. CASE List(a)
    <2>work. /\ work' \in [Scanner -> Work] /\ work'[a].listed = file
           /\ work'[a].md = work[a].md /\ work'[a].now = work[a].now
           /\ \A b \in Scanner \ {a} : work'[b] = work[b]
        <3>1. file \in Date
            BY <1>2 DEF List, WorldTyped, NodesTyped, ThreadsTyped, HasEntry, Entry, Work
        <3>2. work' = [work EXCEPT ![a].listed = file] /\ work \in [Scanner -> Work]
            BY <1>2 DEF List, ThreadsTyped
        <3> QED BY <3>1, <3>2, WorkListed
    <2>1. WorldTyped' /\ NodesTyped' /\ DbTyped' /\ LocTyped' /\ Holding'
        BY <1>2 DEF List, WorldTyped, NodesTyped, DbTyped, LocTyped, Holding
    <2>2. ThreadsTyped'
        BY <1>2, <2>work DEF List, ThreadsTyped, NodesTyped, WorldTyped
    <2>3. Dated'
        BY <1>2, <2>work DEF List, WorldTyped, NodesTyped, ThreadsTyped, DbTyped, LocTyped, Dated, Entry,
            NoEntry
    <2>4. ~torn' => Alone'
        BY <1>2, <2>work DEF List, ThreadsTyped, NodesTyped, DbTyped, LocTyped, Holding, Alone, Still
    <2>5. ~torn' => Copies'
        BY <1>2, <2>work DEF List, ThreadsTyped, NodesTyped, DbTyped, LocTyped, Holding, Alone, Copies, Still
    <2>6. ~torn' => AllSound'
        BY <1>2, <2>work DEF List, WorldTyped, ThreadsTyped, NodesTyped, DbTyped, LocTyped, Holding, Dated,
            Alone, Copies, AllSound, Still
    <2> QED BY <2>1, <2>2, <2>3, <2>4, <2>5, <2>6
<1>3. CASE CopyMetadata(a)
    <2>work. /\ work' \in [Scanner -> Work] /\ work'[a].md = node[held[a]].md
           /\ work'[a].listed = work[a].listed /\ work'[a].now = work[a].now
           /\ \A b \in Scanner \ {a} : work'[b] = work[b]
        <3>1. node[held[a]].md \in Metadata
            BY <1>3 DEF CopyMetadata, WorldTyped, NodesTyped, ThreadsTyped, HasEntry, Entry, Work
        <3>2. work' = [work EXCEPT ![a].md = node[held[a]].md] /\ work \in [Scanner -> Work]
            BY <1>3 DEF CopyMetadata, ThreadsTyped
        <3> QED BY <3>1, <3>2, WorkMd
    <2>calm. ~torn' => ~torn /\ Still(held[a])
        BY <1>3, NobodyWrites, Zenon DEF CopyMetadata
    <2>1. NodesTyped' /\ DbTyped' /\ LocTyped' /\ Holding'
        BY <1>3 DEF CopyMetadata, NodesTyped, DbTyped, LocTyped, Holding
    <2>2. WorldTyped'
        BY <1>3, <2>work, <2>calm DEF CopyMetadata, HasEntry, WorldTyped, ThreadsTyped, LocTyped, DbTyped,
            NodesTyped
    <2>3. ThreadsTyped'
        BY <1>3, <2>work, <2>calm DEF CopyMetadata, HasEntry, ThreadsTyped, NodesTyped, WorldTyped
    <2>4. Dated'
        BY <1>3, <2>work, <2>calm DEF CopyMetadata, HasEntry, WorldTyped, NodesTyped, ThreadsTyped, DbTyped,
            LocTyped, Dated, Entry, NoEntry
    <2>5. ~torn' => Alone'
        BY <1>3, <2>work, <2>calm DEF CopyMetadata, HasEntry, ThreadsTyped, NodesTyped, DbTyped, LocTyped,
            Holding, Alone, Still
    <2>6. ~torn' => Copies'
        BY <1>3, <2>work, <2>calm DEF CopyMetadata, HasEntry, ThreadsTyped, NodesTyped, DbTyped, LocTyped,
            Holding, Alone, Copies, Still
    <2>7. ~torn' => AllSound'
        BY <1>3, <2>work, <2>calm DEF CopyMetadata, HasEntry, WorldTyped, ThreadsTyped, NodesTyped, DbTyped,
            LocTyped, Holding, Dated, Alone, Copies, AllSound, Still
    <2> QED BY <2>1, <2>2, <2>3, <2>4, <2>5, <2>6, <2>7
<1>4. CASE KeepsNode(a)
    <2>1. WorldTyped' /\ NodesTyped' /\ DbTyped' /\ LocTyped' /\ Holding'
        BY <1>4 DEF KeepsNode, WorldTyped, NodesTyped, DbTyped, LocTyped, Holding
    <2>2. ThreadsTyped'
        BY <1>4 DEF KeepsNode, NoWork, ThreadsTyped, NodesTyped, WorldTyped
    <2>3. Dated'
        BY <1>4 DEF KeepsNode, NoWork, WorldTyped, NodesTyped, ThreadsTyped, DbTyped, LocTyped, Dated, Entry,
            NoEntry
    <2>4. ~torn' => Alone'
        BY <1>4 DEF KeepsNode, NoWork, ThreadsTyped, NodesTyped, DbTyped, LocTyped, Holding, Alone, Still
    <2>5. ~torn' => Copies'
        BY <1>4 DEF KeepsNode, NoWork, ThreadsTyped, NodesTyped, DbTyped, LocTyped, Holding, Alone, Copies,
            Still
    <2>6. ~torn' => AllSound'
        BY <1>4 DEF KeepsNode, NoWork, WorldTyped, ThreadsTyped, NodesTyped, DbTyped, LocTyped, Holding,
            Dated, Alone, Copies, AllSound, Still
    <2> QED BY <2>1, <2>2, <2>3, <2>4, <2>5, <2>6
<1>5. CASE ReplacesNode(a)
    <2>entry. Copied(a) \in Entry
        BY <1>5 DEF ReplacesNode, WorldTyped, NodesTyped, ThreadsTyped, Entry, Work, Copied, NoEntry, HasEntry
    <2>new. NewNode(a, Copied(a))
        <3>1. Replace(a, Copied(a))
            BY <1>5 DEF ReplacesNode
        <3> QED BY <3>1, <2>entry, Replaced
    <2>1. WorldTyped' /\ DbTyped' /\ LocTyped' /\ Holding'
        BY <1>5 DEF ReplacesNode, WorldTyped, DbTyped, LocTyped, Holding
    <2>2. NodesTyped'
        BY <1>5, <2>entry, <2>new DEF ReplacesNode, Copied, NewNode, NoWork, NodesTyped, ThreadsTyped,
            DbTyped, WorldTyped, LocTyped, Entry, NoEntry
    <2>3. ThreadsTyped'
        BY <1>5, <2>entry, <2>new DEF ReplacesNode, Copied, NewNode, NoWork, ThreadsTyped, NodesTyped,
            WorldTyped
    <2>4. Dated'
        <3>1. Copied(a).scanned <= clock
            BY <1>5 DEF ReplacesNode, Copied, ThreadsTyped, NodesTyped, WorldTyped, Dated
        <3>2. \A n \in Node : node'[n].scanned <= clock
            BY <3>1, <2>new DEF NewNode, Dated
        <3>3. work'[a].now <= clock /\ pc'[a] = "held"
            BY <2>new DEF NewNode, NoWork, WorldTyped
        <3>4. \A b \in Scanner \ {a} :
                /\ work'[b].now <= clock
                /\ pc'[b] \in {"read", "publish", "store", "write"} => work'[b].now # 0
            BY <2>new DEF NewNode, Dated
        <3> QED BY <1>5, <3>2, <3>3, <3>4 DEF ReplacesNode, Dated
    <2>5. ~torn' => Alone'
        <3>1. \A b \in Scanner : pc'[b] \in {"store", "replace"} => b # a /\ pc'[b] = pc[b] /\ held'[b] = held[b]
            BY <2>new DEF NewNode
        <3>2. dbPc' = dbPc /\ dbNode' = dbNode /\ loc' = loc /\ torn' = torn
            BY <1>5 DEF ReplacesNode
        <3> QED BY <3>1, <3>2 DEF Alone
    <2>6. ~torn' => Copies'
        <3>1. ASSUME NEW b \in Scanner, pc'[b] \in {"replace", "store"}
              PROVE /\ b # a /\ pc'[b] = pc[b] /\ work'[b] = work[b] /\ held'[b] = held[b]
                    /\ node'[held[b]] = node[held[b]]
            <4>1. b # a /\ pc'[b] = pc[b] /\ work'[b] = work[b] /\ held'[b] = held[b]
                BY <3>1, <2>new DEF NewNode
            <4>2. held[b] \in Node \ {FreeNode}
                BY <3>1, <4>1, <2>new DEF NewNode, ThreadsTyped
            <4> QED BY <4>1, <4>2, <2>new DEF NewNode
        <3>2. /\ loc' = loc /\ dbPc' = dbPc /\ dbNode' = dbNode /\ dbMd' = dbMd /\ row' = row /\ torn' = torn
              /\ loc.pc \in {"null", "read", "placed"} => node'[loc.node] = node[loc.node]
              /\ dbPc \in {"cache", "merge"} => node'[dbNode] = node[dbNode]
            BY <1>5, <2>new DEF ReplacesNode, NewNode, LocTyped, Saving, Holding, DbTyped
        <3> QED BY <3>1, <3>2 DEF Copies
    <2>7. ~torn' => AllSound'
        <3>1. \A b \in Scanner : pc'[b] \in {"publish", "store", "write"} =>
                  b # a /\ pc'[b] = pc[b] /\ held'[b] = held[b] /\ work'[b] = work[b]
            BY <2>new DEF NewNode
        <3>2. UNCHANGED <<file, row, pending, loc, failed, torn, dbPc, dbNode>>
            BY <1>5 DEF ReplacesNode
        <3>3. ~torn => SoundFor(file, failed, Copied(a).md.of, Copied(a).scanned)
            <4>1. pc[a] = "replace" /\ held[a] \in Node
                BY <1>5 DEF ReplacesNode, ThreadsTyped
            <4>2. ~torn => Still(held[a])
                BY <4>1 DEF Alone, Still
            <4>3. ~torn => work[a].md.of = node[held[a]].md.of
                BY <4>1 DEF Copies
            <4> QED BY <4>1, <4>2, <4>3 DEF AllSound, Copied
        <3>4. \A n \in Node \ {FreeNode} : node'[n] = node[n] /\ (Still(n)' => Still(n))
            <4>1. pc[a] # "store" /\ \A b \in Scanner : pc[b] = "store" => pc'[b] = "store" /\ held'[b] = held[b]
                BY <1>5, <2>new DEF ReplacesNode, NewNode
            <4> QED BY <4>1, <3>2, <2>new DEF NewNode, Still
        <3>5. ~torn => \A n \in Node : Still(n)' => SoundFor(file', failed', node'[n].md.of, node'[n].scanned)
            BY <3>2, <3>3, <3>4, <2>new DEF NewNode, AllSound
        <3> QED BY <3>1, <3>2, <3>5 DEF AllSound
    <2> QED BY <2>1, <2>2, <2>3, <2>4, <2>5, <2>6, <2>7
<1>6. CASE ReplaceUncopied(a)
    <2>entry. [NoEntry EXCEPT !.has = work[a].listed # 0, !.modified = work[a].listed] \in Entry
        BY <1>6 DEF ReplaceUncopied, WorldTyped, NodesTyped, ThreadsTyped, Entry, Work, Copied, NoEntry, HasEntry
    <2>new. NewNode(a, [NoEntry EXCEPT !.has = work[a].listed # 0, !.modified = work[a].listed])
        <3>1. Replace(a, [NoEntry EXCEPT !.has = work[a].listed # 0, !.modified = work[a].listed])
            BY <1>6 DEF ReplaceUncopied
        <3> QED BY <3>1, <2>entry, Replaced
    <2>none. SoundFor(file, failed, 0, 0)
        BY NothingIsSound
    <2>1. WorldTyped' /\ DbTyped' /\ LocTyped' /\ Holding'
        BY <1>6 DEF ReplaceUncopied, WorldTyped, DbTyped, LocTyped, Holding
    <2>2. NodesTyped'
        BY <1>6, <2>entry, <2>new, <2>none DEF ReplaceUncopied, NewNode, HasEntry, NoWork, NodesTyped,
            ThreadsTyped, DbTyped, WorldTyped, LocTyped, Entry, NoEntry
    <2>3. ThreadsTyped'
        BY <1>6, <2>entry, <2>new, <2>none DEF ReplaceUncopied, NewNode, HasEntry, NoWork, ThreadsTyped,
            NodesTyped, WorldTyped, Entry, NoEntry, NoLoc
    <2>4. Dated'
        <3>1. [NoEntry EXCEPT !.has = work[a].listed # 0, !.modified = work[a].listed].scanned <= clock
            BY <1>6 DEF ReplaceUncopied, NoEntry, ThreadsTyped, NodesTyped, WorldTyped, Dated
        <3>2. \A n \in Node : node'[n].scanned <= clock
            BY <3>1, <2>new DEF NewNode, Dated
        <3>3. work'[a].now <= clock /\ pc'[a] = "held"
            BY <2>new DEF NewNode, NoWork, WorldTyped
        <3>4. \A b \in Scanner \ {a} :
                /\ work'[b].now <= clock
                /\ pc'[b] \in {"read", "publish", "store", "write"} => work'[b].now # 0
            BY <2>new DEF NewNode, Dated
        <3> QED BY <1>6, <3>2, <3>3, <3>4 DEF ReplaceUncopied, Dated
    <2>5. ~torn' => Alone'
        <3>1. \A b \in Scanner : pc'[b] \in {"store", "replace"} => b # a /\ pc'[b] = pc[b] /\ held'[b] = held[b]
            BY <2>new DEF NewNode
        <3>2. dbPc' = dbPc /\ dbNode' = dbNode /\ loc' = loc /\ torn' = torn
            BY <1>6 DEF ReplaceUncopied
        <3> QED BY <3>1, <3>2 DEF Alone
    <2>6. ~torn' => Copies'
        <3>1. ASSUME NEW b \in Scanner, pc'[b] \in {"replace", "store"}
              PROVE /\ b # a /\ pc'[b] = pc[b] /\ work'[b] = work[b] /\ held'[b] = held[b]
                    /\ node'[held[b]] = node[held[b]]
            <4>1. b # a /\ pc'[b] = pc[b] /\ work'[b] = work[b] /\ held'[b] = held[b]
                BY <3>1, <2>new DEF NewNode
            <4>2. held[b] \in Node \ {FreeNode}
                BY <3>1, <4>1, <2>new DEF NewNode, ThreadsTyped
            <4> QED BY <4>1, <4>2, <2>new DEF NewNode
        <3>2. /\ loc' = loc /\ dbPc' = dbPc /\ dbNode' = dbNode /\ dbMd' = dbMd /\ row' = row /\ torn' = torn
              /\ loc.pc \in {"null", "read", "placed"} => node'[loc.node] = node[loc.node]
              /\ dbPc \in {"cache", "merge"} => node'[dbNode] = node[dbNode]
            BY <1>6, <2>new DEF ReplaceUncopied, NewNode, LocTyped, Saving, Holding, DbTyped
        <3> QED BY <3>1, <3>2 DEF Copies
    <2>7. ~torn' => AllSound'
        <3>1. \A b \in Scanner : pc'[b] \in {"publish", "store", "write"} =>
                  b # a /\ pc'[b] = pc[b] /\ held'[b] = held[b] /\ work'[b] = work[b]
            BY <2>new DEF NewNode
        <3>2. UNCHANGED <<file, row, pending, loc, failed, torn, dbPc, dbNode>>
            BY <1>6 DEF ReplaceUncopied
        <3>3. SoundFor(file, failed, [NoEntry EXCEPT !.has = work[a].listed # 0, !.modified = work[a].listed].md.of,
                       [NoEntry EXCEPT !.has = work[a].listed # 0, !.modified = work[a].listed].scanned)
            BY <2>none DEF NoEntry
        <3>4. \A n \in Node \ {FreeNode} : node'[n] = node[n] /\ (Still(n)' => Still(n))
            <4>1. pc[a] # "store" /\ \A b \in Scanner : pc[b] = "store" => pc'[b] = "store" /\ held'[b] = held[b]
                BY <1>6, <2>new DEF ReplaceUncopied, NewNode
            <4> QED BY <4>1, <3>2, <2>new DEF NewNode, Still
        <3>5. ~torn => \A n \in Node : Still(n)' => SoundFor(file', failed', node'[n].md.of, node'[n].scanned)
            BY <3>2, <3>3, <3>4, <2>new DEF NewNode, AllSound
        <3> QED BY <3>1, <3>2, <3>5 DEF AllSound
    <2> QED BY <2>1, <2>2, <2>3, <2>4, <2>5, <2>6, <2>7
<1>7. CASE LetGo(a)
    <2>1. WorldTyped' /\ NodesTyped' /\ DbTyped' /\ LocTyped' /\ Holding'
        BY <1>7 DEF LetGo, WorldTyped, NodesTyped, DbTyped, LocTyped, Holding
    <2>2. ThreadsTyped'
        BY <1>7 DEF LetGo, ThreadsTyped, NodesTyped, WorldTyped
    <2>3. Dated'
        BY <1>7 DEF LetGo, WorldTyped, NodesTyped, ThreadsTyped, DbTyped, LocTyped, Dated, Entry, NoEntry
    <2>4. ~torn' => Alone'
        BY <1>7 DEF LetGo, ThreadsTyped, NodesTyped, DbTyped, LocTyped, Holding, Alone, Still
    <2>5. ~torn' => Copies'
        BY <1>7 DEF LetGo, ThreadsTyped, NodesTyped, DbTyped, LocTyped, Holding, Alone, Copies, Still
    <2>6. ~torn' => AllSound'
        BY <1>7 DEF LetGo, WorldTyped, ThreadsTyped, NodesTyped, DbTyped, LocTyped, Holding, Dated, Alone,
            Copies, AllSound, Still
    <2> QED BY <2>1, <2>2, <2>3, <2>4, <2>5, <2>6
<1> QED BY <1>1, <1>2, <1>3, <1>4, <1>5, <1>6, <1>7, Outcomes DEF Validate

LEMMA ScanKeeps == ASSUME StoreInv, UNCHANGED setting, NEW a \in Scanner, Scan(a) PROVE StoreInv'
<1>0. Scanner' = Scanner
    BY DEF Scanner
<1> USE <1>0, Basics DEF StoreInv, memory, counts, past, db, locating, Work
<1>1. CASE FindNode(a)
    <2>1. WorldTyped' /\ NodesTyped' /\ DbTyped' /\ LocTyped' /\ Holding'
        BY <1>1 DEF FindNode, WorldTyped, NodesTyped, DbTyped, LocTyped, Holding
    <2>2. ThreadsTyped'
        BY <1>1 DEF FindNode, HasEntry, ThreadsTyped, NodesTyped, WorldTyped
    <2>3. Dated'
        BY <1>1 DEF FindNode, HasEntry, WorldTyped, NodesTyped, ThreadsTyped, DbTyped, LocTyped, Dated, Entry,
            NoEntry
    <2>4. ~torn' => Alone'
        BY <1>1 DEF FindNode, HasEntry, ThreadsTyped, NodesTyped, DbTyped, LocTyped, Holding, Alone, Still
    <2>5. ~torn' => Copies'
        BY <1>1 DEF FindNode, HasEntry, ThreadsTyped, NodesTyped, DbTyped, LocTyped, Holding, Alone, Copies,
            Still
    <2>6. ~torn' => AllSound'
        BY <1>1 DEF FindNode, HasEntry, WorldTyped, ThreadsTyped, NodesTyped, DbTyped, LocTyped, Holding,
            Dated, Alone, Copies, AllSound, Still
    <2> QED BY <2>1, <2>2, <2>3, <2>4, <2>5, <2>6
<1>2. CASE BeginScan(a)
    <2>work. /\ work' \in [Scanner -> Work] /\ work'[a].now = clock
           /\ work'[a].listed = work[a].listed /\ work'[a].md = work[a].md
           /\ \A b \in Scanner \ {a} : work'[b] = work[b]
        <3>1. clock \in Date
            BY <1>2 DEF BeginScan, WorldTyped, NodesTyped, ThreadsTyped, HasEntry, Entry, Work
        <3>2. work' = [work EXCEPT ![a].now = clock] /\ work \in [Scanner -> Work]
            BY <1>2 DEF BeginScan, ThreadsTyped
        <3> QED BY <3>1, <3>2, WorkNow
    <2>1. WorldTyped' /\ NodesTyped' /\ DbTyped' /\ LocTyped' /\ Holding'
        BY <1>2 DEF BeginScan, WorldTyped, NodesTyped, DbTyped, LocTyped, Holding
    <2>2. ThreadsTyped'
        BY <1>2, <2>work DEF BeginScan, HasEntry, ThreadsTyped, NodesTyped, WorldTyped
    <2>3. Dated'
        BY <1>2, <2>work DEF BeginScan, HasEntry, WorldTyped, NodesTyped, ThreadsTyped, DbTyped, LocTyped,
            Dated, Entry, NoEntry
    <2>4. ~torn' => Alone'
        BY <1>2, <2>work DEF BeginScan, HasEntry, ThreadsTyped, NodesTyped, DbTyped, LocTyped, Holding, Alone,
            Still
    <2>5. ~torn' => Copies'
        BY <1>2, <2>work DEF BeginScan, HasEntry, ThreadsTyped, NodesTyped, DbTyped, LocTyped, Holding, Alone,
            Copies, Still
    <2>6. ~torn' => AllSound'
        BY <1>2, <2>work DEF BeginScan, HasEntry, WorldTyped, ThreadsTyped, NodesTyped, DbTyped, LocTyped,
            Holding, Dated, Alone, Copies, AllSound, Still
    <2> QED BY <2>1, <2>2, <2>3, <2>4, <2>5, <2>6
<1>3. CASE ReadFile(a)
    <2>new. NewMetadata(file) \in Metadata /\ NewMetadata(file).of = file /\ Append(places, 0) \in Seq(Date)
        BY MadeMetadata DEF WorldTyped
    <2>work. /\ work' \in [Scanner -> Work] /\ work'[a].md = NewMetadata(file)
           /\ work'[a].listed = work[a].listed /\ work'[a].now = work[a].now
           /\ \A b \in Scanner \ {a} : work'[b] = work[b]
        <3>1. NewMetadata(file) \in Metadata
            BY <1>3, <2>new
        <3>2. work' = [work EXCEPT ![a].md = NewMetadata(file)] /\ work \in [Scanner -> Work]
            BY <1>3 DEF ReadFile, ThreadsTyped
        <3> QED BY <3>1, <3>2, WorkMd
    <2>read. SoundFor(file, failed, file, work[a].now)
        BY <1>3, NothingIsSound DEF ReadFile
    <2>1. WorldTyped' /\ NodesTyped' /\ DbTyped' /\ LocTyped' /\ Holding'
        BY <1>3, <2>new DEF ReadFile, WorldTyped, NodesTyped, DbTyped, LocTyped, Holding
    <2>2. ThreadsTyped'
        BY <1>3, <2>work, <2>read DEF ReadFile, ThreadsTyped, NodesTyped, WorldTyped
    <2>3. Dated'
        BY <1>3, <2>work, <2>read DEF ReadFile, WorldTyped, NodesTyped, ThreadsTyped, DbTyped, LocTyped,
            Dated, Entry, NoEntry
    <2>4. ~torn' => Alone'
        BY <1>3, <2>work, <2>read DEF ReadFile, ThreadsTyped, NodesTyped, DbTyped, LocTyped, Holding, Alone,
            Still
    <2>5. ~torn' => Copies'
        BY <1>3, <2>work, <2>read DEF ReadFile, ThreadsTyped, NodesTyped, DbTyped, LocTyped, Holding, Alone,
            Copies, Still
    <2>6. ~torn' => AllSound'
        <3>1. UNCHANGED <<file, failed, torn, row, pending, node, loc, dbPc, dbNode, held>> /\ pc[a] = "read"
              /\ pc'[a] = "publish" /\ \A b \in Scanner \ {a} : pc'[b] = pc[b] /\ work'[b] = work[b]
            BY <1>3, <2>work DEF ReadFile, ThreadsTyped
        <3>2. SoundFor(file, failed, work'[a].md.of, work'[a].now)
            BY <2>work, <2>read, <2>new
        <3>3. \A n \in Node : Still(n)' => Still(n)
            BY <3>1 DEF Still
        <3> QED BY <3>1, <3>2, <3>3 DEF AllSound
    <2> QED BY <2>1, <2>2, <2>3, <2>4, <2>5, <2>6
<1>4. CASE ScanFails(a)
    <2>sound. \A md, s : SoundFor(file, failed, md, s) => SoundFor(file', failed', md, s)
        BY <1>4, SoundRemains DEF ScanFails, WorldTyped
    <2>write. pending' \in Writes /\ pending'.md = Null /\ pending'.scanned = work[a].now
        <3>1. Null \in Metadata /\ work[a].now \in Date /\ pending' = Write(Null, work[a].now)
            BY <1>4 DEF ScanFails, WorldTyped, ThreadsTyped, DbTyped, LocTyped, NodesTyped, Work, Entry
        <3> QED BY <3>1, WriteTyped
    <2>fails. SoundFor(file', failed', 0, work[a].now)
        <3>1. SoundFor(file', TRUE, 0, work[a].now)
            BY NothingIsSound
        <3> QED BY <1>4, <3>1 DEF ScanFails
    <2>1. NodesTyped' /\ DbTyped' /\ LocTyped' /\ Holding'
        BY <1>4 DEF ScanFails, NodesTyped, DbTyped, LocTyped, Holding
    <2>2. WorldTyped'
        BY <1>4, <2>sound, <2>write, <2>fails DEF ScanFails, NoWork, WorldTyped, ThreadsTyped, LocTyped,
            DbTyped, NodesTyped
    <2>3. ThreadsTyped'
        BY <1>4, <2>sound, <2>write, <2>fails DEF ScanFails, NoWork, ThreadsTyped, NodesTyped, WorldTyped
    <2>4. Dated'
        BY <1>4, <2>sound, <2>write, <2>fails DEF ScanFails, NoWork, WorldTyped, NodesTyped, ThreadsTyped,
            DbTyped, LocTyped, Dated, Entry, NoEntry
    <2>5. ~torn' => Alone'
        BY <1>4, <2>sound, <2>write, <2>fails DEF ScanFails, NoWork, ThreadsTyped, NodesTyped, DbTyped,
            LocTyped, Holding, Alone, Still
    <2>6. ~torn' => Copies'
        BY <1>4, <2>sound, <2>write, <2>fails DEF ScanFails, NoWork, ThreadsTyped, NodesTyped, DbTyped,
            LocTyped, Holding, Alone, Copies, Still
    <2>7. ~torn' => AllSound'
        <3>1. UNCHANGED <<torn, row, node, loc, dbPc, dbNode, held>> /\ pc[a] = "read"
              /\ pc'[a] = "held" /\ \A b \in Scanner \ {a} : pc'[b] = pc[b] /\ work'[b] = work[b]
            BY <1>4 DEF ScanFails, ThreadsTyped
        <3>2. SoundFor(file', failed', pending'.md.of, pending'.scanned)
            BY <2>write, <2>fails
        <3>3. \A n \in Node : Still(n)' => Still(n)
            BY <3>1 DEF Still
        <3> QED BY <3>1, <3>2, <3>3, <2>sound DEF AllSound
    <2> QED BY <2>1, <2>2, <2>3, <2>4, <2>5, <2>6, <2>7
<1>5. CASE PublishScanned(a)
    <2>node. /\ node' \in [Node -> Entry] /\ held[a] \in Node /\ node'[held[a]].scanned = work[a].now
           /\ node'[held[a]].has = node[held[a]].has
           /\ node'[held[a]].md = node[held[a]].md
           /\ node'[held[a]].modified = node[held[a]].modified
           /\ \A n \in Node \ {held[a]} : node'[n] = node[n]
        <3>1. work[a].now \in Date /\ held[a] \in Node
            BY <1>5 DEF PublishScanned, WorldTyped, NodesTyped, ThreadsTyped, DbTyped, HasEntry, Work
        <3>2. node' = [node EXCEPT ![held[a]].scanned = work[a].now] /\ node \in [Node -> Entry]
            BY <1>5 DEF PublishScanned, NodesTyped
        <3> QED BY <3>1, <3>2, EntryScanned
    <2>none. ~torn' => ~torn /\ WritersAt(held[a]) \cup ReadersAt(held[a]) = {}
        BY <1>5, Zenon DEF PublishScanned
    <2>calm. ~torn' => /\ ~torn /\ Still(held[a])
                       /\ \A b \in Scanner : pc[b] = "replace" => held[b] # held[a]
                       /\ loc.pc \in {"null", "read", "placed"} => loc.node # held[a]
                       /\ dbPc = "cache" => dbNode # held[a]
        BY <2>none, NobodyWrites, NobodyReads
    <2>1. DbTyped' /\ LocTyped' /\ Holding'
        BY <1>5 DEF PublishScanned, DbTyped, LocTyped, Holding
    <2>2. WorldTyped'
        BY <1>5, <2>node, <2>none, <2>calm DEF PublishScanned, WorldTyped, ThreadsTyped, LocTyped, DbTyped,
            NodesTyped
    <2>3. NodesTyped'
        BY <1>5, <2>node, <2>none, <2>calm DEF PublishScanned, NodesTyped, ThreadsTyped, DbTyped, WorldTyped,
            LocTyped, Entry, NoEntry
    <2>4. ThreadsTyped'
        BY <1>5, <2>node, <2>none, <2>calm DEF PublishScanned, ThreadsTyped, NodesTyped, WorldTyped
    <2>5. Dated'
        BY <1>5, <2>node, <2>none, <2>calm DEF PublishScanned, WorldTyped, NodesTyped, ThreadsTyped, DbTyped,
            LocTyped, Dated, Entry, NoEntry
    <2>6. ~torn' => Alone'
        BY <1>5, <2>node, <2>none, <2>calm DEF PublishScanned, ThreadsTyped, NodesTyped, DbTyped, LocTyped,
            Holding, Alone, Still
    <2>7. ~torn' => Copies'
        BY <1>5, <2>node, <2>none, <2>calm DEF PublishScanned, ThreadsTyped, NodesTyped, DbTyped, LocTyped,
            Holding, Alone, Copies, Still
    <2>8. ~torn' => AllSound'
        BY <1>5, <2>node, <2>none, <2>calm DEF PublishScanned, WorldTyped, ThreadsTyped, NodesTyped, DbTyped,
            LocTyped, Holding, Dated, Alone, Copies, AllSound, Still
    <2> QED BY <2>1, <2>2, <2>3, <2>4, <2>5, <2>6, <2>7, <2>8
<1>6. CASE StoreMetadata(a)
    <2>node. /\ node' \in [Node -> Entry] /\ held[a] \in Node /\ node'[held[a]].md = work[a].md
           /\ node'[held[a]].has = node[held[a]].has
           /\ node'[held[a]].scanned = node[held[a]].scanned
           /\ node'[held[a]].modified = node[held[a]].modified
           /\ \A n \in Node \ {held[a]} : node'[n] = node[n]
        <3>1. work[a].md \in Metadata /\ held[a] \in Node
            BY <1>6 DEF StoreMetadata, WorldTyped, NodesTyped, ThreadsTyped, DbTyped, HasEntry, Work
        <3>2. node' = [node EXCEPT ![held[a]].md = work[a].md] /\ node \in [Node -> Entry]
            BY <1>6 DEF StoreMetadata, NodesTyped
        <3> QED BY <3>1, <3>2, EntryMd
    <2>1. WorldTyped' /\ DbTyped' /\ LocTyped' /\ Holding'
        BY <1>6 DEF StoreMetadata, WorldTyped, DbTyped, LocTyped, Holding
    <2>2. NodesTyped'
        BY <1>6, <2>node DEF StoreMetadata, NodesTyped, ThreadsTyped, DbTyped, WorldTyped, LocTyped, Entry,
            NoEntry
    <2>3. ThreadsTyped'
        BY <1>6, <2>node DEF StoreMetadata, ThreadsTyped, NodesTyped, WorldTyped
    <2>4. Dated'
        BY <1>6, <2>node DEF StoreMetadata, WorldTyped, NodesTyped, ThreadsTyped, DbTyped, LocTyped, Dated,
            Entry, NoEntry
    <2>5. ~torn' => Alone'
        BY <1>6, <2>node DEF StoreMetadata, ThreadsTyped, NodesTyped, DbTyped, LocTyped, Holding, Alone, Still
    <2>6. ~torn' => Copies'
        BY <1>6, <2>node DEF StoreMetadata, ThreadsTyped, NodesTyped, DbTyped, LocTyped, Holding, Alone,
            Copies, Still
    <2>7. ~torn' => AllSound'
        BY <1>6, <2>node DEF StoreMetadata, WorldTyped, ThreadsTyped, NodesTyped, DbTyped, LocTyped, Holding,
            Dated, Alone, Copies, AllSound, Still
    <2> QED BY <2>1, <2>2, <2>3, <2>4, <2>5, <2>6, <2>7
<1>7. CASE QueueWrite(a)
    <2>loc. loc' = loc /\ LocTyped'
        <3>1. work[a].md.of \in Date /\ lookups \in Seq(Date)
            BY DEF ThreadsTyped, LocTyped
        <3>2. lookups' \in Seq(Date)
            BY <1>7, <3>1 DEF QueueWrite
        <3> QED BY <1>7, <3>2 DEF QueueWrite, LocTyped
    <2>write. pending' \in Writes /\ pending'.md = work[a].md /\ pending'.scanned = work[a].now
        <3>1. work[a].md \in Metadata /\ work[a].now \in Date /\ pending' = Write(work[a].md, work[a].now)
            BY <1>7 DEF QueueWrite, WorldTyped, ThreadsTyped, DbTyped, LocTyped, NodesTyped, Work, Entry
        <3> QED BY <3>1, WriteTyped
    <2>1. NodesTyped' /\ DbTyped'
        BY <1>7 DEF QueueWrite, NodesTyped, DbTyped
    <2>2. WorldTyped'
        BY <1>7, <2>loc, <2>write DEF QueueWrite, NoWork, WorldTyped, ThreadsTyped, LocTyped, DbTyped,
            NodesTyped
    <2>3. ThreadsTyped'
        BY <1>7, <2>loc, <2>write DEF QueueWrite, NoWork, ThreadsTyped, NodesTyped, WorldTyped
    <2>4. LocTyped'
        BY <2>loc
    <2>5. Dated'
        BY <1>7, <2>loc, <2>write DEF QueueWrite, NoWork, WorldTyped, NodesTyped, ThreadsTyped, DbTyped,
            LocTyped, Dated, Entry, NoEntry
    <2>6. Holding'
        BY <1>7, <2>loc, <2>write DEF QueueWrite, NoWork, LocTyped, NodesTyped, Holding
    <2>7. ~torn' => Alone'
        BY <1>7, <2>loc, <2>write DEF QueueWrite, NoWork, ThreadsTyped, NodesTyped, DbTyped, LocTyped,
            Holding, Alone, Still
    <2>8. ~torn' => Copies'
        BY <1>7, <2>loc, <2>write DEF QueueWrite, NoWork, ThreadsTyped, NodesTyped, DbTyped, LocTyped,
            Holding, Alone, Copies, Still
    <2>9. ~torn' => AllSound'
        BY <1>7, <2>loc, <2>write DEF QueueWrite, NoWork, WorldTyped, ThreadsTyped, NodesTyped, DbTyped,
            LocTyped, Holding, Dated, Alone, Copies, AllSound, Still
    <2> QED BY <2>1, <2>2, <2>3, <2>4, <2>5, <2>6, <2>7, <2>8, <2>9
<1> QED BY <1>1, <1>2, <1>3, <1>4, <1>5, <1>6, <1>7 DEF Scan

LEMMA LocateKeeps == ASSUME StoreInv, UNCHANGED setting, Locate PROVE StoreInv'
<1>0. Scanner' = Scanner
    BY DEF Scanner
<1> USE <1>0, Basics DEF StoreInv, memory, counts, past, db, locating, Work
<1>1. CASE LocateFinds
    <2>calm. ~torn' => ~torn /\ Still(cur)
        BY <1>1, NobodyWrites, Zenon DEF LocateFinds
    <2>bool. torn' \in BOOLEAN
        BY <1>1, Zenon DEF LocateFinds
    <2>md. cur \in Node /\ node[cur].md \in Metadata /\ Head(lookups) \in Date /\ Tail(lookups) \in Seq(Date)
        BY <1>1 DEF LocateFinds, HasEntry, NodesTyped, Entry, LocTyped
    <2>loc. /\ loc' \in Saving /\ lookups' \in Seq(Date)
            /\ loc'.pc \in {"null", "read"} /\ (loc'.pc = "null" => loc'.md = Null)
            /\ loc'.node = cur /\ loc'.md = node[cur].md /\ loc'.scanned = 0 /\ cur # 0
        <3>1. loc' = [pc |-> IF node[cur].md = Null THEN "null" ELSE "read", for |-> Head(lookups),
                      node |-> cur, md |-> node[cur].md, scanned |-> 0]
            BY <1>1 DEF LocateFinds, NoLoc
        <3>2. loc' \in Saving
            BY <3>1, <2>md DEF Saving
        <3> QED BY <1>1, <3>1, <3>2, <2>md DEF LocateFinds
    <2>1. NodesTyped' /\ ThreadsTyped' /\ DbTyped'
        BY <1>1 DEF LocateFinds, NodesTyped, ThreadsTyped, DbTyped
    <2>2. WorldTyped'
        BY <1>1, <2>calm, <2>bool, <2>loc DEF LocateFinds, HasEntry, WorldTyped, ThreadsTyped,
            LocTyped, DbTyped, NodesTyped
    <2>3. LocTyped'
        BY <1>1, <2>calm, <2>bool, <2>loc DEF LocateFinds, HasEntry, LocTyped, NodesTyped, Entry
    <2>4. Dated'
        BY <1>1, <2>calm, <2>bool, <2>loc DEF LocateFinds, HasEntry, WorldTyped, NodesTyped,
            ThreadsTyped, DbTyped, LocTyped, Dated, Entry, NoEntry
    <2>5. Holding'
        BY <1>1, <2>calm, <2>bool, <2>loc DEF LocateFinds, HasEntry, LocTyped, NodesTyped, Holding
    <2>6. ~torn' => Alone'
        BY <1>1, <2>calm, <2>bool, <2>loc DEF LocateFinds, HasEntry, ThreadsTyped, NodesTyped, DbTyped,
            LocTyped, Holding, Alone, Still
    <2>7. ~torn' => Copies'
        BY <1>1, <2>calm, <2>bool, <2>loc DEF LocateFinds, HasEntry, ThreadsTyped, NodesTyped, DbTyped,
            LocTyped, Holding, Alone, Copies, Still
    <2>8. ~torn' => AllSound'
        BY <1>1, <2>calm, <2>bool, <2>loc DEF LocateFinds, HasEntry, WorldTyped, ThreadsTyped,
            NodesTyped, DbTyped, LocTyped, Holding, Dated, Alone, Copies, AllSound, Still
    <2> QED BY <2>1, <2>2, <2>3, <2>4, <2>5, <2>6, <2>7, <2>8
<1>2. CASE LocateMisses
    <2>loc. loc' = loc /\ LocTyped'
        <3>1. lookups # <<>> /\ lookups \in Seq(Date) => Tail(lookups) \in Seq(Date)
            OBVIOUS
        <3> QED BY <1>2, <3>1 DEF LocateMisses, LocTyped
    <2>1. NodesTyped' /\ ThreadsTyped' /\ DbTyped' /\ WorldTyped' /\ Dated' /\ Holding'
        BY <1>2 DEF LocateMisses, NodesTyped, ThreadsTyped, DbTyped, WorldTyped, Dated, Holding
    <2>2. ~torn' => Alone' /\ Copies' /\ AllSound'
        BY <1>2 DEF LocateMisses, Alone, Copies, AllSound, Still
    <2> QED BY <2>loc, <2>1, <2>2
<1>3. CASE LocateEmpty
    <2>new. NewMetadata(0) \in Metadata /\ NewMetadata(0).of = 0 /\ Append(places, 0) \in Seq(Date)
        BY MadeMetadata DEF WorldTyped
    <2>node. /\ node' \in [Node -> Entry] /\ loc.node \in Node /\ node'[loc.node].md = NewMetadata(0)
           /\ node'[loc.node].has = node[loc.node].has
           /\ node'[loc.node].scanned = node[loc.node].scanned
           /\ node'[loc.node].modified = node[loc.node].modified
           /\ \A n \in Node \ {loc.node} : node'[n] = node[n]
        <3>1. loc.node \in Node
            BY <1>3 DEF LocateEmpty, LocTyped, Saving, Holding
        <3>2. node' = [node EXCEPT ![loc.node].md = NewMetadata(0)] /\ node \in [Node -> Entry]
            BY <1>3 DEF LocateEmpty, NodesTyped
        <3>3. NewMetadata(0) \in Metadata
            BY <2>new
        <3> HIDE Basics DEF StoreInv, memory, counts, past, db, locating, Work
        <3> QED BY <3>1, <3>2, <3>3, EntryMd
    <2>loc. /\ loc' \in Saving /\ loc'.pc = "read" /\ loc.pc = "null" /\ loc'.node = loc.node
            /\ loc'.md = NewMetadata(0) /\ loc'.scanned = loc.scanned
        BY <1>3, <2>new DEF LocateEmpty, LocTyped, Saving
    <2>was. ~torn' => ~torn /\ loc.md.of = 0 /\ node[loc.node].md.of = 0
        BY <1>3, <2>loc DEF LocateEmpty, Holding, Copies
    <2>1. WorldTyped' /\ ThreadsTyped' /\ DbTyped'
        BY <1>3 DEF LocateEmpty, WorldTyped, ThreadsTyped, DbTyped
    <2>2. NodesTyped' /\ LocTyped' /\ Holding'
        BY <1>3, <2>new, <2>node, <2>loc DEF LocateEmpty, NodesTyped, LocTyped, Holding
    <2>3. Dated'
        BY <1>3, <2>node, <2>loc DEF LocateEmpty, NodesTyped, Dated
    <2>4. ~torn' => Alone'
        BY <1>3, <2>loc DEF LocateEmpty, Alone
    <2>5. ~torn' => Copies'
        BY <1>3, <2>new, <2>node, <2>loc, <2>was DEF LocateEmpty, ThreadsTyped, DbTyped, Alone, Copies
    <2>6. ~torn' => AllSound'
        <3>1. ASSUME ~torn'
              PROVE \A n \in Node : Still(n)' => SoundFor(file', failed', node'[n].md.of, node'[n].scanned)
            BY <1>3, <3>1, <2>new, <2>node, <2>was DEF LocateEmpty, AllSound, Still
        <3> QED BY <1>3, <3>1, <2>loc, <2>was DEF LocateEmpty, AllSound
    <2> QED BY <2>1, <2>2, <2>3, <2>4, <2>5, <2>6
<1>4. CASE LocatePlace
    <2>loc. /\ loc' \in Saving /\ loc'.pc = "placed" /\ loc.pc = "read" /\ loc'.node = loc.node
            /\ loc'.md = loc.md /\ loc'.scanned = loc.scanned
        BY <1>4 DEF LocatePlace, LocTyped, Saving
    <2>places. places' \in Seq(Date) /\ misplaced' \in BOOLEAN
        <3>1. loc.for \in Date /\ places \in Seq(Date)
            BY DEF LocTyped, Saving
        <3>2. misplaced' \in BOOLEAN
            BY <1>4, Zenon DEF LocatePlace, LocTyped
        <3>3. [places EXCEPT ![loc.md.at] = loc.for] \in Seq(Date)
            <4>1. CASE loc.md.at \in 1..Len(places)
                BY <3>1, <4>1, ExceptSeq
            <4>2. CASE loc.md.at \notin 1..Len(places)
                <5>1. [places EXCEPT ![loc.md.at] = loc.for] = places
                    BY <3>1, <4>2
                <5> QED BY <3>1, <5>1
            <4> QED BY <4>1, <4>2
        <3> QED BY <1>4, <3>2, <3>3 DEF LocatePlace
    <2>1. WorldTyped' /\ NodesTyped' /\ ThreadsTyped' /\ DbTyped'
        BY <1>4 DEF LocatePlace, WorldTyped, NodesTyped, ThreadsTyped, DbTyped
    <2>2. LocTyped' /\ Holding' /\ Dated'
        BY <1>4, <2>loc, <2>places DEF LocatePlace, LocTyped, Holding, Dated
    <2>3. ~torn' => Alone' /\ Copies' /\ AllSound'
        BY <1>4, <2>loc DEF LocatePlace, Alone, Copies, AllSound, Still
    <2> QED BY <2>1, <2>2, <2>3
<1>5. CASE LocateDate
    <2>loc. /\ loc' \in Saving
            /\ loc'.pc = "dated" /\ loc.pc = "placed" /\ loc'.node = loc.node /\ loc.node # 0
            /\ loc'.md = loc.md /\ loc'.scanned = node[loc.node].scanned
        <3>1. node[loc.node].scanned \in Date /\ loc.node # 0
            BY <1>5 DEF LocateDate, LocTyped, Saving, Holding, NodesTyped, Entry
        <3> QED BY <1>5, <3>1 DEF LocateDate, LocTyped, Saving
    <2>1. WorldTyped' /\ NodesTyped' /\ ThreadsTyped' /\ DbTyped'
        BY <1>5 DEF LocateDate, WorldTyped, NodesTyped, ThreadsTyped, DbTyped
    <2>2. LocTyped'
        BY <1>5, <2>loc DEF LocateDate, LocTyped, NodesTyped, Entry
    <2>3. Dated'
        <3>1. loc'.scanned <= clock
            BY <2>loc DEF Dated, LocTyped, Saving
        <3> QED BY <1>5, <3>1 DEF LocateDate, Dated
    <2>4. Holding'
        BY <1>5, <2>loc DEF LocateDate, LocTyped, NodesTyped, Holding
    <2>5. ~torn' => Alone'
        BY <1>5, <2>loc DEF LocateDate, ThreadsTyped, NodesTyped, DbTyped, LocTyped, Holding, Alone, Still
    <2>6. ~torn' => Copies'
        BY <1>5, <2>loc DEF LocateDate, ThreadsTyped, NodesTyped, DbTyped, LocTyped, Holding, Alone, Copies,
            Still
    <2>7. ~torn' => AllSound'
        <3>1. UNCHANGED <<file, failed, torn, row, pending, node, dbPc, dbNode, held, pc, work>>
            BY <1>5 DEF LocateDate
        <3>2. ~torn => Still(loc.node) /\ loc.node \in Node /\ loc.md.of = node[loc.node].md.of
            BY <2>loc DEF Alone, Still, Copies, LocTyped, Saving
        <3>3. ~torn => SoundFor(file, failed, loc'.md.of, loc'.scanned)
            BY <2>loc, <3>2 DEF AllSound
        <3> QED BY <3>1, <3>3 DEF AllSound, Still
    <2> QED BY <2>1, <2>2, <2>3, <2>4, <2>5, <2>6, <2>7
<1>6. CASE LocateWrite
    <2>write. pending' \in Writes /\ pending'.md = loc.md /\ pending'.scanned = loc.scanned
        <3>1. loc.md \in Metadata /\ loc.scanned \in Date /\ pending' = Write(loc.md, loc.scanned)
            BY <1>6 DEF LocateWrite, LocTyped, Saving
        <3> HIDE Basics DEF StoreInv, memory, counts, past, db, locating, Work
        <3> QED BY <3>1, WriteTyped
    <2>1. NodesTyped' /\ ThreadsTyped' /\ DbTyped'
        BY <1>6 DEF LocateWrite, NodesTyped, ThreadsTyped, DbTyped
    <2>2. WorldTyped'
        BY <1>6, <2>write DEF LocateWrite, WorldTyped, ThreadsTyped, LocTyped, DbTyped, NodesTyped
    <2>3. LocTyped'
        BY <1>6, <2>write DEF LocateWrite, LocTyped, NodesTyped, Entry
    <2>4. Dated'
        BY <1>6, <2>write DEF LocateWrite, WorldTyped, NodesTyped, ThreadsTyped, DbTyped, LocTyped,
            Dated, Entry, NoEntry
    <2>5. Holding'
        BY <1>6, <2>write DEF LocateWrite, LocTyped, NodesTyped, Holding
    <2>6. ~torn' => Alone'
        BY <1>6, <2>write DEF LocateWrite, ThreadsTyped, NodesTyped, DbTyped, LocTyped, Holding, Alone,
            Still
    <2>7. ~torn' => Copies'
        BY <1>6, <2>write DEF LocateWrite, ThreadsTyped, NodesTyped, DbTyped, LocTyped, Holding, Alone,
            Copies, Still
    <2>8. ~torn' => AllSound'
        BY <1>6, <2>write DEF LocateWrite, WorldTyped, ThreadsTyped, NodesTyped, DbTyped, LocTyped,
            Holding, Dated, Alone, Copies, AllSound, Still
    <2> QED BY <2>1, <2>2, <2>3, <2>4, <2>5, <2>6, <2>7, <2>8
<1> QED BY <1>1, <1>2, <1>3, <1>4, <1>5, <1>6, Outcomes DEF Locate

LEMMA DatabaseKeeps == ASSUME StoreInv, Heap, UNCHANGED setting, Database PROVE StoreInv'
<1>0. Scanner' = Scanner
    BY DEF Scanner
<1> USE <1>0, Basics DEF StoreInv, memory, counts, past, db, locating, Work
<1>1. CASE LoadNode
    <2>new. Unpacked \in Metadata /\ Unpacked.of = row.md /\ places' \in Seq(Date)
        BY <1>1, MadeMetadata DEF LoadNode, WorldTyped
    <2>free. FreeNode \in Node /\ FreeNode \notin InUse
        BY FreeNodeIsFree
    <2>1. WorldTyped' /\ ThreadsTyped' /\ LocTyped' /\ Holding'
        BY <1>1, <2>new DEF LoadNode, WorldTyped, ThreadsTyped, LocTyped, Holding
    <2>2. NodesTyped'
        BY <1>1, <2>free, <2>new DEF LoadNode, InUse, HasEntry, NodesTyped, ThreadsTyped, DbTyped, WorldTyped,
            LocTyped, Entry, NoEntry
    <2>3. DbTyped'
        BY <1>1, <2>free, <2>new DEF LoadNode, InUse, HasEntry, DbTyped, NodesTyped, WorldTyped, Entry
    <2>4. Dated'
        BY <1>1, <2>free, <2>new DEF LoadNode, InUse, HasEntry, WorldTyped, NodesTyped, ThreadsTyped, DbTyped,
            LocTyped, Dated, Entry, NoEntry, NoRow
    <2>5. ~torn' => Alone'
        BY <1>1, <2>free, <2>new DEF LoadNode, InUse, HasEntry, ThreadsTyped, NodesTyped, DbTyped, LocTyped, Holding,
            Alone, Still
    <2>6. ~torn' => Copies'
        BY <1>1, <2>free, <2>new DEF LoadNode, InUse, HasEntry, ThreadsTyped, NodesTyped, DbTyped, LocTyped, Holding,
            Alone, Copies, Still
    <2>7. ~torn' => AllSound'
        BY <1>1, <2>free, <2>new DEF LoadNode, InUse, HasEntry, WorldTyped, ThreadsTyped, NodesTyped, DbTyped,
            LocTyped, Holding, Dated, Alone, Copies, AllSound, Still, NoRow
    <2> QED BY <2>1, <2>2, <2>3, <2>4, <2>5, <2>6, <2>7
<1>2. CASE MergeMetadata
    <2>new. Unpacked \in Metadata /\ Unpacked.of = row.md /\ places' \in Seq(Date)
        BY <1>2, MadeMetadata DEF MergeMetadata, WorldTyped
    <2>node. /\ node' \in [Node -> Entry] /\ cur \in Node /\ node'[cur].md = Unpacked
           /\ node'[cur].has = node[cur].has
           /\ node'[cur].scanned = node[cur].scanned
           /\ node'[cur].modified = node[cur].modified
           /\ \A n \in Node \ {cur} : node'[n] = node[n]
        <3>1. Unpacked \in Metadata /\ cur \in Node
            BY <1>2, <2>new DEF MergeMetadata, WorldTyped, NodesTyped, ThreadsTyped, DbTyped, HasEntry, Work
        <3>2. node' = [node EXCEPT ![cur].md = Unpacked] /\ node \in [Node -> Entry]
            BY <1>2 DEF MergeMetadata, NodesTyped
        <3> QED BY <3>1, <3>2, EntryMd
    <2>none. ~torn' => ~torn /\ WritersAt(cur) \cup ReadersAt(cur) = {}
        BY <1>2, Zenon DEF MergeMetadata
    <2>calm. ~torn' => /\ ~torn /\ Still(cur)
                       /\ \A b \in Scanner : pc[b] = "replace" => held[b] # cur
                       /\ loc.pc \in {"null", "read", "placed"} => loc.node # cur
                       /\ dbPc = "cache" => dbNode # cur
        BY <2>none, NobodyWrites, NobodyReads
    <2>1. ThreadsTyped' /\ LocTyped' /\ Holding'
        BY <1>2, <2>new DEF MergeMetadata, ThreadsTyped, LocTyped, Holding
    <2>2. WorldTyped'
        BY <1>2, <2>node, <2>none, <2>calm, <2>new DEF MergeMetadata, HasEntry, WorldTyped, ThreadsTyped, LocTyped,
            DbTyped, NodesTyped
    <2>3. NodesTyped'
        BY <1>2, <2>node, <2>none, <2>calm, <2>new DEF MergeMetadata, HasEntry, NodesTyped, ThreadsTyped, DbTyped,
            WorldTyped, LocTyped, Entry, NoEntry
    <2>4. DbTyped'
        BY <1>2, <2>node, <2>none, <2>calm, <2>new DEF MergeMetadata, HasEntry, DbTyped, NodesTyped, WorldTyped, Entry
    <2>5. Dated'
        BY <1>2, <2>node, <2>none, <2>calm, <2>new DEF MergeMetadata, HasEntry, WorldTyped, NodesTyped, ThreadsTyped,
            DbTyped, LocTyped, Dated, Entry, NoEntry, NoRow
    <2>6. ~torn' => Alone'
        BY <1>2, <2>node, <2>none, <2>calm, <2>new DEF MergeMetadata, HasEntry, ThreadsTyped, NodesTyped, DbTyped,
            LocTyped, Holding, Alone, Still
    <2>7. ~torn' => Copies'
        BY <1>2, <2>node, <2>none, <2>calm, <2>new DEF MergeMetadata, HasEntry, ThreadsTyped, NodesTyped, DbTyped,
            LocTyped, Holding, Alone, Copies, Still
    <2>8. ~torn' => AllSound'
        BY <1>2, <2>node, <2>none, <2>calm, <2>new DEF MergeMetadata, HasEntry, WorldTyped, ThreadsTyped, NodesTyped,
            DbTyped, LocTyped, Holding, Dated, Alone, Copies, AllSound, Still, NoRow
    <2> QED BY <2>1, <2>2, <2>3, <2>4, <2>5, <2>6, <2>7, <2>8
<1>3. CASE MergeScanned
    <2>node. /\ node' \in [Node -> Entry] /\ dbNode \in Node /\ node'[dbNode].scanned = row.scanned
           /\ node'[dbNode].has = node[dbNode].has
           /\ node'[dbNode].md = node[dbNode].md
           /\ node'[dbNode].modified = node[dbNode].modified
           /\ \A n \in Node \ {dbNode} : node'[n] = node[n]
        <3>1. row.scanned \in Date /\ dbNode \in Node
            BY <1>3 DEF MergeScanned, WorldTyped, NodesTyped, ThreadsTyped, DbTyped, HasEntry, Work
        <3>2. node' = [node EXCEPT ![dbNode].scanned = row.scanned] /\ node \in [Node -> Entry]
            BY <1>3 DEF MergeScanned, NodesTyped
        <3> QED BY <3>1, <3>2, EntryScanned
    <2>1. WorldTyped' /\ ThreadsTyped' /\ LocTyped' /\ Holding'
        BY <1>3 DEF MergeScanned, WorldTyped, ThreadsTyped, LocTyped, Holding
    <2>2. NodesTyped'
        BY <1>3, <2>node DEF MergeScanned, NodesTyped, ThreadsTyped, DbTyped, WorldTyped, LocTyped, Entry,
            NoEntry
    <2>3. DbTyped'
        BY <1>3, <2>node DEF MergeScanned, DbTyped, NodesTyped, WorldTyped, Entry
    <2>4. Dated'
        BY <1>3, <2>node DEF MergeScanned, WorldTyped, NodesTyped, ThreadsTyped, DbTyped, LocTyped, Dated,
            Entry, NoEntry
    <2>5. ~torn' => Alone'
        BY <1>3, <2>node DEF MergeScanned, ThreadsTyped, NodesTyped, DbTyped, LocTyped, Holding, Alone, Still
    <2>6. ~torn' => Copies'
        BY <1>3, <2>node DEF MergeScanned, ThreadsTyped, NodesTyped, DbTyped, LocTyped, Holding, Alone,
            Copies, Still
    <2>7. ~torn' => AllSound'
        BY <1>3, <2>node DEF MergeScanned, WorldTyped, ThreadsTyped, NodesTyped, DbTyped, LocTyped, Holding,
            Dated, Alone, Copies, AllSound, Still
    <2> QED BY <2>1, <2>2, <2>3, <2>4, <2>5, <2>6, <2>7
<1>4. CASE LoadNothing
    <2>1. WorldTyped' /\ NodesTyped' /\ ThreadsTyped' /\ LocTyped' /\ Dated' /\ Holding'
        BY <1>4 DEF LoadNothing, WorldTyped, NodesTyped, ThreadsTyped, LocTyped, Dated, Holding
    <2>2. DbTyped'
        BY <1>4 DEF LoadNothing, HasEntry, DbTyped, NodesTyped, WorldTyped, Entry
    <2>3. ~torn' => Alone'
        BY <1>4 DEF LoadNothing, HasEntry, ThreadsTyped, NodesTyped, DbTyped, LocTyped, Holding, Alone, Still
    <2>4. ~torn' => Copies'
        BY <1>4 DEF LoadNothing, HasEntry, ThreadsTyped, NodesTyped, DbTyped, LocTyped, Holding, Alone,
            Copies, Still
    <2>5. ~torn' => AllSound'
        BY <1>4 DEF LoadNothing, HasEntry, WorldTyped, ThreadsTyped, NodesTyped, DbTyped, LocTyped, Holding,
            Dated, Alone, Copies, AllSound, Still, NoRow
    <2> QED BY <2>1, <2>2, <2>3, <2>4, <2>5
<1>5. CASE PerformWrites
    <2>row. row'.md = pending.md.of /\ row'.scanned = pending.scanned /\ pending' = NoWrite /\ dbPc = "idle"
        BY <1>5 DEF PerformWrites
    <2>1. NodesTyped' /\ ThreadsTyped' /\ DbTyped' /\ LocTyped' /\ Holding' /\ (~torn' => Alone')
        BY <1>5 DEF PerformWrites, NodesTyped, ThreadsTyped, DbTyped, LocTyped, Holding, Alone
    <2>2. WorldTyped'
        <3>1. pending.md.of \in Date /\ pending.scanned \in Date /\ Place(pending.md) \in Date
            BY PlaceTyped DEF WorldTyped, Refs
        <3>2. row' \in Row
            BY <1>5, <3>1, Zenon DEF PerformWrites, Row
        <3> QED BY <1>5, <3>2 DEF PerformWrites, WorldTyped
    <2>3. Dated'
        BY <1>5, <2>row, NothingIsSound DEF PerformWrites, WorldTyped, NodesTyped, ThreadsTyped, DbTyped, LocTyped,
            Dated, Entry, NoEntry, NoRow
    <2>4. ~torn' => Copies'
        BY <1>5, <2>row, NothingIsSound DEF PerformWrites, ThreadsTyped, NodesTyped, DbTyped, LocTyped, Holding,
            Alone, Copies, Still
    <2>5. ~torn' => AllSound'
        <3>1. UNCHANGED <<file, failed, torn, loc, node, dbPc, dbNode, held, pc, work>>
            BY <1>5 DEF PerformWrites
        <3>2. ~torn => SoundFor(file, failed, row'.md, row'.scanned)
            BY <2>row DEF AllSound
        <3>3. SoundFor(file, failed, pending'.md.of, pending'.scanned)
            BY <2>row, NothingIsSound
        <3> QED BY <3>1, <3>2, <3>3 DEF AllSound, Still
    <2> QED BY <2>1, <2>2, <2>3, <2>4, <2>5
<1>6. CASE Compact
    <2>1. NodesTyped' /\ ThreadsTyped' /\ LocTyped' /\ Dated' /\ Holding'
        BY <1>6 DEF Compact, NodesTyped, ThreadsTyped, LocTyped, Dated, Holding
    <2>2. WorldTyped'
        BY <1>6, StoreAssumption DEF Compact, WorldTyped
    <2>3. DbTyped'
        BY <1>6 DEF Compact, DbTyped, NodesTyped, WorldTyped, Entry
    <2>4. ~torn' => Alone'
        BY <1>6 DEF Compact, ThreadsTyped, NodesTyped, DbTyped, LocTyped, Holding, Alone, Still
    <2>5. ~torn' => Copies'
        BY <1>6 DEF Compact, ThreadsTyped, NodesTyped, DbTyped, LocTyped, Holding, Alone, Copies, Still
    <2>6. ~torn' => AllSound'
        BY <1>6 DEF Compact, WorldTyped, ThreadsTyped, NodesTyped, DbTyped, LocTyped, Holding, Dated, Alone,
            Copies, AllSound, Still
    <2> QED BY <2>1, <2>2, <2>3, <2>4, <2>5, <2>6
<1>7. CASE ResetCaches
    <2>calm. ~torn' => ~torn /\ Still(cur)
        BY <1>7, NobodyWrites, Zenon DEF ResetCaches
    <2>bool. torn' \in BOOLEAN
        BY <1>7, Zenon DEF ResetCaches
    <2>1. NodesTyped' /\ ThreadsTyped' /\ LocTyped' /\ Holding'
        BY <1>7 DEF ResetCaches, NodesTyped, ThreadsTyped, LocTyped, Holding
    <2>2. WorldTyped'
        BY <1>7, <2>bool, StoreAssumption DEF ResetCaches, WorldTyped
    <2>3. DbTyped'
        BY <1>7, <2>calm, <2>bool, NothingIsSound DEF ResetCaches, HasEntry, DbTyped, NodesTyped, WorldTyped,
            Entry
    <2>4. Dated'
        BY <1>7, <2>calm, <2>bool, NothingIsSound DEF ResetCaches, HasEntry, WorldTyped, NodesTyped,
            ThreadsTyped, DbTyped, LocTyped, Dated, Entry, NoEntry, NoRow
    <2>5. ~torn' => Alone'
        BY <1>7, <2>calm, <2>bool, NothingIsSound DEF ResetCaches, HasEntry, ThreadsTyped, NodesTyped,
            DbTyped, LocTyped, Holding, Alone, Still
    <2>6. ~torn' => Copies'
        BY <1>7, <2>calm, <2>bool, NothingIsSound DEF ResetCaches, HasEntry, ThreadsTyped, NodesTyped,
            DbTyped, LocTyped, Holding, Alone, Copies, Still
    <2>7. ~torn' => AllSound'
        BY <1>7, <2>calm, <2>bool, NothingIsSound DEF ResetCaches, HasEntry, WorldTyped, ThreadsTyped,
            NodesTyped, DbTyped, LocTyped, Holding, Dated, Alone, Copies, AllSound, Still, NoRow
    <2> QED BY <2>1, <2>2, <2>3, <2>4, <2>5, <2>6, <2>7
<1>8. CASE ResetDrops
    <2>1. NodesTyped' /\ ThreadsTyped' /\ LocTyped' /\ Holding'
        BY <1>8 DEF ResetDrops, NodesTyped, ThreadsTyped, LocTyped, Holding
    <2>2. WorldTyped'
        BY <1>8, StoreAssumption DEF ResetDrops, WorldTyped
    <2>3. DbTyped'
        BY <1>8, NothingIsSound DEF ResetDrops, DbTyped, NodesTyped, WorldTyped, Entry
    <2>4. Dated'
        BY <1>8, NothingIsSound DEF ResetDrops, WorldTyped, NodesTyped, ThreadsTyped, DbTyped, LocTyped,
            Dated, Entry, NoEntry, NoRow
    <2>5. ~torn' => Alone'
        BY <1>8, NothingIsSound DEF ResetDrops, ThreadsTyped, NodesTyped, DbTyped, LocTyped, Holding, Alone,
            Still
    <2>6. ~torn' => Copies'
        BY <1>8, NothingIsSound DEF ResetDrops, ThreadsTyped, NodesTyped, DbTyped, LocTyped, Holding, Alone,
            Copies, Still
    <2>7. ~torn' => AllSound'
        BY <1>8, NothingIsSound DEF ResetDrops, WorldTyped, ThreadsTyped, NodesTyped, DbTyped, LocTyped,
            Holding, Dated, Alone, Copies, AllSound, Still, NoRow
    <2> QED BY <2>1, <2>2, <2>3, <2>4, <2>5, <2>6, <2>7
<1>9. CASE SaveCached
    <2>write. pending' \in Writes /\ pending'.md = dbMd /\ pending'.scanned = node[dbNode].scanned
        <3>1. dbMd \in Metadata /\ node[dbNode].scanned \in Date /\ pending' = Write(dbMd, node[dbNode].scanned)
            BY <1>9 DEF SaveCached, WorldTyped, ThreadsTyped, DbTyped, LocTyped, NodesTyped, Work, Entry
        <3> QED BY <3>1, WriteTyped
    <2>1. NodesTyped' /\ ThreadsTyped' /\ LocTyped' /\ Holding'
        BY <1>9 DEF SaveCached, NodesTyped, ThreadsTyped, LocTyped, Holding
    <2>2. WorldTyped'
        BY <1>9, <2>write DEF SaveCached, WorldTyped, ThreadsTyped, LocTyped, DbTyped, NodesTyped
    <2>3. DbTyped'
        BY <1>9, <2>write DEF SaveCached, DbTyped, NodesTyped, WorldTyped, Entry
    <2>4. Dated'
        BY <1>9, <2>write DEF SaveCached, WorldTyped, NodesTyped, ThreadsTyped, DbTyped, LocTyped, Dated,
            Entry, NoEntry
    <2>5. ~torn' => Alone'
        BY <1>9, <2>write DEF SaveCached, ThreadsTyped, NodesTyped, DbTyped, LocTyped, Holding, Alone, Still
    <2>6. ~torn' => Copies'
        BY <1>9, <2>write DEF SaveCached, ThreadsTyped, NodesTyped, DbTyped, LocTyped, Holding, Alone, Copies,
            Still
    <2>7. ~torn' => AllSound'
        BY <1>9, <2>write DEF SaveCached, WorldTyped, ThreadsTyped, NodesTyped, DbTyped, LocTyped, Holding,
            Dated, Alone, Copies, AllSound, Still
    <2> QED BY <2>1, <2>2, <2>3, <2>4, <2>5, <2>6, <2>7
<1> QED BY <1>1, <1>2, <1>3, <1>4, <1>5, <1>6, <1>7, <1>8, <1>9, Outcomes DEF Database

LEMMA WorldKeeps == ASSUME StoreInv, UNCHANGED setting, Tick \/ Restart PROVE StoreInv'
<1>0. Scanner' = Scanner
    BY DEF Scanner
<1> USE <1>0, Basics DEF StoreInv, memory, counts, past, db, locating, Work
<1>1. CASE Tick
    <2>sound. \A md, s : (s \in Nat /\ s <= clock /\ SoundFor(file, failed, md, s)) => SoundFor(file', failed', md, s)
        <3>1. clock \in Nat /\ (file' = file \/ file' = 0 \/ file' = clock + 1) /\ failed' = failed
            BY <1>1 DEF Tick, WorldTyped
        <3>2. CASE file' = file
            BY <3>1, <3>2
        <3>3. CASE file' = 0
            BY <3>1, <3>3, SoundRemains
        <3>4. CASE file' = clock + 1
            BY <3>1, <3>4, SoundRemains
        <3> QED BY <3>1, <3>2, <3>3, <3>4
    <2>1. NodesTyped' /\ ThreadsTyped' /\ DbTyped' /\ LocTyped' /\ Holding' /\ (~torn' => Alone') /\ (~torn' => Copies')
        BY <1>1 DEF Tick, NodesTyped, ThreadsTyped, DbTyped, LocTyped, Holding, Alone, Copies
    <2>2. WorldTyped'
        BY <1>1, StoreAssumption DEF Tick, WorldTyped, Date
    <2>3. Dated'
        <3>1. clock \in Nat /\ clock # 0 /\ clock' = clock + 1 /\ file \in Nat /\ file <= clock
              /\ (file' = file \/ file' = 0 \/ file' = clock + 1) /\ UNCHANGED <<row, memory>>
            BY <1>1 DEF Tick, WorldTyped, Dated
        <3>2. /\ row.scanned \in Nat /\ pending.scanned \in Nat /\ loc.scanned \in Nat
              /\ \A n \in Node : node[n].scanned \in Nat
              /\ \A b \in Scanner : work[b].now \in Nat
            BY DEF WorldTyped, NodesTyped, ThreadsTyped, LocTyped, Saving, Entry
        <3>3. clock' # 0 /\ file' <= clock' /\ \A x \in Nat : x <= clock => x <= clock'
            BY <3>1
        <3> QED BY <3>1, <3>2, <3>3 DEF Dated
    <2>4. ~torn' => AllSound'
        <3>1. UNCHANGED <<row, memory>> /\ torn' = torn
            BY <1>1 DEF Tick
        <3>2. /\ row.scanned \in Nat /\ pending.scanned \in Nat /\ loc.scanned \in Nat
              /\ \A n \in Node : node[n].scanned \in Nat
              /\ \A b \in Scanner : work[b].now \in Nat
            BY DEF WorldTyped, NodesTyped, ThreadsTyped, LocTyped, Saving, Entry
        <3>3. /\ row.scanned <= clock /\ pending.scanned <= clock /\ loc.scanned <= clock
              /\ \A n \in Node : node[n].scanned <= clock
              /\ \A b \in Scanner : work[b].now <= clock
            BY DEF Dated
        <3> QED BY <3>1, <3>2, <3>3, <2>sound DEF AllSound, Still
    <2> QED BY <2>1, <2>2, <2>3, <2>4
<1>2. CASE Restart
    <2>none. SoundFor(file, failed, 0, 0)
        BY NothingIsSound
    <2>1. WorldTyped'
        BY <1>2, StoreAssumption DEF Restart, WorldTyped
    <2>2. NodesTyped'
        BY <1>2, <2>none DEF Restart, NoWork, NoLoc, NodesTyped, ThreadsTyped, DbTyped, WorldTyped, LocTyped,
            Entry, NoEntry
    <2>3. ThreadsTyped'
        BY <1>2, <2>none DEF Restart, NoWork, NoLoc, ThreadsTyped, NodesTyped, WorldTyped
    <2>4. DbTyped'
        BY <1>2, <2>none DEF Restart, NoWork, NoLoc, DbTyped, NodesTyped, WorldTyped, Entry
    <2>5. LocTyped'
        BY <1>2, <2>none DEF Restart, NoWork, NoLoc, LocTyped, NodesTyped, Entry
    <2>6. Dated'
        BY <1>2, <2>none DEF Restart, NoWork, NoLoc, WorldTyped, NodesTyped, ThreadsTyped, DbTyped, LocTyped,
            Dated, Entry, NoEntry, NoRow
    <2>7. Holding'
        BY <1>2, <2>none DEF Restart, NoWork, NoLoc, LocTyped, NodesTyped, Holding
    <2>8. ~torn' => Alone'
        BY <1>2, <2>none DEF Restart, NoWork, NoLoc, ThreadsTyped, NodesTyped, DbTyped, LocTyped, Holding,
            Alone, Still
    <2>9. ~torn' => Copies'
        BY <1>2, <2>none DEF Restart, NoWork, NoLoc, ThreadsTyped, NodesTyped, DbTyped, LocTyped, Holding,
            Alone, Copies, Still
    <2>10. ~torn' => AllSound'
        <3>1. /\ file' = file /\ failed' = failed /\ row' = row /\ pending' = NoWrite /\ loc'.pc = "none"
              /\ \A n \in Node : node'[n].md = Null /\ node'[n].scanned = 0
              /\ \A b \in Scanner : pc'[b] = "idle"
              /\ torn' = torn
            BY <1>2 DEF Restart, NoLoc, NoEntry
        <3>2. ~torn' => SoundFor(file', failed', row'.md, row'.scanned)
            BY <3>1 DEF AllSound
        <3> QED BY <3>1, <3>2, <2>none DEF AllSound
    <2> QED BY <2>1, <2>2, <2>3, <2>4, <2>5, <2>6, <2>7, <2>8, <2>9, <2>10
<1> QED BY <1>1, <1>2

-----------------------------------------------------------------------------
(* The objects of metadata *)

\* Whoever holds metadata after a step holds one of R.
NextRefsIn(R) ==
    /\ \A n \in Node : node'[n].md \in R
    /\ \A a \in Scanner : work'[a].md \in R
    /\ pending'.md \in R /\ dbMd' \in R /\ loc'.md \in R

LEMMA RefsTyped ==
    ASSUME StoreInv
    PROVE /\ \A m \in Refs : m \in Metadata /\ m.at \in Nat
          /\ \A n \in Node : node[n].md \in Refs
          /\ \A a \in Scanner : work[a].md \in Refs
          /\ pending.md \in Refs /\ dbMd \in Refs /\ loc.md \in Refs
          /\ Len(places) \in Nat
<1>1. \A n \in Node : node[n].md \in Metadata
    BY DEF StoreInv, NodesTyped, Entry
<1>2. \A a \in Scanner : work[a].md \in Metadata
    BY DEF StoreInv, ThreadsTyped, Work
<1>3. pending.md \in Metadata /\ dbMd \in Metadata /\ loc.md \in Metadata /\ Len(places) \in Nat
    BY Basics DEF StoreInv, WorldTyped, DbTyped, LocTyped, Saving
<1>4. \A m \in Refs : m \in Metadata
    BY <1>1, <1>2, <1>3 DEF Refs
<1>5. \A m \in Metadata : m.at \in Nat
    BY DEF Metadata
<1> QED BY <1>3, <1>4, <1>5 DEF Refs

\* A step that passes references on, or drops them, leaves the heap as it was.
LEMMA HeapShares ==
    ASSUME StoreInv, Heap, UNCHANGED <<setting, places, misplaced>>, NextRefsIn(Refs \cup {Null}),
           ~misplaced => row'.place \in {0, row'.md}
    PROVE Heap'
<1>1. Refs' \subseteq Refs \cup {Null}
    BY DEF Refs, NextRefsIn, Scanner
<1>2. Null.at = 0 /\ \A m \in Refs : m.at \in Nat
    BY RefsTyped DEF Null
<1>3. \A m \in Refs' : m.at <= Len(places') /\ (m.at = 0 => m = Null)
    BY <1>1, <1>2, RefsTyped DEF Heap
<1>4. \A m, k \in Refs' : m.at = k.at => m = k
    BY <1>1, <1>2 DEF Heap
<1>5. ~misplaced' => \A m \in Refs' : m.at # 0 => places'[m.at] \in {0, m.of}
    BY <1>1, <1>2 DEF Heap
<1> QED BY <1>3, <1>4, <1>5 DEF Heap

\* So does one that makes an object, with the place it has.
LEMMA HeapMakes ==
    ASSUME StoreInv, Heap, NEW v \in Date, NEW p \in Date, UNCHANGED <<setting, misplaced, row>>,
           NextRefsIn(Refs \cup {Null, NewMetadata(v)}), places' = Append(places, p),
           ~misplaced => p \in {0, v}
    PROVE Heap'
<1> DEFINE new == NewMetadata(v)
<1>1. Refs' \subseteq Refs \cup {Null, new}
    BY DEF Refs, NextRefsIn, Scanner
<1>2. Null.at = 0 /\ new.at = Len(places) + 1 /\ new.of = v
    BY DEF Null, NewMetadata
<1>3. /\ places \in Seq(Date) /\ Len(places) \in Nat /\ Len(places') = Len(places) + 1
      /\ places'[Len(places) + 1] = p
      /\ \A i \in 1..Len(places) : places'[i] = places[i]
    BY DEF StoreInv, LocTyped
<1>4. \A m \in Refs : m.at \in Nat /\ m.at <= Len(places) /\ (m.at = 0 => m = Null)
    BY RefsTyped DEF Heap
<1> HIDE DEF new
<1>5. \A m \in Refs' : m.at <= Len(places') /\ (m.at = 0 => m = Null)
    BY <1>1, <1>2, <1>3, <1>4
<1>6. \A m, k \in Refs' : m.at = k.at => m = k
    <2> SUFFICES ASSUME NEW m \in Refs', NEW k \in Refs', m.at = k.at PROVE m = k
        OBVIOUS
    <2>1. CASE m = new \/ k = new
        BY <1>1, <1>2, <1>3, <1>4, <2>1
    <2>2. CASE m = Null \/ k = Null
        BY <1>1, <1>2, <1>3, <1>4, <2>2
    <2>3. CASE m \in Refs /\ k \in Refs
        BY <2>3 DEF Heap
    <2> QED BY <1>1, <2>1, <2>2, <2>3
<1>7. ~misplaced' => \A m \in Refs' : m.at # 0 => places'[m.at] \in {0, m.of}
    <2> SUFFICES ASSUME ~misplaced, NEW m \in Refs', m.at # 0 PROVE places'[m.at] \in {0, m.of}
        OBVIOUS
    <2>1. CASE m = new
        BY <1>2, <1>3, <2>1
    <2>2. CASE m \in Refs
        <3>1. m.at \in 1..Len(places)
            BY <1>4, <2>2
        <3> QED BY <1>3, <2>2, <3>1 DEF Heap
    <2> QED BY <1>1, <1>2, <2>1, <2>2
<1> QED BY <1>5, <1>6, <1>7 DEF Heap

LEMMA HeapStarts == Init => Heap
<1> SUFFICES ASSUME Init PROVE Heap
    OBVIOUS
<1>1. \A m \in Refs : m = Null
    BY Basics DEF Refs, Init, FreshMemory, NoEntry
<1>2. Null.at = 0 /\ Len(places) = 0 /\ row.place = 0
    BY DEF Null, Init, FreshMemory, NoRow
<1> QED BY <1>1, <1>2 DEF Heap

LEMMA ScannersKeepHeap ==
    ASSUME StoreInv, Heap, UNCHANGED setting, NEW a \in Scanner, Validate(a) \/ Scan(a)
    PROVE Heap'
<1> USE RefsTyped, Basics DEF memory, counts, past, db, locating
<1>w. work \in [Scanner -> Work] /\ node \in [Node -> Entry] /\ cur \in Node \cup {0}
    BY DEF StoreInv, ThreadsTyped, NodesTyped
<1>r. row \in Row /\ (~misplaced => row.place \in {0, row.md})
    BY DEF StoreInv, WorldTyped, Heap
<1>1. CASE BeginValidate(a) \/ LetGo(a) \/ FindNode(a)
    <2>1. NextRefsIn(Refs \cup {Null}) /\ UNCHANGED <<places, misplaced, row>>
        BY <1>1 DEF BeginValidate, LetGo, FindNode, NextRefsIn
    <2> QED BY <2>1, <1>r, HeapShares
<1>2. CASE List(a) \/ BeginScan(a)
    <2>1. \A b \in Scanner : work'[b].md = work[b].md
        <3>1. CASE List(a)
            BY <3>1, <1>w DEF List, Work
        <3>2. CASE BeginScan(a)
            BY <3>2, <1>w DEF BeginScan, Work
        <3> QED BY <1>2, <3>1, <3>2
    <2>2. NextRefsIn(Refs \cup {Null}) /\ UNCHANGED <<places, misplaced, row>>
        BY <1>2, <2>1 DEF List, BeginScan, NextRefsIn
    <2> QED BY <2>2, <1>r, HeapShares
<1>3. CASE CopyMetadata(a)
    <2>1. held[a] \in Node
        BY <1>3 DEF CopyMetadata, HasEntry, StoreInv, ThreadsTyped
    <2>2. \A b \in Scanner : work'[b].md \in {work[b].md, node[held[a]].md}
        BY <1>3, <1>w DEF CopyMetadata, Work
    <2>3. NextRefsIn(Refs \cup {Null}) /\ UNCHANGED <<places, misplaced, row>>
        BY <1>3, <2>1, <2>2 DEF CopyMetadata, NextRefsIn
    <2> QED BY <2>3, <1>r, HeapShares
<1>4. CASE KeepsNode(a) \/ ScanFails(a)
    <2>1. \A b \in Scanner : work'[b].md \in {work[b].md, Null}
        BY <1>4, <1>w DEF KeepsNode, ScanFails, Work
    <2>2. pending'.md \in {pending.md, Null}
        BY <1>4 DEF KeepsNode, ScanFails, Write
    <2>3. NextRefsIn(Refs \cup {Null}) /\ UNCHANGED <<places, misplaced, row>>
        BY <1>4, <2>1, <2>2 DEF KeepsNode, ScanFails, NextRefsIn
    <2> QED BY <2>3, <1>r, HeapShares
<1>5. CASE ReplacesNode(a) \/ ReplaceUncopied(a)
    <2>1. PICK e : Replace(a, e) /\ e.md \in {work[a].md, Null}
        <3> DEFINE listed == [NoEntry EXCEPT !.has = work[a].listed # 0, !.modified = work[a].listed]
        <3>1. Copied(a).md = work[a].md /\ listed.md = Null
            BY DEF Copied, NoEntry
        <3>2. Replace(a, Copied(a)) \/ Replace(a, listed)
            BY <1>5, Zenon DEF ReplacesNode, ReplaceUncopied
        <3> QED BY <3>1, <3>2, Zenon
    <2>2. \A b \in Scanner : work'[b].md \in {work[b].md, Null}
        BY <2>1, <1>w DEF Replace, Work
    <2>3. \A n \in Node : node'[n].md \in {node[n].md, e.md}
        BY <2>1, <1>w DEF Replace
    <2>4. UNCHANGED <<pending, dbMd, places, lookups, loc, misplaced, row>>
        BY <1>5 DEF ReplacesNode, ReplaceUncopied
    <2>5. NextRefsIn(Refs \cup {Null})
        BY <2>1, <2>2, <2>3, <2>4 DEF NextRefsIn
    <2> QED BY <2>4, <2>5, <1>r, HeapShares
<1>6. CASE ReadFile(a)
    <2>1. \A b \in Scanner : work'[b].md \in {work[b].md, NewMetadata(file)}
        BY <1>6, <1>w DEF ReadFile, Work
    <2>2. NextRefsIn(Refs \cup {Null, NewMetadata(file)}) /\ UNCHANGED <<misplaced, row>>
        BY <1>6, <2>1 DEF ReadFile, NextRefsIn
    <2>3. file \in Date /\ places' = Append(places, 0)
        BY <1>6 DEF ReadFile, StoreInv, WorldTyped
    <2> QED BY <2>2, <2>3, HeapMakes
<1>7. CASE PublishScanned(a)
    <2>1. \A n \in Node : node'[n].md = node[n].md
        BY <1>7, <1>w DEF PublishScanned, Entry
    <2>2. NextRefsIn(Refs \cup {Null}) /\ UNCHANGED <<places, misplaced, row>>
        BY <1>7, <2>1 DEF PublishScanned, NextRefsIn
    <2> QED BY <2>2, <1>r, HeapShares
<1>8. CASE StoreMetadata(a)
    <2>1. \A n \in Node : node'[n].md \in {node[n].md, work[a].md}
        BY <1>8, <1>w DEF StoreMetadata, Entry
    <2>2. NextRefsIn(Refs \cup {Null}) /\ UNCHANGED <<places, misplaced, row>>
        BY <1>8, <2>1 DEF StoreMetadata, NextRefsIn
    <2> QED BY <2>2, <1>r, HeapShares
<1>9. CASE QueueWrite(a)
    <2>1. (\A b \in Scanner : work'[b].md \in {work[b].md, Null}) /\ pending'.md = work[a].md
        BY <1>9, <1>w DEF QueueWrite, Work, Write
    <2>2. NextRefsIn(Refs \cup {Null}) /\ UNCHANGED <<places, misplaced, row>>
        BY <1>9, <2>1 DEF QueueWrite, NextRefsIn
    <2> QED BY <2>2, <1>r, HeapShares
<1> QED BY <1>1, <1>2, <1>3, <1>4, <1>5, <1>6, <1>7, <1>8, <1>9, Outcomes DEF Validate, Scan

LEMMA LocateKeepsHeap == ASSUME StoreInv, Heap, UNCHANGED setting, Locate PROVE Heap'
<1> USE RefsTyped, Basics DEF memory, counts, past, db, locating
<1>w. node \in [Node -> Entry] /\ loc \in Saving /\ places \in Seq(Date) /\ cur \in Node \cup {0}
    BY DEF StoreInv, NodesTyped, LocTyped
<1>r. row \in Row /\ (~misplaced => row.place \in {0, row.md})
    BY DEF StoreInv, WorldTyped, Heap
<1>1. CASE LocateFinds
    <2>1. loc'.md = node[cur].md /\ cur \in Node
        BY <1>1, <1>w DEF LocateFinds, NoLoc, HasEntry
    <2>2. NextRefsIn(Refs \cup {Null}) /\ UNCHANGED <<places, misplaced, row>>
        BY <1>1, <2>1 DEF LocateFinds, NextRefsIn
    <2> QED BY <2>2, <1>r, HeapShares
<1>2. CASE LocateMisses
    <2>1. NextRefsIn(Refs \cup {Null}) /\ UNCHANGED <<places, misplaced, row>>
        BY <1>2 DEF LocateMisses, NextRefsIn
    <2> QED BY <2>1, <1>r, HeapShares
<1>3. CASE LocateEmpty
    <2>1. \A n \in Node : node'[n].md \in {node[n].md, NewMetadata(0)}
        BY <1>3, <1>w DEF LocateEmpty, Entry
    <2>2. loc'.md = NewMetadata(0)
        BY <1>3, <1>w DEF LocateEmpty, Saving
    <2>3. NextRefsIn(Refs \cup {Null, NewMetadata(0)}) /\ UNCHANGED <<misplaced, row>> /\ places' = Append(places, 0)
        BY <1>3, <2>1, <2>2 DEF LocateEmpty, NextRefsIn
    <2> QED BY <2>3, HeapMakes
<1>4. CASE LocatePlace
    <2>1. loc'.md = loc.md /\ UNCHANGED <<node, work, pending, dbMd, row>>
        BY <1>4, <1>w DEF LocatePlace, Saving
    <2>2. Refs' = Refs
        BY <2>1, Zenon DEF Refs, Scanner
    <2>3. /\ Len(places') = Len(places)
          /\ \A i \in 1..Len(places) : places'[i] = IF i = loc.md.at THEN loc.for ELSE places[i]
        BY <1>4, <1>w DEF LocatePlace
    <2>4. ~misplaced' => ~misplaced /\ loc.for = loc.md.of
        BY <1>4, Zenon DEF LocatePlace
    <2>5. ~misplaced' => \A m \in Refs : m.at # 0 => places'[m.at] \in {0, m.of}
        <3> SUFFICES ASSUME ~misplaced', NEW m \in Refs, m.at # 0 PROVE places'[m.at] \in {0, m.of}
            OBVIOUS
        <3>1. m.at \in 1..Len(places) /\ loc.md \in Refs
            BY DEF Heap
        <3>2. CASE m.at = loc.md.at
            BY <2>3, <2>4, <3>1, <3>2 DEF Heap
        <3>3. CASE m.at # loc.md.at
            BY <2>3, <2>4, <3>1, <3>3 DEF Heap
        <3> QED BY <3>2, <3>3
    <2> QED BY <2>1, <2>2, <2>3, <2>4, <2>5 DEF Heap
<1>5. CASE LocateDate
    <2>1. loc'.md = loc.md
        BY <1>5, <1>w DEF LocateDate, Saving
    <2>2. NextRefsIn(Refs \cup {Null}) /\ UNCHANGED <<places, misplaced, row>>
        BY <1>5, <2>1 DEF LocateDate, NextRefsIn
    <2> QED BY <2>2, <1>r, HeapShares
<1>6. CASE LocateWrite
    <2>1. NextRefsIn(Refs \cup {Null}) /\ UNCHANGED <<places, misplaced, row>>
        BY <1>6 DEF LocateWrite, NextRefsIn, Write
    <2> QED BY <2>1, <1>r, HeapShares
<1> QED BY <1>1, <1>2, <1>3, <1>4, <1>5, <1>6, Outcomes DEF Locate

LEMMA DatabaseKeepsHeap == ASSUME StoreInv, Heap, UNCHANGED setting, Database PROVE Heap'
<1> USE RefsTyped, Basics DEF memory, counts, past, db, locating
<1>w. node \in [Node -> Entry] /\ cur \in Node \cup {0} /\ row \in Row /\ (~misplaced => row.place \in {0, row.md})
    BY DEF StoreInv, NodesTyped, WorldTyped, Heap
<1>1. CASE LoadNode \/ MergeMetadata
    <2>1. \A n \in Node : node'[n].md \in {node[n].md, Unpacked}
        <3>1. CASE LoadNode
            <4> DEFINE e == [NoEntry EXCEPT !.has = TRUE, !.md = Unpacked, !.scanned = row.scanned]
            <4>1. e.md = Unpacked /\ node' = [node EXCEPT ![FreeNode] = e]
                BY <3>1 DEF LoadNode, NoEntry
            <4> HIDE DEF e
            <4> QED BY <1>w, <4>1
        <3>2. CASE MergeMetadata
            BY <3>2, <1>w DEF MergeMetadata, Entry
        <3> QED BY <1>1, <3>1, <3>2
    <2>2. NextRefsIn(Refs \cup {Unpacked}) /\ UNCHANGED <<misplaced, row>> /\ Unpack
        BY <1>1, <2>1 DEF LoadNode, MergeMetadata, NextRefsIn
    <2>3. CASE Unpacked = Null
        BY <2>2, <2>3, <1>w, HeapShares DEF Unpack
    <2>4. CASE Unpacked # Null
        <3>1. Unpacked = NewMetadata(row.md) /\ places' = Append(places, row.place)
            BY <2>2, <2>4 DEF Unpack, Unpacked
        <3>2. NextRefsIn(Refs \cup {Null, NewMetadata(row.md)})
            BY <2>2, <3>1 DEF NextRefsIn
        <3>3. row.md \in Date /\ row.place \in Date
            BY <1>w
        <3> QED BY <2>2, <3>1, <3>2, <3>3, <1>w, HeapMakes
    <2> QED BY <2>3, <2>4
<1>2. CASE MergeScanned
    <2>1. \A n \in Node : node'[n].md = node[n].md
        BY <1>2, <1>w DEF MergeScanned, Entry
    <2>2. NextRefsIn(Refs \cup {Null}) /\ UNCHANGED <<places, misplaced, row>>
        BY <1>2, <2>1 DEF MergeScanned, NextRefsIn
    <2> QED BY <2>2, <1>w, HeapShares
<1>3. CASE LoadNothing \/ Compact
    <2>1. NextRefsIn(Refs \cup {Null}) /\ UNCHANGED <<places, misplaced, row>>
        BY <1>3 DEF LoadNothing, Compact, NextRefsIn
    <2> QED BY <2>1, <1>w, HeapShares
<1>4. CASE PerformWrites
    <2>1. NextRefsIn(Refs \cup {Null}) /\ UNCHANGED <<places, misplaced>>
        BY <1>4 DEF PerformWrites, NextRefsIn
    <2>2. row'.md = pending.md.of /\ row'.place = Place(pending.md)
        BY <1>4 DEF PerformWrites
    <2>3. ~misplaced => Place(pending.md) \in {0, pending.md.of}
        BY DEF Place, Heap
    <2> QED BY <2>1, <2>2, <2>3, HeapShares
<1>5. CASE ResetCaches \/ ResetDrops
    <2>1. dbMd' \in Refs
        BY <1>5, <1>w DEF ResetCaches, ResetDrops, HasEntry
    <2>2. NextRefsIn(Refs \cup {Null}) /\ UNCHANGED <<places, misplaced>> /\ row' = NoRow
        BY <1>5, <2>1 DEF ResetCaches, ResetDrops, NextRefsIn
    <2> QED BY <2>2, HeapShares DEF NoRow
<1>6. CASE SaveCached
    <2>1. NextRefsIn(Refs \cup {Null}) /\ UNCHANGED <<places, misplaced, row>>
        BY <1>6 DEF SaveCached, NextRefsIn, Write
    <2> QED BY <2>1, <1>w, HeapShares
<1> QED BY <1>1, <1>2, <1>3, <1>4, <1>5, <1>6, Outcomes DEF Database

LEMMA WorldKeepsHeap == ASSUME StoreInv, Heap, UNCHANGED setting, Tick \/ Restart PROVE Heap'
<1> USE RefsTyped, Basics DEF memory, counts, past, db, locating
<1>1. CASE Tick
    <2>1. NextRefsIn(Refs \cup {Null}) /\ UNCHANGED <<places, misplaced, row>>
        BY <1>1 DEF Tick, NextRefsIn
    <2> QED BY <2>1, HeapShares DEF Heap
<1>2. CASE Restart
    <2>1. NextRefsIn({Null}) /\ places' = <<>> /\ UNCHANGED <<misplaced, row>>
        BY <1>2 DEF Restart, NextRefsIn, NoEntry
    <2>2. \A m \in Refs' : m = Null
        BY <2>1 DEF Refs, NextRefsIn, Scanner
    <2>3. Null.at = 0 /\ Len(places') = 0
        BY <2>1 DEF Null
    <2> QED BY <2>1, <2>2, <2>3 DEF Heap
<1> QED BY <1>1, <1>2

StoreHeap == StoreInv /\ Heap

LEMMA StoreStep == StoreHeap /\ [Next]_<<vars, setting>> => StoreHeap'
<1> SUFFICES ASSUME StoreInv, Heap, [Next]_<<vars, setting>> PROVE StoreInv' /\ Heap'
    BY DEF StoreHeap
<1>1. CASE UNCHANGED <<vars, setting>>
    <2>1. StoreInv'
        BY <1>1 DEF vars, memory, counts, past, db, locating, StoreInv, WorldTyped, NodesTyped, ThreadsTyped,
            DbTyped, LocTyped, Dated, Holding, Alone, Copies, AllSound, Still, Scanner
    <2>2. Heap'
        BY <1>1 DEF vars, memory, db, Heap, Refs, Scanner
    <2> QED BY <2>1, <2>2
<1>2. CASE Next
    <2>1. ASSUME NEW a \in Scanner, Validate(a) \/ Scan(a), UNCHANGED setting PROVE StoreInv' /\ Heap'
        BY <2>1, ValidateKeeps, ScanKeeps, ScannersKeepHeap
    <2>2. ASSUME Locate \/ Database \/ Tick \/ Restart, UNCHANGED setting PROVE StoreInv' /\ Heap'
        BY <2>2, LocateKeeps, DatabaseKeeps, WorldKeeps, LocateKeepsHeap, DatabaseKeepsHeap, WorldKeepsHeap
    <2> QED BY <1>2, <2>1, <2>2 DEF Next
<1> QED BY <1>1, <1>2

LEMMA StoreAlways == Spec => []StoreHeap
<1>1. Init => StoreHeap
    BY StoreStarts, HeapStarts DEF StoreHeap
<1> QED BY <1>1, StoreStep, PTL DEF Spec

\* Every thread holds a node of its own or the index's, whatever is replaced under it: there
\* is always one more node to make, and the entries, copies and writes have their types.
THEOREM TypeCorrect == Spec => []TypeOK
<1>1. StoreHeap => TypeOK
    BY Parts DEF StoreHeap, StoreInv
<1> QED BY <1>1, StoreAlways, PTL

\* An entry that needs no scan, of a file unchanged since it was listed, has the file's metadata
\* or none, unless two threads were inside one entry: for scan_item takes the date before it opens
\* the file, and validate_folder and the merge copy the metadata and then the date.  Its place is
\* the file's too, wherever the object came from, unless save_location came with another version's.
THEOREM EntriesAreFresh == Spec => []FreshEntry
<1>1. StoreHeap => FreshEntry
    <2> SUFFICES ASSUME StoreInv, Heap, Settled, ~torn, ~NeedsScan(node[cur]), node[cur].modified = file
                 PROVE node[cur].md.of \in {0, file} /\ (~misplaced => Place(node[cur].md) \in {0, file})
        BY DEF FreshEntry, StoreHeap
    <2>1. cur \in Node /\ file \in Nat /\ file # 0 /\ node[cur].scanned \in Nat
        BY Basics DEF Settled, HasEntry, StoreInv, NodesTyped, WorldTyped, Entry
    <2>2. node[cur].scanned >= file
        BY <2>1 DEF NeedsScan
    <2>3. SoundFor(file, failed, node[cur].md.of, node[cur].scanned)
        BY <2>1, NobodyWrites DEF Settled, StoreInv, AllSound
    <2>4. node[cur].md.of \in {0, file}
        BY <2>1, <2>2, <2>3 DEF SoundFor
    <2>5. ~misplaced => Place(node[cur].md) \in {0, node[cur].md.of}
        BY <2>1, RefsTyped DEF Place, Heap
    <2> QED BY <2>4, <2>5
<1> QED BY <1>1, StoreAlways, PTL

\* An entry that needs no scan and has no metadata is one of a file whose scan failed.
THEOREM MissingMetadataMeansFailure == Spec => []MissingOnlyIfFailed
<1>1. StoreHeap => MissingOnlyIfFailed
    <2> SUFFICES ASSUME StoreInv, Settled, ~torn, ~failed, ~NeedsScan(node[cur]), node[cur].modified # 0
                 PROVE node[cur].md.of # 0
        BY DEF MissingOnlyIfFailed, StoreHeap
    <2>1. cur \in Node /\ node[cur].scanned \in Nat /\ node[cur].modified \in Nat
        BY Basics DEF Settled, HasEntry, StoreInv, NodesTyped, Entry
    <2>2. node[cur].scanned # 0
        BY <2>1 DEF NeedsScan
    <2>3. SoundFor(file, failed, node[cur].md.of, node[cur].scanned)
        BY <2>1, NobodyWrites DEF Settled, StoreInv, AllSound
    <2> QED BY <2>2, <2>3 DEF SoundFor
<1> QED BY <1>1, StoreAlways, PTL

\* The database's row, which later runs of the program start from, never dates metadata after a
\* change of the file that it does not have, whatever is lost by ending before a write.
THEOREM RowsAreHonest == Spec => []HonestRow
<1>1. StoreHeap => HonestRow
    BY DEF StoreHeap, StoreInv, Heap, HonestRow, AllSound, SoundFor
<1> QED BY <1>1, StoreAlways, PTL

=============================================================================
