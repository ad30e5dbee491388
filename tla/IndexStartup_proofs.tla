------------------------ MODULE IndexStartup_proofs ------------------------
(***************************************************************************)
(* For any folders and any number of invalidations: when the start-up has  *)
(* come to rest only failed scans are left, the deferred workers run       *)
(* unless the first task was discarded or threw, and the collection is     *)
(* whole unless it was invalidated before it was up or a walk threw.       *)
(***************************************************************************)
EXTENDS IndexStartup, SequenceTheorems, TLAPS

Callback == {"loaded", "indexed", "fail"}

Task == {FirstTask} \cup [kind : {"scan", "reindex"}, token : Nat]

\* The index thread is at the first task of its batch; the others are still to come.
Running == idxPc \in {"token", "walk", "list", "scan"}

Rest == IF Running THEN Tail(idxBatch) ELSE idxBatch

Once(tasks) == \A i, j \in 1..Len(tasks) : tasks[i] = FirstTask /\ tasks[j] = FirstTask => i = j

ReindexIn(tasks) == \E t \in Elements(tasks) : t.kind = "reindex"

Shaped ==
    /\ version \in Nat /\ deferred \in Nat /\ reindexes \in Nat
    /\ closing \in BOOLEAN /\ early \in BOOLEAN /\ indexFlag \in BOOLEAN
    /\ cacheLoaded \in BOOLEAN /\ foldersIndexed \in BOOLEAN
    /\ uiQueue \in Seq(Callback) /\ uiBatch \in Seq(Callback)
    /\ idxQueue \in Seq(Task) /\ idxBatch \in Seq(Task)
    /\ collected \subseteq Folder /\ lost \subseteq {"walk", "scan"}
    /\ dbPc \in {"off", "open", "load", "loaded", "serve", "failed"}

\* Where the threads are, and what that says of the flags and of what they took.
Stages ==
    /\ workPc \in {"database", "index", "post", "done"}
    /\ workPc = "database" => dbPc = "off"
    /\ workPc \in {"database", "index"} <=> idxPc = "off"
    /\ dbPc \in {"off", "open", "failed"} => ~cacheLoaded
    /\ dbPc \in {"loaded", "serve"} => cacheLoaded
    /\ deferred > 0 => InitComplete
    /\ uiPc \in {"idle", "callbacks", "token", "reindex"}
    /\ uiPc \in {"idle", "reindex"} => uiBatch = <<>>
    /\ uiPc = "token" => uiBatch # <<>> /\ InitComplete
    /\ idxPc \in {"off", "take", "stopped", "next"} \/ Running
    /\ idxPc \in {"off", "take", "stopped"} => idxBatch = <<>>
    /\ Running => idxBatch # <<>>
    /\ idxPc = "token" => Head(idxBatch) = FirstTask
    /\ idxPc = "walk" => Head(idxBatch).kind \in {"first", "reindex"}
    /\ idxPc \in {"list", "scan"} => Head(idxBatch).kind \in {"scan", "reindex"}

\* There is one first task, and `first` says where it is.
FirstIsTold ==
    /\ first \in {"unposted", "queued", "taken", "done", "discarded", "thrown"}
    /\ first = "unposted" <=> workPc # "done"
    /\ first = "queued" <=> FirstTask \in Elements(idxQueue)
    /\ first = "taken" <=> FirstTask \in Elements(idxBatch)
    /\ Once(idxQueue) /\ Once(idxBatch)
    /\ first = "done" => foldersIndexed

CallbackWaits == \E c \in Elements(uiQueue) \cup Elements(uiBatch) : c # "fail"

\* Until the deferred workers run the callback that will start them is there.
DeferredIsDue ==
    ~closing /\ first = "done" /\ dbPc = "serve" => deferred > 0 \/ CallbackWaits

\* Something under way will find the files that are still to scan: a reindex or a scan to
\* come whose token holds, or a callback to come that posts one.
ScanIsDue ==
    \/ indexFlag \/ uiPc \in {"token", "reindex"}
    \/ first \in {"unposted", "queued", "taken"}
    \/ dbPc \in {"off", "open", "load", "loaded"}
    \/ CallbackWaits
    \/ \E t \in Elements(idxQueue) \cup Elements(Rest) : t.kind # "first" /\ t.token = version
    \/ /\ idxToken = version
       /\ \/ idxPc = "walk" /\ Head(idxBatch).kind = "reindex"
          \/ idxPc = "list"
          \/ idxPc = "scan" /\ collected \cap unscanned \subseteq toScan \cup failed

FilesAreScanned ==
    ~closing /\ deferred > 0 /\ "scan" \notin lost => collected \cap unscanned \subseteq failed \/ ScanIsDue

WalkIsDue ==
    indexFlag \/ uiPc = "reindex" \/ ReindexIn(idxQueue) \/ ReindexIn(Rest) \/ idxPc = "walk"

\* As long as the index is only invalidated once it is up no token but a later reindex's
\* overtakes a walk's.
WalksAreCurrent ==
    ~closing /\ ~early =>
        /\ reindexes > 0 => IsUp
        /\ reindexes = 0 => ~indexFlag /\ uiPc # "reindex" /\ ~ReindexIn(idxQueue) /\ ~ReindexIn(idxBatch)
        /\ reindexes = 0 /\ foldersIndexed => first \in {"done", "thrown"}
        /\ \A t \in Elements(idxQueue) : t.kind = "reindex" => t.token = version \/ uiPc = "reindex"
        /\ \A t \in Elements(Rest) :
               t.kind = "reindex" => t.token = version \/ uiPc = "reindex" \/ ReindexIn(idxQueue)
        /\ idxPc = "walk" => \/ idxToken = version /\ collected \cup toVisit = Folder
                             \/ uiPc = "reindex" \/ ReindexIn(idxQueue)
        /\ foldersIndexed => collected = Folder \/ WalkIsDue \/ "walk" \in lost

StartupInv ==
    Shaped /\ Stages /\ FirstIsTold /\ DeferredIsDue /\ FilesAreScanned /\ WalksAreCurrent

-----------------------------------------------------------------------------
(* The elements of queues and batches *)

LEMMA NoElements == Elements(<<>>) = {} /\ Once(<<>>)
BY DEF Elements, Once

LEMMA OneElement == ASSUME NEW x PROVE Elements(<<x>>) = {x} /\ Once(<<x>>)
BY DEF Elements, Once

LEMMA ElementsAppend ==
    ASSUME NEW S, NEW s \in Seq(S), NEW x \in S
    PROVE /\ Append(s, x) \in Seq(S)
          /\ Elements(Append(s, x)) = Elements(s) \cup {x}
          /\ Once(s) /\ (x = FirstTask => FirstTask \notin Elements(s)) => Once(Append(s, x))
<1> DEFINE t == Append(s, x)
<1>1. t \in Seq(S) /\ Len(t) = Len(s) + 1 /\ t[Len(t)] = x /\ \A i \in 1..Len(s) : t[i] = s[i]
    OBVIOUS
<1> HIDE DEF t
<1>2. Elements(t) \subseteq Elements(s) \cup {x}
    BY <1>1 DEF Elements
<1>3. Elements(s) \cup {x} \subseteq Elements(t)
    BY <1>1 DEF Elements
<1>4. Once(s) /\ (x = FirstTask => FirstTask \notin Elements(s)) => Once(t)
    BY <1>1 DEF Elements, Once
<1> QED BY <1>1, <1>2, <1>3, <1>4 DEF t

LEMMA ElementsTail ==
    ASSUME NEW S, NEW s \in Seq(S), s # <<>>
    PROVE /\ Tail(s) \in Seq(S) /\ Head(s) \in S
          /\ Elements(s) = {Head(s)} \cup Elements(Tail(s))
          /\ Once(s) => Once(Tail(s)) /\ (Head(s) = FirstTask => FirstTask \notin Elements(Tail(s)))
<1> DEFINE t == Tail(s)
<1>1. /\ t \in Seq(S) /\ Len(s) = Len(t) + 1 /\ Head(s) = s[1] /\ Head(s) \in S
      /\ \A i \in 1..Len(t) : t[i] = s[i + 1]
    OBVIOUS
<1> HIDE DEF t
<1>2. Elements(s) \subseteq {Head(s)} \cup Elements(t)
    <2> SUFFICES ASSUME NEW i \in 1..Len(s) PROVE s[i] \in {Head(s)} \cup Elements(t)
        BY DEF Elements
    <2>1. CASE i = 1
        BY <2>1, <1>1
    <2>2. CASE i # 1
        <3>1. i - 1 \in 1..Len(t) /\ t[i - 1] = s[i]
            BY <2>2, <1>1
        <3> QED BY <3>1 DEF Elements
    <2> QED BY <2>1, <2>2
<1>3. {Head(s)} \cup Elements(t) \subseteq Elements(s)
    BY <1>1 DEF Elements
<1>4. Once(s) => Once(t) /\ (Head(s) = FirstTask => FirstTask \notin Elements(t))
    <2> SUFFICES ASSUME Once(s) PROVE Once(t) /\ (Head(s) = FirstTask => FirstTask \notin Elements(t))
        OBVIOUS
    <2>1. Once(t)
        BY <1>1 DEF Once
    <2>2. ASSUME Head(s) = FirstTask, NEW i \in 1..Len(t), t[i] = FirstTask PROVE FALSE
        BY <2>2, <1>1 DEF Once
    <2> QED BY <2>1, <2>2 DEF Elements
<1> QED BY <1>1, <1>2, <1>3, <1>4 DEF t

-----------------------------------------------------------------------------

LEMMA StartupStarts == Init => StartupInv
<1> SUFFICES ASSUME Init PROVE StartupInv
    OBVIOUS
<1> USE NoElements DEF Init
<1>1. Shaped
    <2>1. /\ uiQueue \in Seq(Callback) /\ uiBatch \in Seq(Callback)
          /\ idxQueue \in Seq(Task) /\ idxBatch \in Seq(Task)
        OBVIOUS
    <2> QED BY <2>1 DEF Shaped
<1>2. Stages
    BY DEF Stages, Running, InitComplete
<1>3. FirstIsTold
    BY DEF FirstIsTold
<1>4. DeferredIsDue /\ FilesAreScanned
    BY DEF DeferredIsDue, FilesAreScanned
<1>5. WalksAreCurrent
    BY DEF WalksAreCurrent, ReindexIn, Rest, Running
<1> QED BY <1>1, <1>2, <1>3, <1>4, <1>5 DEF StartupInv

LEMMA CallbackPosted ==
    ASSUME Shaped, NEW c \in Callback, uiQueue' = Append(uiQueue, c)
    PROVE uiQueue' \in Seq(Callback) /\ Elements(uiQueue') = Elements(uiQueue) \cup {c}
BY ElementsAppend DEF Shaped

LEMMA CallbackDone ==
    ASSUME Shaped, uiBatch # <<>>, uiBatch' = Tail(uiBatch)
    PROVE uiBatch' \in Seq(Callback) /\ Elements(uiBatch) = {Head(uiBatch)} \cup Elements(uiBatch')
BY ElementsTail DEF Shaped

LEMMA TaskPosted ==
    ASSUME Shaped, NEW t \in Task, idxQueue' = Append(idxQueue, t)
    PROVE /\ idxQueue' \in Seq(Task) /\ Elements(idxQueue') = Elements(idxQueue) \cup {t}
          /\ Once(idxQueue) /\ (t = FirstTask => FirstTask \notin Elements(idxQueue)) => Once(idxQueue')
BY ElementsAppend DEF Shaped

LEMMA TaskAtHand ==
    ASSUME Shaped, idxBatch # <<>>
    PROVE /\ Head(idxBatch) \in Task /\ Tail(idxBatch) \in Seq(Task)
          /\ Elements(idxBatch) = {Head(idxBatch)} \cup Elements(Tail(idxBatch))
          /\ Once(idxBatch) =>
                 Once(Tail(idxBatch)) /\ (Head(idxBatch) = FirstTask => FirstTask \notin Elements(Tail(idxBatch)))
BY ElementsTail DEF Shaped

LEMMA Tasks ==
    /\ FirstTask \in Task /\ FirstTask.kind = "first"
    /\ \A t \in Task : t.kind = "first" => t = FirstTask
    /\ \A n \in Nat, k \in {"scan", "reindex"} : [kind |-> k, token |-> n] \in Task \ {FirstTask}
BY DEF Task, FirstTask

LEMMA Callbacks == Callback = {"loaded", "indexed", "fail"}
BY DEF Callback

LEMMA WorkKeeps == ASSUME StartupInv, WorkThread PROVE StartupInv'
<1> USE DEF StartupInv, Shaped, Stages, FirstIsTold, DeferredIsDue, FilesAreScanned, WalksAreCurrent, CallbackWaits,
       ScanIsDue, WalkIsDue, ReindexIn, IsUp, Rest, Running, InitComplete, uiVars, idxVars, dbVars, marks, flags, nodes
<1>1. CASE StartDatabaseThread
    BY <1>1 DEF StartDatabaseThread
<1>2. CASE StartIndexThread
    BY <1>2 DEF StartIndexThread
<1>3. CASE PostFirstTask
    <2>posted. /\ idxQueue' \in Seq(Task) /\ Elements(idxQueue') = Elements(idxQueue) \cup {FirstTask}
          /\ Once(idxQueue') /\ FirstTask.kind = "first"
        BY <1>3, TaskPosted, Tasks DEF PostFirstTask
    <2>1. Shaped' /\ Stages' /\ FirstIsTold'
        BY <1>3, <2>posted DEF PostFirstTask
    <2>2. DeferredIsDue' /\ FilesAreScanned' /\ WalksAreCurrent'
        BY <1>3, <2>posted DEF PostFirstTask
    <2> QED BY <2>1, <2>2
<1> QED BY <1>1, <1>2, <1>3 DEF WorkThread

LEMMA DatabaseKeeps == ASSUME StartupInv, DatabaseThread PROVE StartupInv'
<1> USE DEF StartupInv, Shaped, Stages, FirstIsTold, DeferredIsDue, FilesAreScanned, WalksAreCurrent, CallbackWaits,
       ScanIsDue, WalkIsDue, ReindexIn, IsUp, Rest, Running, InitComplete, uiVars, idxVars, dbVars, marks, flags, nodes
<1>1. CASE OpenDatabase
    BY <1>1 DEF OpenDatabase
<1>2. CASE OpenFails
    <2>posted. uiQueue' \in Seq(Callback) /\ Elements(uiQueue) \subseteq Elements(uiQueue')
        BY <1>2, CallbackPosted, Callbacks DEF OpenFails
    <2>1. Shaped' /\ Stages' /\ FirstIsTold'
        BY <1>2, <2>posted DEF OpenFails
    <2>2. DeferredIsDue' /\ FilesAreScanned' /\ WalksAreCurrent'
        BY <1>2, <2>posted DEF OpenFails
    <2> QED BY <2>1, <2>2
<1>3. CASE CacheLoadComplete
    BY <1>3 DEF CacheLoadComplete
<1>4. CASE PostIndexLoaded
    <2>posted. uiQueue' \in Seq(Callback) /\ Elements(uiQueue') = Elements(uiQueue) \cup {"loaded"}
        BY <1>4, CallbackPosted, Callbacks DEF PostIndexLoaded
    <2>1. Shaped' /\ Stages' /\ FirstIsTold'
        BY <1>4, <2>posted DEF PostIndexLoaded
    <2>2. DeferredIsDue' /\ FilesAreScanned' /\ WalksAreCurrent'
        BY <1>4, <2>posted DEF PostIndexLoaded
    <2> QED BY <2>1, <2>2
<1>5. CASE \E f \in Folder : MergeFolder(f)
    BY <1>5 DEF MergeFolder
<1> QED BY <1>1, <1>2, <1>3, <1>4, <1>5 DEF DatabaseThread

LEMMA UiKeeps == ASSUME StartupInv, UiThread PROVE StartupInv'
<1> USE DEF StartupInv, Shaped, Stages, FirstIsTold, DeferredIsDue, FilesAreScanned, WalksAreCurrent, CallbackWaits,
       ScanIsDue, WalkIsDue, ReindexIn, IsUp, Rest, Running, InitComplete, uiVars, idxVars, dbVars, marks, flags, nodes
<1>1. CASE TakeCallbacks
    <2>none. Elements(<<>>) = {} /\ Elements(uiBatch) = {}
        BY <1>1, NoElements DEF TakeCallbacks
    <2>1. Shaped' /\ Stages' /\ FirstIsTold'
        BY <1>1, <2>none DEF TakeCallbacks
    <2>2. DeferredIsDue' /\ FilesAreScanned' /\ WalksAreCurrent'
        BY <1>1, <2>none DEF TakeCallbacks
    <2> QED BY <2>1, <2>2
<1>2. CASE CallbackStartsScan
    <2>noWalk. ~closing /\ ~early => reindexes = 0 /\ idxPc # "walk"
        BY <1>2, TaskAtHand, Tasks DEF CallbackStartsScan
    <2>1. Shaped' /\ Stages' /\ FirstIsTold'
        BY <1>2, <2>noWalk DEF CallbackStartsScan
    <2>2. DeferredIsDue' /\ FilesAreScanned'
        BY <1>2, <2>noWalk DEF CallbackStartsScan
    <2>3. WalksAreCurrent'
        <3> SUFFICES ASSUME ~closing, ~early PROVE WalksAreCurrent'
            BY <1>2 DEF CallbackStartsScan
        <3>1. reindexes = 0 /\ first \in {"done", "thrown"}
            BY <1>2 DEF CallbackStartsScan
        <3>2. /\ \A t \in Elements(idxQueue) \cup Elements(Rest) : t.kind # "reindex"
              /\ idxPc # "walk"
            BY <1>2, <2>noWalk, <3>1, TaskAtHand, Tasks
        <3>3. collected = Folder \/ "walk" \in lost
            <4>1. ~indexFlag /\ uiPc = "callbacks" /\ foldersIndexed
                BY <1>2, <3>1 DEF CallbackStartsScan
            <4> QED BY <3>2, <4>1
        <3> QED BY <1>2, <3>1, <3>2, <3>3 DEF CallbackStartsScan
    <2> QED BY <2>1, <2>2, <2>3
<1>3. CASE CallbackPostsScan
    <2>posted. /\ idxQueue' \in Seq(Task) /\ Once(idxQueue')
          /\ Elements(idxQueue') = Elements(idxQueue) \cup {[kind |-> "scan", token |-> version]}
        BY <1>3, TaskPosted, Tasks DEF CallbackPostsScan
    <2>done. uiBatch' \in Seq(Callback)
        BY <1>3, CallbackDone DEF CallbackPostsScan
    <2>1. Shaped' /\ Stages' /\ FirstIsTold'
        BY <1>3, <2>posted, Tasks, <2>done DEF CallbackPostsScan
    <2>2. DeferredIsDue'
        BY <1>3, <2>posted, Tasks, <2>done DEF CallbackPostsScan
    <2>3. FilesAreScanned'
        <3> DEFINE t == [kind |-> "scan", token |-> version]
        <3>1. t \in Elements(idxQueue') /\ t.kind # "first" /\ t.token = version /\ version' = version
            BY <1>3, <2>posted DEF CallbackPostsScan
        <3> HIDE DEF t
        <3> QED BY <3>1
    <2>4. WalksAreCurrent'
        BY <1>3, <2>posted, Tasks, <2>done DEF CallbackPostsScan
    <2> QED BY <2>1, <2>2, <2>3, <2>4
<1>4. CASE CallbackPasses
    <2>done. uiBatch' \in Seq(Callback) /\ Elements(uiBatch) = {Head(uiBatch)} \cup Elements(uiBatch')
        BY <1>4, CallbackDone DEF CallbackPasses
    <2>1. Shaped' /\ Stages' /\ FirstIsTold'
        BY <1>4, <2>done DEF CallbackPasses
    <2>2. DeferredIsDue' /\ FilesAreScanned' /\ WalksAreCurrent'
        BY <1>4, <2>done DEF CallbackPasses
    <2> QED BY <2>1, <2>2
<1>5. CASE CallbackFails
    <2>done. uiBatch' \in Seq(Callback)
        BY <1>5, CallbackDone DEF CallbackFails
    <2>1. Shaped' /\ Stages' /\ FirstIsTold'
        BY <1>5, <2>done DEF CallbackFails
    <2>2. DeferredIsDue' /\ FilesAreScanned' /\ WalksAreCurrent'
        BY <1>5, <2>done DEF CallbackFails
    <2> QED BY <2>1, <2>2
<1>6. CASE PopIndexFlag
    <2>1. Shaped'
        <3>1. version' \in Nat
            BY <1>6 DEF PopIndexFlag
        <3>2. indexFlag' = FALSE /\ UNCHANGED <<deferred, reindexes, closing, early, cacheLoaded, foldersIndexed,
                  uiQueue, uiBatch, idxQueue, idxBatch, collected, dbPc, lost>>
            BY <1>6 DEF PopIndexFlag
        <3> QED BY <3>1, <3>2
    <2>2. Stages' /\ FirstIsTold' /\ DeferredIsDue'
        BY <1>6 DEF PopIndexFlag
    <2>3. FilesAreScanned' /\ WalksAreCurrent'
        BY <1>6 DEF PopIndexFlag
    <2> QED BY <2>1, <2>2, <2>3
<1>7. CASE PostReindex
    <2>new. [kind |-> "reindex", token |-> version] \in Task
        BY Tasks
    <2>posted. /\ idxQueue' \in Seq(Task) /\ Once(idxQueue')
          /\ Elements(idxQueue') = {[kind |-> "reindex", token |-> version]}
        BY <1>7, OneElement, <2>new DEF PostReindex
    <2>1. Shaped' /\ Stages' /\ FirstIsTold'
        BY <1>7, <2>new, <2>posted, Tasks DEF PostReindex
    <2>2. DeferredIsDue' /\ FilesAreScanned' /\ WalksAreCurrent'
        BY <1>7, <2>new, <2>posted, Tasks DEF PostReindex
    <2> QED BY <2>1, <2>2
<1> QED BY <1>1, <1>2, <1>3, <1>4, <1>5, <1>6, <1>7 DEF UiThread

LEMMA IndexKeeps == ASSUME StartupInv, IndexThread PROVE StartupInv'
<1> USE DEF StartupInv, Shaped, Stages, FirstIsTold, DeferredIsDue, FilesAreScanned, WalksAreCurrent, CallbackWaits,
       ScanIsDue, WalkIsDue, ReindexIn, IsUp, Rest, Running, InitComplete, uiVars, idxVars, dbVars, marks, flags, nodes
<1>1. CASE TakeIndexTasks
    <2>none. Elements(<<>>) = {} /\ Once(<<>>)
        BY NoElements
    <2>1. Shaped' /\ Stages' /\ FirstIsTold'
        BY <1>1, <2>none DEF TakeIndexTasks
    <2>2. DeferredIsDue' /\ FilesAreScanned' /\ WalksAreCurrent'
        BY <1>1, <2>none DEF TakeIndexTasks
    <2> QED BY <2>1, <2>2
<1>2. CASE BeginFirst
    <2>hand. /\ Head(idxBatch) \in Task /\ Tail(idxBatch) \in Seq(Task)
          /\ Elements(idxBatch) = {Head(idxBatch)} \cup Elements(Tail(idxBatch))
          /\ Once(Tail(idxBatch)) /\ (Head(idxBatch) = FirstTask => FirstTask \notin Elements(Tail(idxBatch)))
        BY <1>2, TaskAtHand DEF BeginFirst
    <2>1. Shaped' /\ Stages' /\ FirstIsTold'
        BY <1>2, <2>hand, Tasks DEF BeginFirst
    <2>2. DeferredIsDue' /\ FilesAreScanned' /\ WalksAreCurrent'
        BY <1>2, <2>hand, Tasks DEF BeginFirst
    <2> QED BY <2>1, <2>2
<1>3. CASE WalkFirst
    <2>hand. /\ Head(idxBatch) \in Task /\ Tail(idxBatch) \in Seq(Task)
          /\ Elements(idxBatch) = {Head(idxBatch)} \cup Elements(Tail(idxBatch))
          /\ Once(Tail(idxBatch)) /\ (Head(idxBatch) = FirstTask => FirstTask \notin Elements(Tail(idxBatch)))
        BY <1>3, TaskAtHand DEF WalkFirst, BeginWalk
    <2>1. Shaped' /\ Stages' /\ FirstIsTold'
        BY <1>3, <2>hand, Tasks DEF WalkFirst, BeginWalk
    <2>2. DeferredIsDue' /\ FilesAreScanned' /\ WalksAreCurrent'
        BY <1>3, <2>hand, Tasks DEF WalkFirst, BeginWalk
    <2> QED BY <2>1, <2>2
<1>4. CASE WalkAgain
    <2>hand. /\ Head(idxBatch) \in Task /\ Tail(idxBatch) \in Seq(Task)
          /\ Elements(idxBatch) = {Head(idxBatch)} \cup Elements(Tail(idxBatch))
          /\ Once(Tail(idxBatch)) /\ (Head(idxBatch) = FirstTask => FirstTask \notin Elements(Tail(idxBatch)))
        BY <1>4, TaskAtHand DEF WalkAgain, BeginWalk
    <2>1. Shaped' /\ Stages' /\ FirstIsTold'
        BY <1>4, <2>hand, Tasks DEF WalkAgain, BeginWalk
    <2>2. DeferredIsDue' /\ FilesAreScanned' /\ WalksAreCurrent'
        BY <1>4, <2>hand, Tasks DEF WalkAgain, BeginWalk
    <2> QED BY <2>1, <2>2
<1>5. CASE EndFirst
    <2>hand. /\ Head(idxBatch) \in Task /\ Tail(idxBatch) \in Seq(Task)
          /\ Elements(idxBatch) = {Head(idxBatch)} \cup Elements(Tail(idxBatch))
          /\ Once(Tail(idxBatch)) /\ (Head(idxBatch) = FirstTask => FirstTask \notin Elements(Tail(idxBatch)))
        BY <1>5, TaskAtHand DEF EndFirst, WalkOver
    <2>posted. uiQueue' \in Seq(Callback) /\ Elements(uiQueue') = Elements(uiQueue) \cup {"indexed"}
        BY <1>5, CallbackPosted, Callbacks DEF EndFirst, WalkOver
    <2>1. Shaped' /\ Stages' /\ FirstIsTold'
        BY <1>5, <2>hand, Tasks, <2>posted DEF EndFirst, WalkOver
    <2>2. DeferredIsDue'
        <3>1. "indexed" \in Elements(uiQueue')
            BY <2>posted
        <3> QED BY <3>1
    <2>3. FilesAreScanned'
        BY <1>5, <2>hand, Tasks, <2>posted DEF EndFirst, WalkOver
    <2>4. WalksAreCurrent'
        <3> SUFFICES ASSUME ~closing, ~early PROVE WalksAreCurrent'
            BY <1>5 DEF EndFirst
        <3>1. reindexes = 0
            BY <1>5, <2>hand, Tasks DEF EndFirst, WalkOver
        <3>2. collected = Folder
            BY <1>5, <3>1 DEF EndFirst, WalkOver, Cancelled
        <3> QED BY <1>5, <2>hand, Tasks, <3>1, <3>2 DEF EndFirst, WalkOver
    <2> QED BY <2>1, <2>2, <2>3, <2>4
<1>6. CASE EndWalk
    <2>hand. /\ Head(idxBatch) \in Task /\ Tail(idxBatch) \in Seq(Task)
          /\ Elements(idxBatch) = {Head(idxBatch)} \cup Elements(Tail(idxBatch))
          /\ Once(Tail(idxBatch)) /\ (Head(idxBatch) = FirstTask => FirstTask \notin Elements(Tail(idxBatch)))
        BY <1>6, TaskAtHand DEF EndWalk, WalkOver
    <2>1. Shaped' /\ Stages' /\ FirstIsTold'
        BY <1>6, <2>hand, Tasks DEF EndWalk, WalkOver
    <2>2. DeferredIsDue' /\ FilesAreScanned'
        BY <1>6, <2>hand, Tasks DEF EndWalk, WalkOver
    <2>3. WalksAreCurrent'
        <3> SUFFICES ASSUME ~closing, ~early PROVE WalksAreCurrent'
            BY <1>6 DEF EndWalk
        <3>1. Head(idxBatch).kind = "reindex" /\ Head(idxBatch) \in Elements(idxBatch) /\ reindexes > 0
            BY <1>6, <2>hand DEF EndWalk, WalkOver
        <3>2. collected = Folder \/ uiPc = "reindex" \/ ReindexIn(idxQueue)
            BY <1>6, <3>1 DEF EndWalk, WalkOver, Cancelled
        <3> QED BY <1>6, <2>hand, Tasks, <3>1, <3>2 DEF EndWalk, WalkOver
    <2> QED BY <2>1, <2>2, <2>3
<1>7. CASE BeginScan
    <2>hand. /\ Head(idxBatch) \in Task /\ Tail(idxBatch) \in Seq(Task)
          /\ Elements(idxBatch) = {Head(idxBatch)} \cup Elements(Tail(idxBatch))
          /\ Once(Tail(idxBatch)) /\ (Head(idxBatch) = FirstTask => FirstTask \notin Elements(Tail(idxBatch)))
        BY <1>7, TaskAtHand DEF BeginScan
    <2>1. Shaped' /\ Stages' /\ FirstIsTold'
        BY <1>7, <2>hand, Tasks DEF BeginScan
    <2>2. DeferredIsDue' /\ FilesAreScanned' /\ WalksAreCurrent'
        BY <1>7, <2>hand, Tasks DEF BeginScan
    <2> QED BY <2>1, <2>2
<1>8. CASE ListUncached
    <2>hand. /\ Head(idxBatch) \in Task /\ Tail(idxBatch) \in Seq(Task)
          /\ Elements(idxBatch) = {Head(idxBatch)} \cup Elements(Tail(idxBatch))
          /\ Once(Tail(idxBatch)) /\ (Head(idxBatch) = FirstTask => FirstTask \notin Elements(Tail(idxBatch)))
        BY <1>8, TaskAtHand DEF ListUncached
    <2>1. Shaped' /\ Stages' /\ FirstIsTold'
        BY <1>8, <2>hand, Tasks DEF ListUncached
    <2>2. DeferredIsDue'
        BY <1>8, <2>hand, Tasks DEF ListUncached
    <2>3. FilesAreScanned'
        BY <1>8, <2>hand DEF ListUncached, Cancelled
    <2>4. WalksAreCurrent'
        BY <1>8, <2>hand, Tasks DEF ListUncached
    <2> QED BY <2>1, <2>2, <2>3, <2>4
<1>9. CASE EndScan
    <2>hand. /\ Head(idxBatch) \in Task /\ Tail(idxBatch) \in Seq(Task)
          /\ Elements(idxBatch) = {Head(idxBatch)} \cup Elements(Tail(idxBatch))
          /\ Once(Tail(idxBatch)) /\ (Head(idxBatch) = FirstTask => FirstTask \notin Elements(Tail(idxBatch)))
        BY <1>9, TaskAtHand DEF EndScan
    <2>1. Shaped' /\ Stages' /\ FirstIsTold'
        BY <1>9, <2>hand, Tasks DEF EndScan
    <2>2. DeferredIsDue'
        BY <1>9, <2>hand, Tasks DEF EndScan
    <2>3. FilesAreScanned'
        <3>1. /\ Head(idxBatch).kind # "first" /\ first' = first /\ dbPc' = dbPc /\ idxPc' = "next"
              /\ UNCHANGED <<closing, deferred, version, indexFlag, uiVars, idxQueue, collected, unscanned>>
              /\ closing \/ toScan = {} \/ idxToken # version
            BY <1>9 DEF EndScan, Cancelled
        <3>2. Elements(Rest') = Elements(Rest)
            BY <1>9, <2>hand DEF EndScan
        <3> QED BY <1>9, <3>1, <3>2 DEF EndScan
    <2>4. WalksAreCurrent'
        BY <1>9, <2>hand, Tasks DEF EndScan
    <2> QED BY <2>1, <2>2, <2>3, <2>4
<1>10. CASE EndIndexBatch
    BY <1>10 DEF EndIndexBatch
<1>11. CASE StopIndexThread
    BY <1>11 DEF StopIndexThread
<1>12. CASE \E f \in Folder : VisitFolder(f)
    <2>hand. /\ Head(idxBatch) \in Task /\ Tail(idxBatch) \in Seq(Task)
          /\ Elements(idxBatch) = {Head(idxBatch)} \cup Elements(Tail(idxBatch))
          /\ Once(Tail(idxBatch)) /\ (Head(idxBatch) = FirstTask => FirstTask \notin Elements(Tail(idxBatch)))
        BY <1>12, TaskAtHand DEF VisitFolder
    <2>1. Shaped' /\ Stages' /\ FirstIsTold'
        BY <1>12, <2>hand, Tasks DEF VisitFolder
    <2>2. DeferredIsDue'
        BY <1>12, <2>hand, Tasks DEF VisitFolder
    <2>3. FilesAreScanned'
        <3>1. /\ first' = first /\ dbPc' = dbPc /\ idxPc' = idxPc /\ idxPc = "walk"
              /\ UNCHANGED <<closing, deferred, version, indexFlag, uiVars, idxQueue, idxBatch, idxToken, unscanned>>
              /\ closing \/ idxToken = version
            BY <1>12 DEF VisitFolder, Cancelled
        <3>2. Head(idxBatch).kind = "reindex" \/ first = "taken"
            BY <1>12, <2>hand, Tasks, <3>1
        <3> QED BY <1>12, <3>1, <3>2
    <2>4. WalksAreCurrent'
        BY <1>12, <2>hand, Tasks DEF VisitFolder
    <2> QED BY <2>1, <2>2, <2>3, <2>4
<1>13. CASE \E f \in Folder : ScanFolder(f) \/ ScanFails(f)
    <2>1. PICK f \in Folder : /\ ScanNext(f)
                              /\ \/ unscanned' = unscanned \ {f} /\ failed' = failed \ {f}
                                 \/ unscanned' = unscanned /\ failed' = failed \cup {f}
        BY <1>13 DEF ScanFolder, ScanFails
    <2>2. /\ UNCHANGED <<closing, workPc, first, deferred, dbVars, flags, uiVars, collected,
                       idxQueue, idxBatch, idxPc, idxToken, toVisit>>
          /\ idxPc = "scan" /\ ~Cancelled(idxToken) /\ toScan' = toScan \ {f}
        BY <2>1 DEF ScanNext
    <2>3. Shaped' /\ Stages' /\ FirstIsTold' /\ DeferredIsDue' /\ WalksAreCurrent'
        BY <2>2
    <2>4. FilesAreScanned'
        <3>1. collected \cap unscanned \subseteq failed => (collected \cap unscanned \subseteq failed)'
            BY <2>1, <2>2
        <3>2. collected \cap unscanned \subseteq toScan \cup failed =>
                  (collected \cap unscanned \subseteq toScan \cup failed)'
            BY <2>1, <2>2
        <3>3. ScanIsDue => ScanIsDue'
            BY <2>2, <3>2
        <3> HIDE DEF ScanIsDue
        <3> QED BY <2>2, <3>1, <3>3
    <2> QED BY <2>3, <2>4
<1>14. CASE IndexTaskThrows
    <2>none. Elements(<<>>) = {} /\ Once(<<>>)
        BY NoElements
    <2>then. /\ UNCHANGED <<closing, workPc, deferred, dbVars, cacheLoaded, version, indexFlag, reindexes, early,
                          uiVars, nodes, idxQueue>>
             /\ idxPc # "off" /\ idxPc' = "take" /\ idxBatch' = <<>> /\ idxBatch # <<>> /\ "scan" \in lost'
             /\ foldersIndexed => foldersIndexed'
        BY <1>14 DEF IndexTaskThrows
    <2>first. first' = (IF FirstTask \in Elements(idxBatch) THEN "thrown" ELSE first)
        BY <1>14 DEF IndexTaskThrows
    <2>1. Shaped'
        <3>1. lost' \subseteq {"walk", "scan"} /\ foldersIndexed' \in BOOLEAN
            BY <1>14 DEF IndexTaskThrows
        <3>2. idxBatch' \in Seq(Task)
            BY <2>then
        <3> QED BY <2>then, <3>1, <3>2
    <2>2. Stages'
        BY <2>then
    <2>3. FirstIsTold'
        BY <2>then, <2>first, <2>none
    <2>4. DeferredIsDue' /\ FilesAreScanned'
        BY <2>then, <2>first
    <2>5. WalksAreCurrent'
        <3> SUFFICES ASSUME ~closing, ~early PROVE WalksAreCurrent'
            BY <2>then
        <3>1. idxBatch = <<Head(idxBatch)>> \o Tail(idxBatch) /\ Head(idxBatch) \in Elements(idxBatch)
            BY <2>then, TaskAtHand
        <3>2. reindexes = 0 /\ foldersIndexed' => first' \in {"done", "thrown"}
            <4>1. foldersIndexed' # foldersIndexed => WalkOver
                BY <1>14 DEF IndexTaskThrows
            <4>2. reindexes = 0 /\ WalkOver => Head(idxBatch) = FirstTask
                BY <3>1, Tasks, TaskAtHand DEF WalkOver
            <4> QED BY <2>first, <3>1, <4>1, <4>2
        <3>3. IsUp => IsUp'
            BY <2>then, <2>first
        <3>4. foldersIndexed' => (collected = Folder)' \/ WalkIsDue' \/ "walk" \in lost'
            <4>1. "walk" \notin lost' => lost \subseteq {"scan"} /\ \A t \in Elements(idxBatch) : t.kind = "scan"
                BY <1>14 DEF IndexTaskThrows
            <4>2. "walk" \notin lost' => idxPc # "walk" /\ ~ReindexIn(idxBatch) /\ foldersIndexed' = foldersIndexed
                BY <1>14, <3>1, <4>1 DEF IndexTaskThrows, WalkOver
            <4>3. ~ReindexIn(idxBatch) => ~ReindexIn(Rest)
                BY <2>then, TaskAtHand
            <4> QED BY <2>then, <4>1, <4>2, <4>3
        <3> QED BY <2>then, <2>none, <3>2, <3>3, <3>4
    <2> QED BY <2>1, <2>2, <2>3, <2>4, <2>5
<1> QED BY <1>1, <1>2, <1>3, <1>4, <1>5, <1>6, <1>7, <1>8, <1>9, <1>10, <1>11, <1>12, <1>13, <1>14 DEF IndexThread

LEMMA UserKeeps == ASSUME StartupInv, InvalidateIndex \/ CloseWindow PROVE StartupInv'
<1> USE DEF StartupInv, Shaped, Stages, FirstIsTold, DeferredIsDue, FilesAreScanned, WalksAreCurrent, CallbackWaits,
       ScanIsDue, WalkIsDue, ReindexIn, IsUp, Rest, Running, InitComplete, uiVars, idxVars, dbVars, marks, flags, nodes
<1>1. CASE InvalidateIndex
    <2>1. Shaped' /\ Stages' /\ FirstIsTold'
        BY <1>1 DEF InvalidateIndex
    <2>2. DeferredIsDue' /\ FilesAreScanned'
        BY <1>1 DEF InvalidateIndex
    <2>3. WalksAreCurrent'
        <3> SUFFICES ASSUME ~closing, ~early' PROVE WalksAreCurrent'
            BY <1>1 DEF InvalidateIndex
        <3>1. ~early /\ IsUp
            BY <1>1, Zenon DEF InvalidateIndex
        <3>3. IsUp' /\ indexFlag' /\ reindexes' > 0
            BY <1>1, <3>1 DEF InvalidateIndex
        <3>2. UNCHANGED <<version, uiPc, idxQueue, idxBatch, idxPc, idxToken, toVisit, collected>>
            BY <1>1 DEF InvalidateIndex
        <3> QED BY <3>1, <3>2, <3>3
    <2> QED BY <2>1, <2>2, <2>3
<1>2. CASE CloseWindow
    BY <1>2 DEF CloseWindow
<1> QED BY <1>1, <1>2

LEMMA StartupStep == StartupInv /\ [Next]_vars => StartupInv'
<1>1. CASE StartupInv /\ UNCHANGED vars
    BY <1>1 DEF vars, StartupInv, Shaped, Stages, FirstIsTold, DeferredIsDue, FilesAreScanned, WalksAreCurrent,
       CallbackWaits, ScanIsDue, WalkIsDue, ReindexIn, IsUp, Rest, Running, InitComplete, uiVars, idxVars, dbVars,
       marks, flags, nodes
<1> QED BY <1>1, WorkKeeps, DatabaseKeeps, UiKeeps, IndexKeeps, UserKeeps DEF Next

\* However the four threads take turns and whenever the index is invalidated: the first task and
\* the callbacks are where `first` and the flags say, and what is missing from the collection, left
\* to scan or not yet started has a flag, a task or a callback under way that will see to it, unless
\* its scan failed or start_worker dropped the task that would have.
THEOREM StartupInvariant == Spec => []StartupInv
BY StartupStarts, StartupStep, PTL DEF Spec

\* Whatever order complete_pending_events, start_workers and the index thread get to: when all is
\* quiet, the index was never invalidated before it was up and no walk went down with a task that
\* threw, the last walk of index_folders was not cut short and every folder is in the collection.
THEOREM CollectionIsWhole == Spec => []CollectionSettled
<1>1. StartupInv => CollectionSettled
    BY NoElements DEF StartupInv, WalksAreCurrent, Stages, CollectionSettled, Quiet, WalkIsDue, ReindexIn, Rest, Running
<1> QED BY <1>1, StartupInvariant, PTL

\* Although rows that merge_folder brings late unmark files of scanned folders: when all is quiet
\* and the deferred workers run, the scans posted by the callbacks have left no file but those
\* scan_item failed on, unless the last of them went down with a task that threw.
THEOREM OnlyFailedLeftToScan == Spec => []ScanSettled
<1>1. StartupInv => ScanSettled
    BY NoElements DEF StartupInv, FilesAreScanned, Stages, FirstIsTold, ScanSettled, Quiet, ScanIsDue, CallbackWaits,
       Rest, Running, InitComplete
<1> QED BY <1>1, StartupInvariant, PTL

\* Whichever of index_loaded_func and scan_uncached_func is last finds the init complete: at rest
\* the deferred workers do not run only if reset_and_enqueue threw the first task away or the task,
\* or one taken with it, ended in start_worker's catch.
THEOREM OnlyLostIsDormant == Spec => []DormantOnlyIfLost
<1>1. StartupInv => DormantOnlyIfLost
    BY NoElements DEF StartupInv, Shaped, Stages, FirstIsTold, DeferredIsDue, DormantOnlyIfLost, Quiet,
       CallbackWaits
<1> QED BY <1>1, StartupInvariant, PTL

-----------------------------------------------------------------------------
(* How often the version is counted up. *)

FoldersTyped ==
    /\ rows \subseteq Folder /\ toVisit \subseteq Folder /\ toScan \subseteq Folder /\ unscanned \subseteq Folder
    /\ failed \subseteq Folder

\* No token is of a version to come.
TokensAreOld ==
    /\ idxToken \in 0..version
    /\ \A t \in Elements(idxQueue) \cup Elements(idxBatch) : t.token \in 0..version

UniqueIn(s, x) == \A i, j \in 1..Len(s) : s[i] = x /\ s[j] = x => i = j

Waits(c) == c \in Elements(uiQueue) \cup Elements(uiBatch)

LoadedToCome == dbPc \in {"off", "open", "load", "loaded"}
IndexedToCome == first \in {"unposted", "queued", "taken"}

\* A callback is posted once.
PostedOnce(c, toCome) ==
    /\ UniqueIn(uiQueue, c) /\ UniqueIn(uiBatch, c)
    /\ c \notin Elements(uiQueue) \cap Elements(uiBatch)
    /\ toCome => ~Waits(c)

Began == first \in {"done", "thrown"} \/ (Running /\ Head(idxBatch) = FirstTask)

Number(b) == IF b THEN 1 ELSE 0

\* Each of the two callbacks starts the deferred workers once at most; the version is counted
\* up by them, by the first task and by the flags.
Counted ==
    /\ PostedOnce("loaded", LoadedToCome) /\ PostedOnce("indexed", IndexedToCome)
    /\ deferred + Number(LoadedToCome \/ Waits("loaded")) + Number(IndexedToCome \/ Waits("indexed")) <= 2
    /\ version + Number(indexFlag) <= reindexes + Number(Began) + deferred + Number(uiPc = "token")
    /\ reindexes <= MaxReindex
    /\ uiPc = "token" => Head(uiBatch) # "fail"

CountInv == FoldersTyped /\ TokensAreOld /\ Counted

LEMMA UniqueAppend ==
    ASSUME NEW S, NEW s \in Seq(S), NEW y \in S
    PROVE  /\ Elements(Append(s, y)) = Elements(s) \cup {y}
           /\ \A x : UniqueIn(s, x) /\ (y = x => x \notin Elements(s)) => UniqueIn(Append(s, y), x)
<1> DEFINE t == Append(s, y)
<1>1. Len(t) = Len(s) + 1 /\ t[Len(t)] = y /\ \A i \in 1..Len(s) : t[i] = s[i]
    OBVIOUS
<1> HIDE DEF t
<1>2. ASSUME NEW x, UniqueIn(s, x), y = x => x \notin Elements(s) PROVE UniqueIn(t, x)
    BY <1>1, <1>2 DEF UniqueIn, Elements
<1> QED BY <1>2, ElementsAppend DEF t

LEMMA UniqueTail ==
    ASSUME NEW S, NEW s \in Seq(S), s # <<>>
    PROVE  /\ Elements(s) = {Head(s)} \cup Elements(Tail(s))
           /\ \A x : UniqueIn(s, x) => UniqueIn(Tail(s), x) /\ (Head(s) = x => x \notin Elements(Tail(s)))
<1> DEFINE t == Tail(s)
<1>1. Len(s) = Len(t) + 1 /\ Head(s) = s[1] /\ \A i \in 1..Len(t) : t[i] = s[i + 1]
    OBVIOUS
<1> HIDE DEF t
<1>2. ASSUME NEW x, UniqueIn(s, x) PROVE UniqueIn(t, x) /\ (Head(s) = x => x \notin Elements(t))
    <2>1. UniqueIn(t, x)
        BY <1>1, <1>2 DEF UniqueIn
    <2>2. ASSUME Head(s) = x, NEW i \in 1..Len(t), t[i] = x PROVE FALSE
        BY <2>2, <1>1, <1>2 DEF UniqueIn
    <2> QED BY <2>1, <2>2 DEF Elements
<1> QED BY <1>2, ElementsTail DEF t

LEMMA CountStarts == Init => CountInv
BY NoElements, StartupAssumption DEF Init, CountInv, FoldersTyped, TokensAreOld, Counted, PostedOnce, UniqueIn, Waits,
   LoadedToCome, IndexedToCome, Began, Running, Number

LEMMA FoldersStayTyped == ASSUME FoldersTyped, collected \subseteq Folder, Next PROVE FoldersTyped'
<1> USE DEF FoldersTyped, flags, marks, nodes, uiVars, idxVars, dbVars
<1>1. CASE WorkThread \/ CloseWindow \/ InvalidateIndex
    BY <1>1 DEF WorkThread, StartDatabaseThread, StartIndexThread, PostFirstTask, CloseWindow, InvalidateIndex
<1>2. CASE DatabaseThread
    BY <1>2 DEF DatabaseThread, OpenDatabase, OpenFails, CacheLoadComplete, PostIndexLoaded, MergeFolder
<1>3. CASE UiThread
    BY <1>3 DEF UiThread, TakeCallbacks, CallbackStartsScan, CallbackPostsScan, CallbackPasses, CallbackFails,
       PopIndexFlag, PostReindex
<1>4. CASE IndexThread
    BY <1>4 DEF IndexThread, TakeIndexTasks, BeginFirst, WalkFirst, WalkAgain, BeginWalk, EndFirst, EndWalk, BeginScan,
       ListUncached, EndScan, EndIndexBatch, IndexTaskThrows, StopIndexThread, VisitFolder, ScanFolder, ScanFails,
       ScanNext
<1> QED BY <1>1, <1>2, <1>3, <1>4 DEF Next

LEMMA TokensStayOld == ASSUME StartupInv, TokensAreOld, Next PROVE TokensAreOld'
<1> USE DEF TokensAreOld, flags, marks, nodes, uiVars, idxVars, dbVars
<1>1. version \in Nat /\ idxQueue \in Seq(Task) /\ idxBatch \in Seq(Task)
    BY DEF StartupInv, Shaped
<1>2. CASE PostFirstTask
    <2>1. Elements(idxQueue') = Elements(idxQueue) \cup {FirstTask} /\ FirstTask.token = 0
        BY <1>2, TaskPosted, Tasks DEF PostFirstTask, StartupInv, FirstTask
    <2> QED BY <1>1, <1>2, <2>1 DEF PostFirstTask
<1>3. CASE CallbackPostsScan
    <2> DEFINE t == [kind |-> "scan", token |-> version]
    <2>1. Elements(idxQueue') = Elements(idxQueue) \cup {t} /\ t.token = version
        BY <1>1, <1>3, TaskPosted, Tasks DEF CallbackPostsScan, StartupInv
    <2> HIDE DEF t
    <2> QED BY <1>1, <1>3, <2>1 DEF CallbackPostsScan
<1>4. CASE PostReindex
    <2>1. Elements(idxQueue') = {[kind |-> "reindex", token |-> version]}
        BY <1>4, OneElement DEF PostReindex
    <2> QED BY <1>1, <1>4, <2>1 DEF PostReindex
<1>5. CASE TakeIndexTasks \/ IndexTaskThrows
    BY <1>5, NoElements DEF TakeIndexTasks, IndexTaskThrows
<1>6. CASE WalkFirst \/ WalkAgain \/ BeginScan
    <2>1. WalkAgain \/ BeginScan => Head(idxBatch) \in Elements(idxBatch)
        BY <1>1, ElementsTail DEF WalkAgain, BeginScan
    <2> QED BY <1>1, <1>6, <2>1 DEF WalkFirst, WalkAgain, BeginScan, BeginWalk
<1>7. CASE EndFirst \/ EndScan
    <2>1. idxBatch # <<>>
        BY <1>7 DEF EndFirst, EndScan, WalkOver, StartupInv, Stages, Running
    <2>2. Elements(idxBatch') \subseteq Elements(idxBatch)
        BY <1>7, <2>1, TaskAtHand DEF EndFirst, EndScan, StartupInv
    <2> QED BY <1>7, <2>2 DEF EndFirst, EndScan
<1>8. CASE CallbackStartsScan \/ PopIndexFlag \/ BeginFirst
    <2>1. version' \in {version, version + 1} /\ UNCHANGED <<idxQueue, idxBatch, idxToken>>
        BY <1>8 DEF CallbackStartsScan, PopIndexFlag, BeginFirst
    <2>2. 0..version \subseteq 0..version'
        BY <1>1, <2>1
    <2> QED BY <2>1, <2>2
<1>9. CASE \/ StartDatabaseThread \/ StartIndexThread \/ DatabaseThread
           \/ TakeCallbacks \/ CallbackPasses \/ CallbackFails
           \/ EndWalk \/ ListUncached \/ EndIndexBatch \/ StopIndexThread
           \/ (\E f \in Folder : VisitFolder(f) \/ ScanFolder(f) \/ ScanFails(f))
           \/ InvalidateIndex \/ CloseWindow
    <2>1. UNCHANGED <<version, idxQueue, idxBatch, idxToken>>
        BY <1>9 DEF StartDatabaseThread, StartIndexThread, DatabaseThread, OpenDatabase, OpenFails, CacheLoadComplete,
           PostIndexLoaded, MergeFolder, TakeCallbacks, CallbackPasses, CallbackFails, EndWalk, ListUncached,
           EndIndexBatch, StopIndexThread, VisitFolder, ScanFolder, ScanFails, ScanNext, InvalidateIndex, CloseWindow
    <2> QED BY <2>1
<1> QED BY <1>2, <1>3, <1>4, <1>5, <1>6, <1>7, <1>8, <1>9 DEF Next, WorkThread, UiThread, IndexThread

\* What the counts depend on.
LEMMA CountStays ==
    ASSUME Counted, LoadedToCome' = LoadedToCome, IndexedToCome' = IndexedToCome, Began' = Began,
           UNCHANGED <<uiQueue, uiBatch, uiPc, deferred, version, indexFlag, reindexes>>
    PROVE  Counted'
BY DEF Counted, PostedOnce, Waits

LEMMA CountKeeps == ASSUME StartupInv, Counted, Next PROVE Counted'
<1> USE DEF flags, marks, nodes, uiVars, idxVars, dbVars
<1>1. /\ version \in Nat /\ deferred \in Nat /\ reindexes \in Nat
      /\ uiQueue \in Seq(Callback) /\ uiBatch \in Seq(Callback)
      /\ idxQueue \in Seq(Task) /\ idxBatch \in Seq(Task)
    BY DEF StartupInv, Shaped
<1>2. CASE WorkThread
    <2>1. LoadedToCome' = LoadedToCome /\ IndexedToCome' = IndexedToCome /\ Began' = Began
        BY <1>2 DEF WorkThread, StartDatabaseThread, StartIndexThread, PostFirstTask, StartupInv, Stages, FirstIsTold,
           LoadedToCome, IndexedToCome, Began, Running
    <2>2. UNCHANGED <<uiQueue, uiBatch, uiPc, deferred, version, indexFlag, reindexes>>
        BY <1>2 DEF WorkThread, StartDatabaseThread, StartIndexThread, PostFirstTask
    <2> QED BY <2>1, <2>2, CountStays
<1>3. CASE OpenDatabase \/ CacheLoadComplete \/ CloseWindow \/ \E f \in Folder : MergeFolder(f)
    <2>1. LoadedToCome' = LoadedToCome /\ IndexedToCome' = IndexedToCome /\ Began' = Began
        BY <1>3 DEF OpenDatabase, CacheLoadComplete, MergeFolder, CloseWindow, LoadedToCome, IndexedToCome, Began,
           Running
    <2>2. UNCHANGED <<uiQueue, uiBatch, uiPc, deferred, version, indexFlag, reindexes>>
        BY <1>3 DEF OpenDatabase, CacheLoadComplete, MergeFolder, CloseWindow
    <2> QED BY <2>1, <2>2, CountStays
<1>4. CASE OpenFails \/ PostIndexLoaded
    <2>1. LoadedToCome /\ ~LoadedToCome'
        BY <1>4 DEF OpenFails, PostIndexLoaded, LoadedToCome
    <2>2. PICK c \in {"loaded", "fail"} : uiQueue' = Append(uiQueue, c)
        BY <1>4 DEF OpenFails, PostIndexLoaded
    <2>3. /\ UNCHANGED <<uiBatch, uiPc, deferred, version, indexFlag, reindexes>>
          /\ IndexedToCome' = IndexedToCome /\ Began' = Began
        BY <1>4 DEF OpenFails, PostIndexLoaded, IndexedToCome, Began, Running
    <2>4. /\ Elements(uiQueue') = Elements(uiQueue) \cup {c}
          /\ \A x : UniqueIn(uiQueue, x) /\ (c = x => x \notin Elements(uiQueue)) => UniqueIn(uiQueue', x)
        BY <1>1, <2>2, UniqueAppend, Callbacks
    <2>5. PostedOnce("loaded", LoadedToCome)' /\ PostedOnce("indexed", IndexedToCome)'
        BY <2>1, <2>3, <2>4 DEF Counted, PostedOnce, Waits
    <2>6. Waits("indexed")' <=> Waits("indexed")
        BY <2>3, <2>4 DEF Waits
    <2> QED BY <1>1, <2>1, <2>3, <2>5, <2>6 DEF Counted, Number
<1>5. CASE TakeCallbacks
    <2>1. uiBatch = <<>> /\ uiBatch' = uiQueue /\ uiQueue' = <<>> /\ Elements(<<>>) = {}
        BY <1>5, NoElements DEF TakeCallbacks, StartupInv, Stages
    <2>2. \A c : (Waits(c)' <=> Waits(c)) /\ UniqueIn(<<>>, c)
        BY <2>1 DEF Waits, UniqueIn
    <2>3. /\ UNCHANGED <<deferred, version, indexFlag, reindexes>> /\ uiPc # "token" /\ uiPc' # "token"
          /\ LoadedToCome' = LoadedToCome /\ IndexedToCome' = IndexedToCome /\ Began' = Began
        BY <1>5 DEF TakeCallbacks, LoadedToCome, IndexedToCome, Began, Running
    <2>4. PostedOnce("loaded", LoadedToCome)' /\ PostedOnce("indexed", IndexedToCome)'
        BY <2>1, <2>2, <2>3 DEF Counted, PostedOnce
    <2> QED BY <2>2, <2>3, <2>4 DEF Counted, Number
<1>6. CASE CallbackStartsScan
    <2>1. /\ UNCHANGED <<uiQueue, uiBatch, deferred, indexFlag, reindexes>> /\ version' = version + 1
          /\ uiPc = "callbacks" /\ uiPc' = "token" /\ Head(uiBatch) # "fail"
          /\ LoadedToCome' = LoadedToCome /\ IndexedToCome' = IndexedToCome /\ Began' = Began
        BY <1>6 DEF CallbackStartsScan, LoadedToCome, IndexedToCome, Began, Running
    <2> QED BY <1>1, <2>1 DEF Counted, Number, PostedOnce, Waits
<1>7. CASE CallbackPostsScan \/ CallbackPasses \/ CallbackFails
    <2>1. uiBatch # <<>> /\ uiBatch' = Tail(uiBatch) /\ uiQueue' = uiQueue
        BY <1>7 DEF CallbackPostsScan, CallbackPasses, CallbackFails, StartupInv, Stages
    <2>2. /\ UNCHANGED <<version, indexFlag, reindexes>> /\ uiPc' # "token"
          /\ LoadedToCome' = LoadedToCome /\ IndexedToCome' = IndexedToCome /\ Began' = Began
        BY <1>7 DEF CallbackPostsScan, CallbackPasses, CallbackFails, LoadedToCome, IndexedToCome, Began, Running
    <2>3. /\ Elements(uiBatch) = {Head(uiBatch)} \cup Elements(uiBatch')
          /\ \A x : UniqueIn(uiBatch, x) =>
                 UniqueIn(uiBatch', x) /\ (Head(uiBatch) = x => x \notin Elements(uiBatch'))
        BY <1>1, <2>1, UniqueTail
    <2>4. PostedOnce("loaded", LoadedToCome)' /\ PostedOnce("indexed", IndexedToCome)'
        BY <2>1, <2>2, <2>3 DEF Counted, PostedOnce, Waits
    <2>5. \A c : Waits(c)' => Waits(c)
        BY <2>1, <2>3 DEF Waits
    <2>6. CASE CallbackPostsScan
        <3>1. uiPc = "token" /\ deferred' = deferred + 1 /\ Head(uiBatch) # "fail" /\ Head(uiBatch) \in Callback
            BY <1>1, <2>1, <2>6, CallbackDone, ElementsTail DEF CallbackPostsScan, Counted
        <3>2. PICK c \in {"loaded", "indexed"} : c = Head(uiBatch)
            BY <3>1, Callbacks
        <3>3. Waits(c) /\ ~Waits(c)' /\ (LoadedToCome => c # "loaded") /\ (IndexedToCome => c # "indexed")
            BY <2>1, <2>3, <3>2 DEF Counted, PostedOnce, Waits
        <3> QED BY <1>1, <2>2, <2>4, <2>5, <3>1, <3>2, <3>3 DEF Counted, Number
    <2>7. CASE CallbackPasses \/ CallbackFails
        <3>1. deferred' = deferred /\ uiPc # "token"
            BY <2>7 DEF CallbackPasses, CallbackFails
        <3> QED BY <1>1, <2>2, <2>4, <2>5, <3>1 DEF Counted, Number
    <2> QED BY <1>7, <2>6, <2>7
<1>8. CASE PopIndexFlag
    <2>1. /\ UNCHANGED <<uiQueue, uiBatch, deferred, reindexes>> /\ indexFlag' = FALSE
          /\ version' = version + Number(indexFlag) /\ uiPc = "callbacks" /\ uiPc' # "token"
          /\ LoadedToCome' = LoadedToCome /\ IndexedToCome' = IndexedToCome /\ Began' = Began
        BY <1>1, <1>8 DEF PopIndexFlag, LoadedToCome, IndexedToCome, Began, Running, Number
    <2> QED BY <1>1, <2>1 DEF Counted, Number, PostedOnce, Waits
<1>9. CASE PostReindex
    <2>1. /\ UNCHANGED <<uiQueue, uiBatch, deferred, version, indexFlag, reindexes>>
          /\ uiPc = "reindex" /\ uiPc' = "idle"
          /\ LoadedToCome' = LoadedToCome /\ (IndexedToCome' => IndexedToCome) /\ (Began => Began')
        BY <1>9 DEF PostReindex, LoadedToCome, IndexedToCome, Began, Running, StartupInv, FirstIsTold
    <2> QED BY <1>1, <2>1 DEF Counted, Number, PostedOnce, Waits
<1>10. CASE BeginFirst
    <2>1. first = "taken" /\ Head(idxBatch) = FirstTask
        BY <1>1, <1>10, TaskAtHand, Tasks DEF BeginFirst, StartupInv, FirstIsTold
    <2>2. /\ UNCHANGED <<uiQueue, uiBatch, uiPc, deferred, indexFlag, reindexes>> /\ version' = version + 1
          /\ LoadedToCome' = LoadedToCome /\ IndexedToCome' = IndexedToCome /\ ~Began /\ Began'
        BY <1>10, <2>1 DEF BeginFirst, LoadedToCome, IndexedToCome, Began, Running
    <2> QED BY <1>1, <2>2 DEF Counted, Number, PostedOnce, Waits
<1>11. CASE EndFirst
    <2>1. first = "taken" /\ Head(idxBatch) = FirstTask
        <3>1. idxBatch # <<>>
            BY <1>11 DEF EndFirst, WalkOver, StartupInv, Stages, Running
        <3> QED BY <1>11, <3>1, TaskAtHand, Tasks DEF EndFirst, StartupInv, FirstIsTold
    <2>2. /\ UNCHANGED <<uiBatch, uiPc, deferred, version, indexFlag, reindexes>>
          /\ LoadedToCome' = LoadedToCome /\ IndexedToCome /\ ~IndexedToCome' /\ Began /\ Began'
        BY <1>11, <2>1 DEF EndFirst, WalkOver, LoadedToCome, IndexedToCome, Began, Running
    <2>3. /\ Elements(uiQueue') = Elements(uiQueue) \cup {"indexed"}
          /\ \A x : UniqueIn(uiQueue, x) /\ ("indexed" = x => x \notin Elements(uiQueue)) => UniqueIn(uiQueue', x)
        <3>1. uiQueue' = Append(uiQueue, "indexed") /\ "indexed" \in Callback
            BY <1>11, Callbacks DEF EndFirst
        <3> QED BY <1>1, <3>1, UniqueAppend
    <2>4. PostedOnce("loaded", LoadedToCome)' /\ PostedOnce("indexed", IndexedToCome)'
        BY <2>2, <2>3 DEF Counted, PostedOnce, Waits
    <2>5. Waits("loaded")' <=> Waits("loaded")
        BY <2>2, <2>3 DEF Waits
    <2> QED BY <1>1, <2>2, <2>4, <2>5 DEF Counted, Number
<1>12. CASE \/ TakeIndexTasks \/ WalkFirst \/ WalkAgain \/ EndWalk \/ BeginScan \/ ListUncached \/ EndScan
            \/ EndIndexBatch \/ StopIndexThread \/ \E f \in Folder : VisitFolder(f) \/ ScanFolder(f) \/ ScanFails(f)
    <2> USE DEF TakeIndexTasks, WalkFirst, WalkAgain, BeginWalk, EndWalk, BeginScan, ListUncached, EndScan,
                EndIndexBatch, StopIndexThread, VisitFolder, ScanFolder, ScanFails, ScanNext
    <2>1. UNCHANGED <<uiQueue, uiBatch, uiPc, deferred, version, indexFlag, reindexes>>
        BY <1>12
    <2>2. LoadedToCome' = LoadedToCome /\ IndexedToCome' = IndexedToCome
        BY <1>12 DEF LoadedToCome, IndexedToCome, StartupInv, FirstIsTold
    <2>3. Began' = Began
        <3>1. idxBatch' = idxBatch \/ TakeIndexTasks \/ EndScan
            BY <1>12
        <3>2. (first' \in {"done", "thrown"}) = (first \in {"done", "thrown"})
            BY <1>12 DEF StartupInv, FirstIsTold
        <3>3. idxPc \in {"next", "list", "scan"} /\ Head(idxBatch).kind # "first" => Head(idxBatch) # FirstTask
            BY Tasks
        <3>4. Running /\ Head(idxBatch) = FirstTask <=> Running' /\ Head(idxBatch') = FirstTask
            BY <1>12, <3>1, Tasks DEF Running, StartupInv, Stages
        <3> QED BY <3>2, <3>4 DEF Began
    <2> QED BY <2>1, <2>2, <2>3, CountStays
<1>13. CASE InvalidateIndex
    <2>1. /\ UNCHANGED <<uiQueue, uiBatch, uiPc, deferred, version>>
          /\ reindexes' = reindexes + 1 /\ reindexes < MaxReindex
          /\ LoadedToCome' = LoadedToCome /\ IndexedToCome' = IndexedToCome /\ Began' = Began
        BY <1>13 DEF InvalidateIndex, LoadedToCome, IndexedToCome, Began, Running
    <2> QED BY <1>1, <2>1, StartupAssumption DEF Counted, Number, PostedOnce, Waits
<1>14. CASE IndexTaskThrows
    <2>1. UNCHANGED <<uiQueue, uiBatch, uiPc, deferred, version, indexFlag, reindexes>>
        BY <1>14 DEF IndexTaskThrows
    <2>2. LoadedToCome' = LoadedToCome /\ (IndexedToCome' => IndexedToCome)
        BY <1>14 DEF IndexTaskThrows, LoadedToCome, IndexedToCome
    <2>3. Began => Began'
        <3>1. Running => Head(idxBatch) \in Elements(idxBatch)
            BY <1>14, TaskAtHand DEF IndexTaskThrows, StartupInv
        <3> QED BY <1>14, <3>1 DEF IndexTaskThrows, Began
    <2> QED BY <1>1, <2>1, <2>2, <2>3 DEF Counted, PostedOnce, Waits, Number
<1> QED BY <1>2, <1>3, <1>4, <1>5, <1>6, <1>7, <1>8, <1>9, <1>10, <1>11, <1>12, <1>13, <1>14
        DEF Next, DatabaseThread, UiThread, IndexThread

LEMMA CountStep == StartupInv /\ CountInv /\ [Next]_vars => CountInv'
<1>1. CASE CountInv /\ UNCHANGED vars
    BY <1>1 DEF vars, CountInv, FoldersTyped, TokensAreOld, Counted, PostedOnce, Waits, LoadedToCome, IndexedToCome,
       Began, Running, flags, marks, nodes, uiVars, idxVars, dbVars
<1>2. ASSUME StartupInv, CountInv, Next PROVE CountInv'
    <2>1. collected \subseteq Folder
        BY <1>2 DEF StartupInv, Shaped
    <2> QED BY <1>2, <2>1, FoldersStayTyped, TokensStayOld, CountKeeps DEF CountInv
<1> QED BY <1>1, <1>2

\* The elements of a sequence say what it is a sequence of.
LEMMA SeqOfElements == ASSUME NEW S, NEW T, NEW s \in Seq(S), Elements(s) \subseteq T PROVE s \in Seq(T)
<1>1. \A i \in 1..Len(s) : s[i] \in T
    BY DEF Elements
<1> QED BY <1>1

\* The variables keep their types: the version is counted up three times, by the first task and by
\* the two callbacks, and once for each invalidation, and the deferred workers start twice at most.
THEOREM TypeCorrect == Spec => []TypeOK
<1>1. ASSUME StartupInv, CountInv PROVE TypeOK
    <2>1. version \in Nat /\ deferred \in Nat /\ reindexes \in 0..MaxReindex /\ MaxReindex \in Nat
        BY <1>1, StartupAssumption DEF StartupInv, Shaped, CountInv, Counted
    <2>2. deferred \in 0..2
        BY <1>1, <2>1 DEF CountInv, Counted, Number
    <2>3. uiPc = "token" => deferred <= 1
        <3> SUFFICES ASSUME uiPc = "token" PROVE deferred <= 1
            OBVIOUS
        <3>1. uiBatch \in Seq(Callback) /\ uiBatch # <<>> /\ Head(uiBatch) # "fail"
            BY <1>1 DEF StartupInv, Shaped, Stages, CountInv, Counted
        <3>2. Head(uiBatch) \in Elements(uiBatch) /\ Head(uiBatch) \in {"loaded", "indexed"}
            BY <3>1, ElementsTail, Callbacks
        <3>3. Waits("loaded") \/ Waits("indexed")
            BY <3>2 DEF Waits
        <3> QED BY <1>1, <2>1, <3>3 DEF CountInv, Counted, Number
    <2>4. version <= MaxReindex + 3
        BY <1>1, <2>1, <2>2, <2>3 DEF CountInv, Counted, Number
    <2>5. ASSUME NEW q, q \in {idxQueue, idxBatch} PROVE q \in Seq(IndexTask)
        <3>1. q \in Seq(Task) /\ \A t \in Elements(q) : t.token \in 0..version
            BY <1>1, <2>5 DEF StartupInv, Shaped, CountInv, TokensAreOld
        <3>2. \A t \in Elements(q) : t \in Task
            BY <3>1 DEF Elements
        <3>3. ASSUME NEW t \in Task, t.token \in 0..version PROVE t \in IndexTask
            BY <2>1, <2>4, <3>3 DEF Task, FirstTask, IndexTask, Version
        <3> QED BY <3>1, <3>2, <3>3, SeqOfElements
    <2>6. version \in Version /\ idxToken \in Version
        BY <1>1, <2>1, <2>4 DEF Version, CountInv, TokensAreOld
    <2> QED BY <1>1, <2>1, <2>2, <2>5, <2>6, Callbacks
            DEF TypeOK, StartupInv, Shaped, Stages, FirstIsTold, CountInv, FoldersTyped, Running
<1> QED BY <1>1, StartupStarts, StartupStep, CountStarts, CountStep, PTL DEF Spec

=============================================================================
