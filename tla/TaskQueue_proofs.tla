-------------------------- MODULE TaskQueue_proofs --------------------------
(***************************************************************************)
(* Theorems about TaskQueue, for any tasks, producers and workers.         *)
(***************************************************************************)
EXTENDS TaskQueueMailbox, TLAPS

\* The elements of a sequence of tasks are tasks.
LEMMA ElementsOfTasks ==
    ASSUME NEW s \in Seq(Task)
    PROVE  Elements(s) \in SUBSET Task
BY DEF Elements

\* The variables keep their types: TypeOK is inductive.
THEOREM TypeCorrect == Spec => []TypeOK
<1>1. Init => TypeOK
  <2> SUFFICES ASSUME Init
               PROVE  TypeOK
    OBVIOUS
  <2>1. storage \in Seq(Task) /\ batch \in [Worker -> Seq(Task)]
    BY DEF Init
  <2>2. event \in BOOLEAN /\ closing \in BOOLEAN /\ exitEvent \in BOOLEAN /\ ~exitEvent
    BY Zenon DEF Init
  <2>3. /\ pc \in [Worker -> {"test", "wait", "dequeue", "next", "task", "stopped"}]
        /\ \A w \in Worker : pc[w] # "task"
    BY DEF Init
  <2>4. /\ fate \in [Task -> Fate]
        /\ posting \in SUBSET Caller
    BY DEF Init, Fate
  <2>5. QED
    BY <2>1, <2>2, <2>3, <2>4, Zenon DEF TypeOK
<1>2. TypeOK /\ [Next]_vars => TypeOK'
  <2> SUFFICES ASSUME TypeOK, [Next]_vars
               PROVE  TypeOK'
    OBVIOUS
  <2> USE DEF TypeOK, Fate, Settled
  <2>1. ASSUME NEW c \in Caller, NEW t \in Task, Enqueue(c, t)
        PROVE  TypeOK'
    BY <2>1 DEF Enqueue, Append1, CanPost
  <2>2. ASSUME NEW c \in Caller, NEW t \in Task, ResetAndEnqueue(c, t)
        PROVE  TypeOK'
    BY <2>2 DEF ResetAndEnqueue, Append1, CanPost
  <2>3. ASSUME NEW c \in Caller, SetEvent(c)
        PROVE  TypeOK'
    BY <2>3 DEF SetEvent
  <2>4. CASE StartClosing
    BY <2>4 DEF StartClosing
  <2>5. CASE SetExitEvent
    BY <2>5 DEF SetExitEvent
  <2>6. ASSUME NEW w \in Worker, TestClosing(w)
        PROVE  TypeOK'
    BY <2>6 DEF TestClosing
  <2>7. ASSUME NEW w \in Worker, WakeForTasks(w)
        PROVE  TypeOK'
    BY <2>7 DEF WakeForTasks
  <2>8. ASSUME NEW w \in Worker, WakeForNothing(w)
        PROVE  TypeOK'
    BY <2>8 DEF WakeForNothing
  <2>9. ASSUME NEW w \in Worker, DequeueAll(w)
        PROVE  TypeOK'
    BY <2>9 DEF DequeueAll
  <2>10. ASSUME NEW w \in Worker, BeginTask(w)
         PROVE  TypeOK'
    BY <2>10 DEF BeginTask
  <2>11. ASSUME NEW w \in Worker, TaskReturns(w)
         PROVE  TypeOK'
    BY <2>11 DEF TaskReturns
  <2>12. ASSUME NEW w \in Worker, TaskThrows(w)
         PROVE  TypeOK'
    BY <2>12 DEF TaskThrows
  <2>13. ASSUME NEW w \in Worker, EndBatch(w)
         PROVE  TypeOK'
    BY <2>13 DEF EndBatch
  <2>14. CASE UNCHANGED vars
    BY <2>14 DEF vars
  <2>15. QED
    BY <2>1, <2>2, <2>3, <2>4, <2>5, <2>6, <2>7, <2>8, <2>9, <2>10, <2>11, <2>12, <2>13, <2>14
       DEF Next, Post, WorkerStep, RunTasks
<1>3. QED
  BY <1>1, <1>2, PTL DEF Spec

\* No wakeup is lost, whatever the tasks, the producers and the workers.
THEOREM WakeupsAreKept == Spec => []NoLostWakeup
<1>1. Init => NoLostWakeup
  BY DEF Init, NoLostWakeup
<1>2. TypeOK /\ NoLostWakeup /\ [Next]_vars => NoLostWakeup'
  <2> SUFFICES ASSUME TypeOK, NoLostWakeup, [Next]_vars
               PROVE  NoLostWakeup'
    OBVIOUS
  <2> USE DEF TypeOK, NoLostWakeup
  <2>1. ASSUME NEW c \in Caller, NEW t \in Task, Enqueue(c, t) \/ ResetAndEnqueue(c, t)
        PROVE  NoLostWakeup'
    BY <2>1 DEF Enqueue, ResetAndEnqueue
  <2>2. ASSUME NEW c \in Caller, SetEvent(c)
        PROVE  NoLostWakeup'
    BY <2>2 DEF SetEvent
  <2>3. CASE StartClosing \/ SetExitEvent \/ UNCHANGED vars
    BY <2>3 DEF StartClosing, SetExitEvent, vars
  <2>4. ASSUME NEW w \in Worker, WakeForTasks(w)
        PROVE  NoLostWakeup'
    BY <2>4 DEF WakeForTasks
  <2>5. ASSUME NEW w \in Worker, DequeueAll(w)
        PROVE  NoLostWakeup'
    BY <2>5 DEF DequeueAll
  <2>6. ASSUME NEW w \in Worker, TestClosing(w) \/ WakeForNothing(w) \/ RunTasks(w)
        PROVE  NoLostWakeup'
    BY <2>6 DEF TestClosing, WakeForNothing, RunTasks, BeginTask, TaskReturns, TaskThrows, EndBatch
  <2>7. QED
    BY <2>1, <2>2, <2>3, <2>4, <2>5, <2>6 DEF Next, Post, WorkerStep
<1>3. QED
  BY <1>1, <1>2, TypeCorrect, PTL DEF Spec

\* What an append adds: one element, and no repetition if it is new.
LEMMA AppendedOnce ==
    ASSUME NEW s \in Seq(Task), NEW t \in Task
    PROVE  /\ Elements(Append(s, t)) = Elements(s) \cup {t}
           /\ Once(s) /\ t \notin Elements(s) => Once(Append(s, t))
<1>1. /\ Len(Append(s, t)) = Len(s) + 1
      /\ \A i \in 1..Len(s) : Append(s, t)[i] = s[i]
      /\ Append(s, t)[Len(s) + 1] = t
      /\ Len(s) \in Nat
  OBVIOUS
<1>2. Elements(Append(s, t)) = Elements(s) \cup {t}
  BY <1>1 DEF Elements
<1>3. ASSUME Once(s), t \notin Elements(s)
      PROVE  Once(Append(s, t))
  BY <1>1, <1>3 DEF Once, Elements
<1>4. QED
  BY <1>2, <1>3

\* What a tail leaves: all but the first, none twice.
LEMMA TailOnce ==
    ASSUME NEW s \in Seq(Task), s # <<>>, Once(s)
    PROVE  /\ Once(Tail(s))
           /\ Head(s) \in Elements(s)
           /\ Elements(Tail(s)) = Elements(s) \ {Head(s)}
<1>1. /\ Len(s) \in Nat /\ Len(s) > 0 /\ Len(Tail(s)) = Len(s) - 1
      /\ \A i \in 1..(Len(s) - 1) : Tail(s)[i] = s[i + 1]
      /\ Head(s) = s[1]
  OBVIOUS
<1>2. Once(Tail(s))
  BY <1>1 DEF Once
<1>3. Head(s) \in Elements(s)
  BY <1>1 DEF Elements
<1>4. Elements(Tail(s)) \subseteq Elements(s) \ {Head(s)}
  BY <1>1 DEF Once, Elements
<1>5. ASSUME NEW t \in Elements(s) \ {Head(s)}
      PROVE  t \in Elements(Tail(s))
  <2>1. PICK i \in 1..Len(s) : t = s[i]
    BY <1>5 DEF Elements
  <2>2. i - 1 \in 1..(Len(s) - 1) /\ Tail(s)[i - 1] = t
    BY <2>1, <1>1, <1>5
  <2>3. QED
    BY <2>2, <1>1 DEF Elements
<1>6. QED
  BY <1>2, <1>3, <1>4, <1>5

\* The elements of an empty deque, which starts every proof below that empties one.
LEMMA NothingOnce == Elements(<<>>) = {} /\ Once(<<>>)
BY DEF Elements, Once

\* A task is in the deque or in one batch, once, as its fate says, whatever the
\* tasks, the producers and the workers: the invariant is inductive.
THEOREM TasksAreInOnePlace == Spec => []EachTaskOnce
<1>1. Init => EachTaskOnce
  BY NothingOnce DEF Init, EachTaskOnce, DequeOnce, BatchesOnce, TakenInBatch, RunsAtHead, EmptyBetween
<1>2. TypeOK /\ EachTaskOnce /\ [Next]_vars => EachTaskOnce'
  <2> SUFFICES ASSUME TypeOK, EachTaskOnce, [Next]_vars
               PROVE  EachTaskOnce'
    OBVIOUS
  <2>a. /\ DequeOnce /\ BatchesOnce /\ TakenInBatch /\ RunsAtHead /\ EmptyBetween
    BY DEF EachTaskOnce
  <2>b. /\ storage \in Seq(Task) /\ \A v \in Worker : batch[v] \in Seq(Task)
        /\ batch \in [Worker -> Seq(Task)] /\ pc = [v \in Worker |-> pc[v]]
        /\ Elements(storage) \subseteq Task
        /\ \A v \in Worker : Elements(batch[v]) \subseteq Task
    BY ElementsOfTasks DEF TypeOK
  <2>1. ASSUME NEW c \in Caller, NEW t \in Task, Enqueue(c, t)
        PROVE  EachTaskOnce'
    <3>1. /\ storage' = Append(storage, t) /\ UNCHANGED <<batch, pc>> /\ fate[t] = "new"
          /\ \A u \in Task : fate'[u] = IF u = t THEN "queued" ELSE fate[u]
      BY <2>1 DEF Enqueue, Append1
    <3>2. t \notin Elements(storage) /\ \A v \in Worker : t \notin Elements(batch[v])
      BY <2>a, <3>1 DEF DequeOnce, TakenInBatch
    <3>3. Elements(storage') = Elements(storage) \cup {t} /\ Once(storage')
      BY <2>a, <2>b, <3>1, AppendedOnce DEF DequeOnce
    <3>4. DequeOnce'
      BY <2>a, <3>1, <3>3 DEF DequeOnce
    <3>5. BatchesOnce'
      BY <2>a, <3>1 DEF BatchesOnce
    <3>6. TakenInBatch'
      BY <2>a, <3>1 DEF TakenInBatch
    <3>7. RunsAtHead'
      BY <2>a, <2>b, <3>1, <3>2, <3>3 DEF RunsAtHead
    <3>8. EmptyBetween'
      BY <2>a, <3>1 DEF EmptyBetween
    <3>9. QED
      BY <3>4, <3>5, <3>6, <3>7, <3>8 DEF EachTaskOnce
  <2>2. ASSUME NEW c \in Caller, NEW t \in Task, ResetAndEnqueue(c, t)
        PROVE  EachTaskOnce'
    <3>1. /\ storage' = Append(<<>>, t) /\ UNCHANGED <<batch, pc>> /\ fate[t] = "new"
          /\ \A u \in Task : fate'[u] = IF u = t THEN "queued"
                                        ELSE IF u \in Elements(storage) THEN "superseded"
                                        ELSE fate[u]
      BY <2>2 DEF ResetAndEnqueue, Append1
    <3>2. \A v \in Worker : t \notin Elements(batch[v])
      BY <2>a, <3>1 DEF TakenInBatch
    <3>3. Elements(storage') = {t} /\ Once(storage')
      <4>1. <<>> \in Seq(Task)
        OBVIOUS
      <4>2. /\ Elements(Append(<<>>, t)) = Elements(<<>>) \cup {t}
            /\ Once(<<>>) /\ t \notin Elements(<<>>) => Once(Append(<<>>, t))
        BY <4>1, AppendedOnce
      <4>3. QED
        BY <4>2, <3>1, NothingOnce
    <3>4. \A v \in Worker : Elements(batch[v]) \cap Elements(storage) = {}
      BY <2>a, <2>b DEF DequeOnce, TakenInBatch
    <3>5. DequeOnce'
      BY <2>a, <3>1, <3>3 DEF DequeOnce
    <3>6. BatchesOnce'
      BY <2>a, <3>1 DEF BatchesOnce
    <3>7. TakenInBatch'
      BY <2>a, <3>1, <3>4 DEF TakenInBatch
    <3>8. RunsAtHead'
      BY <2>a, <2>b, <3>1 DEF RunsAtHead, DequeOnce, BatchesOnce
    <3>9. EmptyBetween'
      BY <2>a, <3>1 DEF EmptyBetween
    <3>10. QED
      BY <3>5, <3>6, <3>7, <3>8, <3>9 DEF EachTaskOnce
  <2>3. ASSUME NEW w \in Worker, DequeueAll(w)
        PROVE  EachTaskOnce'
    <3>1. /\ pc[w] = "dequeue" /\ storage' = <<>>
          /\ \A u \in Task : fate'[u] = IF u \in Elements(storage) THEN "taken" ELSE fate[u]
          /\ \A v \in Worker : /\ pc'[v] = IF v = w THEN "next" ELSE pc[v]
                               /\ batch'[v] = IF v = w THEN storage ELSE batch[v]
      BY <2>3, <2>b DEF DequeueAll
    <3>2. Elements(batch[w]) = {} /\ Elements(storage') = {} /\ Once(storage')
      BY <2>a, <3>1, NothingOnce DEF EmptyBetween
    <3>3. \A v \in Worker : Elements(batch'[v]) = IF v = w THEN Elements(storage) ELSE Elements(batch[v])
      BY <3>1
    <3>4. \A v \in Worker : Elements(batch[v]) \cap Elements(storage) = {}
      BY <2>a, <2>b DEF DequeOnce, TakenInBatch
    <3>5. DequeOnce'
      BY <2>a, <3>1, <3>2 DEF DequeOnce
    <3>6. BatchesOnce'
      BY <2>a, <3>1, <3>4 DEF BatchesOnce, DequeOnce
    <3>7. TakenInBatch'
      BY <2>a, <3>1, <3>2 DEF TakenInBatch
    <3>8. RunsAtHead'
      <4> SUFFICES ASSUME NEW v \in Worker, NEW t \in Elements(batch'[v])
                   PROVE  fate'[t] = "running" <=> (pc'[v] = "task" /\ t = Head(batch'[v]))
        BY DEF RunsAtHead
      <4>1. CASE v = w
        BY <4>1, <2>b, <3>1, <3>3
      <4>2. CASE v # w
        BY <4>2, <2>a, <2>b, <3>1, <3>3, <3>4 DEF RunsAtHead
      <4>3. QED
        BY <4>1, <4>2
    <3>9. EmptyBetween'
      BY <2>a, <3>1 DEF EmptyBetween
    <3>10. QED
      BY <3>5, <3>6, <3>7, <3>8, <3>9 DEF EachTaskOnce
  <2>4. ASSUME NEW w \in Worker, BeginTask(w)
        PROVE  EachTaskOnce'
    <3>1. /\ pc[w] = "next" /\ batch[w] # <<>> /\ UNCHANGED <<storage, batch>>
          /\ \A u \in Task : fate'[u] = IF u = Head(batch[w]) THEN "running" ELSE fate[u]
          /\ \A v \in Worker : pc'[v] = IF v = w THEN "task" ELSE pc[v]
      BY <2>4, <2>b DEF BeginTask, TypeOK
    <3>2. Head(batch[w]) \in Elements(batch[w])
      BY <2>a, <2>b, <3>1, TailOnce DEF BatchesOnce
    <3>3. fate[Head(batch[w])] = "taken"
      BY <2>a, <2>b, <3>1, <3>2 DEF TakenInBatch, RunsAtHead
    <3>4. \A v \in Worker : Elements(batch[v]) \cap Elements(storage) = {}
      BY <2>a, <2>b DEF DequeOnce, TakenInBatch
    <3>5. DequeOnce'
      BY <2>a, <3>1, <3>3 DEF DequeOnce
    <3>6. BatchesOnce'
      BY <2>a, <3>1 DEF BatchesOnce
    <3>7. TakenInBatch'
      BY <2>a, <3>1, <3>3 DEF TakenInBatch
    <3>8. RunsAtHead'
      BY <2>a, <2>b, <3>1, <3>2 DEF RunsAtHead, BatchesOnce
    <3>9. EmptyBetween'
      BY <2>a, <3>1 DEF EmptyBetween
    <3>10. QED
      BY <3>5, <3>6, <3>7, <3>8, <3>9 DEF EachTaskOnce
  <2>5. ASSUME NEW w \in Worker, TaskReturns(w)
        PROVE  EachTaskOnce'
    <3>1. /\ pc[w] = "task" /\ batch[w] # <<>> /\ UNCHANGED storage
          /\ \A u \in Task : fate'[u] = IF u = Head(batch[w]) THEN "returned" ELSE fate[u]
          /\ \A v \in Worker : /\ pc'[v] = IF v = w THEN "next" ELSE pc[v]
                               /\ batch'[v] = IF v = w THEN Tail(batch[w]) ELSE batch[v]
      BY <2>5, <2>b DEF TaskReturns, TypeOK
    <3>2. /\ Once(Tail(batch[w])) /\ Head(batch[w]) \in Elements(batch[w])
          /\ Elements(Tail(batch[w])) = Elements(batch[w]) \ {Head(batch[w])}
      BY <2>a, <2>b, <3>1, TailOnce DEF BatchesOnce
    <3>3. \A v \in Worker : Elements(batch'[v]) = IF v = w THEN Elements(batch[w]) \ {Head(batch[w])}
                                                           ELSE Elements(batch[v])
      BY <3>1, <3>2
    <3>4. \A v \in Worker : Elements(batch[v]) \cap Elements(storage) = {}
      BY <2>a, <2>b DEF DequeOnce, TakenInBatch
    <3>5. DequeOnce'
      BY <2>a, <3>1, <3>2, <3>4 DEF DequeOnce
    <3>6. BatchesOnce'
      BY <2>a, <3>1, <3>2 DEF BatchesOnce
    <3>7. TakenInBatch'
      <4> SUFFICES ASSUME NEW t \in Task
                   PROVE  fate'[t] \in {"taken", "running"}
                          <=> \E v \in Worker : t \in Elements(batch'[v])
        BY DEF TakenInBatch
      <4>1. CASE t = Head(batch[w])
        BY <4>1, <2>a, <3>1, <3>2, <3>3 DEF BatchesOnce
      <4>2. CASE t # Head(batch[w])
        <5>1. fate'[t] = fate[t] /\ \A v \in Worker : t \in Elements(batch'[v]) <=> t \in Elements(batch[v])
          BY <4>2, <3>1, <3>3
        <5>2. QED
          BY <5>1, <2>a DEF TakenInBatch
      <4>3. QED
        BY <4>1, <4>2
    <3>8. RunsAtHead'
      BY <2>a, <2>b, <3>1, <3>2, <3>4 DEF RunsAtHead, DequeOnce, BatchesOnce
    <3>9. EmptyBetween'
      BY <2>a, <3>1 DEF EmptyBetween
    <3>10. QED
      BY <3>5, <3>6, <3>7, <3>8, <3>9 DEF EachTaskOnce
  <2>6. ASSUME NEW w \in Worker, TaskThrows(w)
        PROVE  EachTaskOnce'
    <3>1. /\ pc[w] = "task" /\ batch[w] # <<>> /\ UNCHANGED storage
          /\ \A u \in Task : fate'[u] = IF u = Head(batch[w]) THEN "threw"
                                        ELSE IF u \in Elements(batch[w]) THEN "dropped"
                                        ELSE fate[u]
          /\ \A v \in Worker : /\ pc'[v] = IF v = w THEN "test" ELSE pc[v]
                               /\ batch'[v] = IF v = w THEN <<>> ELSE batch[v]
      BY <2>6, <2>b DEF TaskThrows, TypeOK
    <3>2. Head(batch[w]) \in Elements(batch[w])
      BY <2>a, <2>b, <3>1, TailOnce DEF BatchesOnce
    <3>3. \A v \in Worker : /\ Elements(batch'[v]) = IF v = w THEN {} ELSE Elements(batch[v])
                            /\ Once(batch'[v])
      BY <2>a, <3>1, NothingOnce DEF BatchesOnce
    <3>4. \A v \in Worker : Elements(batch[v]) \cap Elements(storage) = {}
      BY <2>a, <2>b DEF DequeOnce, TakenInBatch
    <3>5. DequeOnce'
      BY <2>a, <3>1, <3>2, <3>4 DEF DequeOnce
    <3>6. BatchesOnce'
      BY <2>a, <3>3 DEF BatchesOnce
    <3>7. TakenInBatch'
      <4> SUFFICES ASSUME NEW t \in Task
                   PROVE  fate'[t] \in {"taken", "running"}
                          <=> \E v \in Worker : t \in Elements(batch'[v])
        BY DEF TakenInBatch
      <4>1. CASE t \in Elements(batch[w])
        BY <4>1, <2>a, <3>1, <3>3 DEF BatchesOnce
      <4>2. CASE t \notin Elements(batch[w])
        <5>1. fate'[t] = fate[t] /\ \A v \in Worker : t \in Elements(batch'[v]) <=> t \in Elements(batch[v])
          BY <4>2, <3>1, <3>2, <3>3
        <5>2. QED
          BY <5>1, <2>a DEF TakenInBatch
      <4>3. QED
        BY <4>1, <4>2
    <3>8. RunsAtHead'
      <4> SUFFICES ASSUME NEW v \in Worker, NEW t \in Elements(batch'[v])
                   PROVE  fate'[t] = "running" <=> (pc'[v] = "task" /\ t = Head(batch'[v]))
        BY DEF RunsAtHead
      <4>1. v # w /\ t \in Elements(batch[v])
        BY <3>3
      <4>2. t \in Task /\ t \notin Elements(batch[w])
        BY <4>1, <2>a, <2>b DEF BatchesOnce
      <4>3. fate'[t] = fate[t] /\ batch'[v] = batch[v] /\ pc'[v] = pc[v]
        BY <4>1, <4>2, <3>1, <3>2
      <4>4. QED
        BY <4>1, <4>3, <2>a DEF RunsAtHead
    <3>9. EmptyBetween'
      BY <2>a, <3>1 DEF EmptyBetween
    <3>10. QED
      BY <3>5, <3>6, <3>7, <3>8, <3>9 DEF EachTaskOnce
  <2>7. ASSUME NEW w \in Worker,
               TestClosing(w) \/ WakeForTasks(w) \/ WakeForNothing(w) \/ EndBatch(w)
        PROVE  EachTaskOnce'
    <3>1. /\ UNCHANGED <<storage, batch, fate>> /\ batch[w] = <<>>
          /\ pc[w] # "task" /\ pc'[w] # "task"
          /\ \A v \in Worker \ {w} : pc'[v] = pc[v]
      BY <2>7, <2>a, <2>b DEF TestClosing, WakeForTasks, WakeForNothing, EndBatch, EmptyBetween, TypeOK
    <3>2. DequeOnce'
      BY <2>a, <3>1 DEF DequeOnce
    <3>3. BatchesOnce'
      BY <2>a, <3>1 DEF BatchesOnce
    <3>4. TakenInBatch'
      BY <2>a, <3>1 DEF TakenInBatch
    <3>5. RunsAtHead'
      BY <2>a, <3>1 DEF RunsAtHead
    <3>6. EmptyBetween'
      BY <2>a, <3>1 DEF EmptyBetween
    <3>7. QED
      BY <3>2, <3>3, <3>4, <3>5, <3>6 DEF EachTaskOnce
  <2>8. CASE StartClosing \/ SetExitEvent \/ UNCHANGED vars \/ \E c \in Caller : SetEvent(c)
    <3>1. UNCHANGED <<storage, batch, fate, pc>>
      BY <2>8 DEF StartClosing, SetExitEvent, SetEvent, vars
    <3>2. DequeOnce'
      BY <2>a, <3>1 DEF DequeOnce
    <3>3. BatchesOnce'
      BY <2>a, <3>1 DEF BatchesOnce
    <3>4. TakenInBatch'
      BY <2>a, <3>1 DEF TakenInBatch
    <3>5. RunsAtHead'
      BY <2>a, <3>1 DEF RunsAtHead
    <3>6. EmptyBetween'
      BY <2>a, <3>1 DEF EmptyBetween
    <3>7. QED
      BY <3>2, <3>3, <3>4, <3>5, <3>6 DEF EachTaskOnce
  <2>9. QED
    BY <2>1, <2>2, <2>3, <2>4, <2>5, <2>6, <2>7, <2>8 DEF Next, Post, WorkerStep, RunTasks
<1>3. QED
  BY <1>1, <1>2, TypeCorrect, PTL DEF Spec

\* No task is run twice: what became of a task is final, and it is from a batch
\* that it starts.
THEOREM NoTaskRunsTwice == Spec => RunsOnce
<1> DEFINE Once1 == \A t \in Task :
                        /\ fate[t] \in Settled => fate'[t] = fate[t]
                        /\ (fate'[t] = "running" /\ fate[t] # "running") => fate[t] = "taken"
<1>1. TypeOK /\ EachTaskOnce /\ [Next]_vars => [Once1]_vars
  <2> SUFFICES ASSUME TypeOK, EachTaskOnce, [Next]_vars
               PROVE  Once1
    OBVIOUS
  <2> USE DEF TypeOK, Settled, EachTaskOnce, DequeOnce, BatchesOnce, TakenInBatch, RunsAtHead
  <2>1. ASSUME NEW c \in Caller, NEW t \in Task, Enqueue(c, t) \/ ResetAndEnqueue(c, t)
        PROVE  Once1
    BY <2>1 DEF Enqueue, ResetAndEnqueue, Append1
  <2>2. ASSUME NEW w \in Worker, DequeueAll(w)
        PROVE  Once1
    BY <2>2 DEF DequeueAll
  <2>3. ASSUME NEW w \in Worker, BeginTask(w)
        PROVE  Once1
    <3>1. Head(batch[w]) \in Elements(batch[w])
      BY <2>3, TailOnce DEF BeginTask
    <3>2. fate[Head(batch[w])] = "taken"
      BY <2>3, <3>1, ElementsOfTasks DEF BeginTask
    <3>3. QED
      BY <2>3, <3>2 DEF BeginTask
  <2>4. ASSUME NEW w \in Worker, TaskReturns(w) \/ TaskThrows(w)
        PROVE  Once1
    <3>1. \A t \in Elements(batch[w]) : fate[t] \in {"taken", "running"}
      BY ElementsOfTasks
    <3>2. Head(batch[w]) \in Elements(batch[w])
      BY <2>4, TailOnce DEF TaskReturns, TaskThrows
    <3>3. QED
      BY <2>4, <3>1, <3>2 DEF TaskReturns, TaskThrows
  <2>5. ASSUME UNCHANGED fate
        PROVE  Once1
    BY <2>5
  <2>6. QED
    BY <2>1, <2>2, <2>3, <2>4, <2>5
       DEF Next, Post, WorkerStep, RunTasks, SetEvent, TestClosing, WakeForTasks, WakeForNothing,
           EndBatch, StartClosing, SetExitEvent, vars
<1>2. QED
  BY <1>1, TypeCorrect, TasksAreInOnePlace, PTL DEF Spec, RunsOnce

\* A queue is a mailbox for any tasks, producers and workers: an append is a
\* letter, the swap of the deque is the server's taking of the mail, a task that
\* throws is a service that fails; the event and the rest of the loop do nothing
\* to the mail.
THEOREM QueueIsMailbox == Spec => ImplementsMailbox
<1> DEFINE posted == {t \in Task : fate[t] # "new"}
           busy == {w \in Worker : pc[w] = "task"}
           mapped == <<storage, batch, busy, posted>>
<1>1. Init => Mail!MailInit
  BY DEF Init, Mail!MailInit
<1>2. TypeOK /\ EachTaskOnce /\ [Next]_vars => [Mail!MailNext]_mapped
  <2> SUFFICES ASSUME TypeOK, EachTaskOnce, [Next]_vars
               PROVE  Mail!MailNext \/ UNCHANGED mapped
    OBVIOUS
  <2> USE DEF TypeOK, EachTaskOnce, Mail!MailNext
  <2>1. ASSUME NEW c \in Caller, NEW t \in Task, Enqueue(c, t)
        PROVE  Mail!PostLetter(t)
    <3>1. posted' = posted \cup {t}
      BY <2>1 DEF Enqueue, Append1
    <3>2. QED
      BY <2>1, <3>1 DEF Enqueue, Append1, Mail!PostLetter
  <2>2. ASSUME NEW c \in Caller, NEW t \in Task, ResetAndEnqueue(c, t)
        PROVE  Mail!PostLatest(t)
    <3>1. posted' = posted \cup {t}
      <4>1. \A u \in Elements(storage) : u \in Task /\ fate[u] = "queued"
        BY ElementsOfTasks DEF DequeOnce
      <4>2. QED
        BY <2>2, <4>1 DEF ResetAndEnqueue, Append1
    <3>2. storage' = <<t>>
      <4>1. storage' = Append(<<>>, t)
        BY <2>2, Zenon DEF ResetAndEnqueue, Append1
      <4>2. QED
        BY <4>1
    <3>3. t \notin posted /\ busy' = busy /\ batch' = batch
      BY <2>2 DEF ResetAndEnqueue, Append1
    <3>4. QED
      BY <3>1, <3>2, <3>3, Zenon DEF Mail!PostLatest
  <2>3. ASSUME NEW w \in Worker, DequeueAll(w)
        PROVE  Mail!Take(w)
    <3>1. posted' = posted /\ busy' = busy
      BY <2>3, ElementsOfTasks DEF DequeueAll, DequeOnce
    <3>2. batch[w] = <<>>
      BY <2>3 DEF DequeueAll, EmptyBetween
    <3>3. QED
      BY <2>3, <3>1, <3>2 DEF DequeueAll, Mail!Take
  <2>4. ASSUME NEW w \in Worker, BeginTask(w)
        PROVE  Mail!Serve(w)
    <3>1. Head(batch[w]) \in Task /\ fate[Head(batch[w])] = "taken"
      BY <2>4, TailOnce, ElementsOfTasks DEF BeginTask, BatchesOnce, TakenInBatch, RunsAtHead
    <3>2. posted' = posted /\ busy' = busy \cup {w} /\ w \notin busy
      BY <2>4, <3>1 DEF BeginTask
    <3>3. QED
      BY <2>4, <3>2 DEF BeginTask, Mail!Serve
  <2>5. ASSUME NEW w \in Worker, TaskReturns(w)
        PROVE  Mail!Served(w)
    <3>1. Head(batch[w]) \in Task /\ fate[Head(batch[w])] = "running"
      BY <2>5, TailOnce, ElementsOfTasks DEF TaskReturns, BatchesOnce, RunsAtHead
    <3>2. posted' = posted /\ busy' = busy \ {w} /\ w \in busy
      BY <2>5, <3>1 DEF TaskReturns
    <3>3. QED
      BY <2>5, <3>2 DEF TaskReturns, Mail!Served
  <2>6. ASSUME NEW w \in Worker, TaskThrows(w)
        PROVE  Mail!Fail(w)
    <3>1. \A t \in Elements(batch[w]) : t \in Task /\ fate[t] # "new"
      BY ElementsOfTasks DEF TakenInBatch
    <3>2. Head(batch[w]) \in Elements(batch[w])
      BY <2>6, TailOnce DEF TaskThrows, BatchesOnce
    <3>3. posted' = posted /\ busy' = busy \ {w} /\ w \in busy
      BY <2>6, <3>1, <3>2 DEF TaskThrows
    <3>4. QED
      BY <2>6, <3>3 DEF TaskThrows, Mail!Fail
  <2>7. ASSUME NEW w \in Worker, TestClosing(w) \/ WakeForTasks(w) \/ WakeForNothing(w) \/ EndBatch(w)
        PROVE  UNCHANGED mapped
    BY <2>7 DEF TestClosing, WakeForTasks, WakeForNothing, EndBatch
  <2>8. ASSUME UNCHANGED <<storage, batch, pc, fate>>
        PROVE  UNCHANGED mapped
    BY <2>8
  <2>9. QED
    BY <2>1, <2>2, <2>3, <2>4, <2>5, <2>6, <2>7, <2>8
       DEF Next, Post, WorkerStep, RunTasks, SetEvent, StartClosing, SetExitEvent, vars
<1>3. QED
  BY <1>1, <1>2, TypeCorrect, TasksAreInOnePlace, PTL
     DEF Spec, ImplementsMailbox, Mail!MailSpec, Mail!mvars
=============================================================================
