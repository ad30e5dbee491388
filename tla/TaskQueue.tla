------------------------------ MODULE TaskQueue ------------------------------
(***************************************************************************)
(* One platform::task_queue and the threads that run app.cpp's             *)
(* start_worker on it.                                                     *)
(*                                                                         *)
(* A task_queue is a deque under a lock and an auto-reset event.  Posting  *)
(* a task takes two steps, the append (under the lock) and the event's     *)
(* set(); a worker waits for the event, which resets it, swaps the whole   *)
(* deque out and runs the tasks it got, one after the other.  A task that  *)
(* throws ends the batch: the tasks behind it are dropped.  The window's   *)
(* close sets is_closing and then event_exit; a worker looks at is_closing *)
(* between batches only.                                                   *)
(*                                                                         *)
(* Tasks are distinct closures; what a task does is not modelled here      *)
(* except that it returns or throws and may post tasks while it runs.      *)
(***************************************************************************)
EXTENDS Naturals, Sequences

CONSTANTS
    Task,       \* the closures that are ever posted
    Producer,   \* the threads that post and do not serve this queue
    Worker      \* the threads that run start_worker on this queue

ASSUME ThreadsDiffer == Producer \cap Worker = {}

Caller == Producer \cup Worker

VARIABLES
    storage,    \* queue::_storage
    event,      \* task_queue::_event is signalled
    posting,    \* the callers between the append and _event.set()
    closing,    \* df::is_closing
    exitEvent,  \* platform::event_exit (manual reset, never reset)
    pc,         \* where each worker is in start_worker
    batch,      \* `tasks` of each worker, the one that runs first
    fate        \* what became of each task

vars == <<storage, event, posting, closing, exitEvent, pc, batch, fate>>

Settled == {"returned", "threw", "superseded", "dropped"}

Fate == {"new", "queued", "taken", "running"} \cup Settled

Elements(s) == {s[i] : i \in 1..Len(s)}

Once(s) == \A i, j \in 1..Len(s) : s[i] = s[j] => i = j

\* Every variable has its type; a worker inside a task has that task at the head
\* of its batch, and event_exit is only set once is_closing is.
TypeOK ==
    /\ storage \in Seq(Task)
    /\ event \in BOOLEAN
    /\ posting \in SUBSET Caller
    /\ closing \in BOOLEAN
    /\ exitEvent \in BOOLEAN
    /\ pc \in [Worker -> {"test", "wait", "dequeue", "next", "task", "stopped"}]
    /\ batch \in [Worker -> Seq(Task)]
    /\ fate \in [Task -> Fate]
    /\ exitEvent => closing
    /\ \A w \in Worker : pc[w] = "task" => batch[w] # <<>>

Init ==
    /\ storage = <<>>
    /\ event = FALSE
    /\ posting = {}
    /\ closing = FALSE
    /\ exitEvent = FALSE
    /\ pc = [w \in Worker |-> "test"]
    /\ batch = [w \in Worker |-> <<>>]
    /\ fate = [t \in Task |-> "new"]

-----------------------------------------------------------------------------
(* Slips of the kind these handlers invite.  They are no part of Spec: each  *)
(* takes the place of the definition it is named after when the properties   *)
(* are checked against it.                                                   *)

\* the event is set only by a caller that finds its task alone in the deque
SetEventIfAlone(c) ==
    /\ c \in posting
    /\ event' = (event \/ Len(storage) = 1)
    /\ posting' = posting \ {c}
    /\ UNCHANGED <<storage, closing, exitEvent, pc, batch, fate>>

\* event_exit.set() comes before is_closing = true
SetExitEventFirst ==
    /\ ~exitEvent
    /\ exitEvent' = TRUE
    /\ UNCHANGED <<storage, event, posting, closing, pc, batch, fate>>

\* the worker waits for its queue's event alone, with no timeout
WakeForNothingNever(w) == FALSE /\ UNCHANGED vars

\* the deque is copied and not swapped
DequeueAllCopies(w) ==
    /\ pc[w] = "dequeue"
    /\ batch' = [batch EXCEPT ![w] = storage]
    /\ fate' = [t \in Task |-> IF t \in Elements(storage) THEN "taken" ELSE fate[t]]
    /\ pc' = [pc EXCEPT ![w] = "next"]
    /\ UNCHANGED <<storage, event, posting, closing, exitEvent>>

\* the loop calls the task it has just called
TaskReturnsInPlace(w) ==
    /\ pc[w] = "task"
    /\ w \notin posting
    /\ fate' = [fate EXCEPT ![Head(batch[w])] = "returned"]
    /\ pc' = [pc EXCEPT ![w] = "next"]
    /\ UNCHANGED <<storage, batch, event, posting, closing, exitEvent>>

\* the catch puts the rest of the batch back at the end of the deque
TaskThrowsRequeues(w) ==
    /\ pc[w] = "task"
    /\ w \notin posting
    /\ fate' = [t \in Task |-> IF t = Head(batch[w]) THEN "threw"
                               ELSE IF t \in Elements(batch[w]) THEN "queued" ELSE fate[t]]
    /\ storage' = storage \o Tail(batch[w])
    /\ batch' = [batch EXCEPT ![w] = <<>>]
    /\ pc' = [pc EXCEPT ![w] = "test"]
    /\ UNCHANGED <<event, posting, closing, exitEvent>>

\* the event is reset once more when the batch is done
EndBatchResets(w) ==
    /\ pc[w] = "next"
    /\ batch[w] = <<>>
    /\ event' = FALSE
    /\ pc' = [pc EXCEPT ![w] = "test"]
    /\ UNCHANGED <<storage, posting, closing, exitEvent, batch, fate>>

-----------------------------------------------------------------------------
(* The callers *)

\* A worker posts only from inside a task it runs.
CanPost(c) == c \notin posting /\ (c \in Worker => pc[c] = "task")

\* Appends t; the tasks in gone leave the queue unrun.
Append1(t, kept, gone) ==
    /\ storage' = Append(kept, t)
    /\ fate' = [u \in Task |-> IF u = t THEN "queued"
                               ELSE IF u \in gone THEN "superseded" ELSE fate[u]]

\* task_queue::enqueue, up to the unlock
Enqueue(c, t) ==
    /\ CanPost(c)
    /\ fate[t] = "new"
    /\ Append1(t, storage, {})
    /\ posting' = posting \cup {c}
    /\ UNCHANGED <<event, closing, exitEvent, pc, batch>>

\* task_queue::reset_and_enqueue, up to the unlock
ResetAndEnqueue(c, t) ==
    /\ CanPost(c)
    /\ fate[t] = "new"
    /\ Append1(t, <<>>, Elements(storage))
    /\ posting' = posting \cup {c}
    /\ UNCHANGED <<event, closing, exitEvent, pc, batch>>

\* the _event.set() that ends both
SetEvent(c) ==
    /\ c \in posting
    /\ event' = TRUE
    /\ posting' = posting \ {c}
    /\ UNCHANGED <<storage, closing, exitEvent, pc, batch, fate>>

-----------------------------------------------------------------------------
(* The window's close, on the UI thread *)

StartClosing ==
    /\ ~closing
    /\ closing' = TRUE
    /\ UNCHANGED <<storage, event, posting, exitEvent, pc, batch, fate>>

SetExitEvent ==
    /\ closing /\ ~exitEvent
    /\ exitEvent' = TRUE
    /\ UNCHANGED <<storage, event, posting, closing, pc, batch, fate>>

-----------------------------------------------------------------------------
(* start_worker *)

\* while (!df::is_closing)
TestClosing(w) ==
    /\ pc[w] = "test"
    /\ pc' = [pc EXCEPT ![w] = IF closing THEN "stopped" ELSE "wait"]
    /\ UNCHANGED <<storage, event, posting, closing, exitEvent, batch, fate>>

\* wait_for returns 0: the queue's event was signalled, and is reset
WakeForTasks(w) ==
    /\ pc[w] = "wait"
    /\ event
    /\ event' = FALSE
    /\ pc' = [pc EXCEPT ![w] = "dequeue"]
    /\ UNCHANGED <<storage, posting, closing, exitEvent, batch, fate>>

\* wait_for returns 1 (event_exit) or the ten seconds are over: neither looks
\* at the queue.  The queue's event comes first in the list of handles.
WakeForNothing(w) ==
    /\ pc[w] = "wait"
    /\ ~event
    /\ pc' = [pc EXCEPT ![w] = "test"]
    /\ UNCHANGED <<storage, event, posting, closing, exitEvent, batch, fate>>

\* q.dequeue_all()
DequeueAll(w) ==
    /\ pc[w] = "dequeue"
    /\ batch' = [batch EXCEPT ![w] = storage]
    /\ storage' = <<>>
    /\ fate' = [t \in Task |-> IF t \in Elements(storage) THEN "taken" ELSE fate[t]]
    /\ pc' = [pc EXCEPT ![w] = "next"]
    /\ UNCHANGED <<event, posting, closing, exitEvent>>

\* the for loop calls its next task
BeginTask(w) ==
    /\ pc[w] = "next"
    /\ batch[w] # <<>>
    /\ fate' = [fate EXCEPT ![Head(batch[w])] = "running"]
    /\ pc' = [pc EXCEPT ![w] = "task"]
    /\ UNCHANGED <<storage, event, posting, closing, exitEvent, batch>>

\* the call returns
TaskReturns(w) ==
    /\ pc[w] = "task"
    /\ w \notin posting
    /\ fate' = [fate EXCEPT ![Head(batch[w])] = "returned"]
    /\ batch' = [batch EXCEPT ![w] = Tail(batch[w])]
    /\ pc' = [pc EXCEPT ![w] = "next"]
    /\ UNCHANGED <<storage, event, posting, closing, exitEvent>>

\* the call throws a std::exception: the catch is outside the for loop
TaskThrows(w) ==
    /\ pc[w] = "task"
    /\ w \notin posting
    /\ fate' = [t \in Task |-> IF t = Head(batch[w]) THEN "threw"
                               ELSE IF t \in Elements(batch[w]) THEN "dropped" ELSE fate[t]]
    /\ batch' = [batch EXCEPT ![w] = <<>>]
    /\ pc' = [pc EXCEPT ![w] = "test"]
    /\ UNCHANGED <<storage, event, posting, closing, exitEvent>>

\* the for loop is over
EndBatch(w) ==
    /\ pc[w] = "next"
    /\ batch[w] = <<>>
    /\ pc' = [pc EXCEPT ![w] = "test"]
    /\ UNCHANGED <<storage, event, posting, closing, exitEvent, batch, fate>>

-----------------------------------------------------------------------------

RunTasks(w) == BeginTask(w) \/ TaskReturns(w) \/ TaskThrows(w) \/ EndBatch(w)

WorkerStep(w) ==
    TestClosing(w) \/ WakeForTasks(w) \/ WakeForNothing(w) \/ DequeueAll(w) \/ RunTasks(w)

Post(c) == \E t \in Task : Enqueue(c, t) \/ ResetAndEnqueue(c, t)

Next ==
    \/ \E c \in Caller : Post(c) \/ SetEvent(c)
    \/ \E w \in Worker : WorkerStep(w)
    \/ StartClosing
    \/ SetExitEvent

Spec == Init /\ [][Next]_vars

\* Threads keep being scheduled and every task ends.  Nobody has to post or to
\* close the window.
Fairness ==
    /\ \A c \in Caller : WF_vars(SetEvent(c))
    /\ \A w \in Worker : WF_vars(WorkerStep(w))
    /\ WF_vars(SetExitEvent)

FairSpec == Spec /\ Fairness

-----------------------------------------------------------------------------
(* What the queue promises *)

\* No wakeup is lost.  A worker that wakes for another reason than the event
\* does not look at the deque (start_worker's wait is not 0), so a task left in
\* it with nobody about to come for it would stay there: whenever the deque is
\* not empty the event is signalled, or a caller is about to signal it, or a
\* worker has been woken and is about to take everything.
NoLostWakeup ==
    storage # <<>> => \/ event
                      \/ posting # {}
                      \/ \E w \in Worker : pc[w] = "dequeue"

DequeOnce ==
    /\ Once(storage)
    /\ \A t \in Task : fate[t] = "queued" <=> t \in Elements(storage)

BatchesOnce ==
    /\ \A w \in Worker : Once(batch[w])
    /\ \A v, w \in Worker : v # w => Elements(batch[v]) \cap Elements(batch[w]) = {}

TakenInBatch ==
    \A t \in Task :
        fate[t] \in {"taken", "running"} <=> \E w \in Worker : t \in Elements(batch[w])

RunsAtHead ==
    \A w \in Worker : \A t \in Elements(batch[w]) :
        fate[t] = "running" <=> (pc[w] = "task" /\ t = Head(batch[w]))

EmptyBetween == \A w \in Worker : pc[w] \notin {"next", "task"} => batch[w] = <<>>

\* A task is in one place, once: in the deque while its fate is "queued", in
\* one worker's batch while it is "taken" or "running", nowhere otherwise, and
\* the one that runs is the head of its batch.  The swap of dequeue_all is what
\* keeps a second worker, woken by a later event, from finding the same task; a
\* batch is taken only when the one before is used up.
EachTaskOnce ==
    /\ DequeOnce /\ BatchesOnce /\ TakenInBatch /\ RunsAtHead /\ EmptyBetween

\* A task is run at most once: what became of a task is final, and a task only
\* starts from a batch.
RunsOnce ==
    [][\A t \in Task : /\ fate[t] \in Settled => fate'[t] = fate[t]
                       /\ (fate'[t] = "running" /\ fate[t] # "running") => fate[t] = "taken"]_vars

\* Every posted task is settled, unless the program closes first.
EveryTaskSettles ==
    \A t \in Task : fate[t] = "queued" ~> (fate[t] \in Settled \/ closing)

\* After the window's close every worker leaves its loop, so that
\* app_frame::exit's join returns.
WorkersStop == closing ~> \A w \in Worker : pc[w] = "stopped"
=============================================================================
