-------------------------- MODULE TaskQueueMailbox --------------------------
(***************************************************************************)
(* A task queue and its workers implement a mailbox: the mail is the       *)
(* deque, a server's hand is its worker's batch.                           *)
(***************************************************************************)
EXTENDS TaskQueue

Mail == INSTANCE Mailbox WITH
    Letter <- Task,
    Server <- Worker,
    mail <- storage,
    hand <- batch,
    serving <- {w \in Worker : pc[w] = "task"},
    sent <- {t \in Task : fate[t] # "new"}

\* Every step of the queue, its events and its workers is a step of the mailbox
\* or leaves the mailbox alone: a worker that is woken by an event whose tasks
\* another worker has taken, or posts from inside its own task, does nothing a
\* sender could notice.
ImplementsMailbox == Mail!MailSpec
=============================================================================
