---------------------------- MODULE MCTaskQueue ----------------------------
(* The instance of TaskQueue for TLC. *)
EXTENDS TaskQueueMailbox
=============================================================================
