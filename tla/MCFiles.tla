------------------------------ MODULE MCFiles ------------------------------
(* Instances of FileTools for TLC. *)
EXTENDS FileTools, MCImport
=============================================================================
