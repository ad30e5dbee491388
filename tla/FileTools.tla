----------------------------- MODULE FileTools -----------------------------
(***************************************************************************)
(* The tools that change files: an update of photos, an import or a        *)
(* synchronization, side by side so that one run checks all three.  A      *)
(* behaviour is one tool's from its beginning to its end; what one tool    *)
(* leaves to another is not modelled, and the others stay where they       *)
(* begin.                                                                  *)
(***************************************************************************)
EXTENDS FileUpdate, Sync, Import

VARIABLES tool

ToolsInit ==
    /\ tool \in {"update", "sync", "import"}
    /\ Init /\ SyncInit /\ ImportInit
    /\ tool # "update" => ~embeds /\ ~big
    /\ tool # "sync" => tree = [p \in Place |-> Nothing]
    /\ tool # "import" => source = [i \in Item |-> 1]

ToolsNext ==
    \/ tool = "update" /\ Next /\ UNCHANGED <<tool, syncVars, importVars>>
    \/ tool = "sync" /\ SyncNext /\ UNCHANGED <<tool, vars, importVars>>
    \/ tool = "import" /\ ImportNext /\ UNCHANGED <<tool, vars, syncVars>>

ToolsSpec == ToolsInit /\ [][ToolsNext]_<<tool, vars, syncVars, importVars>>

TypesOK == TypeOK /\ SyncTypeOK /\ ImportTypeOK
=============================================================================
