-------------------------------- MODULE Sync --------------------------------
(***************************************************************************)
(* The synchronization of a collection with a remote folder: sync_analysis *)
(* and sync_copy, as a task of the work thread.                            *)
(*                                                                         *)
(* The analysis lists the local roots and then the remote folder, folder   *)
(* by folder, and decides for each relative path what is to be done; then  *)
(* the files are copied and deleted one by one.  Nothing is looked at a    *)
(* second time: files that change after they were listed are copied or     *)
(* deleted as they were seen.  A folder that cannot be listed looks like   *)
(* an empty one, and a hidden file, which a listing leaves out unless      *)
(* hidden files are shown, like one that does not exist.                   *)
(*                                                                         *)
(* A file is its modification date, 0 when there is none; a copy keeps the *)
(* date.  Two files of one date are taken for the same, as the code does.  *)
(***************************************************************************)
EXTENDS Naturals

CONSTANTS
    Roots,      \* how many local roots there are; they are listed from the last
                \* to the first, and the first is where new files go
    File,       \* the relative paths
    MaxDate     \* bound on the dates

ASSUME SyncAssumption == Roots \in Nat \ {0} /\ MaxDate \in Nat

Root == 1..Roots
Remote == 0
Place == Root \cup {Remote}
Date == 0..MaxDate

Flags == [localRemote : BOOLEAN, remoteLocal : BOOLEAN,
          deleteLocal : BOOLEAN, deleteRemote : BOOLEAN]

Action == {"none", "copy_local", "copy_remote", "delete_local", "delete_remote"}

VARIABLES
    tree,       \* tree[p][f], the files of each place
    phase,         \* what the work thread does
    flags,      \* setting.sync
    next,       \* the root that is listed next
    local,      \* sync_analysis_item: the root a file was found in, 0 for none,
    seen,       \* and the date it was seen with there
    action,     \* what is still to be done
    unlisted, changed, undone,  \* in this synchronization a file was left out of a
                                \* listing, somebody else changed a file, a copy or
                                \* a deletion failed
    twins       \* when it began there were files of one relative path in two roots

analysis == <<next, local, seen, action>>
observed == <<unlisted, changed, undone, twins>>
syncVars == <<tree, phase, flags, analysis, observed>>

SyncTypeOK ==
    /\ tree \in [Place -> [File -> Date]]
    /\ phase \in {"idle", "local", "remote", "copy"}
    /\ flags \in Flags
    /\ next \in Root \cup {0} /\ (next # 0 <=> phase = "local")
    /\ local \in [File -> Root \cup {0}]
    /\ seen \in [File -> Date]
    /\ action \in [File -> Action]
    /\ unlisted \in BOOLEAN /\ changed \in BOOLEAN /\ undone \in BOOLEAN /\ twins \in BOOLEAN
    /\ phase = "copy" \/ action = [f \in File |-> "none"]

Nothing == [f \in File |-> 0]
NoAction == [f \in File |-> "none"]

Unset == [localRemote |-> FALSE, remoteLocal |-> FALSE, deleteLocal |-> FALSE, deleteRemote |-> FALSE]

SyncInit ==
    /\ tree \in [Place -> [File -> Date]]
    /\ phase = "idle"
    /\ flags = Unset
    /\ next = 0 /\ local = Nothing /\ seen = Nothing /\ action = NoAction
    /\ unlisted = FALSE /\ changed = FALSE /\ undone = FALSE /\ twins = FALSE

\* The files that come out of a place's folders. Those in left do not: hidden ones, and
\* the files of a folder that is hidden or excluded or cannot be listed.
Visible(p, left) == {f \in File \ left : tree[p][f] # 0}

LeavesOut(p, left) == \E f \in left : tree[p][f] # 0

-----------------------------------------------------------------------------
(* Slips of the kind these steps invite, no part of SyncSpec. *)

\* whatever differs is copied to the remote place first
DecideDiffers(f, there) ==
    IF local[f] # 0 /\ flags.localRemote /\ seen[f] # there THEN "copy_remote"
    ELSE IF there # 0 /\ flags.remoteLocal /\ local[f] = 0 THEN "copy_local"
    ELSE "none"

\* a copy has the date of the day
CopiedToday(from, to, f) ==
    /\ tree[from][f] # 0
    /\ tree' = [tree EXCEPT ![to][f] = MaxDate]

-----------------------------------------------------------------------------
(* sync_analysis *)

\* A file is in one root at most.
NoTwins == \A f \in File, p, q \in Root : tree[p][f] # 0 /\ tree[q][f] # 0 => p = q

\* without the copies of their direction the deletions are not looked at
Start(fl) ==
    /\ phase = "idle"
    /\ fl.deleteLocal => fl.remoteLocal
    /\ fl.deleteRemote => fl.localRemote
    /\ flags' = fl
    /\ next' = Roots
    /\ phase' = "local"
    /\ twins' = ~NoTwins
    /\ UNCHANGED <<tree, local, seen, action, unlisted, changed, undone>>

\* one root; an entry of a root listed before is overwritten
ListRoot(left) ==
    LET found == Visible(next, left) IN
    /\ phase = "local"
    /\ local' = [f \in File |-> IF f \in found THEN next ELSE local[f]]
    /\ seen' = [f \in File |-> IF f \in found THEN tree[next][f] ELSE seen[f]]
    /\ unlisted' = (unlisted \/ LeavesOut(next, left))
    /\ next' = next - 1
    /\ phase' = IF next = 1 THEN "remote" ELSE "local"
    /\ UNCHANGED <<tree, flags, action, changed, undone, twins>>

Decided(f, there) ==
    LET here == seen[f]
    IN  IF here > there /\ flags.localRemote THEN "copy_remote"
        ELSE IF there > here /\ flags.remoteLocal THEN "copy_local"
        ELSE IF here # 0 /\ there = 0 /\ flags.remoteLocal /\ flags.deleteLocal THEN "delete_local"
        ELSE IF there # 0 /\ here = 0 /\ flags.localRemote /\ flags.deleteRemote THEN "delete_remote"
        ELSE "none"

\* the remote folder; and what is to be done follows from what was seen
ListRemote(left) ==
    LET there == [f \in File |-> IF f \in Visible(Remote, left) THEN tree[Remote][f] ELSE 0] IN
    /\ phase = "remote"
    /\ action' = [f \in File |-> Decided(f, there[f])]
    /\ unlisted' = (unlisted \/ LeavesOut(Remote, left))
    /\ phase' = "copy"
    /\ UNCHANGED <<tree, flags, next, local, seen, changed, undone, twins>>

-----------------------------------------------------------------------------
(* sync_copy *)

\* where a file is, or is to be, locally
Home(f) == IF local[f] = 0 THEN 1 ELSE local[f]

\* CopyFile overwrites; it copies what there is now
Copied(from, to, f) ==
    /\ tree[from][f] # 0
    /\ tree' = [tree EXCEPT ![to][f] = tree[from][f]]

Done(f) == action' = [action EXCEPT ![f] = "none"]

Perform(f) ==
    /\ phase = "copy" /\ action[f] # "none"
    /\ \/ action[f] = "copy_local" /\ Copied(Remote, Home(f), f)
       \/ action[f] = "copy_remote" /\ Copied(Home(f), Remote, f)
       \/ action[f] = "delete_local" /\ tree' = [tree EXCEPT ![Home(f)][f] = 0]
       \/ action[f] = "delete_remote" /\ tree' = [tree EXCEPT ![Remote][f] = 0]
    /\ Done(f)
    /\ UNCHANGED <<phase, flags, next, local, seen, observed>>

\* the source is gone, the folder cannot be created, a file is in use
PerformFails(f) ==
    /\ phase = "copy" /\ action[f] # "none"
    /\ Done(f)
    /\ undone' = TRUE
    /\ UNCHANGED <<tree, phase, flags, next, local, seen, unlisted, changed, twins>>

\* The task is over, and its analysis forgotten.
Forget ==
    /\ phase' = "idle"
    /\ flags' = Unset
    /\ next' = 0 /\ local' = Nothing /\ seen' = Nothing /\ action' = NoAction
    /\ unlisted' = FALSE /\ changed' = FALSE /\ undone' = FALSE /\ twins' = FALSE
    /\ UNCHANGED tree

FinishSync ==
    /\ phase = "copy" /\ action = NoAction
    /\ Forget

-----------------------------------------------------------------------------
(* The others *)

\* ui::cancel_gen is counted up: the token is looked at before every folder and
\* every copy.
Cancel ==
    /\ phase # "idle"
    /\ Forget

\* Somebody changes, makes or deletes a file while it goes on.
Change(p, f, d) ==
    /\ phase # "idle" /\ d # tree[p][f] /\ ~changed
    /\ d = 0 \/ \A q \in Place : d > tree[q][f]
    /\ tree' = [tree EXCEPT ![p][f] = d]
    /\ changed' = TRUE
    /\ UNCHANGED <<phase, flags, analysis, unlisted, undone, twins>>

SyncNext ==
    \/ \E fl \in Flags : Start(fl)
    \/ \E left \in SUBSET File : ListRoot(left) \/ ListRemote(left)
    \/ FinishSync \/ Cancel
    \/ \E f \in File : Perform(f) \/ PerformFails(f)
    \/ \E p \in Place, f \in File, d \in Date : Change(p, f, d)

SyncSpec == SyncInit /\ [][SyncNext]_syncVars

-----------------------------------------------------------------------------

\* What the four check boxes say of one step: a file is copied only over an older
\* one, and deleted only if it does not exist on the other side.
AsLabelled(f) ==
    /\ \A p \in Place : (tree'[p][f] # 0) => tree'[p][f] >= tree[p][f]
    /\ \A p \in Root : (tree'[p][f] = 0 /\ tree[p][f] # 0) => tree[Remote][f] = 0
    /\ (tree'[Remote][f] = 0 /\ tree[Remote][f] # 0) => \A p \in Root : tree[p][f] = 0

Undisturbed == phase = "copy" /\ ~changed /\ ~changed'

LabelsHold == [][Undisturbed => \A f \in File : AsLabelled(f)]_syncVars

\* They hold when every file was listed, whatever was cancelled or failed.
DoesAsLabelled == (Undisturbed /\ ~unlisted) => \A f \in File : AsLabelled(f)

LabelsHoldWhenListed == [][DoesAsLabelled]_syncVars

\* What another synchronization would see, and do, if all went well.
FirstDate(dates) ==
    LET having == {p \in Root : dates[p] # 0}
    IN  IF having = {} THEN 0 ELSE dates[CHOOSE p \in having : \A q \in having : p <= q]

Settled(f) ==
    LET here == FirstDate([p \in Root |-> tree[p][f]])
        there == tree[Remote][f]
    IN  /\ flags.localRemote => here <= there
        /\ flags.remoteLocal => there <= here
        /\ flags.localRemote /\ flags.deleteRemote => here # 0 \/ there = 0
        /\ flags.remoteLocal /\ flags.deleteLocal => there # 0 \/ here = 0

\* A synchronization that was not disturbed leaves nothing for another one to do,
\* as long as no two roots have a file of the same name.
SyncSettles ==
    (phase = "copy" /\ action = NoAction /\ ~twins
        /\ ~unlisted /\ ~changed /\ ~undone) => \A f \in File : Settled(f)
=============================================================================
