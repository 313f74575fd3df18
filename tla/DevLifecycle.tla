---------------------------- MODULE DevLifecycle ----------------------------
(***************************************************************************)
(* The development installer (src/development_lifecycle.rs).  Workers      *)
(* build the current source and publish three files into one root:         *)
(* asb-tui, provenance.json and, when ASB supplied one,                    *)
(* channel-manifest.json.  There is no lock and no fsync; publication is   *)
(* one rename per file, an upgrade first moves the old files into a backup *)
(* directory of its own.                                                   *)
(*                                                                         *)
(* A build stands for a source revision and the executable it compiles to. *)
(* The contents of the files are abstracted to the build they belong to;   *)
(* provenance.json also says whether a manifest was bound to it.           *)
(***************************************************************************)
EXTENDS Integers, Sequences

CONSTANTS
    DevWorker,      \* processes or TUI worker threads that run an operation
    DevBuild,       \* source revisions the repository may be at
    DevNone,        \* a file that does not exist
    DevMaxFaults    \* bound on kills and failed renames

ASSUME DevLifecycleAssumption ==
    /\ DevNone \notin DevBuild
    /\ DevNone \notin [build : DevBuild, bound : BOOLEAN]
    /\ DevMaxFaults \in Nat

VARIABLES
    root,        \* the installed files
    stage,       \* the files each worker has staged
    saved,       \* the files each worker moved to its .backup- or .remove- directory
    before,      \* the root, and the faults so far, when the worker started to change it
    pc, op,      \* where each worker is, and in which operation
    at,          \* which of the three files its loop is at
    res,         \* its outcome
    faults       \* kills and failed renames so far

devVars == <<root, stage, saved, before, pc, op, at, res, faults>>

DevNames == <<"exe", "prov", "man">>
Provenance == [build : DevBuild, bound : BOOLEAN]
Files == [exe : DevBuild \cup {DevNone}, prov : Provenance \cup {DevNone}, man : DevBuild \cup {DevNone}]
NoFiles == [exe |-> DevNone, prov |-> DevNone, man |-> DevNone]
Mark == [files |-> root, faults |-> faults]
NoMark == [files |-> NoFiles, faults |-> 0]

PC == {"idle", "build", "backup", "activate", "undo", "restore",
       "trash", "putback", "done"}

DevTypeOK ==
    /\ root \in Files
    /\ stage \in [DevWorker -> Files]
    /\ saved \in [DevWorker -> Files]
    /\ before \in [DevWorker -> [files : Files, faults : 0..DevMaxFaults]]
    /\ pc \in [DevWorker -> PC]
    /\ op \in [DevWorker -> {"none", "install", "upgrade", "remove"}]
    /\ at \in [DevWorker -> 1..4]
    /\ res \in [DevWorker -> {"none", "ok", "error"}]
    /\ faults \in 0..DevMaxFaults

DevInit ==
    /\ root = NoFiles
    /\ stage = [w \in DevWorker |-> NoFiles]
    /\ saved = [w \in DevWorker |-> NoFiles]
    /\ before = [w \in DevWorker |-> NoMark]
    /\ pc = [w \in DevWorker |-> "idle"]
    /\ op = [w \in DevWorker |-> "none"]
    /\ at = [w \in DevWorker |-> 1]
    /\ res = [w \in DevWorker |-> "none"]
    /\ faults = 0

-----------------------------------------------------------------------------

Goto(w, l) == pc' = [pc EXCEPT ![w] = l] /\ at' = [at EXCEPT ![w] = 1]

DevReturn(w, r) ==
    /\ Goto(w, "done")
    /\ res' = [res EXCEPT ![w] = r]
    /\ stage' = [stage EXCEPT ![w] = NoFiles]

(* The file the worker's loop is at, and the loop's step and end. *)
DevName(w) == DevNames[at[w]]
Looping(w, l) == pc[w] = l /\ at[w] <= Len(DevNames)
Looped(w, l) == pc[w] = l /\ at[w] > Len(DevNames)
NextName(w) == at' = [at EXCEPT ![w] = @ + 1] /\ UNCHANGED pc

(* status(): installed and verified. *)
Installed(r) == r.prov # DevNone /\ r.exe # DevNone
Verified(r) ==
    /\ Installed(r)
    /\ r.exe = r.prov.build
    /\ r.man = IF r.prov.bound THEN r.prov.build ELSE DevNone

Fault == faults < DevMaxFaults /\ faults' = faults + 1

-----------------------------------------------------------------------------
(* install and upgrade: execute_with_cancel and materialize *)

(* install refuses an existing provenance, upgrade a missing one. *)
DevStart(w, o) ==
    /\ pc[w] = "idle"
    /\ o = "install" => root.prov = DevNone
    /\ o = "upgrade" => root.prov # DevNone
    /\ op' = [op EXCEPT ![w] = o]
    /\ Goto(w, "build")
    /\ UNCHANGED <<root, stage, saved, before, res, faults>>

(* build_candidate, the optional manifest, and the staged files.  The root is *)
(* not looked at again after the build.                                       *)
BuildAndStage(w, b, bound) ==
    /\ pc[w] = "build"
    /\ stage' = [stage EXCEPT ![w] =
          [exe |-> b, prov |-> [build |-> b, bound |-> bound], man |-> IF bound THEN b ELSE DevNone]]
    /\ before' = [before EXCEPT ![w] = Mark]
    /\ Goto(w, IF op[w] = "upgrade" THEN "backup" ELSE "activate")
    /\ UNCHANGED <<root, saved, op, res, faults>>

(* The build fails, is cancelled, or the manifest does not fit it. *)
BuildFails(w) ==
    /\ pc[w] = "build"
    /\ DevReturn(w, "error")
    /\ before' = [before EXCEPT ![w] = Mark]
    /\ UNCHANGED <<root, saved, op, faults>>

(* A careless variant: the manifest is not part of what is replaced. *)
BackupPair(w) ==
    /\ Looping(w, "backup")
    /\ IF root[DevName(w)] # DevNone /\ DevName(w) # "man"
       THEN /\ saved' = [saved EXCEPT ![w][DevName(w)] = root[DevName(w)]]
            /\ root' = [root EXCEPT ![DevName(w)] = DevNone]
       ELSE UNCHANGED <<root, saved>>
    /\ NextName(w)
    /\ UNCHANGED <<stage, before, op, res, faults>>

(* A careless variant: the old files are deleted. *)
BackupByDeleting(w) ==
    /\ Looping(w, "backup")
    /\ root' = [root EXCEPT ![DevName(w)] = DevNone]
    /\ NextName(w)
    /\ UNCHANGED <<stage, saved, before, op, res, faults>>

(* The old files move into the backup one by one. *)
Backup(w) ==
    /\ Looping(w, "backup")
    /\ IF root[DevName(w)] # DevNone
       THEN /\ saved' = [saved EXCEPT ![w][DevName(w)] = root[DevName(w)]]
            /\ root' = [root EXCEPT ![DevName(w)] = DevNone]
       ELSE UNCHANGED <<root, saved>>
    /\ NextName(w)
    /\ UNCHANGED <<stage, before, op, res, faults>>

BackedUp(w) ==
    /\ Looped(w, "backup")
    /\ Goto(w, "activate")
    /\ UNCHANGED <<root, stage, saved, before, op, res, faults>>

BackupFails(w) ==
    /\ Looping(w, "backup") /\ root[DevName(w)] # DevNone
    /\ Fault
    /\ Goto(w, "putback")
    /\ UNCHANGED <<root, stage, saved, before, op, res>>

(* A careless variant: the loop counts on after its last file. *)
ActivateUnbounded(w) ==
    /\ pc[w] = "activate"
    /\ IF at[w] <= Len(DevNames) /\ stage[w][DevName(w)] # DevNone
       THEN /\ root' = [root EXCEPT ![DevName(w)] = stage[w][DevName(w)]]
            /\ stage' = [stage EXCEPT ![w][DevName(w)] = DevNone]
       ELSE UNCHANGED <<root, stage>>
    /\ NextName(w)
    /\ UNCHANGED <<saved, before, op, res, faults>>

(* rename_entry 1, 2 and, with a manifest, 3. *)
Activate(w) ==
    /\ Looping(w, "activate")
    /\ IF stage[w][DevName(w)] # DevNone
       THEN /\ root' = [root EXCEPT ![DevName(w)] = stage[w][DevName(w)]]
            /\ stage' = [stage EXCEPT ![w][DevName(w)] = DevNone]
       ELSE UNCHANGED <<root, stage>>
    /\ NextName(w)
    /\ UNCHANGED <<saved, before, op, res, faults>>

ActivateFails(w) ==
    /\ Looping(w, "activate") /\ stage[w][DevName(w)] # DevNone
    /\ Fault
    /\ Goto(w, "undo")
    /\ UNCHANGED <<root, stage, saved, before, op, res>>

(* A careless variant of the rollback: a new file without an old one stays. *)
UndoOldOnly(w) ==
    /\ Looping(w, "undo")
    /\ IF saved[w][DevName(w)] # DevNone
       THEN /\ root' = [root EXCEPT ![DevName(w)] = DevNone]
            /\ pc' = [pc EXCEPT ![w] = "restore"] /\ UNCHANGED at
       ELSE NextName(w) /\ UNCHANGED root
    /\ UNCHANGED <<stage, saved, before, op, res, faults>>

(* The rollback, per file: what is there is removed, then the old one moves   *)
(* back.                                                                      *)
Undo(w) ==
    /\ Looping(w, "undo")
    /\ root' = [root EXCEPT ![DevName(w)] = DevNone]
    /\ pc' = [pc EXCEPT ![w] = "restore"]
    /\ UNCHANGED <<stage, saved, before, op, at, res, faults>>

(* The error of the removal is ignored too. *)
UndoFails(w) ==
    /\ Looping(w, "undo") /\ root[DevName(w)] # DevNone
    /\ Fault
    /\ pc' = [pc EXCEPT ![w] = "restore"]
    /\ UNCHANGED <<root, stage, saved, before, op, at, res>>

Restore(w) ==
    /\ Looping(w, "restore")
    /\ IF saved[w][DevName(w)] # DevNone
       THEN /\ root' = [root EXCEPT ![DevName(w)] = saved[w][DevName(w)]]
            /\ saved' = [saved EXCEPT ![w][DevName(w)] = DevNone]
       ELSE UNCHANGED <<root, saved>>
    /\ pc' = [pc EXCEPT ![w] = "undo"]
    /\ at' = [at EXCEPT ![w] = @ + 1]
    /\ UNCHANGED <<stage, before, op, res, faults>>

(* The error of a rename that moves a file back is ignored. *)
RestoreFails(w) ==
    /\ Looping(w, "restore") /\ saved[w][DevName(w)] # DevNone
    /\ Fault
    /\ pc' = [pc EXCEPT ![w] = "undo"]
    /\ at' = [at EXCEPT ![w] = @ + 1]
    /\ UNCHANGED <<root, stage, saved, before, op, res>>

(* The backup directory is deleted, with whatever is still in it. *)
Undone(w) ==
    /\ Looped(w, "undo")
    /\ saved' = [saved EXCEPT ![w] = NoFiles]
    /\ DevReturn(w, "error")
    /\ UNCHANGED <<root, before, op, faults>>

Activated(w) ==
    /\ Looped(w, "activate")
    /\ saved' = [saved EXCEPT ![w] = NoFiles]
    /\ DevReturn(w, IF Verified(root) THEN "ok" ELSE "error")
    /\ UNCHANGED <<root, before, op, faults>>

(* A careless variant: the loop does not move on from a missing file. *)
PutBackPresent(w) ==
    /\ Looping(w, "putback")
    /\ saved[w][DevName(w)] # DevNone
    /\ root' = [root EXCEPT ![DevName(w)] = saved[w][DevName(w)]]
    /\ saved' = [saved EXCEPT ![w][DevName(w)] = DevNone]
    /\ NextName(w)
    /\ UNCHANGED <<stage, before, op, res, faults>>

(* The error path of a backup or a removal: every moved file moves back. *)
PutBack(w) ==
    /\ Looping(w, "putback")
    /\ IF saved[w][DevName(w)] # DevNone
       THEN /\ root' = [root EXCEPT ![DevName(w)] = saved[w][DevName(w)]]
            /\ saved' = [saved EXCEPT ![w][DevName(w)] = DevNone]
       ELSE UNCHANGED <<root, saved>>
    /\ NextName(w)
    /\ UNCHANGED <<stage, before, op, res, faults>>

PutBackFails(w) ==
    /\ Looping(w, "putback") /\ saved[w][DevName(w)] # DevNone
    /\ Fault
    /\ NextName(w)
    /\ UNCHANGED <<root, stage, saved, before, op, res>>

PutAllBack(w) ==
    /\ Looped(w, "putback")
    /\ saved' = [saved EXCEPT ![w] = NoFiles]
    /\ DevReturn(w, "error")
    /\ UNCHANGED <<root, before, op, faults>>

-----------------------------------------------------------------------------
(* remove *)

StartRemove(w) ==
    /\ pc[w] = "idle"
    /\ Installed(root)
    /\ op' = [op EXCEPT ![w] = "remove"]
    /\ before' = [before EXCEPT ![w] = Mark]
    /\ Goto(w, "trash")
    /\ UNCHANGED <<root, stage, saved, res, faults>>

Trash(w) ==
    /\ Looping(w, "trash")
    /\ IF root[DevName(w)] # DevNone
       THEN /\ saved' = [saved EXCEPT ![w][DevName(w)] = root[DevName(w)]]
            /\ root' = [root EXCEPT ![DevName(w)] = DevNone]
       ELSE UNCHANGED <<root, saved>>
    /\ NextName(w)
    /\ UNCHANGED <<stage, before, op, res, faults>>

TrashFails(w) ==
    /\ Looping(w, "trash") /\ root[DevName(w)] # DevNone
    /\ Fault
    /\ Goto(w, "putback")
    /\ UNCHANGED <<root, stage, saved, before, op, res>>

(* The trash directory is deleted; when that fails what is left of it moves   *)
(* back.                                                                      *)
EmptyTrash(w) ==
    /\ Looped(w, "trash")
    /\ saved' = [saved EXCEPT ![w] = NoFiles]
    /\ DevReturn(w, "ok")
    /\ UNCHANGED <<root, before, op, faults>>

EmptyTrashFails(w) ==
    /\ Looped(w, "trash")
    /\ Fault
    /\ \E gone \in SUBSET {"exe", "prov", "man"} :
          saved' = [saved EXCEPT ![w] =
                       [n \in DOMAIN @ |-> IF n \in gone THEN DevNone ELSE @[n]]]
    /\ Goto(w, "putback")
    /\ UNCHANGED <<root, stage, before, op, res>>

-----------------------------------------------------------------------------

DevFinish(w) ==
    /\ pc[w] = "done"
    /\ Goto(w, "idle")
    /\ op' = [op EXCEPT ![w] = "none"]
    /\ res' = [res EXCEPT ![w] = "none"]
    /\ before' = [before EXCEPT ![w] = NoMark]
    /\ UNCHANGED <<root, stage, saved, faults>>

(* The worker is killed (the TUI waits five seconds for it when it quits).    *)
(* Its stage and its backup stay behind under names nothing looks for again.  *)
DevKill(w) ==
    /\ pc[w] # "idle"
    /\ Fault
    /\ Goto(w, "idle")
    /\ op' = [op EXCEPT ![w] = "none"]
    /\ res' = [res EXCEPT ![w] = "none"]
    /\ before' = [before EXCEPT ![w] = NoMark]
    /\ stage' = [stage EXCEPT ![w] = NoFiles]
    /\ saved' = [saved EXCEPT ![w] = NoFiles]
    /\ UNCHANGED root

(* The steps a worker takes by itself, and the ones that fail. *)
DevStep(w) ==
    \/ BuildFails(w) \/ \E b \in DevBuild, bound \in BOOLEAN : BuildAndStage(w, b, bound)
    \/ Backup(w) \/ BackedUp(w) \/ Activate(w) \/ Activated(w)
    \/ Undo(w) \/ Restore(w) \/ Undone(w) \/ PutBack(w) \/ PutAllBack(w)
    \/ Trash(w) \/ EmptyTrash(w) \/ DevFinish(w)

StepFails(w) ==
    \/ BackupFails(w) \/ ActivateFails(w) \/ UndoFails(w) \/ RestoreFails(w)
    \/ PutBackFails(w) \/ TrashFails(w) \/ EmptyTrashFails(w)

DevRequest(w) == DevStart(w, "install") \/ DevStart(w, "upgrade") \/ StartRemove(w)

DevNext == \E w \in DevWorker : DevRequest(w) \/ DevStep(w) \/ StepFails(w) \/ DevKill(w)

DevSpec == DevInit /\ [][DevNext]_devVars

DevFairSpec == DevSpec /\ \A w \in DevWorker : WF_devVars(DevStep(w))

-----------------------------------------------------------------------------
(* Properties *)

(* The worker's operation ended with an error it handled itself. *)
DevFailed(w) == pc[w] = "done" /\ res[w] = "error"

(* `a failed upgrade must never leave a half-new installation active': after *)
(* one failed rename, wherever it happens and whatever an earlier kill left,  *)
(* the files are what they were.  (A second failure may hit the rollback,     *)
(* whose errors the code ignores.)                                           *)
FailedUpgradeRestores ==
    \A w \in DevWorker : (DevFailed(w) /\ op[w] = "upgrade" /\ faults <= before[w].faults + 1) =>
        root = before[w].files

(* Until the new files are all in place, every file of the previous          *)
(* installation still exists, in the root or in the backup.                  *)
PreviousKept ==
    \A w \in DevWorker : (op[w] = "upgrade" /\ pc[w] \in {"backup", "activate", "undo", "restore", "putback"}) =>
        \A n \in DOMAIN root : before[w].files[n] # DevNone =>
            before[w].files[n] \in {root[n], saved[w][n]}

(* An upgrade that fails gives the previous installation back, and does not  *)
(* let go of any of its files before that (materialize, the rollback).       *)
FailureKeepsPrevious == FailedUpgradeRestores /\ PreviousKept

(* Whatever torn set of files a kill left behind, an upgrade that gets       *)
(* through makes a verified installation of it again.                        *)
UpgradeRepairs ==
    \A w \in DevWorker : (Looped(w, "activate") /\ op[w] = "upgrade") => Verified(root)

(* Every operation ends, and ends with all its own files put away. *)
DevOperationsEnd == \A w \in DevWorker : pc[w] # "idle" ~> pc[w] = "idle"

(* `Publication is atomic': whenever nobody is at work, the executable and   *)
(* its provenance are a pair, or there is neither.                           *)
PublicationIsAtomic ==
    (\A w \in DevWorker : pc[w] = "idle") =>
        \/ root.exe = DevNone /\ root.prov = DevNone
        \/ Installed(root) /\ root.exe = root.prov.build

(* What was there survives a failure, and an upgrade repairs what is broken  *)
(* (development_lifecycle.rs).                                               *)
DevKeptOrRepaired == FailureKeepsPrevious /\ UpgradeRepairs
=============================================================================
