----------------------------- MODULE Lifecycle -----------------------------
(***************************************************************************)
(* The production installer: FilesystemLifecycle (src/lifecycle.rs) and    *)
(* the delegated operations that drive it (src/delegated.rs).  Processes   *)
(* run install, upgrade, remove, launch and status against one             *)
(* owner-private root.  Every durable step of an operation (a directory    *)
(* made, a file written, a rename, an fsync) is an action of its own, so a *)
(* process can be killed, and a step can fail, between any two of them.    *)
(*                                                                         *)
(* A bundle stands for the Installation record made from an authenticated  *)
(* manifest: digest[b] is its executable_sha256, release[b] its version.   *)
(* Two bundles may share an executable and differ in the rest of the       *)
(* record.  File contents are abstracted to the digest they hash to, or to *)
(* Damaged when they were changed from outside the installer.              *)
(***************************************************************************)
EXTENDS Integers, FiniteSets

CONSTANTS
    Proc,        \* lifecycle processes, identified by their pid
    Promoted,    \* those whose binary has its promotion gates open
    Bundle,      \* authenticated bundles, as the records install() builds
    Digest,      \* executable digests
    digest,      \* executable_sha256 of a bundle
    release,     \* release of a bundle, as an ordered version
    None,        \* a file that does not exist
    Damaged,     \* content that was changed from outside
    MaxFaults    \* bound on kills, I/O errors and outside changes

ASSUME LifecycleAssumption ==
    /\ Promoted \subseteq Proc
    /\ digest \in [Bundle -> Digest]
    /\ release \in [Bundle -> Nat]
    /\ None \notin Bundle \cup Digest
    /\ Damaged \notin Bundle \cup Digest
    /\ None # Damaged
    /\ MaxFaults \in Nat

VARIABLES
    active,      \* active.json
    versions,    \* versions/<digest>: a directory with asb-tui and installation.json
    stage,       \* versions/.stage-<digest>
    tmp,         \* the pids p for which .active-<p>.tmp exists
    ready,       \* the lock file and versions/ have been created
    durActive,   \* active.json as of the last fsync of the root
    durVersions, \* versions/ as of its last fsync
    held,        \* the flock each process holds
    pc,          \* where each process is in its operation
    op,          \* the requested operation
    req,         \* the bundle it installs, launches or reports on
    buf,         \* the executable bytes a launch or a status has read
    res,         \* its outcome
    faults       \* kills, I/O errors and outside changes so far

disk == <<active, versions, stage, tmp, ready>>
durable == <<durActive, durVersions>>
proc == <<held, pc, op, req, buf, res>>
vars == <<active, versions, stage, tmp, ready, durActive, durVersions,
          held, pc, op, req, buf, res, faults>>

Ops == {"install", "upgrade", "remove", "launch", "status"}
Installing == {"install", "upgrade"}

Dir == [there : BOOLEAN, exe : Digest \cup {None, Damaged}, meta : Bundle \cup {None}]
Absent == [there |-> FALSE, exe |-> None, meta |-> None]
EmptyDir == [there |-> TRUE, exe |-> None, meta |-> None]

(* Program counters, in the order the operations go through them. *)
StagePC == {"stage", "stage_exe", "stage_meta", "verify"}
PublishPC == {"publish", "drop", "sync_versions", "tmp", "swap"}
PC == {"idle", "open", "clean", "admit", "discard", "probe", "sync_root", "unlink",
       "sweep", "load", "running", "read", "read_exe", "done"} \cup StagePC \cup PublishPC

TypeOK ==
    /\ active \in Bundle \cup {None, Damaged}
    /\ versions \in [Digest -> Dir]
    /\ stage \in [Digest -> Dir]
    /\ tmp \subseteq Proc
    /\ ready \in BOOLEAN
    /\ durActive \in Bundle \cup {None, Damaged}
    /\ durVersions \in [Digest -> Dir]
    /\ held \in [Proc -> {"none", "shared", "exclusive"}]
    /\ pc \in [Proc -> PC]
    /\ op \in [Proc -> Ops \cup {"none"}]
    /\ req \in [Proc -> Bundle \cup {None}]
    /\ buf \in [Proc -> Digest \cup {None, Damaged}]
    /\ res \in [Proc -> {"none", "ok", "error"}]
    /\ faults \in 0..MaxFaults

(* A fresh owner-private root, as ensure_private_root leaves it. *)
Init ==
    /\ active = None /\ durActive = None
    /\ versions = [d \in Digest |-> Absent]
    /\ durVersions = [d \in Digest |-> Absent]
    /\ stage = [d \in Digest |-> Absent]
    /\ tmp = {} /\ ready = FALSE
    /\ held = [p \in Proc |-> "none"]
    /\ pc = [p \in Proc |-> "idle"]
    /\ op = [p \in Proc |-> "none"]
    /\ req = [p \in Proc |-> None]
    /\ buf = [p \in Proc |-> None]
    /\ res = [p \in Proc |-> "none"]
    /\ faults = 0

-----------------------------------------------------------------------------
(* Helpers *)

Goto(p, l) == pc' = [pc EXCEPT ![p] = l]

(* The operation ends with a result; the store is dropped in Finish. *)
Return(p, r) ==
    /\ pc' = [pc EXCEPT ![p] = "done"]
    /\ res' = [res EXCEPT ![p] = r]

(* remove_dir_all unlinks the files in directory order, then the directory. *)
RemoveStep(dir) ==
    IF dir.exe = None /\ dir.meta = None
    THEN {Absent}
    ELSE {d \in {[dir EXCEPT !.exe = None], [dir EXCEPT !.meta = None]} : d # dir}

(* A directory whose record names b and whose executable was written for b. *)
Complete(dir, b) ==
    /\ dir.there
    /\ dir.meta = b
    /\ dir.exe \in {digest[b], Damaged}

(* A careless variant: the executable exists, its digest is not compared. *)
VerifiesByExistence(p, b) == p \in Promoted /\ versions[digest[b]].exe # None

(* status(): the active record's executable re-reads to its digest, in a     *)
(* binary whose promotion gates permit it.                                   *)
Verifies(p, b) == p \in Promoted /\ versions[digest[b]].exe = digest[b]

MyDigest(p) == digest[req[p]]

-----------------------------------------------------------------------------
(* A request, and the opening of the store *)

(* execute(): install_or_upgrade refuses before it touches the root when the *)
(* manifest does not verify or the promotion gates are closed.               *)
Request(p, o, b) ==
    /\ pc[p] = "idle"
    /\ o \in Installing => p \in Promoted
    /\ pc' = [pc EXCEPT ![p] = "open"]
    /\ op' = [op EXCEPT ![p] = o]
    /\ req' = [req EXCEPT ![p] = IF o \in Installing THEN b ELSE None]
    /\ UNCHANGED <<disk, durable, held, buf, res, faults>>

(* A non-blocking exclusive flock, then the stale stages are cleaned. *)
OpenExclusive(p) ==
    /\ pc[p] = "open" /\ op[p] # "status"
    /\ \A q \in Proc \ {p} : held[q] = "none"
    /\ held' = [held EXCEPT ![p] = "exclusive"]
    /\ ready' = TRUE
    /\ Goto(p, "clean")
    /\ UNCHANGED <<active, versions, stage, tmp, durable, op, req, buf, res, faults>>

(* A careless variant: the reader takes no notice of an exclusive lock. *)
OpenReadOnlyUnlocked(p) ==
    /\ pc[p] = "open" /\ op[p] = "status"
    /\ ready
    /\ held' = [held EXCEPT ![p] = "shared"]
    /\ Goto(p, "read")
    /\ UNCHANGED <<disk, durable, op, req, buf, res, faults>>

(* A non-blocking shared flock; a root that was never updated is refused. *)
OpenReadOnly(p) ==
    /\ pc[p] = "open" /\ op[p] = "status"
    /\ ready
    /\ \A q \in Proc \ {p} : held[q] # "exclusive"
    /\ held' = [held EXCEPT ![p] = "shared"]
    /\ Goto(p, "read")
    /\ UNCHANGED <<disk, durable, op, req, buf, res, faults>>

(* A careless variant: a blocking flock waits where this one gives up. *)
OpenWaits(p) ==
    /\ pc[p] = "open"
    /\ op[p] = "status" /\ ~ready
    /\ Return(p, "error")
    /\ UNCHANGED <<disk, durable, held, op, req, buf, faults>>

(* install_root_unavailable: the lock is taken, or there is nothing to read. *)
OpenRefused(p) ==
    /\ pc[p] = "open"
    /\ IF op[p] = "status"
       THEN ~ready \/ \E q \in Proc \ {p} : held[q] = "exclusive"
       ELSE \E q \in Proc \ {p} : held[q] # "none"
    /\ Return(p, "error")
    /\ UNCHANGED <<disk, durable, held, op, req, buf, faults>>

(* open_with_mode removes every versions/.stage-* before it returns. *)
CleanStage(p, d) ==
    /\ pc[p] = "clean"
    /\ stage[d].there
    /\ \E dir \in RemoveStep(stage[d]) : stage' = [stage EXCEPT ![d] = dir]
    /\ UNCHANGED <<active, versions, tmp, ready, durable, proc, faults>>

Opened(p) ==
    /\ pc[p] = "clean"
    /\ \A d \in Digest : ~stage[d].there
    /\ Goto(p, CASE op[p] \in Installing -> "admit"
                 [] op[p] = "remove" -> "unlink"
                 [] OTHER -> "load")
    /\ UNCHANGED <<disk, durable, held, op, req, buf, res, faults>>

-----------------------------------------------------------------------------
(* install and upgrade *)

(* A careless variant: any verified installation may be replaced. *)
AdmissibleAtAnyRelease(p) ==
    CASE op[p] = "install" -> active = None
      [] OTHER -> active \in Bundle /\ Verifies(p, active)

(* enforce_operation *)
Admissible(p) ==
    CASE op[p] = "install" -> active = None
      [] OTHER -> /\ active \in Bundle
                  /\ Verifies(p, active)
                  /\ release[req[p]] > release[active]

Admit(p) ==
    /\ pc[p] = "admit"
    /\ IF Admissible(p)
       THEN Goto(p, "stage") /\ UNCHANGED res
       ELSE Return(p, "error")
    /\ UNCHANGED <<disk, durable, held, op, req, buf, faults>>

(* stage(): the directory, the executable, the record; each file is synced. *)
MakeStage(p) ==
    /\ pc[p] = "stage"
    /\ stage' = [stage EXCEPT ![MyDigest(p)] = EmptyDir]
    /\ Goto(p, "stage_exe")
    /\ UNCHANGED <<active, versions, tmp, ready, durable, held, op, req, buf, res, faults>>

WriteExecutable(p) ==
    /\ pc[p] = "stage_exe"
    /\ stage' = [stage EXCEPT ![MyDigest(p)].exe = MyDigest(p)]
    /\ Goto(p, "stage_meta")
    /\ UNCHANGED <<active, versions, tmp, ready, durable, held, op, req, buf, res, faults>>

WriteRecord(p) ==
    /\ pc[p] = "stage_meta"
    /\ stage' = [stage EXCEPT ![MyDigest(p)].meta = req[p]]
    /\ Goto(p, "verify")
    /\ UNCHANGED <<active, versions, tmp, ready, durable, held, op, req, buf, res, faults>>

(* staged_executable and the digest check of what was read back. *)
VerifyStage(p) ==
    /\ pc[p] = "verify"
    /\ LET dir == stage[MyDigest(p)]
       IN  Goto(p, IF dir.meta = req[p] /\ dir.exe = MyDigest(p)
                   THEN "probe" ELSE "discard")
    /\ UNCHANGED <<disk, durable, held, op, req, buf, res, faults>>

(* verify_protocol_and_terminal on the bytes in memory: the candidate answers *)
(* or it does not.                                                            *)
SelfTest(p) ==
    /\ pc[p] = "probe"
    /\ IF op[p] = "launch"
       THEN \/ Goto(p, "running") /\ UNCHANGED res
            \/ Return(p, "error")
       ELSE /\ Goto(p, "publish") \/ Goto(p, "discard")
            /\ UNCHANGED res
    /\ UNCHANGED <<disk, durable, held, op, req, buf, faults>>

(* discard_stage, or stage()'s own removal after a failed write. *)
Discard(p) ==
    /\ pc[p] = "discard"
    /\ IF stage[MyDigest(p)].there
       THEN /\ \E dir \in RemoveStep(stage[MyDigest(p)]) :
                   stage' = [stage EXCEPT ![MyDigest(p)] = dir]
            /\ UNCHANGED <<pc, res>>
       ELSE Return(p, "error") /\ UNCHANGED stage
    /\ UNCHANGED <<active, versions, tmp, ready, durable, held, op, req, buf, faults>>

(* A careless variant: an existing version directory is reused unread. *)
PublishOverExisting(p) ==
    /\ pc[p] = "publish"
    /\ IF versions[MyDigest(p)].there
       THEN Goto(p, "drop") /\ UNCHANGED <<versions, stage>>
       ELSE /\ versions' = [versions EXCEPT ![MyDigest(p)] = stage[MyDigest(p)]]
            /\ stage' = [stage EXCEPT ![MyDigest(p)] = Absent]
            /\ Goto(p, "sync_versions")
    /\ UNCHANGED <<active, tmp, ready, durable, held, op, req, buf, res, faults>>

(* activate(), up to the version directory: an existing one is re-verified   *)
(* and reused, otherwise the stage is renamed to it.                         *)
Publish(p) ==
    /\ pc[p] = "publish"
    /\ LET d == MyDigest(p)
       IN  \/ /\ stage[d].meta = req[p]
              /\ versions[d].there
              /\ versions[d].meta = req[p] /\ versions[d].exe = d
              /\ Goto(p, "drop")
              /\ UNCHANGED <<versions, stage, res>>
           \/ /\ stage[d].meta = req[p]
              /\ ~versions[d].there
              /\ versions' = [versions EXCEPT ![d] = stage[d]]
              /\ stage' = [stage EXCEPT ![d] = Absent]
              /\ Goto(p, "sync_versions")
              /\ UNCHANGED res
           \/ /\ \/ stage[d].meta # req[p]
                 \/ versions[d].there /\ (versions[d].meta # req[p] \/ versions[d].exe # d)
              /\ Return(p, "error")
              /\ UNCHANGED <<versions, stage>>
    /\ UNCHANGED <<active, tmp, ready, durable, held, op, req, buf, faults>>

(* The stage is removed when an existing version is reused. *)
DropStage(p) ==
    /\ pc[p] = "drop"
    /\ IF stage[MyDigest(p)].there
       THEN /\ \E dir \in RemoveStep(stage[MyDigest(p)]) :
                   stage' = [stage EXCEPT ![MyDigest(p)] = dir]
            /\ UNCHANGED pc
       ELSE Goto(p, "tmp") /\ UNCHANGED stage
    /\ UNCHANGED <<active, versions, tmp, ready, durable, held, op, req, buf, res, faults>>

SyncVersions(p) ==
    /\ pc[p] = "sync_versions"
    /\ durVersions' = versions
    /\ Goto(p, "tmp")
    /\ UNCHANGED <<disk, durActive, held, op, req, buf, res, faults>>

(* create_new on .active-<pid>.tmp: a leftover of an earlier process with    *)
(* this pid refuses the activation.                                          *)
CreateTemporary(p) ==
    /\ pc[p] = "tmp"
    /\ IF p \in tmp
       THEN Return(p, "error") /\ UNCHANGED tmp
       ELSE /\ tmp' = tmp \cup {p}
            /\ Goto(p, "swap")
            /\ UNCHANGED res
    /\ UNCHANGED <<active, versions, stage, ready, durable, held, op, req, buf, faults>>

(* The record is written, synced and renamed over active.json. *)
Swap(p) ==
    /\ pc[p] = "swap"
    /\ active' = req[p]
    /\ tmp' = tmp \ {p}
    /\ Goto(p, "sync_root")
    /\ UNCHANGED <<versions, stage, ready, durable, held, op, req, buf, res, faults>>

(* The fsync of the root that ends activate() and remove(). *)
SyncRoot(p) ==
    /\ pc[p] = "sync_root"
    /\ durActive' = active
    /\ Return(p, "ok")
    /\ UNCHANGED <<disk, durVersions, held, op, req, buf, faults>>

-----------------------------------------------------------------------------
(* remove *)

(* A careless variant: the directories go first, the record is left for later. *)
KeepActive(p) ==
    /\ pc[p] = "unlink"
    /\ Goto(p, "sweep")
    /\ UNCHANGED <<disk, durable, held, op, req, buf, res, faults>>

(* active.json goes first. *)
UnlinkActive(p) ==
    /\ pc[p] = "unlink"
    /\ active' = None
    /\ Goto(p, "sweep")
    /\ UNCHANGED <<versions, stage, tmp, ready, durable, held, op, req, buf, res, faults>>

(* Every entry of versions/ in turn. *)
SweepVersion(p, d) ==
    /\ pc[p] = "sweep"
    /\ versions[d].there
    /\ \E dir \in RemoveStep(versions[d]) : versions' = [versions EXCEPT ![d] = dir]
    /\ UNCHANGED <<active, stage, tmp, ready, durable, proc, faults>>

(* A careless variant: the loop may stop before the last entry. *)
SweptEarly(p) ==
    /\ pc[p] = "sweep"
    /\ \E d \in Digest : ~versions[d].there
    /\ Goto(p, "sync_root")
    /\ UNCHANGED <<disk, durable, held, op, req, buf, res, faults>>

Swept(p) ==
    /\ pc[p] = "sweep"
    /\ \A d \in Digest : ~versions[d].there
    /\ Goto(p, "sync_root")
    /\ UNCHANGED <<disk, durable, held, op, req, buf, res, faults>>

-----------------------------------------------------------------------------
(* launch *)

(* launch(): the active record, its executable, the gates and the digest. *)
Load(p) ==
    /\ pc[p] = "load"
    /\ IF active \in Bundle /\ Verifies(p, active)
       THEN /\ req' = [req EXCEPT ![p] = active]
            /\ buf' = [buf EXCEPT ![p] = versions[digest[active]].exe]
            /\ Goto(p, "probe")
            /\ UNCHANGED res
       ELSE Return(p, "error") /\ UNCHANGED <<req, buf>>
    /\ UNCHANGED <<disk, durable, held, op, faults>>

(* launch_frontend waits for the frontend it runs from the sealed bytes. *)
FrontendExits(p) ==
    /\ pc[p] = "running"
    /\ \E r \in {"ok", "error"} : Return(p, r)
    /\ UNCHANGED <<disk, durable, held, op, req, buf, faults>>

-----------------------------------------------------------------------------
(* status *)

(* A careless variant: a record that does not parse is passed on. *)
ReadActiveUnparsed(p) ==
    /\ pc[p] = "read"
    /\ IF active # None
       THEN /\ req' = [req EXCEPT ![p] = active]
            /\ Goto(p, "read_exe")
            /\ UNCHANGED res
       ELSE Return(p, "error") /\ UNCHANGED req
    /\ UNCHANGED <<disk, durable, held, op, buf, faults>>

ReadActive(p) ==
    /\ pc[p] = "read"
    /\ IF active \in Bundle
       THEN /\ req' = [req EXCEPT ![p] = active]
            /\ Goto(p, "read_exe")
            /\ UNCHANGED res
       ELSE Return(p, "error") /\ UNCHANGED req
    /\ UNCHANGED <<disk, durable, held, op, buf, faults>>

(* active_executable compares the record once more and reads the bytes. *)
ReadExecutable(p) ==
    /\ pc[p] = "read_exe"
    /\ LET bytes == IF active = req[p] THEN versions[MyDigest(p)].exe ELSE None
       IN  /\ buf' = [buf EXCEPT ![p] = bytes]
           /\ Return(p, IF bytes = MyDigest(p) /\ p \in Promoted THEN "ok" ELSE "error")
    /\ UNCHANGED <<disk, durable, held, op, req, faults>>

-----------------------------------------------------------------------------
(* The end of an operation *)

(* Dropping the store closes the lock file. *)
Finish(p) ==
    /\ pc[p] = "done"
    /\ Goto(p, "idle")
    /\ held' = [held EXCEPT ![p] = "none"]
    /\ op' = [op EXCEPT ![p] = "none"]
    /\ req' = [req EXCEPT ![p] = None]
    /\ buf' = [buf EXCEPT ![p] = None]
    /\ res' = [res EXCEPT ![p] = "none"]
    /\ UNCHANGED <<disk, durable, faults>>

(* An I/O error in a step that touches the disk: a stage that cannot be      *)
(* written or read back is discarded, a failed write or rename of the        *)
(* temporary removes it (or fails to), and every other error is returned at  *)
(* once, with whatever is on the disk left there.                            *)
IoError(p) ==
    /\ faults < MaxFaults /\ faults' = faults + 1
    /\ \/ /\ pc[p] \in {"stage_exe", "stage_meta", "verify"}
          /\ Goto(p, "discard")
          /\ UNCHANGED <<tmp, res>>
       \/ /\ pc[p] = "swap"
          /\ tmp' \in {tmp, tmp \ {p}}
          /\ Return(p, "error")
       \/ /\ pc[p] \in {"clean", "admit", "stage", "discard", "publish", "drop",
                        "sync_versions", "tmp", "sync_root", "unlink", "sweep",
                        "load", "read", "read_exe"}
          /\ Return(p, "error")
          /\ UNCHANGED tmp
    /\ UNCHANGED <<active, versions, stage, ready, durable, held, op, req, buf>>

(* The process is killed; the kernel releases its lock, the disk stays. *)
Kill(p) ==
    /\ faults < MaxFaults /\ faults' = faults + 1
    /\ pc[p] # "idle"
    /\ Goto(p, "idle")
    /\ held' = [held EXCEPT ![p] = "none"]
    /\ op' = [op EXCEPT ![p] = "none"]
    /\ req' = [req EXCEPT ![p] = None]
    /\ buf' = [buf EXCEPT ![p] = None]
    /\ res' = [res EXCEPT ![p] = "none"]
    /\ UNCHANGED <<disk, durable>>

(* A file changes from outside the installer: active.json, or an executable  *)
(* in a stage or in a version directory.                                     *)
Damage ==
    /\ faults < MaxFaults /\ faults' = faults + 1
    /\ \/ /\ active \in Bundle
          /\ active' = Damaged
          /\ durActive' = IF durActive = active THEN Damaged ELSE durActive
          /\ UNCHANGED <<versions, stage, durVersions>>
       \/ \E d \in Digest :
          /\ versions[d].exe # None
          /\ versions' = [versions EXCEPT ![d].exe = Damaged]
          /\ durVersions' = [durVersions EXCEPT ![d].exe =
                                IF @ = None THEN None ELSE Damaged]
          /\ UNCHANGED <<active, stage, durActive>>
       \/ \E d \in Digest :
          /\ stage[d].exe # None
          /\ stage' = [stage EXCEPT ![d].exe = Damaged]
          /\ UNCHANGED <<active, versions, durable>>
    /\ UNCHANGED <<tmp, ready, proc>>

-----------------------------------------------------------------------------

(* The steps a running process takes without its environment. *)
Step(p) ==
    \/ OpenExclusive(p) \/ OpenReadOnly(p) \/ OpenRefused(p)
    \/ \E d \in Digest : CleanStage(p, d)
    \/ Opened(p) \/ Admit(p)
    \/ MakeStage(p) \/ WriteExecutable(p) \/ WriteRecord(p)
    \/ VerifyStage(p) \/ SelfTest(p) \/ Discard(p)
    \/ Publish(p) \/ DropStage(p) \/ SyncVersions(p)
    \/ CreateTemporary(p) \/ Swap(p) \/ SyncRoot(p)
    \/ UnlinkActive(p) \/ Swept(p)
    \/ \E d \in Digest : SweepVersion(p, d)
    \/ Load(p) \/ ReadActive(p) \/ ReadExecutable(p)
    \/ Finish(p)

Next ==
    \/ \E p \in Proc : \/ \E o \in Ops, b \in Bundle : Request(p, o, b)
                       \/ Step(p) \/ FrontendExits(p)
                       \/ IoError(p) \/ Kill(p)
    \/ Damage

Spec == Init /\ [][Next]_vars

(* A process that was not killed keeps executing.  The frontend it launched  *)
(* runs for as long as its user wants.                                       *)
FairSpec == Spec /\ \A p \in Proc : WF_vars(Step(p))

-----------------------------------------------------------------------------
(* Power is lost: every process ends, and of what was not synced any part    *)
(* may be gone.  fsync of versions/ makes its entries durable, fsync of the  *)
(* root makes active.json durable; files are synced before they are renamed. *)
Survivors(now, old) ==
    {now, old} \cup
    (IF old.there
     THEN [there : {TRUE}, exe : {now.exe, old.exe}, meta : {now.meta, old.meta}]
     ELSE {})

PowerLoss ==
    /\ faults < MaxFaults /\ faults' = faults + 1
    /\ \E a \in {active, durActive} : active' = a /\ durActive' = a
    /\ \E v \in [Digest -> UNION {Survivors(versions[d], durVersions[d]) : d \in Digest}] :
           /\ \A d \in Digest : v[d] \in Survivors(versions[d], durVersions[d])
           /\ versions' = v /\ durVersions' = v
    /\ \E gone \in SUBSET Digest :
           stage' = [d \in Digest |-> IF d \in gone THEN Absent ELSE stage[d]]
    /\ tmp' \in SUBSET tmp
    /\ held' = [p \in Proc |-> "none"]
    /\ pc' = [p \in Proc |-> "idle"]
    /\ op' = [p \in Proc |-> "none"]
    /\ req' = [p \in Proc |-> None]
    /\ buf' = [p \in Proc |-> None]
    /\ res' = [p \in Proc |-> "none"]
    /\ UNCHANGED ready

PowerSpec == Init /\ [][Next \/ PowerLoss]_vars

-----------------------------------------------------------------------------
(* Properties *)

(* No half-made installation is ever visible: whatever is killed or fails in *)
(* between, the record in active.json names a version directory that holds   *)
(* that very record and an executable written for it.  Depends on the order  *)
(* of activate() (publish, then swap) and of remove() (unlink, then sweep),  *)
(* and on activate() re-verifying a directory it reuses.                     *)
ActiveIsComplete ==
    active \in Bundle => Complete(versions[digest[active]], active)

(* What launch() runs is what it verified, although the files may change     *)
(* after they were read; and as long as the launching process lives, its     *)
(* exclusive lock keeps the launched installation the active one.            *)
LaunchIsVerified ==
    \A p \in Proc : pc[p] = "running" =>
        /\ req[p] \in Bundle
        /\ buf[p] = digest[req[p]]
        /\ p \in Promoted
        /\ active \in {req[p], Damaged}

(* A status that reports a verified installation reports the one that is     *)
(* active when it answers: no install, upgrade or remove ran in between its  *)
(* two reads.                                                                *)
StatusIsCurrent ==
    \A p \in Proc : (pc[p] = "done" /\ op[p] = "status" /\ res[p] = "ok") =>
        active \in {req[p], Damaged}

(* A remove that reports success has left nothing behind that a later        *)
(* install could trip over: no record, no version directory, no stage.       *)
RemoveIsComplete ==
    \A p \in Proc : (pc[p] = "done" /\ op[p] = "remove" /\ res[p] = "ok") =>
        /\ active = None
        /\ \A d \in Digest : versions[d] = Absent /\ stage[d] = Absent

(* Nobody goes back to an older release except through a remove, although    *)
(* enforce_operation looks at the active release long before activate()      *)
(* replaces it.                                                              *)
NeverDowngraded ==
    [][(active \in Bundle /\ active' \in Bundle /\ active' # active)
          => release[active'] > release[active]]_vars

(* Every operation comes to its end and gives the lock back, whatever fails  *)
(* and whoever holds the lock; only a running frontend may keep it.          *)
OperationsEnd ==
    \A p \in Proc : (pc[p] \notin {"idle", "running"}) ~> (pc[p] \in {"idle", "running"})

(* The record in active.json becomes durable only after the directory it     *)
(* names: a power loss right after the activation still finds the            *)
(* executable.  activate() syncs versions/ for that, but only when it made   *)
(* the directory itself.                                                     *)
ActivationIsDurable ==
    (active \in Bundle /\ durActive = active)
        => Complete(durVersions[digest[active]], active)

-----------------------------------------------------------------------------
(* What the store promises its callers *)

(* The visible installation: the active record, if its directory is there. *)
visible ==
    IF active \in Bundle /\ ~Complete(versions[digest[active]], active)
    THEN "broken" ELSE active

Promise == INSTANCE Extension WITH ext <- visible

(* Seen through active.json the many steps of install, upgrade and remove    *)
(* are single atomic changes of one installed extension.                     *)
RefinesExtension == Promise!Spec

=============================================================================
