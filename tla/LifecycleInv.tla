---------------------------- MODULE LifecycleInv ----------------------------
(***************************************************************************)
(* The inductive invariant behind the theorems about Lifecycle: what every *)
(* process may rely on at each point of its operation, given the lock it   *)
(* holds.                                                                  *)
(***************************************************************************)
EXTENDS Lifecycle

(* Where a process holds no lock yet, or may hold none any more. *)
Outside == {"idle", "open", "done"}
Reading == {"read", "read_exe"}

(* The flock: a process inside an updating operation holds it exclusively, a *)
(* status holds it shared, and an exclusive holder is alone.                 *)
LockInv ==
    /\ \A p \in Proc : pc[p] \notin Outside \cup Reading => held[p] = "exclusive"
    /\ \A p \in Proc : pc[p] \in Reading => held[p] = "shared"
    /\ \A p, q \in Proc : (p # q /\ held[p] = "exclusive") => held[q] = "none"

(* A directory that is not there has no files. *)
WellFormed ==
    \A d \in Digest : /\ ~versions[d].there => versions[d] = Absent
                      /\ ~stage[d].there => stage[d] = Absent

(* An installing process from its admission to the swap. *)
Admitted(p) ==
    \/ pc[p] \in StagePC \cup PublishPC \cup {"discard"}
    \/ pc[p] = "probe" /\ op[p] # "launch"

(* The request of a process fits where it is. *)
RequestInv(p) ==
    /\ pc[p] \in {"open", "clean"} =>
          op[p] \in Ops /\ (op[p] \in Installing => req[p] \in Bundle)
    /\ pc[p] = "admit" \/ Admitted(p) => op[p] \in Installing /\ req[p] \in Bundle
    /\ pc[p] = "clean" => op[p] # "status"
    /\ pc[p] \in {"unlink", "sweep"} => op[p] = "remove"
    /\ pc[p] = "sync_root" => op[p] \in Installing \cup {"remove"}
    /\ pc[p] \in {"load", "running"} => op[p] = "launch"
    /\ pc[p] \in Reading => op[p] = "status"

(* What enforce_operation found still holds until the swap. *)
AdmissionInv(p) ==
    Admitted(p) =>
        \/ op[p] = "install" /\ active = None
        \/ op[p] = "upgrade" /\ active = Damaged
        \/ op[p] = "upgrade" /\ active \in Bundle /\ release[req[p]] > release[active]

(* The stage, and then the version, is complete before it is relied upon. *)
PublishInv(p) ==
    /\ pc[p] \in {"stage_exe", "stage_meta"} => stage[digest[req[p]]].there
    /\ (pc[p] = "publish" \/ (pc[p] = "probe" /\ op[p] # "launch"))
          => Complete(stage[digest[req[p]]], req[p])
    /\ pc[p] \in {"drop", "sync_versions", "tmp", "swap"}
          => Complete(versions[digest[req[p]]], req[p])

(* A removal: first the record is gone, then the directories. *)
NoStage == \A d \in Digest : stage[d] = Absent
NoVersion == \A d \in Digest : versions[d] = Absent

RemoveInv(p) ==
    /\ pc[p] = "unlink" => NoStage
    /\ pc[p] = "sweep" => active = None /\ NoStage
    /\ (pc[p] = "sync_root" /\ op[p] = "remove") => active = None /\ NoStage /\ NoVersion
    /\ (pc[p] = "done" /\ op[p] = "remove" /\ res[p] = "ok")
          => held[p] = "exclusive" /\ active = None /\ NoStage /\ NoVersion

(* A launch holds the bytes it verified, of the record that stays active. *)
LaunchInv(p) ==
    pc[p] = "running" \/ (pc[p] = "probe" /\ op[p] = "launch") =>
        /\ req[p] \in Bundle
        /\ buf[p] = digest[req[p]]
        /\ p \in Promoted
        /\ active \in {req[p], Damaged}

StatusInv(p) ==
    /\ pc[p] = "read_exe" => req[p] \in Bundle /\ active \in {req[p], Damaged}
    /\ (pc[p] = "done" /\ op[p] = "status" /\ res[p] = "ok")
          => held[p] = "shared" /\ active \in {req[p], Damaged}

ProcInv(p) ==
    /\ RequestInv(p) /\ AdmissionInv(p) /\ PublishInv(p)
    /\ RemoveInv(p) /\ LaunchInv(p) /\ StatusInv(p)

Inv ==
    /\ TypeOK
    /\ LockInv
    /\ WellFormed
    /\ ActiveIsComplete
    /\ \A p \in Proc : ProcInv(p)

=============================================================================
