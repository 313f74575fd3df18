-------------------------- MODULE Lifecycle_proofs --------------------------
(***************************************************************************)
(* Proofs about Lifecycle for every set of processes, bundles and digests  *)
(* and every number of faults.  Inv (LifecycleInv) is shown to be          *)
(* inductive, one lemma per action; in each lemma the process that moves   *)
(* is separated from the others, which are framed by one of two arguments: *)
(* the disk did not change (QuietFrame), or the mover holds the exclusive  *)
(* lock, so nobody else is at a point that depends on the disk             *)
(* (AloneFrame).  The theorems follow from Inv.                            *)
(***************************************************************************)
EXTENDS LifecycleInv, TLAPS

USE LifecycleAssumption

(* Directories keep their type when a file in them is written or unlinked. *)
LEMMA DirFacts ==
    /\ Absent \in Dir /\ EmptyDir \in Dir
    /\ \A dir \in Dir, e \in Digest \cup {None, Damaged} : [dir EXCEPT !.exe = e] \in Dir
    /\ \A dir \in Dir, m \in Bundle \cup {None} : [dir EXCEPT !.meta = m] \in Dir
<1>1. Absent \in Dir /\ EmptyDir \in Dir
  BY DEF Absent, EmptyDir, Dir
<1>2. ASSUME NEW dir \in Dir, NEW e \in Digest \cup {None, Damaged}
      PROVE  [dir EXCEPT !.exe = e] \in Dir
  BY DEF Dir
<1>3. ASSUME NEW dir \in Dir, NEW m \in Bundle \cup {None}
      PROVE  [dir EXCEPT !.meta = m] \in Dir
  BY DEF Dir
<1> QED BY <1>1, <1>2, <1>3

(* One unlink of remove_dir_all leaves a directory. *)
LEMMA RemoveStepType ==
    ASSUME NEW dir \in Dir, NEW x \in RemoveStep(dir)
    PROVE  x \in Dir
<1>1. x = Absent \/ x = [dir EXCEPT !.exe = None] \/ x = [dir EXCEPT !.meta = None]
  BY DEF RemoveStep
<1> QED BY <1>1, DirFacts

(* remove_dir_all takes the directory itself last. *)
LEMMA RemoveStepWellFormed ==
    ASSUME NEW dir \in Dir, dir.there, NEW x \in RemoveStep(dir)
    PROVE  ~x.there => x = Absent
<1>1. x = Absent \/ x = [dir EXCEPT !.exe = None] \/ x = [dir EXCEPT !.meta = None]
  BY DEF RemoveStep
<1> QED BY <1>1 DEF Dir

(* A process whose own state stays as it is, on a disk that stays as it is. *)
LEMMA QuietFrame ==
    ASSUME NEW q \in Proc, ProcInv(q),
           active' = active, versions' = versions, stage' = stage,
           pc'[q] = pc[q], op'[q] = op[q], req'[q] = req[q],
           buf'[q] = buf[q], res'[q] = res[q], held'[q] = held[q]
    PROVE  ProcInv(q)'
BY DEF ProcInv, RequestInv, AdmissionInv, PublishInv, RemoveInv, LaunchInv, StatusInv,
       Admitted, NoStage, NoVersion

(* Beside an exclusive holder nobody is at a point that relies on the disk. *)
LEMMA AloneFrame ==
    ASSUME LockInv, NEW p \in Proc, NEW q \in Proc, p # q, held[p] = "exclusive",
           ProcInv(q),
           pc'[q] = pc[q], op'[q] = op[q], req'[q] = req[q],
           buf'[q] = buf[q], res'[q] = res[q], held'[q] = held[q]
    PROVE  ProcInv(q)'
<1>1. held[q] = "none" /\ pc[q] \in Outside
  BY DEF LockInv
<1> QED
  BY <1>1 DEF ProcInv, RequestInv, AdmissionInv, PublishInv, RemoveInv, LaunchInv,
              StatusInv, Admitted, Outside, Reading, StagePC, PublishPC

(* Request preserves the invariant. *)
LEMMA RequestPreserves ==
    ASSUME Inv, NEW p \in Proc, NEW o \in Ops, NEW b \in Bundle, Request(p, o, b)
    PROVE  Inv'
<1> USE DEF Inv, Request, Goto, Return, disk, durable, proc
<1>1. TypeOK'
  BY DirFacts, RemoveStepType DEF TypeOK, PC, StagePC, PublishPC, Installing, Ops
<1>2. LockInv'
  BY DEF TypeOK, LockInv, Outside, Reading
<1>3. WellFormed'
  BY DEF TypeOK, WellFormed
<1>4. ActiveIsComplete'
  BY DEF TypeOK, ActiveIsComplete
<1>5. ProcInv(p)'
  BY DEF TypeOK, ProcInv, RequestInv, AdmissionInv, PublishInv, RemoveInv, LaunchInv, StatusInv,
         Admitted, StagePC, PublishPC, Outside, Reading, NoStage, NoVersion, Installing, Ops, MyDigest
<1>6. ASSUME NEW q \in Proc, q # p
      PROVE  ProcInv(q)'
  BY <1>6, QuietFrame DEF TypeOK
<1> QED BY <1>1, <1>2, <1>3, <1>4, <1>5, <1>6

(* OpenExclusive preserves the invariant. *)
LEMMA OpenExclusivePreserves ==
    ASSUME Inv, NEW p \in Proc, OpenExclusive(p)
    PROVE  Inv'
<1> USE DEF Inv, OpenExclusive, Goto, Return, disk, durable, proc
<1>1. TypeOK'
  BY DirFacts, RemoveStepType DEF TypeOK, PC, StagePC, PublishPC, Installing, Ops
<1>2. LockInv'
  BY DEF TypeOK, LockInv, Outside, Reading
<1>3. WellFormed'
  BY DEF TypeOK, WellFormed
<1>4. ActiveIsComplete'
  BY DEF TypeOK, ActiveIsComplete
<1>5. ProcInv(p)'
  BY DEF TypeOK, ProcInv, RequestInv, AdmissionInv, PublishInv, RemoveInv, LaunchInv, StatusInv,
         Admitted, StagePC, PublishPC, Outside, Reading, NoStage, NoVersion, Installing, Ops, MyDigest
<1>6. ASSUME NEW q \in Proc, q # p
      PROVE  ProcInv(q)'
  BY <1>6, QuietFrame DEF TypeOK
<1> QED BY <1>1, <1>2, <1>3, <1>4, <1>5, <1>6

(* OpenReadOnly preserves the invariant. *)
LEMMA OpenReadOnlyPreserves ==
    ASSUME Inv, NEW p \in Proc, OpenReadOnly(p)
    PROVE  Inv'
<1> USE DEF Inv, OpenReadOnly, Goto, Return, disk, durable, proc
<1>1. TypeOK'
  BY DirFacts, RemoveStepType DEF TypeOK, PC, StagePC, PublishPC, Installing, Ops
<1>2. LockInv'
  BY DEF TypeOK, LockInv, Outside, Reading
<1>3. WellFormed'
  BY DEF TypeOK, WellFormed
<1>4. ActiveIsComplete'
  BY DEF TypeOK, ActiveIsComplete
<1>5. ProcInv(p)'
  BY DEF TypeOK, ProcInv, RequestInv, AdmissionInv, PublishInv, RemoveInv, LaunchInv, StatusInv,
         Admitted, StagePC, PublishPC, Outside, Reading, NoStage, NoVersion, Installing, Ops, MyDigest
<1>6. ASSUME NEW q \in Proc, q # p
      PROVE  ProcInv(q)'
  BY <1>6, QuietFrame DEF TypeOK
<1> QED BY <1>1, <1>2, <1>3, <1>4, <1>5, <1>6

(* OpenRefused preserves the invariant. *)
LEMMA OpenRefusedPreserves ==
    ASSUME Inv, NEW p \in Proc, OpenRefused(p)
    PROVE  Inv'
<1> USE DEF Inv, OpenRefused, Goto, Return, disk, durable, proc
<1>1. TypeOK'
  BY DirFacts, RemoveStepType DEF TypeOK, PC, StagePC, PublishPC, Installing, Ops
<1>2. LockInv'
  BY DEF TypeOK, LockInv, Outside, Reading
<1>3. WellFormed'
  BY DEF TypeOK, WellFormed
<1>4. ActiveIsComplete'
  BY DEF TypeOK, ActiveIsComplete
<1>5. ProcInv(p)'
  BY DEF TypeOK, ProcInv, RequestInv, AdmissionInv, PublishInv, RemoveInv, LaunchInv, StatusInv,
         Admitted, StagePC, PublishPC, Outside, Reading, NoStage, NoVersion, Installing, Ops, MyDigest
<1>6. ASSUME NEW q \in Proc, q # p
      PROVE  ProcInv(q)'
  BY <1>6, QuietFrame DEF TypeOK
<1> QED BY <1>1, <1>2, <1>3, <1>4, <1>5, <1>6

(* Opened preserves the invariant. *)
LEMMA OpenedPreserves ==
    ASSUME Inv, NEW p \in Proc, Opened(p)
    PROVE  Inv'
<1> USE DEF Inv, Opened, Goto, Return, disk, durable, proc
<1>1. TypeOK'
  BY DirFacts, RemoveStepType DEF TypeOK, PC, StagePC, PublishPC, Installing, Ops
<1>2. LockInv'
  BY DEF TypeOK, LockInv, Outside, Reading
<1>3. WellFormed'
  BY DEF TypeOK, WellFormed
<1>4. ActiveIsComplete'
  BY DEF TypeOK, ActiveIsComplete
<1>5. ProcInv(p)'
  BY DEF TypeOK, WellFormed, ProcInv, RequestInv, AdmissionInv, PublishInv, RemoveInv, LaunchInv, StatusInv,
         Admitted, StagePC, PublishPC, Outside, Reading, NoStage, NoVersion, Installing, Ops, MyDigest
<1>6. ASSUME NEW q \in Proc, q # p
      PROVE  ProcInv(q)'
  BY <1>6, QuietFrame DEF TypeOK
<1> QED BY <1>1, <1>2, <1>3, <1>4, <1>5, <1>6

(* Admit preserves the invariant. *)
LEMMA AdmitPreserves ==
    ASSUME Inv, NEW p \in Proc, Admit(p)
    PROVE  Inv'
<1> USE DEF Inv, Admit, Goto, Return, disk, durable, proc
<1>1. TypeOK'
  BY DirFacts, RemoveStepType DEF TypeOK, PC, StagePC, PublishPC, Installing, Ops
<1>2. LockInv'
  BY DEF TypeOK, LockInv, Outside, Reading
<1>3. WellFormed'
  BY DEF TypeOK, WellFormed
<1>4. ActiveIsComplete'
  BY DEF TypeOK, ActiveIsComplete
<1>5. ProcInv(p)'
  BY DEF TypeOK, Admissible, ProcInv, RequestInv, AdmissionInv, PublishInv, RemoveInv, LaunchInv, StatusInv,
         Admitted, StagePC, PublishPC, Outside, Reading, NoStage, NoVersion, Installing, Ops, MyDigest
<1>6. ASSUME NEW q \in Proc, q # p
      PROVE  ProcInv(q)'
  BY <1>6, QuietFrame DEF TypeOK
<1> QED BY <1>1, <1>2, <1>3, <1>4, <1>5, <1>6

(* VerifyStage preserves the invariant. *)
LEMMA VerifyStagePreserves ==
    ASSUME Inv, NEW p \in Proc, VerifyStage(p)
    PROVE  Inv'
<1> USE DEF Inv, VerifyStage, Goto, Return, disk, durable, proc
<1>1. TypeOK'
  BY DirFacts, RemoveStepType DEF TypeOK, PC, StagePC, PublishPC, Installing, Ops
<1>2. LockInv'
  BY DEF TypeOK, LockInv, Outside, Reading
<1>3. WellFormed'
  BY DEF TypeOK, WellFormed
<1>4. ActiveIsComplete'
  BY DEF TypeOK, ActiveIsComplete
<1>5. ProcInv(p)'
  BY DEF TypeOK, WellFormed, Absent, Complete, ProcInv, RequestInv, AdmissionInv, PublishInv, RemoveInv, LaunchInv, StatusInv,
         Admitted, StagePC, PublishPC, Outside, Reading, NoStage, NoVersion, Installing, Ops, MyDigest
<1>6. ASSUME NEW q \in Proc, q # p
      PROVE  ProcInv(q)'
  BY <1>6, QuietFrame DEF TypeOK
<1> QED BY <1>1, <1>2, <1>3, <1>4, <1>5, <1>6

(* SelfTest preserves the invariant. *)
LEMMA SelfTestPreserves ==
    ASSUME Inv, NEW p \in Proc, SelfTest(p)
    PROVE  Inv'
<1> USE DEF Inv, SelfTest, Goto, Return, disk, durable, proc
<1>1. TypeOK'
  BY DirFacts, RemoveStepType DEF TypeOK, PC, StagePC, PublishPC, Installing, Ops
<1>2. LockInv'
  BY DEF TypeOK, LockInv, Outside, Reading
<1>3. WellFormed'
  BY DEF TypeOK, WellFormed
<1>4. ActiveIsComplete'
  BY DEF TypeOK, ActiveIsComplete
<1>5. ProcInv(p)'
  BY DEF TypeOK, ProcInv, RequestInv, AdmissionInv, PublishInv, RemoveInv, LaunchInv, StatusInv,
         Admitted, StagePC, PublishPC, Outside, Reading, NoStage, NoVersion, Installing, Ops, MyDigest
<1>6. ASSUME NEW q \in Proc, q # p
      PROVE  ProcInv(q)'
  BY <1>6, QuietFrame DEF TypeOK
<1> QED BY <1>1, <1>2, <1>3, <1>4, <1>5, <1>6

(* SyncVersions preserves the invariant. *)
LEMMA SyncVersionsPreserves ==
    ASSUME Inv, NEW p \in Proc, SyncVersions(p)
    PROVE  Inv'
<1> USE DEF Inv, SyncVersions, Goto, Return, disk, durable, proc
<1>1. TypeOK'
  BY DirFacts, RemoveStepType DEF TypeOK, PC, StagePC, PublishPC, Installing, Ops
<1>2. LockInv'
  BY DEF TypeOK, LockInv, Outside, Reading
<1>3. WellFormed'
  BY DEF TypeOK, WellFormed
<1>4. ActiveIsComplete'
  BY DEF TypeOK, ActiveIsComplete
<1>5. ProcInv(p)'
  BY DEF TypeOK, ProcInv, RequestInv, AdmissionInv, PublishInv, RemoveInv, LaunchInv, StatusInv,
         Admitted, StagePC, PublishPC, Outside, Reading, NoStage, NoVersion, Installing, Ops, MyDigest
<1>6. ASSUME NEW q \in Proc, q # p
      PROVE  ProcInv(q)'
  BY <1>6, QuietFrame DEF TypeOK
<1> QED BY <1>1, <1>2, <1>3, <1>4, <1>5, <1>6

(* CreateTemporary preserves the invariant. *)
LEMMA CreateTemporaryPreserves ==
    ASSUME Inv, NEW p \in Proc, CreateTemporary(p)
    PROVE  Inv'
<1> USE DEF Inv, CreateTemporary, Goto, Return, disk, durable, proc
<1>1. TypeOK'
  <2>1. tmp' \subseteq Proc
    BY DEF TypeOK
  <2> QED BY <2>1 DEF TypeOK, PC, StagePC, PublishPC
<1>2. LockInv'
  BY DEF TypeOK, LockInv, Outside, Reading
<1>3. WellFormed'
  BY DEF TypeOK, WellFormed
<1>4. ActiveIsComplete'
  BY DEF TypeOK, ActiveIsComplete
<1>5. ProcInv(p)'
  BY DEF TypeOK, ProcInv, RequestInv, AdmissionInv, PublishInv, RemoveInv, LaunchInv, StatusInv,
         Admitted, StagePC, PublishPC, Outside, Reading, NoStage, NoVersion, Installing, Ops, MyDigest
<1>6. ASSUME NEW q \in Proc, q # p
      PROVE  ProcInv(q)'
  BY <1>6, QuietFrame DEF TypeOK
<1> QED BY <1>1, <1>2, <1>3, <1>4, <1>5, <1>6

(* SyncRoot preserves the invariant. *)
LEMMA SyncRootPreserves ==
    ASSUME Inv, NEW p \in Proc, SyncRoot(p)
    PROVE  Inv'
<1> USE DEF Inv, SyncRoot, Goto, Return, disk, durable, proc
<1>1. TypeOK'
  BY DirFacts, RemoveStepType DEF TypeOK, PC, StagePC, PublishPC, Installing, Ops
<1>2. LockInv'
  BY DEF TypeOK, LockInv, Outside, Reading
<1>3. WellFormed'
  BY DEF TypeOK, WellFormed
<1>4. ActiveIsComplete'
  BY DEF TypeOK, ActiveIsComplete
<1>5. ProcInv(p)'
  BY DEF TypeOK, LockInv, ProcInv, RequestInv, AdmissionInv, PublishInv, RemoveInv, LaunchInv, StatusInv,
         Admitted, StagePC, PublishPC, Outside, Reading, NoStage, NoVersion, Installing, Ops, MyDigest
<1>6. ASSUME NEW q \in Proc, q # p
      PROVE  ProcInv(q)'
  BY <1>6, QuietFrame DEF TypeOK
<1> QED BY <1>1, <1>2, <1>3, <1>4, <1>5, <1>6

(* Swept preserves the invariant. *)
LEMMA SweptPreserves ==
    ASSUME Inv, NEW p \in Proc, Swept(p)
    PROVE  Inv'
<1> USE DEF Inv, Swept, Goto, Return, disk, durable, proc
<1>1. TypeOK'
  BY DirFacts, RemoveStepType DEF TypeOK, PC, StagePC, PublishPC, Installing, Ops
<1>2. LockInv'
  BY DEF TypeOK, LockInv, Outside, Reading
<1>3. WellFormed'
  BY DEF TypeOK, WellFormed
<1>4. ActiveIsComplete'
  BY DEF TypeOK, ActiveIsComplete
<1>5. ProcInv(p)'
  BY DEF TypeOK, WellFormed, ProcInv, RequestInv, AdmissionInv, PublishInv, RemoveInv, LaunchInv, StatusInv,
         Admitted, StagePC, PublishPC, Outside, Reading, NoStage, NoVersion, Installing, Ops, MyDigest
<1>6. ASSUME NEW q \in Proc, q # p
      PROVE  ProcInv(q)'
  BY <1>6, QuietFrame DEF TypeOK
<1> QED BY <1>1, <1>2, <1>3, <1>4, <1>5, <1>6

(* Load preserves the invariant. *)
LEMMA LoadPreserves ==
    ASSUME Inv, NEW p \in Proc, Load(p)
    PROVE  Inv'
<1> USE DEF Inv, Load, Goto, Return, disk, durable, proc
<1>1. TypeOK'
  BY DEF TypeOK, Verifies, PC, StagePC, PublishPC
<1>2. LockInv'
  BY DEF TypeOK, LockInv, Outside, Reading
<1>3. WellFormed'
  BY DEF TypeOK, WellFormed
<1>4. ActiveIsComplete'
  BY DEF TypeOK, ActiveIsComplete
<1>5. ProcInv(p)'
  BY DEF TypeOK, Verifies, ProcInv, RequestInv, AdmissionInv, PublishInv, RemoveInv, LaunchInv, StatusInv,
         Admitted, StagePC, PublishPC, Outside, Reading, NoStage, NoVersion, Installing, Ops, MyDigest
<1>6. ASSUME NEW q \in Proc, q # p
      PROVE  ProcInv(q)'
  BY <1>6, QuietFrame DEF TypeOK
<1> QED BY <1>1, <1>2, <1>3, <1>4, <1>5, <1>6

(* FrontendExits preserves the invariant. *)
LEMMA FrontendExitsPreserves ==
    ASSUME Inv, NEW p \in Proc, FrontendExits(p)
    PROVE  Inv'
<1> USE DEF Inv, FrontendExits, Goto, Return, disk, durable, proc
<1>1. TypeOK'
  BY DirFacts, RemoveStepType DEF TypeOK, PC, StagePC, PublishPC, Installing, Ops
<1>2. LockInv'
  BY DEF TypeOK, LockInv, Outside, Reading
<1>3. WellFormed'
  BY DEF TypeOK, WellFormed
<1>4. ActiveIsComplete'
  BY DEF TypeOK, ActiveIsComplete
<1>5. ProcInv(p)'
  BY DEF TypeOK, ProcInv, RequestInv, AdmissionInv, PublishInv, RemoveInv, LaunchInv, StatusInv,
         Admitted, StagePC, PublishPC, Outside, Reading, NoStage, NoVersion, Installing, Ops, MyDigest
<1>6. ASSUME NEW q \in Proc, q # p
      PROVE  ProcInv(q)'
  BY <1>6, QuietFrame DEF TypeOK
<1> QED BY <1>1, <1>2, <1>3, <1>4, <1>5, <1>6

(* ReadActive preserves the invariant. *)
LEMMA ReadActivePreserves ==
    ASSUME Inv, NEW p \in Proc, ReadActive(p)
    PROVE  Inv'
<1> USE DEF Inv, ReadActive, Goto, Return, disk, durable, proc
<1>1. TypeOK'
  BY DirFacts, RemoveStepType DEF TypeOK, PC, StagePC, PublishPC, Installing, Ops
<1>2. LockInv'
  BY DEF TypeOK, LockInv, Outside, Reading
<1>3. WellFormed'
  BY DEF TypeOK, WellFormed
<1>4. ActiveIsComplete'
  BY DEF TypeOK, ActiveIsComplete
<1>5. ProcInv(p)'
  BY DEF TypeOK, ProcInv, RequestInv, AdmissionInv, PublishInv, RemoveInv, LaunchInv, StatusInv,
         Admitted, StagePC, PublishPC, Outside, Reading, NoStage, NoVersion, Installing, Ops, MyDigest
<1>6. ASSUME NEW q \in Proc, q # p
      PROVE  ProcInv(q)'
  BY <1>6, QuietFrame DEF TypeOK
<1> QED BY <1>1, <1>2, <1>3, <1>4, <1>5, <1>6

(* ReadExecutable preserves the invariant. *)
LEMMA ReadExecutablePreserves ==
    ASSUME Inv, NEW p \in Proc, ReadExecutable(p)
    PROVE  Inv'
<1> USE DEF Inv, ReadExecutable, Goto, Return, disk, durable, proc
<1>1. TypeOK'
  <2>1. req[p] \in Bundle /\ MyDigest(p) \in Digest
    BY DEF ProcInv, StatusInv, MyDigest
  <2>2. versions[MyDigest(p)].exe \in Digest \cup {None, Damaged}
    BY <2>1 DEF TypeOK, Dir
  <2> QED BY <2>1, <2>2 DEF TypeOK, PC, StagePC, PublishPC
<1>2. LockInv'
  BY DEF TypeOK, LockInv, Outside, Reading
<1>3. WellFormed'
  BY DEF TypeOK, WellFormed
<1>4. ActiveIsComplete'
  BY DEF TypeOK, ActiveIsComplete
<1>5. ProcInv(p)'
  BY DEF TypeOK, LockInv, ProcInv, RequestInv, AdmissionInv, PublishInv, RemoveInv, LaunchInv, StatusInv,
         Admitted, StagePC, PublishPC, Outside, Reading, NoStage, NoVersion, Installing, Ops, MyDigest
<1>6. ASSUME NEW q \in Proc, q # p
      PROVE  ProcInv(q)'
  BY <1>6, QuietFrame DEF TypeOK
<1> QED BY <1>1, <1>2, <1>3, <1>4, <1>5, <1>6

(* Finish preserves the invariant. *)
LEMMA FinishPreserves ==
    ASSUME Inv, NEW p \in Proc, Finish(p)
    PROVE  Inv'
<1> USE DEF Inv, Finish, Goto, Return, disk, durable, proc
<1>1. TypeOK'
  BY DirFacts, RemoveStepType DEF TypeOK, PC, StagePC, PublishPC, Installing, Ops
<1>2. LockInv'
  BY DEF TypeOK, LockInv, Outside, Reading
<1>3. WellFormed'
  BY DEF TypeOK, WellFormed
<1>4. ActiveIsComplete'
  BY DEF TypeOK, ActiveIsComplete
<1>5. ProcInv(p)'
  BY DEF TypeOK, ProcInv, RequestInv, AdmissionInv, PublishInv, RemoveInv, LaunchInv, StatusInv,
         Admitted, StagePC, PublishPC, Outside, Reading, NoStage, NoVersion, Installing, Ops, MyDigest
<1>6. ASSUME NEW q \in Proc, q # p
      PROVE  ProcInv(q)'
  BY <1>6, QuietFrame DEF TypeOK
<1> QED BY <1>1, <1>2, <1>3, <1>4, <1>5, <1>6

(* Kill preserves the invariant. *)
LEMMA KillPreserves ==
    ASSUME Inv, NEW p \in Proc, Kill(p)
    PROVE  Inv'
<1> USE DEF Inv, Kill, Goto, Return, disk, durable, proc
<1>1. TypeOK'
  BY DirFacts, RemoveStepType DEF TypeOK, PC, StagePC, PublishPC, Installing, Ops
<1>2. LockInv'
  BY DEF TypeOK, LockInv, Outside, Reading
<1>3. WellFormed'
  BY DEF TypeOK, WellFormed
<1>4. ActiveIsComplete'
  BY DEF TypeOK, ActiveIsComplete
<1>5. ProcInv(p)'
  BY DEF TypeOK, ProcInv, RequestInv, AdmissionInv, PublishInv, RemoveInv, LaunchInv, StatusInv,
         Admitted, StagePC, PublishPC, Outside, Reading, NoStage, NoVersion, Installing, Ops, MyDigest
<1>6. ASSUME NEW q \in Proc, q # p
      PROVE  ProcInv(q)'
  BY <1>6, QuietFrame DEF TypeOK
<1> QED BY <1>1, <1>2, <1>3, <1>4, <1>5, <1>6

(* IoError preserves the invariant. *)
LEMMA IoErrorPreserves ==
    ASSUME Inv, NEW p \in Proc, IoError(p)
    PROVE  Inv'
<1> USE DEF Inv, IoError, Goto, Return, disk, durable, proc
<1>1. TypeOK'
  <2>1. tmp' \subseteq Proc
    BY DEF TypeOK
  <2> QED BY <2>1 DEF TypeOK, PC, StagePC, PublishPC
<1>2. LockInv'
  BY DEF TypeOK, LockInv, Outside, Reading
<1>3. WellFormed'
  BY DEF TypeOK, WellFormed
<1>4. ActiveIsComplete'
  BY DEF TypeOK, ActiveIsComplete
<1>5. ProcInv(p)'
  BY DEF TypeOK, ProcInv, RequestInv, AdmissionInv, PublishInv, RemoveInv, LaunchInv, StatusInv,
         Admitted, StagePC, PublishPC, Outside, Reading, NoStage, NoVersion, Installing, Ops, MyDigest
<1>6. ASSUME NEW q \in Proc, q # p
      PROVE  ProcInv(q)'
  BY <1>6, QuietFrame DEF TypeOK
<1> QED BY <1>1, <1>2, <1>3, <1>4, <1>5, <1>6

(* CleanStage preserves the invariant. *)
LEMMA CleanStagePreserves ==
    ASSUME Inv, NEW p \in Proc, NEW d \in Digest, CleanStage(p, d)
    PROVE  Inv'
<1> USE DEF Inv, CleanStage, Goto, Return, disk, durable, proc
<1>1. TypeOK'
  BY DirFacts, RemoveStepType DEF TypeOK, PC, StagePC, PublishPC, Installing, Ops
<1>2. LockInv'
  BY DEF TypeOK, LockInv, Outside, Reading
<1>3. WellFormed'
  BY RemoveStepWellFormed DEF TypeOK, WellFormed
<1>4. ActiveIsComplete'
  BY DEF TypeOK, ActiveIsComplete
<1>5. ProcInv(p)'
  BY DEF TypeOK, ProcInv, RequestInv, AdmissionInv, PublishInv, RemoveInv, LaunchInv, StatusInv,
         Admitted, StagePC, PublishPC, Outside, Reading, NoStage, NoVersion, Installing, Ops, MyDigest
<1>6. ASSUME NEW q \in Proc, q # p
      PROVE  ProcInv(q)'
  <2>1. held[p] = "exclusive"
    BY DEF LockInv, Outside, Reading
  <2> QED BY <1>6, <2>1, AloneFrame DEF TypeOK
<1> QED BY <1>1, <1>2, <1>3, <1>4, <1>5, <1>6

(* MakeStage preserves the invariant. *)
LEMMA MakeStagePreserves ==
    ASSUME Inv, NEW p \in Proc, MakeStage(p)
    PROVE  Inv'
<1> USE DEF Inv, MakeStage, Goto, Return, disk, durable, proc
<1>1. TypeOK'
  BY DirFacts, RemoveStepType DEF TypeOK, PC, StagePC, PublishPC, Installing, Ops
<1>2. LockInv'
  BY DEF TypeOK, LockInv, Outside, Reading
<1>3. WellFormed'
  <2>1. req[p] \in Bundle /\ MyDigest(p) \in Digest
    BY DEF ProcInv, RequestInv, Admitted, StagePC, PublishPC, MyDigest
  <2> QED BY <2>1, RemoveStepWellFormed, DirFacts DEF TypeOK, WellFormed, EmptyDir, Dir
<1>4. ActiveIsComplete'
  BY DEF TypeOK, ActiveIsComplete
<1>5. ProcInv(p)'
  <2>1. req[p] \in Bundle /\ MyDigest(p) \in Digest
    BY DEF ProcInv, RequestInv, Admitted, StagePC, PublishPC, MyDigest
  <2> QED BY <2>1 DEF TypeOK, EmptyDir, ProcInv, RequestInv, AdmissionInv, PublishInv, RemoveInv, LaunchInv, StatusInv,
             Admitted, StagePC, PublishPC, Outside, Reading, NoStage, NoVersion, Installing, Ops, MyDigest
<1>6. ASSUME NEW q \in Proc, q # p
      PROVE  ProcInv(q)'
  <2>1. held[p] = "exclusive"
    BY DEF LockInv, Outside, Reading
  <2> QED BY <1>6, <2>1, AloneFrame DEF TypeOK
<1> QED BY <1>1, <1>2, <1>3, <1>4, <1>5, <1>6

(* WriteExecutable preserves the invariant. *)
LEMMA WriteExecutablePreserves ==
    ASSUME Inv, NEW p \in Proc, WriteExecutable(p)
    PROVE  Inv'
<1> USE DEF Inv, WriteExecutable, Goto, Return, disk, durable, proc
<1>1. TypeOK'
  BY DirFacts, RemoveStepType DEF TypeOK, PC, StagePC, PublishPC, Installing, Ops
<1>2. LockInv'
  BY DEF TypeOK, LockInv, Outside, Reading
<1>3. WellFormed'
  <2>1. req[p] \in Bundle /\ MyDigest(p) \in Digest
    BY DEF ProcInv, RequestInv, Admitted, StagePC, PublishPC, MyDigest
  <2>2. stage[MyDigest(p)].there /\ stage[MyDigest(p)] \in Dir
    BY <2>1 DEF TypeOK, ProcInv, PublishInv, MyDigest
  <2> QED BY <2>1, <2>2 DEF TypeOK, WellFormed, Dir
<1>4. ActiveIsComplete'
  BY DEF TypeOK, ActiveIsComplete
<1>5. ProcInv(p)'
  BY DEF TypeOK, ProcInv, RequestInv, AdmissionInv, PublishInv, RemoveInv, LaunchInv, StatusInv,
         Admitted, StagePC, PublishPC, Outside, Reading, NoStage, NoVersion, Installing, Ops, MyDigest
<1>6. ASSUME NEW q \in Proc, q # p
      PROVE  ProcInv(q)'
  <2>1. held[p] = "exclusive"
    BY DEF LockInv, Outside, Reading
  <2> QED BY <1>6, <2>1, AloneFrame DEF TypeOK
<1> QED BY <1>1, <1>2, <1>3, <1>4, <1>5, <1>6

(* WriteRecord preserves the invariant. *)
LEMMA WriteRecordPreserves ==
    ASSUME Inv, NEW p \in Proc, WriteRecord(p)
    PROVE  Inv'
<1> USE DEF Inv, WriteRecord, Goto, Return, disk, durable, proc
<1>1. TypeOK'
  BY DirFacts, RemoveStepType DEF TypeOK, PC, StagePC, PublishPC, Installing, Ops
<1>2. LockInv'
  BY DEF TypeOK, LockInv, Outside, Reading
<1>3. WellFormed'
  <2>1. req[p] \in Bundle /\ MyDigest(p) \in Digest
    BY DEF ProcInv, RequestInv, Admitted, StagePC, PublishPC, MyDigest
  <2>2. stage[MyDigest(p)].there /\ stage[MyDigest(p)] \in Dir
    BY <2>1 DEF TypeOK, ProcInv, PublishInv, MyDigest
  <2> QED BY <2>1, <2>2 DEF TypeOK, WellFormed, Dir
<1>4. ActiveIsComplete'
  BY DEF TypeOK, ActiveIsComplete
<1>5. ProcInv(p)'
  BY DEF TypeOK, ProcInv, RequestInv, AdmissionInv, PublishInv, RemoveInv, LaunchInv, StatusInv,
         Admitted, StagePC, PublishPC, Outside, Reading, NoStage, NoVersion, Installing, Ops, MyDigest
<1>6. ASSUME NEW q \in Proc, q # p
      PROVE  ProcInv(q)'
  <2>1. held[p] = "exclusive"
    BY DEF LockInv, Outside, Reading
  <2> QED BY <1>6, <2>1, AloneFrame DEF TypeOK
<1> QED BY <1>1, <1>2, <1>3, <1>4, <1>5, <1>6

(* Discard preserves the invariant. *)
LEMMA DiscardPreserves ==
    ASSUME Inv, NEW p \in Proc, Discard(p)
    PROVE  Inv'
<1> USE DEF Inv, Discard, Goto, Return, disk, durable, proc
<1>1. TypeOK'
  <2>1. req[p] \in Bundle /\ MyDigest(p) \in Digest
    BY DEF ProcInv, RequestInv, Admitted, StagePC, PublishPC, MyDigest
  <2>2. stage' \in [Digest -> Dir]
    BY <2>1, RemoveStepType DEF TypeOK
  <2> QED BY <2>1, <2>2 DEF TypeOK, PC, StagePC, PublishPC
<1>2. LockInv'
  BY DEF TypeOK, LockInv, Outside, Reading
<1>3. WellFormed'
  <2>1. req[p] \in Bundle /\ MyDigest(p) \in Digest
    BY DEF ProcInv, RequestInv, Admitted, StagePC, PublishPC, MyDigest
  <2> QED BY <2>1, RemoveStepWellFormed, DirFacts DEF TypeOK, WellFormed, EmptyDir, Dir
<1>4. ActiveIsComplete'
  BY DEF TypeOK, ActiveIsComplete
<1>5. ProcInv(p)'
  BY DEF TypeOK, ProcInv, RequestInv, AdmissionInv, PublishInv, RemoveInv, LaunchInv, StatusInv,
         Admitted, StagePC, PublishPC, Outside, Reading, NoStage, NoVersion, Installing, Ops, MyDigest
<1>6. ASSUME NEW q \in Proc, q # p
      PROVE  ProcInv(q)'
  <2>1. held[p] = "exclusive"
    BY DEF LockInv, Outside, Reading
  <2> QED BY <1>6, <2>1, AloneFrame DEF TypeOK
<1> QED BY <1>1, <1>2, <1>3, <1>4, <1>5, <1>6

(* Publish preserves the invariant. *)
LEMMA PublishPreserves ==
    ASSUME Inv, NEW p \in Proc, Publish(p)
    PROVE  Inv'
<1> USE DEF Inv, Publish, Goto, Return, disk, durable, proc
<1>1. TypeOK'
  <2>1. req[p] \in Bundle /\ MyDigest(p) \in Digest
    BY DEF ProcInv, RequestInv, Admitted, StagePC, PublishPC, MyDigest
  <2>2. /\ stage' = stage \/ stage' = [stage EXCEPT ![MyDigest(p)] = Absent]
        /\ versions' = versions \/ versions' = [versions EXCEPT ![MyDigest(p)] = stage[MyDigest(p)]]
    OBVIOUS
  <2>3. stage' \in [Digest -> Dir]
    BY <2>1, <2>2, DirFacts DEF TypeOK
  <2>4. stage[MyDigest(p)] \in Dir
    BY <2>1 DEF TypeOK
  <2>5. versions' \in [Digest -> Dir]
    BY <2>1, <2>2, <2>4 DEF TypeOK
  <2> QED BY <2>1, <2>3, <2>5 DEF TypeOK, PC, StagePC, PublishPC
<1>2. LockInv'
  BY DEF TypeOK, LockInv, Outside, Reading
<1>3. WellFormed'
  BY DEF TypeOK, WellFormed
<1>4. ActiveIsComplete'
  <2>1. req[p] \in Bundle /\ MyDigest(p) \in Digest
    BY DEF ProcInv, RequestInv, Admitted, StagePC, PublishPC, MyDigest
  <2>2. ASSUME active \in Bundle
        PROVE  versions'[digest[active]] = versions[digest[active]]
    BY <2>1, <2>2 DEF TypeOK, ActiveIsComplete, Complete
  <2> QED BY <2>2 DEF TypeOK, ActiveIsComplete
<1>5. ProcInv(p)'
  <2>1. req[p] \in Bundle /\ MyDigest(p) \in Digest
    BY DEF ProcInv, RequestInv, Admitted, StagePC, PublishPC, MyDigest
  <2> QED BY <2>1 DEF TypeOK, Complete, WellFormed, Absent, ProcInv, RequestInv, AdmissionInv, PublishInv, RemoveInv, LaunchInv, StatusInv,
             Admitted, StagePC, PublishPC, Outside, Reading, NoStage, NoVersion, Installing, Ops, MyDigest
<1>6. ASSUME NEW q \in Proc, q # p
      PROVE  ProcInv(q)'
  <2>1. held[p] = "exclusive"
    BY DEF LockInv, Outside, Reading
  <2> QED BY <1>6, <2>1, AloneFrame DEF TypeOK
<1> QED BY <1>1, <1>2, <1>3, <1>4, <1>5, <1>6

(* DropStage preserves the invariant. *)
LEMMA DropStagePreserves ==
    ASSUME Inv, NEW p \in Proc, DropStage(p)
    PROVE  Inv'
<1> USE DEF Inv, DropStage, Goto, Return, disk, durable, proc
<1>1. TypeOK'
  <2>1. req[p] \in Bundle /\ MyDigest(p) \in Digest
    BY DEF ProcInv, RequestInv, Admitted, StagePC, PublishPC, MyDigest
  <2>2. stage' \in [Digest -> Dir]
    BY <2>1, RemoveStepType DEF TypeOK
  <2> QED BY <2>1, <2>2 DEF TypeOK, PC, StagePC, PublishPC
<1>2. LockInv'
  BY DEF TypeOK, LockInv, Outside, Reading
<1>3. WellFormed'
  <2>1. req[p] \in Bundle /\ MyDigest(p) \in Digest
    BY DEF ProcInv, RequestInv, Admitted, StagePC, PublishPC, MyDigest
  <2> QED BY <2>1, RemoveStepWellFormed, DirFacts DEF TypeOK, WellFormed, EmptyDir, Dir
<1>4. ActiveIsComplete'
  BY DEF TypeOK, ActiveIsComplete
<1>5. ProcInv(p)'
  BY DEF TypeOK, ProcInv, RequestInv, AdmissionInv, PublishInv, RemoveInv, LaunchInv, StatusInv,
         Admitted, StagePC, PublishPC, Outside, Reading, NoStage, NoVersion, Installing, Ops, MyDigest
<1>6. ASSUME NEW q \in Proc, q # p
      PROVE  ProcInv(q)'
  <2>1. held[p] = "exclusive"
    BY DEF LockInv, Outside, Reading
  <2> QED BY <1>6, <2>1, AloneFrame DEF TypeOK
<1> QED BY <1>1, <1>2, <1>3, <1>4, <1>5, <1>6

(* Swap preserves the invariant. *)
LEMMA SwapPreserves ==
    ASSUME Inv, NEW p \in Proc, Swap(p)
    PROVE  Inv'
<1> USE DEF Inv, Swap, Goto, Return, disk, durable, proc
<1>1. TypeOK'
  BY DirFacts, RemoveStepType DEF TypeOK, PC, StagePC, PublishPC, Installing, Ops
<1>2. LockInv'
  BY DEF TypeOK, LockInv, Outside, Reading
<1>3. WellFormed'
  BY DEF TypeOK, WellFormed
<1>4. ActiveIsComplete'
  BY DEF TypeOK, ActiveIsComplete, ProcInv, PublishInv, RequestInv, Admitted, PublishPC
<1>5. ProcInv(p)'
  BY DEF TypeOK, ProcInv, RequestInv, AdmissionInv, PublishInv, RemoveInv, LaunchInv, StatusInv,
         Admitted, StagePC, PublishPC, Outside, Reading, NoStage, NoVersion, Installing, Ops, MyDigest
<1>6. ASSUME NEW q \in Proc, q # p
      PROVE  ProcInv(q)'
  <2>1. held[p] = "exclusive"
    BY DEF LockInv, Outside, Reading
  <2> QED BY <1>6, <2>1, AloneFrame DEF TypeOK
<1> QED BY <1>1, <1>2, <1>3, <1>4, <1>5, <1>6

(* UnlinkActive preserves the invariant. *)
LEMMA UnlinkActivePreserves ==
    ASSUME Inv, NEW p \in Proc, UnlinkActive(p)
    PROVE  Inv'
<1> USE DEF Inv, UnlinkActive, Goto, Return, disk, durable, proc
<1>1. TypeOK'
  BY DirFacts, RemoveStepType DEF TypeOK, PC, StagePC, PublishPC, Installing, Ops
<1>2. LockInv'
  BY DEF TypeOK, LockInv, Outside, Reading
<1>3. WellFormed'
  BY DEF TypeOK, WellFormed
<1>4. ActiveIsComplete'
  BY DEF TypeOK, ActiveIsComplete
<1>5. ProcInv(p)'
  BY DEF TypeOK, ProcInv, RequestInv, AdmissionInv, PublishInv, RemoveInv, LaunchInv, StatusInv,
         Admitted, StagePC, PublishPC, Outside, Reading, NoStage, NoVersion, Installing, Ops, MyDigest
<1>6. ASSUME NEW q \in Proc, q # p
      PROVE  ProcInv(q)'
  <2>1. held[p] = "exclusive"
    BY DEF LockInv, Outside, Reading
  <2> QED BY <1>6, <2>1, AloneFrame DEF TypeOK
<1> QED BY <1>1, <1>2, <1>3, <1>4, <1>5, <1>6

(* SweepVersion preserves the invariant. *)
LEMMA SweepVersionPreserves ==
    ASSUME Inv, NEW p \in Proc, NEW d \in Digest, SweepVersion(p, d)
    PROVE  Inv'
<1> USE DEF Inv, SweepVersion, Goto, Return, disk, durable, proc
<1>1. TypeOK'
  BY DirFacts, RemoveStepType DEF TypeOK, PC, StagePC, PublishPC, Installing, Ops
<1>2. LockInv'
  BY DEF TypeOK, LockInv, Outside, Reading
<1>3. WellFormed'
  BY RemoveStepWellFormed DEF TypeOK, WellFormed
<1>4. ActiveIsComplete'
  <2>1. active = None
    BY DEF ProcInv, RemoveInv
  <2> QED BY <2>1 DEF ActiveIsComplete
<1>5. ProcInv(p)'
  BY DEF TypeOK, ProcInv, RequestInv, AdmissionInv, PublishInv, RemoveInv, LaunchInv, StatusInv,
         Admitted, StagePC, PublishPC, Outside, Reading, NoStage, NoVersion, Installing, Ops, MyDigest
<1>6. ASSUME NEW q \in Proc, q # p
      PROVE  ProcInv(q)'
  <2>1. held[p] = "exclusive"
    BY DEF LockInv, Outside, Reading
  <2> QED BY <1>6, <2>1, AloneFrame DEF TypeOK
<1> QED BY <1>1, <1>2, <1>3, <1>4, <1>5, <1>6

(* Damage changes content, never what is there or whose record it is. *)
LEMMA DamagePreserves ==
    ASSUME Inv, Damage
    PROVE  Inv'
<1> USE DEF Inv, Damage, durable, proc
<1>1. TypeOK'
  <2>1. CASE active \in Bundle /\ active' = Damaged
              /\ durActive' = (IF durActive = active THEN Damaged ELSE durActive)
              /\ UNCHANGED <<versions, stage, durVersions>>
    BY <2>1 DEF TypeOK
  <2>2. ASSUME NEW d \in Digest,
               versions' = [versions EXCEPT ![d].exe = Damaged],
               durVersions' = [durVersions EXCEPT ![d].exe = IF @ = None THEN None ELSE Damaged],
               UNCHANGED <<active, stage, durActive>>
        PROVE  TypeOK'
    <3>1. versions' \in [Digest -> Dir]
      BY <2>2, DirFacts DEF TypeOK
    <3>2. durVersions' \in [Digest -> Dir]
      BY <2>2, DirFacts DEF TypeOK
    <3> QED BY <2>2, <3>1, <3>2 DEF TypeOK
  <2>3. ASSUME NEW d \in Digest,
               stage' = [stage EXCEPT ![d].exe = Damaged],
               UNCHANGED <<active, versions, durable>>
        PROVE  TypeOK'
    <3>1. stage' \in [Digest -> Dir]
      BY <2>3, DirFacts DEF TypeOK
    <3> QED BY <2>3, <3>1 DEF TypeOK
  <2> QED BY <2>1, <2>2, <2>3
<1>2. LockInv'
  BY DEF LockInv
<1>3. ASSUME NEW d \in Digest
      PROVE  /\ versions'[d].there = versions[d].there
             /\ versions'[d].meta = versions[d].meta
             /\ versions'[d].exe \in {versions[d].exe, Damaged}
             /\ versions[d].exe = None => versions'[d] = versions[d]
             /\ stage'[d].there = stage[d].there
             /\ stage'[d].meta = stage[d].meta
             /\ stage'[d].exe \in {stage[d].exe, Damaged}
             /\ stage[d].exe = None => stage'[d] = stage[d]
  BY <1>3 DEF TypeOK, Dir
<1>4. ASSUME NEW d \in Digest
      PROVE  /\ versions[d] = Absent => versions'[d] = Absent
             /\ stage[d] = Absent => stage'[d] = Absent
  <2>1. Absent.exe = None
    BY DEF Absent
  <2> QED BY <1>3, <2>1
<1>5. WellFormed'
  BY <1>3, <1>4 DEF WellFormed
<1>6. active' \in {active, Damaged} /\ (active = None => active' = None)
  OBVIOUS
<1>7. ActiveIsComplete'
  BY <1>3, <1>6 DEF TypeOK, ActiveIsComplete, Complete
<1>8. ASSUME NEW q \in Proc
      PROVE  ProcInv(q)'
  <2>1. NoStage => NoStage'
    BY <1>4 DEF NoStage
  <2>2. NoVersion => NoVersion'
    BY <1>4 DEF NoVersion
  <2>3. RequestInv(q)' /\ AdmissionInv(q)'
    BY <1>6, <1>8 DEF ProcInv, RequestInv, AdmissionInv, Admitted
  <2>4. PublishInv(q)'
    BY <1>3, <1>8 DEF ProcInv, RequestInv, PublishInv, Admitted, StagePC, PublishPC, Complete
  <2>5. RemoveInv(q)' /\ LaunchInv(q)' /\ StatusInv(q)'
    BY <1>6, <1>8, <2>1, <2>2 DEF ProcInv, RemoveInv, LaunchInv, StatusInv
  <2> QED BY <2>3, <2>4, <2>5 DEF ProcInv
<1> QED BY <1>1, <1>2, <1>5, <1>7, <1>8

-----------------------------------------------------------------------------

(* The fresh root satisfies the invariant. *)
LEMMA InitInv == Init => Inv
<1> SUFFICES ASSUME Init PROVE Inv
  OBVIOUS
<1> USE DEF Init
<1>1. TypeOK
  <2>1. faults \in 0..MaxFaults
    OBVIOUS
  <2>2. /\ versions \in [Digest -> Dir]
        /\ stage \in [Digest -> Dir]
        /\ durVersions \in [Digest -> Dir]
    BY DirFacts
  <2> QED BY <2>1, <2>2 DEF TypeOK, PC, Ops
<1>2. LockInv /\ ActiveIsComplete
  BY DEF LockInv, Outside, Reading, ActiveIsComplete
<1>3. WellFormed
  BY DEF WellFormed
<1>4. ASSUME NEW p \in Proc PROVE ProcInv(p)
  BY DEF ProcInv, RequestInv, AdmissionInv, PublishInv, RemoveInv, LaunchInv, StatusInv,
         Admitted, StagePC, PublishPC, Reading
<1> QED BY <1>1, <1>2, <1>4, <1>3 DEF Inv

(* So does a state that did not change. *)
LEMMA StutterInv == Inv /\ UNCHANGED vars => Inv'
<1> SUFFICES ASSUME Inv, UNCHANGED vars PROVE Inv'
  OBVIOUS
<1> USE DEF vars, Inv
<1>1. TypeOK' /\ LockInv' /\ WellFormed' /\ ActiveIsComplete'
  BY DEF TypeOK, LockInv, WellFormed, ActiveIsComplete
<1>2. ASSUME NEW p \in Proc PROVE ProcInv(p)'
  BY QuietFrame
<1> QED BY <1>1, <1>2

(* The invariant is inductive. *)
LEMMA NextInv == Inv /\ [Next]_vars => Inv'
<1> SUFFICES ASSUME Inv, [Next]_vars PROVE Inv'
  OBVIOUS
<1>1. CASE UNCHANGED vars
  BY <1>1, StutterInv
<1>2. CASE Damage
  BY <1>2, DamagePreserves
<1>3. ASSUME NEW p \in Proc, NEW o \in Ops, NEW b \in Bundle, Request(p, o, b)
      PROVE  Inv'
  BY <1>3, RequestPreserves
<1>4. ASSUME NEW p \in Proc, FrontendExits(p) \/ IoError(p) \/ Kill(p)
      PROVE  Inv'
  BY <1>4, FrontendExitsPreserves, IoErrorPreserves, KillPreserves
<1>5. ASSUME NEW p \in Proc, Step(p)
      PROVE  Inv'
  BY <1>5, OpenExclusivePreserves, OpenReadOnlyPreserves, OpenRefusedPreserves,
     CleanStagePreserves, OpenedPreserves, AdmitPreserves, MakeStagePreserves,
     WriteExecutablePreserves, WriteRecordPreserves, VerifyStagePreserves,
     SelfTestPreserves, DiscardPreserves, PublishPreserves, DropStagePreserves,
     SyncVersionsPreserves, CreateTemporaryPreserves, SwapPreserves, SyncRootPreserves,
     UnlinkActivePreserves, SweptPreserves, SweepVersionPreserves, LoadPreserves,
     ReadActivePreserves, ReadExecutablePreserves, FinishPreserves DEF Step
<1> QED BY <1>1, <1>2, <1>3, <1>4, <1>5 DEF Next

(* Every reachable state satisfies the inductive invariant. *)
THEOREM InvHolds == Spec => []Inv
BY InitInv, NextInv, PTL DEF Spec

(* The variables keep their types, for any set of processes and bundles. *)
THEOREM TypeCorrect == Spec => []TypeOK
<1>1. Inv => TypeOK
  BY DEF Inv
<1> QED BY <1>1, InvHolds, PTL

(* active.json never names a half-made or half-removed version directory,   *)
(* whichever process is killed or fails at whichever step.                  *)
THEOREM ActiveComplete == Spec => []ActiveIsComplete
<1>1. Inv => ActiveIsComplete
  BY DEF Inv
<1> QED BY <1>1, InvHolds, PTL

(* launch() runs the verified bytes of the installation that stays active. *)
THEOREM LaunchVerified == Spec => []LaunchIsVerified
<1>1. Inv => LaunchIsVerified
  BY DEF Inv, ProcInv, LaunchInv, LaunchIsVerified
<1> QED BY <1>1, InvHolds, PTL

(* A verified status is about the installation that is active. *)
THEOREM StatusCurrent == Spec => []StatusIsCurrent
<1>1. Inv => StatusIsCurrent
  BY DEF Inv, ProcInv, StatusInv, StatusIsCurrent
<1> QED BY <1>1, InvHolds, PTL

(* A successful remove leaves no record, no version and no stage. *)
THEOREM RemoveComplete == Spec => []RemoveIsComplete
<1>1. Inv => RemoveIsComplete
  BY DEF Inv, ProcInv, RemoveInv, RemoveIsComplete, NoStage, NoVersion
<1> QED BY <1>1, InvHolds, PTL

-----------------------------------------------------------------------------

(* How active.json may change in one step. *)
ActiveChange ==
    \/ active' = active
    \/ active' = None
    \/ active \in Bundle /\ active' = Damaged
    \/ /\ active' \in Bundle
       /\ \/ active \in {None, Damaged}
          \/ active \in Bundle /\ release[active'] > release[active]

(* Every step changes active.json in one of those ways. *)
LEMMA StepChange ==
    ASSUME Inv, [Next]_vars
    PROVE  ActiveChange
<1>1. CASE UNCHANGED vars
  BY <1>1 DEF vars, ActiveChange
<1>2. CASE Damage
  BY <1>2 DEF Damage, ActiveChange
<1>3. ASSUME NEW p \in Proc, Swap(p)
      PROVE  ActiveChange
  <2>1. Admitted(p)
    BY <1>3 DEF Swap, Admitted, PublishPC
  <2>2. AdmissionInv(p) /\ RequestInv(p)
    BY DEF Inv, ProcInv
  <2> QED BY <1>3, <2>1, <2>2 DEF Swap, AdmissionInv, RequestInv, ActiveChange
<1>4. ASSUME NEW p \in Proc, UnlinkActive(p)
      PROVE  ActiveChange
  BY <1>4 DEF UnlinkActive, ActiveChange
<1>5. ASSUME NEW p \in Proc, NEW o \in Ops, NEW b \in Bundle, Request(p, o, b)
      PROVE  active' = active
  BY <1>5 DEF Request, disk
<1>6. ASSUME NEW p \in Proc, FrontendExits(p) \/ IoError(p) \/ Kill(p)
      PROVE  active' = active
  BY <1>6 DEF FrontendExits, IoError, Kill, disk
<1>7. ASSUME NEW p \in Proc, Step(p), ~Swap(p), ~UnlinkActive(p)
      PROVE  active' = active
  BY <1>7 DEF Step, OpenExclusive, OpenReadOnly, OpenRefused, CleanStage, Opened, Admit,
              MakeStage, WriteExecutable, WriteRecord, VerifyStage, SelfTest, Discard,
              Publish, DropStage, SyncVersions, CreateTemporary, SyncRoot, Swept,
              SweepVersion, Load, ReadActive, ReadExecutable, Finish, disk
<1>8. active' = active => ActiveChange
  BY DEF ActiveChange
<1> QED BY <1>1, <1>2, <1>3, <1>4, <1>5, <1>6, <1>7, <1>8 DEF Next

(* Only a remove leads back to an older release. *)
THEOREM NoDowngrade == Spec => NeverDowngraded
<1>1. Inv /\ [Next]_vars => [(active \in Bundle /\ active' \in Bundle /\ active' # active)
                                => release[active'] > release[active]]_vars
  BY StepChange DEF ActiveChange
<1> QED BY <1>1, InvHolds, PTL DEF Spec, NeverDowngraded

(* The installer implements the atomic extension it promises: seen through   *)
(* active.json, every step of every operation is a step of Extension or      *)
(* changes nothing.                                                          *)
THEOREM Refinement == Spec => RefinesExtension
<1>1. Inv => visible = active
  BY DEF Inv, ActiveIsComplete, visible
<1>2. Init => Promise!Init
  BY DEF Init, visible, Promise!Init
<1>3. Inv /\ Inv' /\ [Next]_vars => [Promise!Next]_visible
  <2> SUFFICES ASSUME Inv, Inv', [Next]_vars PROVE [Promise!Next]_visible
    OBVIOUS
  <2>1. visible = active /\ visible' = active'
    BY <1>1 DEF Inv, ActiveIsComplete, visible
  <2> QED BY <2>1, StepChange
          DEF ActiveChange, Promise!Next, Promise!Activate, Promise!Remove, Promise!Damage
<1> QED BY <1>2, <1>3, InvHolds, PTL DEF Spec, RefinesExtension, Promise!Spec

=============================================================================
