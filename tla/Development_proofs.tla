------------------------- MODULE Development_proofs --------------------------
(***************************************************************************)
(* Proofs about the development channel: its installer (DevLifecycle), and *)
(* the screen and the threads it is run from (Handoff).                    *)
(***************************************************************************)
EXTENDS DevLifecycle, Handoff, TLAPS

-----------------------------------------------------------------------------
(* The installer, for any builds and faults.  The renames of one worker are  *)
(* followed file by file: which of them are already moved, new or restored   *)
(* is told by where its loop is.  It holds of one worker: two of them        *)
(* overwrite each other's files (the run dev_concurrent).                    *)

OneWorker == \E w : DevWorker = {w}

(* The file of the i-th name; the files a build stages. *)
File(f, i) == f[DevNames[i]]
NewFiles(b, bound) ==
    [exe |-> b, prov |-> [build |-> b, bound |-> bound], man |-> IF bound THEN b ELSE DevNone]

(* Either in the root or, whole, in the backup. *)
Either(w, i) ==
    \/ File(root, i) = File(before[w].files, i) /\ File(saved[w], i) = DevNone
    \/ File(root, i) = DevNone /\ File(saved[w], i) = File(before[w].files, i)

NoSecondFault(w) == faults <= before[w].faults + 1

BackupInv(w) ==
    pc[w] = "backup" =>
        /\ \A i \in 1..3 : IF i < at[w]
                           THEN File(root, i) = DevNone /\ File(saved[w], i) = File(before[w].files, i)
                           ELSE File(root, i) = File(before[w].files, i) /\ File(saved[w], i) = DevNone
        /\ \E b \in DevBuild, bound \in BOOLEAN : stage[w] = NewFiles(b, bound)

ActivateInv(w) ==
    (pc[w] = "activate" /\ op[w] = "upgrade") =>
        /\ saved[w] = before[w].files
        /\ \E b \in DevBuild, bound \in BOOLEAN : \A i \in 1..3 :
              IF i < at[w] THEN File(root, i) = File(NewFiles(b, bound), i)
              ELSE File(root, i) = DevNone /\ File(stage[w], i) = File(NewFiles(b, bound), i)

(* The rollback: a file is back, or still in the backup. *)
UndoInv(w) ==
    (pc[w] \in {"undo", "restore"} /\ op[w] = "upgrade") =>
        /\ \A i \in 1..3 : i < at[w] =>
              /\ File(before[w].files, i) \in {File(root, i), File(saved[w], i)}
              /\ NoSecondFault(w) => File(root, i) = File(before[w].files, i)
        /\ \A i \in 1..3 : i >= at[w] => File(saved[w], i) = File(before[w].files, i)
        /\ \A i \in 1..3 : pc[w] = "restore" /\ i = at[w] /\ NoSecondFault(w) => File(root, i) = DevNone

PutBackInv(w) ==
    (pc[w] = "putback" /\ op[w] = "upgrade") =>
        \A i \in 1..3 :
            /\ Either(w, i)
            /\ i < at[w] /\ NoSecondFault(w) => File(root, i) = File(before[w].files, i)

DoneInv(w) ==
    /\ pc[w] \in {"idle", "build", "done"} => saved[w] = NoFiles
    /\ (DevFailed(w) /\ op[w] = "upgrade" /\ NoSecondFault(w)) => root = before[w].files
    /\ pc[w] = "trash" => op[w] = "remove"
    /\ pc[w] \in {"backup", "activate", "trash"} => faults >= before[w].faults
    /\ pc[w] \in {"undo", "restore", "putback"} => faults >= before[w].faults + 1

WorkerInv(w) == BackupInv(w) /\ ActivateInv(w) /\ UndoInv(w) /\ PutBackInv(w) /\ DoneInv(w)

DevInv == OneWorker /\ DevTypeOK /\ \A w \in DevWorker : WorkerInv(w)

(* The three names are told apart, and every file has one. *)
LEMMA NameFacts ==
    /\ Len(DevNames) = 3
    /\ \A i \in 1..3 : DevNames[i] \in {"exe", "prov", "man"}
    /\ \A i, j \in 1..3 : DevNames[i] = DevNames[j] => i = j
    /\ \A i \in 1..3 : File(NoFiles, i) = DevNone
    /\ NoFiles \in Files
<1>1. DevNames[1] = "exe" /\ DevNames[2] = "prov" /\ DevNames[3] = "man" /\ Len(DevNames) = 3
  BY DEF DevNames
<1>2. \A i \in 1..3 : i = 1 \/ i = 2 \/ i = 3
  OBVIOUS
<1>3. \A i, j \in 1..3 : DevNames[i] = DevNames[j] => i = j
  BY <1>1, <1>2
<1>4. \A i \in 1..3 : File(NoFiles, i) = DevNone
  BY <1>1, <1>2 DEF File, NoFiles
<1> QED BY <1>1, <1>2, <1>3, <1>4 DEF NoFiles, Files

(* One file is replaced by that of another set of files. *)
LEMMA PutFile ==
    ASSUME NEW f \in Files, NEW g \in Files, NEW i \in 1..3
    PROVE  LET h == [f EXCEPT ![DevNames[i]] = g[DevNames[i]]]
           IN  /\ h \in Files
               /\ \A j \in 1..3 : File(h, j) = IF j = i THEN File(g, i) ELSE File(f, j)
<1> DEFINE n == DevNames[i]
           h == [f EXCEPT ![n] = g[n]]
<1>1. n \in {"exe", "prov", "man"}
  BY NameFacts
<1>2. h \in Files
  <2>1. CASE n = "exe"
    BY <2>1 DEF Files
  <2>2. CASE n = "prov"
    BY <2>2 DEF Files
  <2>3. CASE n = "man"
    BY <2>3 DEF Files
  <2> QED BY <1>1, <2>1, <2>2, <2>3
<1>3. ASSUME NEW j \in 1..3 PROVE File(h, j) = IF j = i THEN File(g, i) ELSE File(f, j)
  <2>1. DevNames[j] \in {"exe", "prov", "man"} /\ (j # i => DevNames[j] # n)
    BY NameFacts
  <2>2. f = [exe |-> f.exe, prov |-> f.prov, man |-> f.man]
    BY DEF Files
  <2>3. DOMAIN f = {"exe", "prov", "man"}
    BY <2>2
  <2>4. h[DevNames[j]] = IF DevNames[j] = n THEN g[n] ELSE f[DevNames[j]]
    BY <2>1, <2>3
  <2> QED BY <2>1, <2>4 DEF File
<1> QED BY <1>2, <1>3

LEMMA ClearFile ==
    ASSUME NEW f \in Files, NEW i \in 1..3
    PROVE  LET h == [f EXCEPT ![DevNames[i]] = DevNone]
           IN  /\ h \in Files
               /\ \A j \in 1..3 : File(h, j) = IF j = i THEN DevNone ELSE File(f, j)
<1>1. NoFiles[DevNames[i]] = DevNone /\ File(NoFiles, i) = DevNone /\ NoFiles \in Files
  BY NameFacts DEF File
<1>2. LET h == [f EXCEPT ![DevNames[i]] = NoFiles[DevNames[i]]]
      IN  /\ h \in Files
          /\ \A j \in 1..3 : File(h, j) = IF j = i THEN File(NoFiles, i) ELSE File(f, j)
  BY <1>1, PutFile
<1> QED BY <1>1, <1>2

(* Two sets of files with the same files are the same. *)
LEMMA SameFiles ==
    ASSUME NEW f \in Files, NEW g \in Files, \A i \in 1..3 : File(f, i) = File(g, i)
    PROVE  f = g
<1>1. DevNames[1] = "exe" /\ DevNames[2] = "prov" /\ DevNames[3] = "man"
  BY DEF DevNames
<1>2. f["exe"] = g["exe"] /\ f["prov"] = g["prov"] /\ f["man"] = g["man"]
  BY <1>1 DEF File
<1> QED BY <1>2 DEF Files

LEMMA NewFilesType ==
    ASSUME NEW b \in DevBuild, NEW bound \in BOOLEAN
    PROVE  NewFiles(b, bound) \in Files /\ Verified(NewFiles(b, bound))
<1>1. [build |-> b, bound |-> bound] \in Provenance
  BY DEF Provenance
<1>2. (IF bound THEN b ELSE DevNone) \in DevBuild \cup {DevNone}
  OBVIOUS
<1>3. NewFiles(b, bound) \in Files
  BY <1>1, <1>2 DEF NewFiles, Files
<1>4. [build |-> b, bound |-> bound] # DevNone /\ b # DevNone
  BY <1>1, DevLifecycleAssumption DEF Provenance
<1>5. Verified(NewFiles(b, bound))
  BY <1>4 DEF NewFiles, Verified, Installed
<1> QED BY <1>3, <1>5

-----------------------------------------------------------------------------
(* What the steps do to the files, to the place of the loop and to the types,*)
(* with any number of workers.                                               *)

LEMMA GotoEffect ==
    ASSUME DevTypeOK, NEW w \in DevWorker, NEW l \in PC, Goto(w, l)
    PROVE  /\ pc' \in [DevWorker -> PC] /\ at' \in [DevWorker -> 1..4]
           /\ pc'[w] = l /\ at'[w] = 1
BY DEF Goto, DevTypeOK

LEMMA NextNameEffect ==
    ASSUME DevTypeOK, NEW w \in DevWorker, at[w] <= Len(DevNames), at' = [at EXCEPT ![w] = @ + 1]
    PROVE  at' \in [DevWorker -> 1..4] /\ at'[w] = at[w] + 1 /\ at[w] \in 1..3
<1>1. at \in [DevWorker -> 1..4] /\ at[w] \in 1..3
  BY NameFacts DEF DevTypeOK
<1>2. at[w] + 1 \in 1..4
  BY <1>1
<1> QED BY <1>1, <1>2

LEMMA FaultEffect == ASSUME DevTypeOK, Fault PROVE faults' \in 0..DevMaxFaults /\ faults' = faults + 1
BY DevLifecycleAssumption DEF DevTypeOK, Fault

(* A file of the root moves into the backup. *)
LEMMA BackupEffect ==
    ASSUME DevTypeOK, NEW w \in DevWorker, Backup(w) \/ Trash(w)
    PROVE  /\ DevTypeOK' /\ UNCHANGED <<stage, before, op, res, faults, pc>>
           /\ at[w] \in 1..3 /\ at'[w] = at[w] + 1
           /\ \A j \in 1..3 : j # at[w] => File(root', j) = File(root, j) /\ File(saved'[w], j) = File(saved[w], j)
           /\ File(root', at[w]) = DevNone
           /\ File(saved'[w], at[w]) =
                 IF File(root, at[w]) # DevNone THEN File(root, at[w]) ELSE File(saved[w], at[w])
<1> DEFINE k == at[w]
           n == DevNames[k]
           s == [saved[w] EXCEPT ![n] = root[n]]
           r == [root EXCEPT ![n] = DevNone]
<1>1. /\ IF root[n] # DevNone
         THEN saved' = [saved EXCEPT ![w] = s] /\ root' = r
         ELSE UNCHANGED <<root, saved>>
      /\ k <= Len(DevNames) /\ at' = [at EXCEPT ![w] = @ + 1]
      /\ UNCHANGED <<stage, before, op, res, faults, pc>>
  BY DEF Backup, Trash, Looping, NextName, DevName
<1>2. at' \in [DevWorker -> 1..4] /\ at'[w] = k + 1 /\ k \in 1..3
  BY <1>1, NextNameEffect
<1>3. root \in Files /\ saved \in [DevWorker -> Files] /\ saved[w] \in Files
  BY DEF DevTypeOK
<1> HIDE DEF k
<1>4. s \in Files /\ \A j \in 1..3 : File(s, j) = IF j = k THEN File(root, k) ELSE File(saved[w], j)
  BY <1>2, <1>3, PutFile
<1>5. r \in Files /\ \A j \in 1..3 : File(r, j) = IF j = k THEN DevNone ELSE File(root, j)
  BY <1>2, <1>3, ClearFile
<1>6. root[n] = File(root, k)
  BY DEF File
<1> HIDE DEF n, s, r
<1>7. /\ root' \in Files /\ saved' \in [DevWorker -> Files]
      /\ \A j \in 1..3 : j # k => File(root', j) = File(root, j) /\ File(saved'[w], j) = File(saved[w], j)
      /\ File(root', k) = DevNone
      /\ File(saved'[w], k) = IF File(root, k) # DevNone THEN File(root, k) ELSE File(saved[w], k)
  <2>1. CASE root[n] # DevNone
    <3>1. saved' = [saved EXCEPT ![w] = s] /\ root' = r
      BY <1>1, <2>1
    <3>2. saved'[w] = s /\ saved' \in [DevWorker -> Files]
      BY <1>3, <1>4, <3>1
    <3> QED BY <1>2, <1>4, <1>5, <1>6, <2>1, <3>1, <3>2
  <2>2. CASE root[n] = DevNone
    BY <1>1, <1>3, <1>6, <2>2
  <2> QED BY <2>1, <2>2
<1>8. DevTypeOK'
  BY <1>1, <1>2, <1>7 DEF DevTypeOK
<1> QED BY <1>1, <1>2, <1>7, <1>8 DEF k

(* A file of the backup moves back into the root. *)
LEMMA RestoreEffect ==
    ASSUME DevTypeOK, NEW w \in DevWorker, Restore(w) \/ PutBack(w)
    PROVE  /\ DevTypeOK' /\ UNCHANGED <<stage, before, op, res, faults>>
           /\ Restore(w) => pc'[w] = "undo"
           /\ PutBack(w) => pc' = pc
           /\ at[w] \in 1..3 /\ at'[w] = at[w] + 1
           /\ \A j \in 1..3 : j # at[w] => File(root', j) = File(root, j) /\ File(saved'[w], j) = File(saved[w], j)
           /\ IF File(saved[w], at[w]) # DevNone
              THEN File(root', at[w]) = File(saved[w], at[w]) /\ File(saved'[w], at[w]) = DevNone
              ELSE File(root', at[w]) = File(root, at[w]) /\ File(saved'[w], at[w]) = File(saved[w], at[w])
<1> DEFINE k == at[w]
           n == DevNames[k]
           s == [saved[w] EXCEPT ![n] = DevNone]
           r == [root EXCEPT ![n] = saved[w][n]]
<1>1. /\ IF saved[w][n] # DevNone
         THEN saved' = [saved EXCEPT ![w] = s] /\ root' = r
         ELSE UNCHANGED <<root, saved>>
      /\ k <= Len(DevNames) /\ at' = [at EXCEPT ![w] = @ + 1]
      /\ UNCHANGED <<stage, before, op, res, faults>>
  BY DEF Restore, PutBack, Looping, NextName, DevName
<1>2. at' \in [DevWorker -> 1..4] /\ at'[w] = k + 1 /\ k \in 1..3
  BY <1>1, NextNameEffect
<1>3. root \in Files /\ saved \in [DevWorker -> Files] /\ saved[w] \in Files
  BY DEF DevTypeOK
<1>4. /\ pc' \in [DevWorker -> PC]
      /\ Restore(w) => pc'[w] = "undo"
      /\ PutBack(w) => pc' = pc
  BY DEF Restore, PutBack, NextName, DevTypeOK, PC
<1> HIDE DEF k
<1>5. r \in Files /\ \A j \in 1..3 : File(r, j) = IF j = k THEN File(saved[w], k) ELSE File(root, j)
  BY <1>2, <1>3, PutFile
<1>6. s \in Files /\ \A j \in 1..3 : File(s, j) = IF j = k THEN DevNone ELSE File(saved[w], j)
  BY <1>2, <1>3, ClearFile
<1>7. saved[w][n] = File(saved[w], k)
  BY DEF File
<1> HIDE DEF n, s, r
<1>8. /\ root' \in Files /\ saved' \in [DevWorker -> Files]
      /\ \A j \in 1..3 : j # k => File(root', j) = File(root, j) /\ File(saved'[w], j) = File(saved[w], j)
      /\ IF File(saved[w], k) # DevNone
         THEN File(root', k) = File(saved[w], k) /\ File(saved'[w], k) = DevNone
         ELSE File(root', k) = File(root, k) /\ File(saved'[w], k) = File(saved[w], k)
  <2>1. CASE saved[w][n] # DevNone
    <3>1. saved' = [saved EXCEPT ![w] = s] /\ root' = r
      BY <1>1, <2>1
    <3>2. saved'[w] = s /\ saved' \in [DevWorker -> Files]
      BY <1>3, <1>6, <3>1
    <3> QED BY <1>2, <1>5, <1>6, <1>7, <2>1, <3>1, <3>2
  <2>2. CASE saved[w][n] = DevNone
    BY <1>1, <1>3, <1>7, <2>2
  <2> QED BY <2>1, <2>2
<1>9. DevTypeOK'
  BY <1>1, <1>2, <1>4, <1>8 DEF DevTypeOK
<1> QED BY <1>1, <1>2, <1>4, <1>8, <1>9 DEF k

(* A staged file moves into the root. *)
LEMMA ActivateEffect ==
    ASSUME DevTypeOK, NEW w \in DevWorker, Activate(w)
    PROVE  /\ DevTypeOK' /\ UNCHANGED <<saved, before, op, res, faults, pc>>
           /\ at[w] \in 1..3 /\ at'[w] = at[w] + 1
           /\ \A j \in 1..3 : j # at[w] => File(root', j) = File(root, j) /\ File(stage'[w], j) = File(stage[w], j)
           /\ File(root', at[w]) =
                 IF File(stage[w], at[w]) # DevNone THEN File(stage[w], at[w]) ELSE File(root, at[w])
<1> DEFINE k == at[w]
           n == DevNames[k]
           s == [stage[w] EXCEPT ![n] = DevNone]
           r == [root EXCEPT ![n] = stage[w][n]]
<1>1. /\ IF stage[w][n] # DevNone
         THEN stage' = [stage EXCEPT ![w] = s] /\ root' = r
         ELSE UNCHANGED <<root, stage>>
      /\ k <= Len(DevNames) /\ at' = [at EXCEPT ![w] = @ + 1]
      /\ UNCHANGED <<saved, before, op, res, faults, pc>>
  BY DEF Activate, Looping, NextName, DevName
<1>2. at' \in [DevWorker -> 1..4] /\ at'[w] = k + 1 /\ k \in 1..3
  BY <1>1, NextNameEffect
<1>3. root \in Files /\ stage \in [DevWorker -> Files] /\ stage[w] \in Files
  BY DEF DevTypeOK
<1> HIDE DEF k
<1>4. r \in Files /\ \A j \in 1..3 : File(r, j) = IF j = k THEN File(stage[w], k) ELSE File(root, j)
  BY <1>2, <1>3, PutFile
<1>5. s \in Files /\ \A j \in 1..3 : File(s, j) = IF j = k THEN DevNone ELSE File(stage[w], j)
  BY <1>2, <1>3, ClearFile
<1>6. stage[w][n] = File(stage[w], k)
  BY DEF File
<1> HIDE DEF n, s, r
<1>7. /\ root' \in Files /\ stage' \in [DevWorker -> Files]
      /\ \A j \in 1..3 : j # k => File(root', j) = File(root, j) /\ File(stage'[w], j) = File(stage[w], j)
      /\ File(root', k) = IF File(stage[w], k) # DevNone THEN File(stage[w], k) ELSE File(root, k)
  <2>1. CASE stage[w][n] # DevNone
    <3>1. stage' = [stage EXCEPT ![w] = s] /\ root' = r
      BY <1>1, <2>1
    <3>2. stage'[w] = s /\ stage' \in [DevWorker -> Files]
      BY <1>3, <1>5, <3>1
    <3> QED BY <1>2, <1>4, <1>5, <1>6, <2>1, <3>1, <3>2
  <2>2. CASE stage[w][n] = DevNone
    BY <1>1, <1>3, <1>6, <2>2
  <2> QED BY <2>1, <2>2
<1>8. DevTypeOK'
  BY <1>1, <1>2, <1>7 DEF DevTypeOK
<1> QED BY <1>1, <1>2, <1>7, <1>8 DEF k

(* A new file is removed. *)
LEMMA UndoEffect ==
    ASSUME DevTypeOK, NEW w \in DevWorker, Undo(w)
    PROVE  /\ DevTypeOK' /\ UNCHANGED <<stage, saved, before, op, at, res, faults>>
           /\ at[w] \in 1..3 /\ pc'[w] = "restore"
           /\ File(root', at[w]) = DevNone
           /\ \A j \in 1..3 : j # at[w] => File(root', j) = File(root, j)
<1>1. /\ root' = [root EXCEPT ![DevNames[at[w]]] = DevNone] /\ pc' = [pc EXCEPT ![w] = "restore"]
      /\ UNCHANGED <<stage, saved, before, op, at, res, faults>> /\ at[w] <= Len(DevNames)
  BY DEF Undo, Looping, DevName
<1>2. at[w] \in 1..3 /\ root \in Files /\ pc \in [DevWorker -> PC]
  BY <1>1, NameFacts DEF DevTypeOK
<1>3. /\ root' \in Files
      /\ \A j \in 1..3 : File(root', j) = IF j = at[w] THEN DevNone ELSE File(root, j)
  BY <1>1, <1>2, ClearFile
<1>4. pc' \in [DevWorker -> PC] /\ pc'[w] = "restore"
  BY <1>1, <1>2 DEF PC
<1>5. DevTypeOK'
  BY <1>1, <1>3, <1>4 DEF DevTypeOK
<1> QED BY <1>1, <1>2, <1>3, <1>4, <1>5

LEMMA ReturnEffect ==
    ASSUME DevTypeOK, NEW w \in DevWorker, NEW r \in {"ok", "error"}, DevReturn(w, r)
    PROVE  /\ pc' \in [DevWorker -> PC] /\ at' \in [DevWorker -> 1..4] /\ pc'[w] = "done"
           /\ res' \in [DevWorker -> {"none", "ok", "error"}] /\ res'[w] = r
           /\ stage' \in [DevWorker -> Files]
<1>1. Goto(w, "done") /\ "done" \in PC /\ NoFiles \in Files
  BY NameFacts DEF DevReturn, PC
<1> QED BY <1>1, GotoEffect DEF DevReturn, DevTypeOK

-----------------------------------------------------------------------------
(* The types, with any number of workers. *)
LEMMA RequestTypes ==
    ASSUME DevTypeOK, NEW w \in DevWorker,
           DevRequest(w) \/ DevFinish(w) \/ DevKill(w)
    PROVE  DevTypeOK'
<1> USE NameFacts DEF PC
<1>0. NoMark \in [files : Files, faults : 0..DevMaxFaults] /\ Mark \in [files : Files, faults : 0..DevMaxFaults]
  BY DevLifecycleAssumption DEF NoMark, Mark, DevTypeOK
<1>1. CASE DevStart(w, "install") \/ DevStart(w, "upgrade")
  <2>1. Goto(w, "build") /\ UNCHANGED <<root, stage, saved, before, res, faults>>
    BY <1>1 DEF DevStart
  <2>2. op' \in [DevWorker -> {"none", "install", "upgrade", "remove"}]
    BY <1>1 DEF DevStart, DevTypeOK
  <2> QED BY <2>1, <2>2, GotoEffect DEF DevTypeOK
<1>2. CASE StartRemove(w)
  <2>1. Goto(w, "trash") /\ UNCHANGED <<root, stage, saved, res, faults>>
    BY <1>2 DEF StartRemove
  <2>2. op' \in [DevWorker -> {"none", "install", "upgrade", "remove"}]
    BY <1>2 DEF StartRemove, DevTypeOK
  <2>3. before' \in [DevWorker -> [files : Files, faults : 0..DevMaxFaults]]
    BY <1>0, <1>2 DEF StartRemove, DevTypeOK
  <2> QED BY <2>1, <2>2, <2>3, GotoEffect DEF DevTypeOK
<1>3. CASE DevFinish(w)
  <2>1. Goto(w, "idle") /\ UNCHANGED <<root, stage, saved, faults>>
    BY <1>3 DEF DevFinish
  <2>2. /\ op' \in [DevWorker -> {"none", "install", "upgrade", "remove"}]
        /\ res' \in [DevWorker -> {"none", "ok", "error"}]
    BY <1>3 DEF DevFinish, DevTypeOK
  <2>3. before' \in [DevWorker -> [files : Files, faults : 0..DevMaxFaults]]
    BY <1>0, <1>3 DEF DevFinish, DevTypeOK
  <2> QED BY <2>1, <2>2, <2>3, GotoEffect DEF DevTypeOK
<1>4. CASE DevKill(w)
  <2>1. Goto(w, "idle") /\ UNCHANGED root /\ Fault
    BY <1>4 DEF DevKill
  <2>2. /\ op' \in [DevWorker -> {"none", "install", "upgrade", "remove"}]
        /\ res' \in [DevWorker -> {"none", "ok", "error"}]
    BY <1>4 DEF DevKill, DevTypeOK
  <2>3. before' \in [DevWorker -> [files : Files, faults : 0..DevMaxFaults]]
    BY <1>0, <1>4 DEF DevKill, DevTypeOK
  <2>4. stage' \in [DevWorker -> Files] /\ saved' \in [DevWorker -> Files]
    BY <1>4 DEF DevKill, DevTypeOK
  <2> QED BY <2>1, <2>2, <2>3, <2>4, GotoEffect, FaultEffect DEF DevTypeOK
<1> QED BY <1>1, <1>2, <1>3, <1>4 DEF DevRequest

LEMMA StepTypes ==
    ASSUME DevTypeOK, NEW w \in DevWorker, DevStep(w)
    PROVE  DevTypeOK'
<1> USE NameFacts DEF PC
<1>0. Mark \in [files : Files, faults : 0..DevMaxFaults]
  BY DEF Mark, DevTypeOK
<1>1. CASE BuildFails(w)
  <2>1. DevReturn(w, "error") /\ UNCHANGED <<root, saved, op, faults>>
    BY <1>1 DEF BuildFails
  <2>2. before' \in [DevWorker -> [files : Files, faults : 0..DevMaxFaults]]
    BY <1>0, <1>1 DEF BuildFails, DevTypeOK
  <2> QED BY <2>1, <2>2, ReturnEffect DEF DevTypeOK
<1>2. ASSUME NEW b \in DevBuild, NEW bound \in BOOLEAN, BuildAndStage(w, b, bound)
      PROVE  DevTypeOK'
  <2>1. PICK l \in {"backup", "activate"} : Goto(w, l)
    BY <1>2 DEF BuildAndStage
  <2>2. UNCHANGED <<root, saved, op, res, faults>> /\ stage' = [stage EXCEPT ![w] = NewFiles(b, bound)]
    BY <1>2 DEF BuildAndStage, NewFiles
  <2>3. before' \in [DevWorker -> [files : Files, faults : 0..DevMaxFaults]]
    BY <1>0, <1>2 DEF BuildAndStage, DevTypeOK
  <2>4. stage' \in [DevWorker -> Files]
    BY <2>2, NewFilesType DEF DevTypeOK
  <2> QED BY <2>1, <2>2, <2>3, <2>4, GotoEffect DEF DevTypeOK
<1>3. CASE BackedUp(w)
  <2>1. Goto(w, "activate") /\ UNCHANGED <<root, stage, saved, before, op, res, faults>>
    BY <1>3 DEF BackedUp
  <2> QED BY <2>1, GotoEffect DEF DevTypeOK
<1>4. CASE Undone(w) \/ PutAllBack(w) \/ EmptyTrash(w) \/ Activated(w)
  <2>1. PICK r \in {"ok", "error"} : DevReturn(w, r)
    BY <1>4 DEF Undone, PutAllBack, EmptyTrash, Activated
  <2>2. UNCHANGED <<root, before, op, faults>> /\ saved' = [saved EXCEPT ![w] = NoFiles]
    BY <1>4 DEF Undone, PutAllBack, EmptyTrash, Activated
  <2>3. saved' \in [DevWorker -> Files]
    BY <2>2 DEF DevTypeOK
  <2> QED BY <2>1, <2>2, <2>3, ReturnEffect DEF DevTypeOK
<1> QED BY <1>1, <1>2, <1>3, <1>4, BackupEffect, ActivateEffect, UndoEffect, RestoreEffect, RequestTypes
        DEF DevStep

LEMMA FailureTypes ==
    ASSUME DevTypeOK, NEW w \in DevWorker, StepFails(w)
    PROVE  DevTypeOK'
<1> USE DEF PC
<1>1. CASE BackupFails(w) \/ TrashFails(w)
  <2>1. Goto(w, "putback") /\ Fault /\ UNCHANGED <<root, stage, saved, before, op, res>>
    BY <1>1 DEF BackupFails, TrashFails
  <2> QED BY <2>1, GotoEffect, FaultEffect DEF DevTypeOK
<1>2. CASE ActivateFails(w)
  <2>1. Goto(w, "undo") /\ Fault /\ UNCHANGED <<root, stage, saved, before, op, res>>
    BY <1>2 DEF ActivateFails
  <2> QED BY <2>1, GotoEffect, FaultEffect DEF DevTypeOK
<1>3. CASE RestoreFails(w) \/ PutBackFails(w)
  <2>1. /\ Fault /\ UNCHANGED <<root, stage, saved, before, op, res>>
        /\ at[w] <= Len(DevNames) /\ at' = [at EXCEPT ![w] = @ + 1]
    BY <1>3 DEF RestoreFails, PutBackFails, Looping, NextName
  <2>2. pc' \in [DevWorker -> PC]
    BY <1>3 DEF RestoreFails, PutBackFails, NextName, DevTypeOK
  <2> QED BY <2>1, <2>2, NextNameEffect, FaultEffect DEF DevTypeOK
<1>5. CASE UndoFails(w)
  <2>1. /\ Fault /\ UNCHANGED <<root, stage, saved, before, op, at, res>> /\ pc' = [pc EXCEPT ![w] = "restore"]
    BY <1>5 DEF UndoFails
  <2> QED BY <2>1, FaultEffect DEF DevTypeOK
<1>4. CASE EmptyTrashFails(w)
  <2>1. Goto(w, "putback") /\ Fault /\ UNCHANGED <<root, stage, before, op, res>>
    BY <1>4 DEF EmptyTrashFails
  <2>2. PICK gone \in SUBSET {"exe", "prov", "man"} :
           saved' = [saved EXCEPT ![w] = [n \in DOMAIN saved[w] |-> IF n \in gone THEN DevNone ELSE saved[w][n]]]
    BY <1>4 DEF EmptyTrashFails
  <2> DEFINE f == [n \in DOMAIN saved[w] |-> IF n \in gone THEN DevNone ELSE saved[w][n]]
  <2>3. saved \in [DevWorker -> Files] /\ saved[w] \in Files
    BY DEF DevTypeOK
  <2>4. DOMAIN saved[w] = {"exe", "prov", "man"}
    BY <2>3 DEF Files
  <2>5. f = [exe |-> f["exe"], prov |-> f["prov"], man |-> f["man"]]
    BY <2>4
  <2>6. /\ f["exe"] \in DevBuild \cup {DevNone} /\ f["prov"] \in Provenance \cup {DevNone}
        /\ f["man"] \in DevBuild \cup {DevNone}
    BY <2>3, <2>4 DEF Files
  <2> HIDE DEF f
  <2>7. f \in Files
    BY <2>5, <2>6 DEF Files
  <2>8. saved' \in [DevWorker -> Files]
    BY <2>2, <2>3, <2>7 DEF f
  <2> QED BY <2>1, <2>8, GotoEffect, FaultEffect DEF DevTypeOK
<1> QED BY <1>1, <1>2, <1>3, <1>4, <1>5 DEF StepFails

(* The files, the loops and the outcomes of any number of workers keep their *)
(* types: no loop of renames runs past its last file                         *)
(* (development_lifecycle.rs).                                               *)
THEOREM DevelopmentTypes == DevSpec => []DevTypeOK
<1>1. DevInit => DevTypeOK
  BY NameFacts, DevLifecycleAssumption DEF DevInit, DevTypeOK, NoMark, PC
<1>2. DevTypeOK /\ [DevNext]_devVars => DevTypeOK'
  <2> SUFFICES ASSUME DevTypeOK, [DevNext]_devVars PROVE DevTypeOK'
    OBVIOUS
  <2>1. CASE UNCHANGED devVars
    BY <2>1 DEF devVars, DevTypeOK
  <2>2. CASE DevNext
    BY <2>2, RequestTypes, StepTypes, FailureTypes DEF DevNext
  <2> QED BY <2>1, <2>2
<1> QED BY <1>1, <1>2, PTL DEF DevSpec

-----------------------------------------------------------------------------
(* The steps of a worker keep its own invariant. *)

(* A worker that is at rest or has just returned has nothing in a backup. *)
LEMMA RestInv ==
    ASSUME NEW w \in DevWorker, pc'[w] \in {"idle", "build", "done"}, saved'[w] = NoFiles,
           (DevFailed(w) /\ op[w] = "upgrade" /\ NoSecondFault(w) => root = before[w].files)'
    PROVE  WorkerInv(w)'
BY DEF WorkerInv, BackupInv, ActivateInv, UndoInv, PutBackInv, DoneInv

LEMMA RequestsKeep ==
    ASSUME DevTypeOK, NEW w \in DevWorker, WorkerInv(w), DevRequest(w) \/ DevFinish(w) \/ DevKill(w)
    PROVE  WorkerInv(w)'
<1> USE DEF PC
<1>1. CASE DevStart(w, "install") \/ DevStart(w, "upgrade")
  <2>1. Goto(w, "build") /\ pc[w] = "idle" /\ saved' = saved
    BY <1>1 DEF DevStart
  <2>2. pc'[w] = "build" /\ saved'[w] = NoFiles
    BY <2>1, GotoEffect DEF WorkerInv, DoneInv
  <2> QED BY <2>2, RestInv DEF DevFailed
<1>2. CASE StartRemove(w)
  <2>1. Goto(w, "trash") /\ op' = [op EXCEPT ![w] = "remove"] /\ before' = [before EXCEPT ![w] = Mark] /\ faults' = faults
    BY <1>2 DEF StartRemove
  <2>2. pc'[w] = "trash" /\ op'[w] = "remove" /\ before'[w].faults = faults /\ faults \in Int
    BY <2>1, GotoEffect DEF DevTypeOK, Mark
  <2> QED BY <2>1, <2>2 DEF WorkerInv, BackupInv, ActivateInv, UndoInv, PutBackInv, DoneInv, DevFailed
<1>3. CASE DevFinish(w)
  <2>1. Goto(w, "idle") /\ pc[w] = "done" /\ saved' = saved
    BY <1>3 DEF DevFinish
  <2>2. pc'[w] = "idle" /\ saved'[w] = NoFiles
    BY <2>1, GotoEffect DEF WorkerInv, DoneInv
  <2> QED BY <2>2, RestInv DEF DevFailed
<1>4. CASE DevKill(w)
  <2>1. Goto(w, "idle") /\ saved' = [saved EXCEPT ![w] = NoFiles]
    BY <1>4 DEF DevKill
  <2>2. pc'[w] = "idle" /\ saved'[w] = NoFiles
    BY <2>1, GotoEffect DEF DevTypeOK
  <2> QED BY <2>2, RestInv DEF DevFailed
<1> QED BY <1>1, <1>2, <1>3, <1>4 DEF DevRequest

LEMMA BuildKeeps ==
    ASSUME DevTypeOK, NEW w \in DevWorker, WorkerInv(w),
           BuildFails(w) \/ \E b \in DevBuild, bound \in BOOLEAN : BuildAndStage(w, b, bound)
    PROVE  WorkerInv(w)'
<1> USE DEF PC
<1>1. CASE BuildFails(w)
  <2>1. /\ pc[w] = "build" /\ DevReturn(w, "error") /\ before' = [before EXCEPT ![w] = Mark]
        /\ UNCHANGED <<root, saved, op, faults>>
    BY <1>1 DEF BuildFails
  <2>2. pc'[w] = "done" /\ saved'[w] = NoFiles
    BY <2>1, ReturnEffect DEF WorkerInv, DoneInv
  <2>3. before'[w].files = root'
    BY <2>1 DEF Mark, DevTypeOK
  <2> QED BY <2>2, <2>3, RestInv
<1>2. ASSUME NEW b \in DevBuild, NEW bound \in BOOLEAN, BuildAndStage(w, b, bound)
      PROVE  WorkerInv(w)'
  <2>1. /\ pc[w] = "build" /\ Goto(w, IF op[w] = "upgrade" THEN "backup" ELSE "activate")
        /\ stage' = [stage EXCEPT ![w] = NewFiles(b, bound)] /\ before' = [before EXCEPT ![w] = Mark]
        /\ UNCHANGED <<root, saved, op, res, faults>>
    BY <1>2 DEF BuildAndStage, NewFiles
  <2>2. /\ pc'[w] = IF op[w] = "upgrade" THEN "backup" ELSE "activate"
        /\ at'[w] = 1
    BY <2>1, GotoEffect
  <2>3. /\ stage'[w] = NewFiles(b, bound) /\ before'[w].files = root /\ before'[w].faults = faults
        /\ faults \in Int
    BY <2>1 DEF DevTypeOK, Mark
  <2>4. saved[w] = NoFiles /\ \A i \in 1..3 : File(saved[w], i) = DevNone
    BY <2>1, NameFacts DEF WorkerInv, DoneInv
  <2>5. BackupInv(w)'
    <3>1. \A i \in 1..3 : ~(i < at'[w])
      BY <2>2
    <3> QED BY <2>1, <2>3, <2>4, <3>1 DEF BackupInv
  <2>6. pc'[w] \in {"backup", "activate"} /\ ~(pc'[w] = "activate" /\ op'[w] = "upgrade")
    BY <2>1, <2>2
  <2> QED BY <2>1, <2>3, <2>5, <2>6 DEF WorkerInv, ActivateInv, UndoInv, PutBackInv, DoneInv, DevFailed
<1> QED BY <1>1, <1>2

LEMMA BackupKeeps ==
    ASSUME DevTypeOK, NEW w \in DevWorker, WorkerInv(w),
           Backup(w) \/ BackedUp(w) \/ BackupFails(w)
    PROVE  WorkerInv(w)'
<1> USE DEF PC
<1> DEFINE B == before[w].files
<1>0. pc[w] = "backup"
  BY DEF Backup, BackedUp, BackupFails, Looping, Looped
<1>a. \A i \in 1..3 : IF i < at[w] THEN File(root, i) = DevNone /\ File(saved[w], i) = File(B, i)
                      ELSE File(root, i) = File(B, i) /\ File(saved[w], i) = DevNone
  BY <1>0 DEF WorkerInv, BackupInv
<1>b. PICK b \in DevBuild, bound \in BOOLEAN : stage[w] = NewFiles(b, bound)
  BY <1>0 DEF WorkerInv, BackupInv
<1>c. /\ faults >= before[w].faults /\ faults \in Int /\ before[w].faults \in Int /\ at[w] \in 1..4
      /\ saved[w] \in Files /\ B \in Files
  BY <1>0 DEF WorkerInv, DoneInv, DevTypeOK
<1>1. CASE Backup(w)
  <2>1. /\ UNCHANGED <<stage, before, op, res, faults, pc>>
        /\ at[w] \in 1..3 /\ at'[w] = at[w] + 1
        /\ \A j \in 1..3 : j # at[w] => File(root', j) = File(root, j) /\ File(saved'[w], j) = File(saved[w], j)
        /\ File(root', at[w]) = DevNone
        /\ File(saved'[w], at[w]) =
              IF File(root, at[w]) # DevNone THEN File(root, at[w]) ELSE File(saved[w], at[w])
    BY <1>1, BackupEffect
  <2>2. ASSUME NEW i \in 1..3
        PROVE  IF i < at'[w] THEN File(root', i) = DevNone /\ File(saved'[w], i) = File(B, i)
               ELSE File(root', i) = File(B, i) /\ File(saved'[w], i) = DevNone
    <3>1. CASE i = at[w]
      <4>1. i < at'[w]
        BY <2>1, <3>1
      <4>2. File(root, i) = File(B, i) /\ File(saved[w], i) = DevNone
        BY <1>a, <2>1, <3>1
      <4> HIDE DEF B
      <4> QED BY <2>1, <3>1, <4>1, <4>2
    <3>2. CASE i < at[w]
      <4>1. i < at'[w] /\ i # at[w]
        BY <2>1, <3>2
      <4> HIDE DEF B
      <4> QED BY <1>a, <2>1, <3>2, <4>1
    <3>3. CASE i > at[w]
      <4>1. ~(i < at'[w]) /\ i # at[w] /\ ~(i < at[w])
        BY <2>1, <3>3
      <4> HIDE DEF B
      <4> QED BY <1>a, <2>1, <3>3, <4>1
    <3> QED BY <2>1, <3>1, <3>2, <3>3
  <2>3. BackupInv(w)'
    BY <1>b, <2>1, <2>2 DEF BackupInv
  <2> QED BY <1>0, <1>c, <2>1, <2>3 DEF WorkerInv, ActivateInv, UndoInv, PutBackInv, DoneInv, DevFailed
<1>2. CASE BackedUp(w)
  <2>1. /\ Goto(w, "activate") /\ UNCHANGED <<root, stage, saved, before, op, res, faults>> /\ at[w] > 3
    BY <1>2, NameFacts DEF BackedUp, Looped
  <2>2. pc'[w] = "activate" /\ at'[w] = 1
    BY <2>1, GotoEffect
  <2>3. \A i \in 1..3 : i < at[w] /\ ~(i < at'[w])
    BY <1>c, <2>1, <2>2
  <2>4. \A i \in 1..3 : File(root, i) = DevNone /\ File(saved[w], i) = File(B, i)
    BY <1>a, <2>3
  <2>5. saved[w] = B
    BY <1>c, <2>4, SameFiles
  <2>6. ActivateInv(w)'
    BY <1>b, <2>1, <2>3, <2>4, <2>5 DEF ActivateInv
  <2> QED BY <1>c, <2>1, <2>2, <2>6 DEF WorkerInv, BackupInv, UndoInv, PutBackInv, DoneInv, DevFailed
<1>3. CASE BackupFails(w)
  <2>1. /\ Goto(w, "putback") /\ UNCHANGED <<root, stage, saved, before, op, res>> /\ Fault
    BY <1>3 DEF BackupFails
  <2>2. pc'[w] = "putback" /\ at'[w] = 1 /\ faults' = faults + 1
    BY <2>1, GotoEffect, FaultEffect
  <2>3. \A i \in 1..3 : ~(i < at'[w])
    BY <2>2
  <2>4. PutBackInv(w)'
    BY <1>a, <2>1, <2>3 DEF PutBackInv, Either
  <2> QED BY <1>c, <2>1, <2>2, <2>4 DEF WorkerInv, BackupInv, ActivateInv, UndoInv, DoneInv, DevFailed
<1> QED BY <1>1, <1>2, <1>3

LEMMA ActivateKeeps ==
    ASSUME DevTypeOK, NEW w \in DevWorker, WorkerInv(w),
           Activate(w) \/ Activated(w) \/ ActivateFails(w)
    PROVE  WorkerInv(w)'
<1> USE DEF PC
<1>0. pc[w] = "activate"
  BY DEF Activate, Activated, ActivateFails, Looping, Looped
<1>c. /\ faults >= before[w].faults /\ faults \in Int /\ before[w].faults \in Int /\ at[w] \in 1..4
      /\ root \in Files
  BY <1>0 DEF WorkerInv, DoneInv, DevTypeOK
<1>1. CASE Activate(w)
  <2>1. /\ UNCHANGED <<saved, before, op, res, faults, pc>>
        /\ at[w] \in 1..3 /\ at'[w] = at[w] + 1
        /\ \A j \in 1..3 : j # at[w] => File(root', j) = File(root, j) /\ File(stage'[w], j) = File(stage[w], j)
        /\ File(root', at[w]) =
              IF File(stage[w], at[w]) # DevNone THEN File(stage[w], at[w]) ELSE File(root, at[w])
    BY <1>1, ActivateEffect
  <2>2. ASSUME op[w] = "upgrade" PROVE ActivateInv(w)'
    <3>1. PICK b \in DevBuild, bound \in BOOLEAN : \A i \in 1..3 :
             IF i < at[w] THEN File(root, i) = File(NewFiles(b, bound), i)
             ELSE File(root, i) = DevNone /\ File(stage[w], i) = File(NewFiles(b, bound), i)
      BY <1>0, <2>2 DEF WorkerInv, ActivateInv
    <3>2. ASSUME NEW i \in 1..3
          PROVE  IF i < at'[w] THEN File(root', i) = File(NewFiles(b, bound), i)
                 ELSE File(root', i) = DevNone /\ File(stage'[w], i) = File(NewFiles(b, bound), i)
      <4>1. CASE i = at[w]
        <5>1. i < at'[w] /\ File(root, i) = DevNone /\ File(stage[w], i) = File(NewFiles(b, bound), i)
          BY <2>1, <3>1, <4>1
        <5> QED BY <2>1, <4>1, <5>1
      <4>2. CASE i < at[w]
        <5>1. i < at'[w] /\ i # at[w]
          BY <2>1, <4>2
        <5> QED BY <2>1, <3>1, <4>2, <5>1
      <4>3. CASE i > at[w]
        <5>1. ~(i < at'[w]) /\ i # at[w] /\ ~(i < at[w])
          BY <2>1, <4>3
        <5> QED BY <2>1, <3>1, <5>1
      <4> QED BY <2>1, <4>1, <4>2, <4>3
    <3>3. saved'[w] = before'[w].files
      BY <1>0, <2>1, <2>2 DEF WorkerInv, ActivateInv
    <3> QED BY <3>2, <3>3 DEF ActivateInv
  <2>3. ActivateInv(w)'
    BY <2>1, <2>2 DEF ActivateInv
  <2> QED BY <1>0, <1>c, <2>1, <2>3 DEF WorkerInv, BackupInv, UndoInv, PutBackInv, DoneInv, DevFailed
<1>2. CASE Activated(w)
  <2>1. /\ DevReturn(w, IF Verified(root) THEN "ok" ELSE "error") /\ at[w] > 3
        /\ saved' = [saved EXCEPT ![w] = NoFiles] /\ UNCHANGED <<root, before, op, faults>>
    BY <1>2, NameFacts DEF Activated, Looped
  <2>2. pc'[w] = "done" /\ res'[w] = (IF Verified(root) THEN "ok" ELSE "error") /\ saved'[w] = NoFiles
    BY <2>1, ReturnEffect DEF DevTypeOK
  <2>3. ASSUME op[w] = "upgrade" PROVE Verified(root)
    <3>1. PICK b \in DevBuild, bound \in BOOLEAN : \A i \in 1..3 :
             i < at[w] => File(root, i) = File(NewFiles(b, bound), i)
      BY <1>0, <2>3 DEF WorkerInv, ActivateInv
    <3>2. \A i \in 1..3 : i < at[w]
      BY <1>c, <2>1
    <3>3. root = NewFiles(b, bound)
      BY <1>c, <3>1, <3>2, SameFiles, NewFilesType
    <3> QED BY <3>3, NewFilesType
  <2> QED BY <2>1, <2>2, <2>3, RestInv DEF DevFailed
<1>3. CASE ActivateFails(w)
  <2>1. /\ Goto(w, "undo") /\ UNCHANGED <<root, stage, saved, before, op, res>> /\ Fault
    BY <1>3 DEF ActivateFails
  <2>2. pc'[w] = "undo" /\ at'[w] = 1 /\ faults' = faults + 1
    BY <2>1, GotoEffect, FaultEffect
  <2>3. \A i \in 1..3 : ~(i < at'[w])
    BY <2>2
  <2>4. op[w] = "upgrade" => saved[w] = before[w].files
    BY <1>0 DEF WorkerInv, ActivateInv
  <2>5. UndoInv(w)'
    BY <2>1, <2>2, <2>3, <2>4 DEF UndoInv
  <2> QED BY <1>c, <2>1, <2>2, <2>5 DEF WorkerInv, BackupInv, ActivateInv, PutBackInv, DoneInv, DevFailed
<1> QED BY <1>1, <1>2, <1>3

LEMMA UndoKeeps ==
    ASSUME DevTypeOK, NEW w \in DevWorker, WorkerInv(w),
           Undo(w) \/ UndoFails(w) \/ Restore(w) \/ RestoreFails(w) \/ Undone(w)
    PROVE  WorkerInv(w)'
<1> USE DEF PC
<1> DEFINE B == before[w].files
<1>0. pc[w] \in {"undo", "restore"}
  BY DEF Undo, UndoFails, Restore, RestoreFails, Undone, Looping, Looped
<1>a. op[w] = "upgrade" => \A i \in 1..3 :
         /\ i < at[w] => File(B, i) \in {File(root, i), File(saved[w], i)}
         /\ i < at[w] /\ NoSecondFault(w) => File(root, i) = File(B, i)
         /\ i >= at[w] => File(saved[w], i) = File(B, i)
  BY <1>0 DEF WorkerInv, UndoInv
<1>b. op[w] = "upgrade" /\ pc[w] = "restore" /\ at[w] \in 1..3 /\ NoSecondFault(w) => File(root, at[w]) = DevNone
  BY <1>0 DEF WorkerInv, UndoInv
<1>c. /\ faults >= before[w].faults + 1 /\ faults \in Int /\ before[w].faults \in Int /\ at[w] \in 1..4
      /\ root \in Files /\ B \in Files
  BY <1>0 DEF WorkerInv, DoneInv, DevTypeOK
<1> HIDE DEF B
<1>1. CASE Undo(w)
  <2>1. /\ UNCHANGED <<stage, saved, before, op, at, res, faults>>
        /\ at[w] \in 1..3 /\ pc'[w] = "restore" /\ File(root', at[w]) = DevNone
        /\ \A j \in 1..3 : j # at[w] => File(root', j) = File(root, j)
    BY <1>1, UndoEffect
  <2>2. \A i \in 1..3 : i < at[w] => i # at[w]
    BY <2>1
  <2>3. UndoInv(w)'
    BY <1>a, <2>1, <2>2 DEF UndoInv, NoSecondFault, B
  <2> QED BY <1>c, <2>1, <2>3 DEF WorkerInv, BackupInv, ActivateInv, PutBackInv, DoneInv, DevFailed
<1>2. CASE Restore(w)
  <2>1. /\ UNCHANGED <<stage, before, op, res, faults>> /\ pc'[w] = "undo"
        /\ at[w] \in 1..3 /\ at'[w] = at[w] + 1
        /\ \A j \in 1..3 : j # at[w] => File(root', j) = File(root, j) /\ File(saved'[w], j) = File(saved[w], j)
        /\ IF File(saved[w], at[w]) # DevNone
           THEN File(root', at[w]) = File(saved[w], at[w]) /\ File(saved'[w], at[w]) = DevNone
           ELSE File(root', at[w]) = File(root, at[w]) /\ File(saved'[w], at[w]) = File(saved[w], at[w])
    BY <1>2, RestoreEffect
  <2>2. ASSUME op[w] = "upgrade", NEW i \in 1..3
        PROVE  /\ i < at'[w] => File(B, i) \in {File(root', i), File(saved'[w], i)}
               /\ i < at'[w] /\ NoSecondFault(w) => File(root', i) = File(B, i)
               /\ i >= at'[w] => File(saved'[w], i) = File(B, i)
    <3>1. CASE i = at[w]
      <4>1. File(saved[w], i) = File(B, i) /\ (NoSecondFault(w) => File(root, i) = DevNone) /\ ~(i >= at'[w])
        BY <1>2, <1>a, <1>b, <2>1, <2>2, <3>1 DEF Restore, Looping
      <4> QED BY <2>1, <3>1, <4>1
    <3>2. CASE i < at[w]
      <4>1. i # at[w] /\ ~(i >= at'[w])
        BY <2>1, <3>2
      <4> QED BY <1>a, <2>1, <2>2, <3>2, <4>1
    <3>3. CASE i > at[w]
      <4>1. i # at[w] /\ i >= at[w] /\ ~(i < at'[w])
        BY <2>1, <3>3
      <4> QED BY <1>a, <2>1, <2>2, <4>1
    <3> QED BY <2>1, <3>1, <3>2, <3>3
  <2>3. UndoInv(w)'
    BY <2>1, <2>2 DEF UndoInv, NoSecondFault, B
  <2> QED BY <1>c, <2>1, <2>3 DEF WorkerInv, BackupInv, ActivateInv, PutBackInv, DoneInv, DevFailed
<1>3. CASE RestoreFails(w)
  <2>1. /\ UNCHANGED <<root, stage, saved, before, op, res>> /\ Fault
        /\ pc' = [pc EXCEPT ![w] = "undo"] /\ at[w] <= Len(DevNames) /\ at' = [at EXCEPT ![w] = @ + 1]
    BY <1>3 DEF RestoreFails, Looping
  <2>2. pc'[w] = "undo" /\ at'[w] = at[w] + 1 /\ faults' = faults + 1
    BY <2>1, NextNameEffect, FaultEffect DEF DevTypeOK
  <2>3. ~NoSecondFault(w)'
    BY <1>c, <2>1, <2>2 DEF NoSecondFault
  <2>4. \A i \in 1..3 : /\ i < at'[w] => i < at[w] \/ i >= at[w]
                        /\ i >= at'[w] => i >= at[w]
    BY <1>c, <2>2
  <2>5. UndoInv(w)'
    BY <1>a, <2>1, <2>2, <2>3, <2>4 DEF UndoInv, B
  <2> QED BY <1>c, <2>1, <2>2, <2>5 DEF WorkerInv, BackupInv, ActivateInv, PutBackInv, DoneInv, DevFailed
<1>4. CASE Undone(w)
  <2>1. /\ DevReturn(w, "error") /\ at[w] > 3
        /\ saved' = [saved EXCEPT ![w] = NoFiles] /\ UNCHANGED <<root, before, op, faults>>
    BY <1>4, NameFacts DEF Undone, Looped
  <2>2. pc'[w] = "done" /\ saved'[w] = NoFiles
    BY <2>1, ReturnEffect DEF DevTypeOK
  <2>3. \A i \in 1..3 : i < at[w]
    BY <1>c, <2>1
  <2>4. op[w] = "upgrade" /\ NoSecondFault(w) => root = B
    BY <1>a, <1>c, <2>3, SameFiles
  <2> QED BY <2>1, <2>2, <2>4, RestInv DEF NoSecondFault, B
<1>5. CASE UndoFails(w)
  <2>1. /\ UNCHANGED <<root, stage, saved, before, op, at, res>> /\ Fault
        /\ pc' = [pc EXCEPT ![w] = "restore"]
    BY <1>5 DEF UndoFails
  <2>2. pc'[w] = "restore" /\ faults' = faults + 1
    BY <2>1, FaultEffect DEF DevTypeOK
  <2>3. ~NoSecondFault(w)'
    BY <1>c, <2>1, <2>2 DEF NoSecondFault
  <2>4. UndoInv(w)'
    BY <1>a, <2>1, <2>2, <2>3 DEF UndoInv, B
  <2> QED BY <1>c, <2>1, <2>2, <2>4 DEF WorkerInv, BackupInv, ActivateInv, PutBackInv, DoneInv, DevFailed
<1> QED BY <1>1, <1>2, <1>3, <1>4, <1>5

LEMMA PutBackKeeps ==
    ASSUME DevTypeOK, NEW w \in DevWorker, WorkerInv(w),
           PutBack(w) \/ PutBackFails(w) \/ PutAllBack(w)
    PROVE  WorkerInv(w)'
<1> USE DEF PC
<1> DEFINE B == before[w].files
<1>0. pc[w] = "putback"
  BY DEF PutBack, PutBackFails, PutAllBack, Looping, Looped
<1>a. op[w] = "upgrade" => \A i \in 1..3 :
         /\ Either(w, i)
         /\ i < at[w] /\ NoSecondFault(w) => File(root, i) = File(B, i)
  BY <1>0 DEF WorkerInv, PutBackInv
<1>c. /\ faults >= before[w].faults + 1 /\ faults \in Int /\ before[w].faults \in Int /\ at[w] \in 1..4
      /\ root \in Files /\ B \in Files
  BY <1>0 DEF WorkerInv, DoneInv, DevTypeOK
<1> HIDE DEF B
<1>1. CASE PutBack(w)
  <2>1. /\ UNCHANGED <<stage, before, op, res, faults, pc>>
        /\ at[w] \in 1..3 /\ at'[w] = at[w] + 1
        /\ \A j \in 1..3 : j # at[w] => File(root', j) = File(root, j) /\ File(saved'[w], j) = File(saved[w], j)
        /\ IF File(saved[w], at[w]) # DevNone
           THEN File(root', at[w]) = File(saved[w], at[w]) /\ File(saved'[w], at[w]) = DevNone
           ELSE File(root', at[w]) = File(root, at[w]) /\ File(saved'[w], at[w]) = File(saved[w], at[w])
    BY <1>1, RestoreEffect
  <2>2. ASSUME op[w] = "upgrade", NEW i \in 1..3
        PROVE  Either(w, i)' /\ (i < at'[w] /\ NoSecondFault(w) => File(root', i) = File(B, i))
    <3>1. CASE i = at[w]
      BY <1>a, <2>1, <2>2, <3>1 DEF Either, B
    <3>2. CASE i # at[w]
      <4>1. i < at'[w] => i < at[w]
        BY <2>1, <3>2
      <4> QED BY <1>a, <2>1, <2>2, <3>2, <4>1 DEF Either
    <3> QED BY <3>1, <3>2
  <2>3. PutBackInv(w)'
    BY <2>1, <2>2 DEF PutBackInv, NoSecondFault, B
  <2> QED BY <1>0, <1>c, <2>1, <2>3 DEF WorkerInv, BackupInv, ActivateInv, UndoInv, DoneInv, DevFailed
<1>2. CASE PutBackFails(w)
  <2>1. /\ UNCHANGED <<root, stage, saved, before, op, res, pc>> /\ Fault
    BY <1>2 DEF PutBackFails, NextName
  <2>2. faults' = faults + 1
    BY <2>1, FaultEffect
  <2>3. ~NoSecondFault(w)'
    BY <1>c, <2>1, <2>2 DEF NoSecondFault
  <2>4. PutBackInv(w)'
    BY <1>a, <2>1, <2>3 DEF PutBackInv, Either
  <2> QED BY <1>0, <1>c, <2>1, <2>2, <2>4 DEF WorkerInv, BackupInv, ActivateInv, UndoInv, DoneInv, DevFailed
<1>3. CASE PutAllBack(w)
  <2>1. /\ DevReturn(w, "error") /\ at[w] > 3
        /\ saved' = [saved EXCEPT ![w] = NoFiles] /\ UNCHANGED <<root, before, op, faults>>
    BY <1>3, NameFacts DEF PutAllBack, Looped
  <2>2. pc'[w] = "done" /\ saved'[w] = NoFiles
    BY <2>1, ReturnEffect DEF DevTypeOK
  <2>3. \A i \in 1..3 : i < at[w]
    BY <1>c, <2>1
  <2>4. op[w] = "upgrade" /\ NoSecondFault(w) => root = B
    BY <1>a, <1>c, <2>3, SameFiles
  <2> QED BY <2>1, <2>2, <2>4, RestInv DEF NoSecondFault, B
<1> QED BY <1>1, <1>2, <1>3

LEMMA TrashKeeps ==
    ASSUME DevTypeOK, NEW w \in DevWorker, WorkerInv(w),
           Trash(w) \/ TrashFails(w) \/ EmptyTrash(w) \/ EmptyTrashFails(w)
    PROVE  WorkerInv(w)'
<1> USE DEF PC
<1>0. pc[w] = "trash"
  BY DEF Trash, TrashFails, EmptyTrash, EmptyTrashFails, Looping, Looped
<1>c. op[w] = "remove" /\ faults >= before[w].faults /\ faults \in Int /\ before[w].faults \in Int
  BY <1>0 DEF WorkerInv, DoneInv, DevTypeOK
<1>1. CASE Trash(w)
  <2>1. UNCHANGED <<stage, before, op, res, faults, pc>>
    BY <1>1, BackupEffect
  <2> QED BY <1>0, <1>c, <2>1 DEF WorkerInv, BackupInv, ActivateInv, UndoInv, PutBackInv, DoneInv, DevFailed
<1>2. CASE TrashFails(w) \/ EmptyTrashFails(w)
  <2>1. Goto(w, "putback") /\ Fault /\ UNCHANGED <<stage, before, op, res>>
    BY <1>2 DEF TrashFails, EmptyTrashFails
  <2>2. pc'[w] = "putback" /\ faults' = faults + 1
    BY <2>1, GotoEffect, FaultEffect
  <2> QED BY <1>c, <2>1, <2>2 DEF WorkerInv, BackupInv, ActivateInv, UndoInv, PutBackInv, DoneInv, DevFailed
<1>3. CASE EmptyTrash(w)
  <2>1. DevReturn(w, "ok") /\ saved' = [saved EXCEPT ![w] = NoFiles]
    BY <1>3 DEF EmptyTrash
  <2>2. pc'[w] = "done" /\ res'[w] = "ok" /\ saved'[w] = NoFiles
    BY <2>1, ReturnEffect DEF DevTypeOK
  <2> QED BY <2>2, RestInv DEF DevFailed
<1> QED BY <1>1, <1>2, <1>3

LEMMA DevInitInv == OneWorker /\ DevInit => DevInv
<1> SUFFICES ASSUME OneWorker, DevInit PROVE DevInv
  OBVIOUS
<1>1. DevTypeOK
  BY NameFacts, DevLifecycleAssumption DEF DevInit, DevTypeOK, NoMark, PC
<1>2. \A w \in DevWorker : WorkerInv(w)
  BY DEF DevInit, WorkerInv, BackupInv, ActivateInv, UndoInv, PutBackInv, DoneInv, DevFailed
<1> QED BY <1>1, <1>2 DEF DevInv

LEMMA DevNextInv == DevInv /\ [DevNext]_devVars => DevInv'
<1> SUFFICES ASSUME DevInv, [DevNext]_devVars PROVE DevInv'
  OBVIOUS
<1>1. PICK w : DevWorker = {w}
  BY DEF DevInv, OneWorker
<1>2. DevTypeOK /\ WorkerInv(w) /\ w \in DevWorker
  BY <1>1 DEF DevInv
<1>3. OneWorker'
  BY DEF DevInv, OneWorker
<1>4. CASE UNCHANGED devVars
  <2>1. DevTypeOK'
    BY <1>2, <1>4 DEF devVars, DevTypeOK
  <2>2. WorkerInv(w)'
    <3>1. UNCHANGED <<root, stage, saved, before, pc, op, at, res, faults>>
      BY <1>4 DEF devVars
    <3> QED BY <1>2, <3>1 DEF WorkerInv, BackupInv, ActivateInv, UndoInv, PutBackInv, DoneInv, DevFailed,
                              NoSecondFault, Either
  <2> QED BY <1>1, <1>3, <2>1, <2>2 DEF DevInv
<1>5. CASE DevNext
  <2>1. DevRequest(w) \/ DevStep(w) \/ StepFails(w) \/ DevKill(w)
    BY <1>1, <1>5 DEF DevNext
  <2>2. DevTypeOK'
    BY <1>2, <2>1, RequestTypes, StepTypes, FailureTypes
  <2>3. WorkerInv(w)'
    BY <1>2, <2>1, RequestsKeep, BuildKeeps, BackupKeeps, ActivateKeeps, UndoKeeps, PutBackKeeps, TrashKeeps
       DEF DevStep, StepFails
  <2> QED BY <1>1, <1>3, <2>2, <2>3 DEF DevInv
<1> QED BY <1>4, <1>5

(* With one worker, whatever fails and whenever it is killed: an upgrade     *)
(* that fails gives the previous files back after one failed rename, lets go *)
(* of none of them before its new ones are in place, and one that succeeds   *)
(* leaves a verified installation (development_lifecycle.rs, materialize).   *)
THEOREM DevelopmentKept == OneWorker /\ DevSpec => []DevKeptOrRepaired
<1>1. DevInv => DevKeptOrRepaired
  <2> SUFFICES ASSUME DevInv, NEW w \in DevWorker
               PROVE  /\ (DevFailed(w) /\ op[w] = "upgrade" /\ faults <= before[w].faults + 1) =>
                             root = before[w].files
                      /\ (op[w] = "upgrade" /\ pc[w] \in {"backup", "activate", "undo", "restore", "putback"}) =>
                             \A n \in DOMAIN root : before[w].files[n] # DevNone =>
                                before[w].files[n] \in {root[n], saved[w][n]}
                      /\ (Looped(w, "activate") /\ op[w] = "upgrade") => Verified(root)
    BY DEF DevKeptOrRepaired, FailureKeepsPrevious, FailedUpgradeRestores, PreviousKept, UpgradeRepairs
  <2>1. WorkerInv(w) /\ root \in Files /\ saved[w] \in Files /\ before[w].files \in Files /\ at[w] \in 1..4
    BY DEF DevInv, DevTypeOK
  <2>2. (DevFailed(w) /\ op[w] = "upgrade" /\ faults <= before[w].faults + 1) => root = before[w].files
    BY <2>1 DEF WorkerInv, DoneInv, NoSecondFault
  <2>3. ASSUME op[w] = "upgrade", pc[w] \in {"backup", "activate", "undo", "restore", "putback"},
               NEW n \in DOMAIN root
        PROVE  before[w].files[n] \in {root[n], saved[w][n]}
    <3>1. PICK i \in 1..3 : DevNames[i] = n
      <4>1. n \in {"exe", "prov", "man"}
        BY <2>1 DEF Files
      <4> QED BY <4>1 DEF DevNames
    <3>2. File(before[w].files, i) \in {File(root, i), File(saved[w], i)}
      BY <2>1, <2>3 DEF WorkerInv, BackupInv, ActivateInv, UndoInv, PutBackInv, Either
    <3> QED BY <3>1, <3>2 DEF File
  <2>4. ASSUME Looped(w, "activate"), op[w] = "upgrade" PROVE Verified(root)
    <3>1. pc[w] = "activate" /\ \A i \in 1..3 : i < at[w]
      BY <2>1, <2>4, NameFacts DEF Looped
    <3>2. PICK b \in DevBuild, bound \in BOOLEAN : \A i \in 1..3 :
             i < at[w] => File(root, i) = File(NewFiles(b, bound), i)
      BY <2>1, <2>4, <3>1 DEF WorkerInv, ActivateInv
    <3>3. root = NewFiles(b, bound)
      BY <2>1, <3>1, <3>2, SameFiles, NewFilesType
    <3> QED BY <3>3, NewFilesType
  <2> QED BY <2>2, <2>3, <2>4
<1> QED BY <1>1, DevInitInv, DevNextInv, PTL DEF DevSpec

-----------------------------------------------------------------------------
(* The handoff, for any number of workers and any hosts.  What is proved of  *)
(* the screen at rest rests on where the worker it holds is: the build is    *)
(* the one of before until that worker has published, and its own after it.  *)

HandScreen ==
    [phase : HandPhases, code : HandCodes, held : HandIds \cup {HandNone},
     began : HandIds \cup {HandNone, 0}, alone : BOOLEAN, quit : {"no", "waiting", "ended"}]
HandThread ==
    [at : HandSteps, op : {"install", "upgrade"}, cancelled : BOOLEAN, late : BOOLEAN,
     answer : HandCodes \cup {HandNone}]
HandTyped ==
    /\ hand \in HandScreen
    /\ handWorker \in [HandIds -> HandThread]
    /\ handRoot \in [build : HandIds \cup {HandNone, 0}, warned : BOOLEAN]
    /\ handHost \in DOMAIN HandHosts

(* What does not change while the frontend runs. *)
Trusted == trusted_toolchain(HandHost)
Shares == group_writable_rustup_paths(HandHost)
Profile == HandHost.development

Building == {"clone", "identity", "build", "manifest", "check", "activate", "status"}

ThreadInv ==
    \A w \in HandIds :
        /\ handWorker[w].at = "gone" => handWorker[w].answer \in HandCodes
        /\ handWorker[w].at # "unborn" => Profile
        /\ handWorker[w].at \in Building => Trusted
        /\ handWorker[w].at \in {"activate", "status"} \/ handRoot.build = w =>
              (handWorker[w].cancelled => handWorker[w].late)
        /\ handRoot.build = w => handWorker[w].at \in {"status", "gone"}

RootInv == handRoot.build \in HandIds => Trusted /\ handRoot.warned = Shares

HeldInv == hand.held # HandNone => handWorker[hand.held].at # "unborn"

(* The worker that was alone when it was started, while it is held and once  *)
(* its answer is taken.                                                      *)
Published(w) ==
    \/ handWorker[w].at = "status"
    \/ handWorker[w].at = "gone" /\ handWorker[w].answer = "installed"
AloneInv ==
    hand.alone =>
        /\ \A v \in HandIds : v # hand.held => handWorker[v].at \in {"unborn", "gone"}
        /\ hand.held # HandNone =>
              /\ hand.began # hand.held
              /\ handRoot.build = IF Published(hand.held) THEN hand.held ELSE hand.began
        /\ (hand.held = HandNone /\ \E v \in HandIds : handWorker[v].at # "unborn") =>
              IF hand.phase = "Installed" THEN handRoot.build \notin {HandNone, hand.began}
              ELSE handRoot.build = hand.began

HandInv == HandTyped /\ ThreadInv /\ RootInv /\ HeldInv /\ AloneInv

LEMMA HostFixed ==
    ASSUME handHost' = handHost
    PROVE  Trusted' = Trusted /\ Shares' = Shares /\ Profile' = Profile /\ HandHost' = HandHost
<1>1. HandHost' = HandHost
  BY DEF HandHost
<1> QED BY <1>1 DEF Trusted, Shares, Profile

(* What the two endings of a step of a worker do to the threads. *)
LEMMA MoveEffect ==
    ASSUME handWorker \in [HandIds -> HandThread], NEW w \in HandIds, NEW next \in HandSteps,
           handWorker' = [handWorker EXCEPT ![w].at = next]
    PROVE  /\ handWorker' \in [HandIds -> HandThread]
           /\ handWorker'[w].at = next /\ handWorker'[w].answer = handWorker[w].answer
           /\ handWorker'[w].cancelled = handWorker[w].cancelled
           /\ handWorker'[w].late = handWorker[w].late
           /\ \A v \in HandIds : v # w => handWorker'[v] = handWorker[v]
BY DEF HandThread

LEMMA AnswerEffect ==
    ASSUME handWorker \in [HandIds -> HandThread], NEW w \in HandIds, NEW code \in HandCodes,
           handWorker' = [handWorker EXCEPT ![w].at = "gone", ![w].answer = code]
    PROVE  /\ handWorker' \in [HandIds -> HandThread]
           /\ handWorker'[w].at = "gone" /\ handWorker'[w].answer = code
           /\ handWorker'[w].cancelled = handWorker[w].cancelled
           /\ handWorker'[w].late = handWorker[w].late
           /\ \A v \in HandIds : v # w => handWorker'[v] = handWorker[v]
<1>1. "gone" \in HandSteps
  BY DEF HandSteps
<1> QED BY <1>1 DEF HandThread

(* A step of a busy worker that leaves the root alone and says nothing new   *)
(* of what is published.                                                     *)
LEMMA WorkerKeeps ==
    ASSUME HandInv, NEW w \in HandIds, UNCHANGED <<hand, handRoot, handHost>>,
           handWorker' \in [HandIds -> HandThread],
           \A v \in HandIds : v # w => handWorker'[v] = handWorker[v],
           handWorker'[w].cancelled = handWorker[w].cancelled,
           handWorker'[w].late = handWorker[w].late,
           handWorker[w].at \notin {"unborn", "gone"}, handWorker'[w].at # "unborn",
           handWorker'[w].at = "gone" => handWorker'[w].answer \in HandCodes,
           handWorker'[w].at \in Building => Trusted,
           handWorker'[w].at \in {"activate", "status"} => (handWorker[w].cancelled => handWorker[w].late),
           handRoot.build = w => handWorker'[w].at \in {"status", "gone"},
           hand.alone => (Published(w)' <=> Published(w))
    PROVE  HandInv'
<1>1. Trusted' = Trusted /\ Shares' = Shares /\ Profile' = Profile
  BY HostFixed
<1>2. HandTyped'
  BY DEF HandInv, HandTyped
<1>3. ThreadInv'
  <2> SUFFICES ASSUME NEW v \in HandIds
               PROVE  /\ handWorker'[v].at = "gone" => handWorker'[v].answer \in HandCodes
                      /\ handWorker'[v].at # "unborn" => Profile'
                      /\ handWorker'[v].at \in Building => Trusted'
                      /\ handWorker'[v].at \in {"activate", "status"} \/ handRoot'.build = v =>
                            (handWorker'[v].cancelled => handWorker'[v].late)
                      /\ handRoot'.build = v => handWorker'[v].at \in {"status", "gone"}
    BY DEF ThreadInv
  <2>1. CASE v = w
    BY <1>1, <2>1 DEF HandInv, ThreadInv
  <2>2. CASE v # w
    BY <1>1, <2>2 DEF HandInv, ThreadInv
  <2> QED BY <2>1, <2>2
<1>4. RootInv' /\ HeldInv'
  BY <1>1 DEF HandInv, RootInv, HeldInv, HandTyped, HandScreen
<1>5. AloneInv'
  <2> SUFFICES ASSUME hand.alone
               PROVE  /\ \A v \in HandIds : v # hand.held => handWorker'[v].at \in {"unborn", "gone"}
                      /\ hand.held # HandNone =>
                            /\ hand.began # hand.held
                            /\ handRoot.build = IF Published(hand.held)' THEN hand.held ELSE hand.began
                      /\ (hand.held = HandNone /\ \E v \in HandIds : handWorker'[v].at # "unborn") =>
                            IF hand.phase = "Installed" THEN handRoot.build \notin {HandNone, hand.began}
                            ELSE handRoot.build = hand.began
    BY DEF AloneInv, Published
  <2>1. hand.held = w /\ w # HandNone
    BY HandAssumption DEF HandInv, AloneInv, HandIds
  <2>2. Published(w)' <=> Published(w)
    OBVIOUS
  <2>3. Published(hand.held)' <=> Published(hand.held)
    BY <2>1, <2>2 DEF Published
  <2> QED BY <2>1, <2>3 DEF HandInv, AloneInv
<1> QED BY <1>2, <1>3, <1>4, <1>5 DEF HandInv

LEMMA Answering ==
    ASSUME HandInv, NEW w \in HandIds, NEW code \in HandCodes, Answers(w, code),
           handWorker[w].at \notin {"unborn", "gone"},
           hand.alone => (handWorker[w].at = "status" <=> code = "installed")
    PROVE  HandInv'
<1>1. /\ handWorker' \in [HandIds -> HandThread]
      /\ handWorker'[w].at = "gone" /\ handWorker'[w].answer = code
      /\ handWorker'[w].cancelled = handWorker[w].cancelled
      /\ handWorker'[w].late = handWorker[w].late
      /\ \A v \in HandIds : v # w => handWorker'[v] = handWorker[v]
  BY AnswerEffect DEF HandInv, HandTyped, Answers
<1>2. handWorker'[w].at \notin Building
  BY <1>1 DEF Building
<1>3. hand.alone => (Published(w)' <=> Published(w))
  BY <1>1 DEF Published
<1>4. UNCHANGED <<hand, handRoot, handHost>>
  BY DEF Answers
<1> QED BY <1>1, <1>2, <1>3, <1>4, WorkerKeeps

LEMMA Moving ==
    ASSUME HandInv, NEW w \in HandIds, NEW next \in HandSteps, Moves(w, next),
           next \notin {"unborn", "status", "gone"},
           handWorker[w].at \notin {"unborn", "status", "gone"},
           next \in Building => Trusted,
           next = "activate" => ~handWorker[w].cancelled
    PROVE  HandInv'
<1>1. /\ handWorker' \in [HandIds -> HandThread]
      /\ handWorker'[w].at = next /\ handWorker'[w].answer = handWorker[w].answer
      /\ handWorker'[w].cancelled = handWorker[w].cancelled
      /\ handWorker'[w].late = handWorker[w].late
      /\ \A v \in HandIds : v # w => handWorker'[v] = handWorker[v]
  BY MoveEffect DEF HandInv, HandTyped, Moves
<1>2. hand.alone => (Published(w)' <=> Published(w))
  BY <1>1 DEF Published
<1>3. UNCHANGED <<hand, handRoot, handHost>>
  BY DEF Moves
<1>4. handRoot.build # w
  BY DEF HandInv, ThreadInv
<1> QED BY <1>1, <1>2, <1>3, <1>4, WorkerKeeps

(* One step of a worker. *)
LEMMA WorkerStepInv ==
    ASSUME HandInv, NEW w \in HandIds, WorkerStep(w)
    PROVE  HandInv'
<1> USE DEF HandCodes
<1>1. CASE WorkerStarts(w)
  <2>1. handWorker[w].at = "start"
    BY <1>1 DEF WorkerStarts
  <2>2. \/ \E code \in {"not_installed", "host_preflight_failed", "already_installed"} : Answers(w, code)
        \/ Moves(w, "tools")
    BY <1>1 DEF WorkerStarts
  <2>3. ASSUME NEW code \in {"not_installed", "host_preflight_failed", "already_installed"}, Answers(w, code)
        PROVE  HandInv'
    BY <2>1, <2>3, Answering
  <2>4. CASE Moves(w, "tools")
    BY <2>1, <2>4, Moving DEF HandSteps, Building
  <2> QED BY <2>2, <2>3, <2>4
<1>2. CASE WorkerResolves(w)
  <2>1. CASE Trusted /\ Moves(w, "clone")
    BY <1>2, <2>1, Moving DEF WorkerResolves, HandSteps, HandCommands
  <2>2. CASE Answers(w, "tool_unavailable")
    BY <1>2, <2>2, Answering DEF WorkerResolves
  <2> QED BY <1>2, <2>1, <2>2 DEF WorkerResolves, Trusted
<1>3. CASE run_bounded(w)
  <2>1. handWorker[w].at \in {"clone", "identity", "build"} /\ Trusted
    BY <1>3 DEF run_bounded, HandCommands, HandInv, ThreadInv, Building
  <2>2. CASE \E code \in {"cancelled", "command_failed"} : Answers(w, code)
    BY <2>1, <2>2, Answering
  <2>3. CASE Moves(w, HandCommands[handWorker[w].at])
    <3>1. HandCommands[handWorker[w].at] \in {"identity", "build", "manifest"}
      BY <2>1 DEF HandCommands
    <3>2. {"identity", "build", "manifest"} \subseteq HandSteps
      BY DEF HandSteps, HandCommands
    <3> QED BY <2>1, <2>3, <3>1, <3>2, Moving
  <2> QED BY <1>3, <2>2, <2>3 DEF run_bounded
<1>4. CASE WorkerChecksManifest(w)
  <2>1. handWorker[w].at = "manifest" /\ Trusted
    BY <1>4 DEF WorkerChecksManifest, HandInv, ThreadInv, Building
  <2>2. CASE Moves(w, "check")
    BY <2>1, <2>2, Moving DEF HandSteps
  <2>3. CASE Answers(w, "manifest_refused")
    BY <2>1, <2>3, Answering
  <2> QED BY <1>4, <2>2, <2>3 DEF WorkerChecksManifest
<1>5. CASE WorkerLastLook(w)
  <2>1. handWorker[w].at = "check" /\ Trusted
    BY <1>5 DEF WorkerLastLook, HandInv, ThreadInv, Building
  <2>2. CASE ~handWorker[w].cancelled /\ Moves(w, "activate")
    BY <2>1, <2>2, Moving DEF HandSteps
  <2>3. CASE Answers(w, "cancelled")
    BY <2>1, <2>3, Answering
  <2> QED BY <1>5, <2>2, <2>3 DEF WorkerLastLook
<1>6. CASE WorkerActivates(w)
  <2>1. handWorker[w].at = "activate" /\ Trusted /\ (handWorker[w].cancelled => handWorker[w].late)
    BY <1>6 DEF WorkerActivates, HandInv, ThreadInv, Building
  <2>2. CASE Answers(w, "stage_failed") \/ Answers(w, "activation_failed")
    BY <2>1, <2>2, Answering
  <2>3. CASE /\ handRoot' = [build |-> w, warned |-> Shares]
             /\ handWorker' = [handWorker EXCEPT ![w].at = "status"]
             /\ UNCHANGED <<hand, handHost>>
    <3>1. Trusted' = Trusted /\ Shares' = Shares /\ Profile' = Profile
      BY <2>3, HostFixed
    <3>2. "status" \in HandSteps
      BY DEF HandSteps
    <3>3. /\ handWorker' \in [HandIds -> HandThread]
          /\ handWorker'[w].at = "status"
          /\ handWorker'[w].cancelled = handWorker[w].cancelled
          /\ handWorker'[w].late = handWorker[w].late
          /\ \A v \in HandIds : v # w => handWorker'[v] = handWorker[v]
      BY <2>3, <3>2, MoveEffect DEF HandInv, HandTyped
    <3>4. HandTyped'
      <4>1. Shares \in BOOLEAN
        BY DEF Shares, group_writable_rustup_paths, Shared
      <4> QED BY <2>3, <3>3, <4>1 DEF HandInv, HandTyped
    <3>5. ThreadInv'
      <4> SUFFICES ASSUME NEW v \in HandIds
                   PROVE  /\ handWorker'[v].at = "gone" => handWorker'[v].answer \in HandCodes
                          /\ handWorker'[v].at # "unborn" => Profile'
                          /\ handWorker'[v].at \in Building => Trusted'
                          /\ handWorker'[v].at \in {"activate", "status"} \/ handRoot'.build = v =>
                                (handWorker'[v].cancelled => handWorker'[v].late)
                          /\ handRoot'.build = v => handWorker'[v].at \in {"status", "gone"}
        BY DEF ThreadInv
      <4>1. CASE v = w
        BY <2>1, <2>3, <3>1, <3>3, <4>1 DEF HandInv, ThreadInv
      <4>2. CASE v # w
        BY <2>1, <2>3, <3>1, <3>3, <4>2 DEF HandInv, ThreadInv
      <4> QED BY <4>1, <4>2
    <3>6. RootInv' /\ HeldInv'
      BY <2>1, <2>3, <3>1, <3>3 DEF HandInv, RootInv, HeldInv, HandTyped, HandScreen
    <3>7. AloneInv'
      <4> SUFFICES ASSUME hand.alone PROVE AloneInv'
        BY <2>3 DEF AloneInv
      <4>1. hand.held = w /\ w # HandNone
        BY <2>1, HandAssumption DEF HandInv, AloneInv, HandIds
      <4>2. Published(hand.held)'
        BY <2>3, <3>3, <4>1 DEF Published
      <4> QED BY <2>1, <2>3, <3>3, <4>1, <4>2 DEF HandInv, AloneInv
    <3> QED BY <3>4, <3>5, <3>6, <3>7 DEF HandInv
  <2> QED BY <1>6, <2>2, <2>3 DEF WorkerActivates, Shares
<1>7. CASE WorkerReports(w)
  <2>1. handWorker[w].at = "status"
    BY <1>7 DEF WorkerReports
  <2>2. CASE Answers(w, "installed")
    BY <2>1, <2>2, Answering
  <2>3. CASE /\ \E v \in HandIds : handWorker[v].at = "activate"
             /\ \E code \in HandInvalid : Answers(w, code)
    <3>1. ~hand.alone
      BY <2>1, <2>3 DEF HandInv, AloneInv
    <3>2. PICK code \in HandInvalid : Answers(w, code)
      BY <2>3
    <3> QED BY <2>1, <3>1, <3>2, Answering DEF HandInvalid
  <2> QED BY <1>7, <2>2, <2>3 DEF WorkerReports
<1> QED BY <1>1, <1>2, <1>3, <1>4, <1>5, <1>6, <1>7 DEF WorkerStep

-----------------------------------------------------------------------------
(* The screen. *)
LEMMA HandInitInv == HandInit => HandInv
<1> SUFFICES ASSUME HandInit PROVE HandInv
  OBVIOUS
<1> USE DEF HandInit
<1>1. HandTyped
  <2>1. hand \in HandScreen
    BY DEF HandScreen, HandPhases, HandCodes
  <2>2. "unborn" \in HandSteps
    BY DEF HandSteps
  <2>3. handWorker \in [HandIds -> HandThread]
    BY <2>2 DEF HandThread
  <2>4. \E b \in {HandNone, 0} : handRoot = [build |-> b, warned |-> FALSE]
    OBVIOUS
  <2>5. handRoot \in [build : HandIds \cup {HandNone, 0}, warned : BOOLEAN]
    BY <2>4
  <2>6. handHost \in DOMAIN HandHosts
    OBVIOUS
  <2> QED BY <2>1, <2>3, <2>5, <2>6 DEF HandTyped
<1>2. \A w \in HandIds : handWorker[w].at = "unborn"
  OBVIOUS
<1>3. handRoot.build \notin HandIds /\ hand.held = HandNone
  BY HandAssumption DEF HandIds
<1> QED BY <1>1, <1>2, <1>3 DEF HandInv, ThreadInv, RootInv, HeldInv, AloneInv, Building

LEMMA SpawnInv ==
    ASSUME HandInv, NEW h \in HandScreen, UNCHANGED handHost, Spawn(h),
           h.held = hand.held, h.began = hand.began, h.alone = hand.alone
    PROVE  HandInv'
<1>1. Trusted' = Trusted /\ Shares' = Shares /\ Profile' = Profile
  BY HostFixed
<1>2. CASE ~Profile
  <2>1. hand' = [h EXCEPT !.phase = "Failed", !.code = "profile_required"] /\ UNCHANGED <<handWorker, handRoot>>
    BY <1>2 DEF Spawn, Profile
  <2>2. hand' \in HandScreen /\ hand'.held = hand.held
    BY <2>1 DEF HandScreen, HandPhases, HandCodes
  <2>3. \A w \in HandIds : handWorker[w].at = "unborn"
    BY <1>2 DEF HandInv, ThreadInv
  <2>4. hand.held = HandNone
    BY <2>3 DEF HandInv, HeldInv, HandTyped, HandScreen
  <2>5. HandTyped' /\ ThreadInv' /\ RootInv'
    BY <1>1, <2>1, <2>2 DEF HandInv, HandTyped, ThreadInv, RootInv
  <2> QED BY <2>1, <2>2, <2>3, <2>4, <2>5 DEF HandInv, HeldInv, AloneInv
<1>3. CASE Profile
  <2>1. PICK w \in HandIds :
           /\ handWorker[w].at = "unborn"
           /\ handWorker' = [handWorker EXCEPT ![w].at = "start", ![w].op = operation(h)]
           /\ hand' = [h EXCEPT !.held = w, !.began = handRoot.build,
                                !.alone = \A v \in HandIds : ~Alive(v)]
           /\ UNCHANGED handRoot
    BY <1>3 DEF Spawn, Profile, Unborn
  <2>2. /\ handWorker' \in [HandIds -> HandThread]
        /\ handWorker'[w].at = "start"
        /\ handWorker'[w].cancelled = handWorker[w].cancelled
        /\ handWorker'[w].late = handWorker[w].late
        /\ \A v \in HandIds : v # w => handWorker'[v] = handWorker[v]
    <3>1. operation(h) \in {"install", "upgrade"}
      BY DEF operation
    <3>2. "start" \in HandSteps
      BY DEF HandSteps
    <3> QED BY <2>1, <3>1, <3>2 DEF HandInv, HandTyped, HandThread
  <2>3. /\ hand' \in HandScreen /\ hand'.held = w /\ hand'.began = handRoot.build
        /\ hand'.alone = (\A v \in HandIds : ~Alive(v))
    <3>1. (\A v \in HandIds : ~Alive(v)) \in BOOLEAN
      OBVIOUS
    <3>2. handRoot.build \in HandIds \cup {HandNone, 0}
      BY DEF HandInv, HandTyped
    <3> HIDE DEF Alive
    <3> QED BY <2>1, <3>1, <3>2 DEF HandScreen
  <2>4. handRoot.build # w
    BY <2>1 DEF HandInv, ThreadInv
  <2>5. HandTyped' /\ RootInv'
    BY <1>1, <2>1, <2>2, <2>3 DEF HandInv, HandTyped, RootInv
  <2>6. ThreadInv'
    <3> SUFFICES ASSUME NEW v \in HandIds
                 PROVE  /\ handWorker'[v].at = "gone" => handWorker'[v].answer \in HandCodes
                        /\ handWorker'[v].at # "unborn" => Profile'
                        /\ handWorker'[v].at \in Building => Trusted'
                        /\ handWorker'[v].at \in {"activate", "status"} \/ handRoot'.build = v =>
                              (handWorker'[v].cancelled => handWorker'[v].late)
                        /\ handRoot'.build = v => handWorker'[v].at \in {"status", "gone"}
      BY DEF ThreadInv
    <3>1. CASE v = w
      BY <1>1, <1>3, <2>1, <2>2, <2>4, <3>1 DEF Building
    <3>2. CASE v # w
      BY <1>1, <2>1, <2>2, <3>2 DEF HandInv, ThreadInv
    <3> QED BY <3>1, <3>2
  <2>7. HeldInv'
    BY <2>2, <2>3 DEF HeldInv
  <2>8. AloneInv'
    <3>1. ~Published(hand.held)'
      BY <2>2, <2>3 DEF Published
    <3>2. hand'.held # HandNone
      BY <2>3, HandAssumption DEF HandIds
    <3>3. hand'.alone => \A v \in HandIds : v # w => handWorker'[v].at \in {"unborn", "gone"}
      BY <2>2, <2>3 DEF Alive
    <3> QED BY <2>1, <2>2, <2>3, <2>4, <3>1, <3>2, <3>3 DEF AloneInv, Published
  <2> QED BY <2>5, <2>6, <2>7, <2>8 DEF HandInv
<1> QED BY <1>2, <1>3

LEMMA FlagEffect ==
    ASSUME handWorker \in [HandIds -> HandThread], NEW w \in HandIds, handWorker' = Flagged(w)
    PROVE  /\ handWorker' \in [HandIds -> HandThread]
           /\ handWorker'[w].at = handWorker[w].at /\ handWorker'[w].answer = handWorker[w].answer
           /\ handWorker'[w].late =
                 (handWorker[w].late \/ handWorker[w].at \in {"activate", "status", "gone"})
           /\ \A v \in HandIds : v # w => handWorker'[v] = handWorker[v]
<1>1. Late(handWorker[w]) \in BOOLEAN
  BY DEF Late
<1>2. /\ handWorker' \in [HandIds -> HandThread]
      /\ handWorker'[w].at = handWorker[w].at /\ handWorker'[w].answer = handWorker[w].answer
      /\ handWorker'[w].late = Late(handWorker[w])
      /\ \A v \in HandIds : v # w => handWorker'[v] = handWorker[v]
  BY <1>1 DEF Flagged, HandThread
<1> QED BY <1>2 DEF Late

(* The held worker is told to stop, and the screen changes its phase at most *)
(* to cancelled.                                                             *)
LEMMA TellInv ==
    ASSUME HandInv, hand' \in HandScreen, UNCHANGED <<handRoot, handHost>>,
           hand'.held = hand.held, hand'.began = hand.began, hand'.alone = hand.alone,
           hand'.phase = hand.phase \/ (hand.phase # "Installed" /\ hand'.phase # "Installed"),
           handWorker' = IF hand.held = HandNone THEN handWorker ELSE Flagged(hand.held)
    PROVE  HandInv'
<1>1. Trusted' = Trusted /\ Shares' = Shares /\ Profile' = Profile
  BY HostFixed
<1>2. /\ handWorker' \in [HandIds -> HandThread]
      /\ \A v \in HandIds :
            /\ handWorker'[v].at = handWorker[v].at /\ handWorker'[v].answer = handWorker[v].answer
            /\ \/ handWorker'[v] = handWorker[v]
               \/ handWorker[v].at \in {"activate", "status", "gone"} => handWorker'[v].late
  <2>1. CASE hand.held = HandNone
    BY <2>1 DEF HandInv, HandTyped
  <2>2. CASE hand.held # HandNone
    <3>1. hand.held \in HandIds
      BY <2>2 DEF HandInv, HandTyped, HandScreen
    <3> QED BY <2>2, <3>1, FlagEffect DEF HandInv, HandTyped
  <2> QED BY <2>1, <2>2
<1>3. HandTyped' /\ RootInv' /\ HeldInv'
  BY <1>1, <1>2 DEF HandInv, HandTyped, RootInv, HeldInv, HandScreen
<1>4. ThreadInv'
  <2> SUFFICES ASSUME NEW v \in HandIds
               PROVE  /\ handWorker'[v].at = "gone" => handWorker'[v].answer \in HandCodes
                      /\ handWorker'[v].at # "unborn" => Profile'
                      /\ handWorker'[v].at \in Building => Trusted'
                      /\ handWorker'[v].at \in {"activate", "status"} \/ handRoot'.build = v =>
                            (handWorker'[v].cancelled => handWorker'[v].late)
                      /\ handRoot'.build = v => handWorker'[v].at \in {"status", "gone"}
    BY DEF ThreadInv
  <2> QED BY <1>1, <1>2 DEF HandInv, ThreadInv
<1>5. AloneInv'
  <2>1. hand.held # HandNone => (Published(hand.held)' <=> Published(hand.held))
    BY <1>2 DEF Published, HandInv, HandTyped, HandScreen
  <2> QED BY <1>2, <2>1 DEF HandInv, AloneInv, Published
<1> QED BY <1>3, <1>4, <1>5 DEF HandInv

LEMMA ReceiveInv == ASSUME HandInv, ReceiveAnswer PROVE HandInv'
<1> DEFINE w == hand.held
           code == handWorker[w].answer
<1>1. w \in HandIds /\ handWorker[w].at = "gone" /\ code \in HandCodes
  BY DEF ReceiveAnswer, HandInv, HandTyped, HandScreen, ThreadInv
<1>2. Trusted' = Trusted /\ Shares' = Shares /\ Profile' = Profile
  BY HostFixed DEF ReceiveAnswer
<1>3. /\ hand' \in HandScreen /\ hand'.held = HandNone /\ hand'.began = hand.began
      /\ hand'.alone = hand.alone /\ (hand'.phase = "Installed" <=> code = "installed")
  <2>1. hand' = [apply_response(hand, code) EXCEPT !.held = HandNone]
    BY DEF ReceiveAnswer
  <2> HIDE DEF code
  <2>2. PICK phase \in HandPhases :
           /\ apply_response(hand, code) = [hand EXCEPT !.code = code, !.phase = phase]
           /\ phase = "Installed" <=> code = "installed"
    BY DEF apply_response, HandPhases
  <2> QED BY <1>1, <2>1, <2>2 DEF HandInv, HandTyped, HandScreen
<1>4. UNCHANGED <<handWorker, handRoot, handHost>>
  BY DEF ReceiveAnswer
<1>5. HandTyped' /\ RootInv' /\ ThreadInv' /\ HeldInv'
  BY <1>2, <1>3, <1>4 DEF HandInv, HandTyped, RootInv, ThreadInv, HeldInv
<1>6. ASSUME hand.alone PROVE AloneInv'
  <2>1. Published(w) <=> code = "installed"
    BY <1>1 DEF Published
  <2>2. /\ w # HandNone /\ hand.began # w
        /\ handRoot.build = IF code = "installed" THEN w ELSE hand.began
    BY <1>1, <1>6, <2>1, HandAssumption DEF HandInv, AloneInv, HandIds
  <2>3. \A v \in HandIds : handWorker[v].at \in {"unborn", "gone"}
    BY <1>1, <1>6 DEF HandInv, AloneInv
  <2> HIDE DEF w, code
  <2> QED BY <1>3, <1>4, <2>2, <2>3 DEF AloneInv
<1> QED BY <1>3, <1>5, <1>6 DEF HandInv, AloneInv

LEMMA HandNextInv == HandInv /\ [HandNext]_handVars => HandInv'
<1> SUFFICES ASSUME HandInv, [HandNext]_handVars PROVE HandInv'
  OBVIOUS
<1>0. hand \in HandScreen
  BY DEF HandInv, HandTyped
<1>1. CASE MaterializeDevelopment
  <2>1. begin(hand) \in HandScreen /\ begin(hand).held = hand.held /\ begin(hand).began = hand.began
        /\ begin(hand).alone = hand.alone
    BY <1>0 DEF begin, HandScreen, HandPhases, HandCodes
  <2> QED BY <1>1, <2>1, SpawnInv DEF MaterializeDevelopment
<1>2. CASE RetryDevelopment
  <2>1. begin_retry(hand) \in HandScreen /\ begin_retry(hand).held = hand.held
        /\ begin_retry(hand).began = hand.began /\ begin_retry(hand).alone = hand.alone
    BY <1>0 DEF begin_retry, HandScreen, HandPhases, HandCodes
  <2> QED BY <1>2, <2>1, SpawnInv DEF RetryDevelopment
<1>3. CASE CancelDevelopment
  <2>1. /\ hand' \in HandScreen /\ hand'.held = hand.held /\ hand'.began = hand.began
        /\ hand'.alone = hand.alone
        /\ hand'.phase = hand.phase \/ (hand.phase # "Installed" /\ hand'.phase # "Installed")
    BY <1>0, <1>3 DEF CancelDevelopment, cancel, HandScreen, HandPhases, HandCodes
  <2> QED BY <1>3, <2>1, TellInv DEF CancelDevelopment
<1>4. CASE ReceiveAnswer
  BY <1>4, ReceiveInv
<1>5. CASE LeaveLoop
  <2>1. /\ hand' \in HandScreen /\ hand'.held = hand.held /\ hand'.began = hand.began
        /\ hand'.alone = hand.alone /\ hand'.phase = hand.phase
    BY <1>0, <1>5 DEF LeaveLoop, HandScreen
  <2> QED BY <1>5, <2>1, TellInv DEF LeaveLoop
<1>6. CASE ProcessEnds
  <2>1. /\ hand' \in HandScreen /\ hand'.held = hand.held /\ hand'.began = hand.began
        /\ hand'.alone = hand.alone /\ hand'.phase = hand.phase
    BY <1>0, <1>6 DEF ProcessEnds, HandScreen
  <2>2. Trusted' = Trusted /\ Shares' = Shares /\ Profile' = Profile
    BY <1>6, HostFixed DEF ProcessEnds
  <2> QED BY <1>6, <2>1, <2>2
          DEF ProcessEnds, HandInv, HandTyped, ThreadInv, RootInv, HeldInv, AloneInv, Published
<1>7. ASSUME NEW w \in HandIds, WorkerStep(w) PROVE HandInv'
  BY <1>7, WorkerStepInv
<1>8. CASE UNCHANGED handVars
  <2>1. Trusted' = Trusted /\ Shares' = Shares /\ Profile' = Profile
    BY <1>8, HostFixed DEF handVars
  <2> QED BY <1>8, <2>1
          DEF handVars, HandInv, HandTyped, ThreadInv, RootInv, HeldInv, AloneInv, Published
<1> QED BY <1>1, <1>2, <1>3, <1>4, <1>5, <1>6, <1>7, <1>8 DEF HandNext

(* Types of the handoff screen, its threads and the installation             *)
(* (development_handoff.rs, runtime.rs).                                     *)
THEOREM HandoffTypes == HandSpec => []HandTypeOK
<1>1. HandInv => HandTypeOK
  BY DEF HandInv, HandTyped, HandTypeOK, HandScreen, HandThread
<1> QED BY <1>1, HandInitInv, HandNextInv, PTL DEF HandSpec

(* For any number of workers, on any host: what the screen says at rest is   *)
(* true of the installation, a worker that was cancelled before its last     *)
(* look at the flag never publishes, and what is installed was built with    *)
(* trusted tools and warns of shared directories exactly if there are any    *)
(* (development_handoff.rs, runtime.rs, development_lifecycle.rs).           *)
THEOREM HandoffShown == HandSpec => []HandAsShown
<1>1. HandInv => HandRestIsTrue
  <2> SUFFICES ASSUME HandInv, hand.held = HandNone, hand.alone, Unborn # HandIds
               PROVE  IF hand.phase = "Installed" THEN handRoot.build \notin {HandNone, hand.began}
                      ELSE handRoot.build = hand.began
    BY DEF HandRestIsTrue
  <2>1. \E v \in HandIds : handWorker[v].at # "unborn"
    BY DEF Unborn
  <2> QED BY <2>1 DEF HandInv, AloneInv
<1>2. HandInv => HandCancelStops
  BY DEF HandInv, ThreadInv, HandCancelStops
<1>3. HandInv => HandBuiltWithTrust
  <2> SUFFICES ASSUME HandInv, handRoot.build \in HandIds PROVE HandBuiltWithTrust
    BY DEF HandBuiltWithTrust
  <2>1. Trusted /\ handRoot.warned = Shares /\ handHost \in DOMAIN HandHosts
    BY DEF HandInv, RootInv, HandTyped
  <2>2. ASSUME NEW t \in {"git", "setsid", "cc", "ar", "ld"} PROVE HandHost.tools[t].write = "none"
    <3>1. trusted_candidate(HandHost.tools[t])
      BY <2>1 DEF Trusted, trusted_toolchain, trusted_tools
    <3>2. HandHost.tools[t] # HandNone => HandHost.tools[t].write \in {"none", "group", "world"}
      BY <2>1, HandAssumption DEF HandHost
    <3> QED BY <3>1, <3>2 DEF trusted_candidate, trusted_owner_and_mode
  <2>3. Shares = (HandHost.cargo.rustup # HandNone
               /\ \E f \in HandHost.cargo.shim \cup HandHost.cargo.rustup.chain
                           \cup {HandHost.cargo.rustup.settings} : f.write = "group")
    BY DEF Shares, group_writable_rustup_paths, Shared
  <2> QED BY <2>1, <2>2, <2>3 DEF HandBuiltWithTrust
<1>4. HandInv => HandAsShown
  BY <1>1, <1>2, <1>3 DEF HandAsShown
<1> QED BY <1>4, HandInitInv, HandNextInv, PTL DEF HandSpec
=============================================================================
