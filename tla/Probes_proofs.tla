---------------------------- MODULE Probes_proofs ----------------------------
(* Proofs about what is checked before it is trusted: a candidate executable *)
(* (SelfTest, lifecycle.rs), the local system (SystemProbe, system_probe.rs  *)
(* and compatibility.rs) and a release and its artifacts (Bundle, bundle.rs  *)
(* and lib.rs); and about the terminal and the release channel a frontend is *)
(* started with (Entry, main.rs, top_level.rs, runtime.rs and                *)
(* channel_selection.rs).  At the end, the machines that are explored side   *)
(* by side (MCMachines), from the proofs about each.                         *)
EXTENDS MCMachines, Frontend_proofs, Development_proofs, NaturalsInduction, WellFoundedInduction, TLAPS

-----------------------------------------------------------------------------
(* The inductive invariant of the self-test.                                 *)

StCodes == {StNone, 0, 1, 137}
StCallers ==
    [at : StBusy \cup {"idle", "down"}, mode : {"shared", "exclusive"}, name : StNames \cup {StNone},
     tries : 0..3, budget : 0..StBudget, read : 0..StLimit, status : StCodes,
     verdict : {StNone, "passed", "failed"}]
StTrees ==
    [leader : {"none", "supervisor", "candidate", "exited"}, helper : {"none", "runs", "dying"},
     confined : BOOLEAN, grouped : BOOLEAN, code : StCodes, answer : BOOLEAN,
     written : 0..StLimit + 1, stuck : BOOLEAN]
StDirectories == [by : StProcs, items : 0..StBudget + 1, deep : BOOLEAN]

StTypedC == stCaller \in [StProcs -> StCallers]
StTypedT == stTree \in [StProcs -> StTrees]
StTypedD == stDirs \in [StNames -> StDirectories \cup {StNone}]

(* Two processes in the root share it, and one that sweeps does not share.   *)
StLocked ==
    \A p \in StProcs :
        /\ stCaller[p].at = "sweep" => stCaller[p].mode = "exclusive"
        /\ \A q \in StProcs \ {p} :
              StHolds(p) /\ StHolds(q) => stCaller[p].mode = "shared" /\ stCaller[q].mode = "shared"

(* What runs as or below the candidate is confined and in the group; what    *)
(* the caller knows of the tree at each of its steps.                        *)
StTreeKnown(c, t) ==
    /\ t.grouped
    /\ t.leader = "candidate" \/ t.helper # "none" => t.confined
    /\ c.at \in {"sweep", "bind", "dirs", "spawn"} => t = StNoTree
    /\ c.at \in StBusy \ {"drop"} => c.read <= t.written
    /\ c.at \in {"drain", "judge"} => t.leader = "exited" /\ c.status = t.code
    /\ c.at = "judge" => t.helper = "none" /\ c.read = t.written
    /\ c.verdict = "passed" =>
          /\ c.at = "drop" /\ t.code = 0 /\ t.answer /\ t.written = 1
          /\ t.leader = "exited" /\ t.helper = "none"
    /\ c.at = "idle" =>
          /\ t.leader \in {"none", "exited"} \/ t.stuck
          /\ t.helper = "runs" => t.stuck
StTreesKnown == \A p \in StProcs : StTreeKnown(stCaller[p], stTree[p])

(* A test that runs has its directory; a process that is done has left only  *)
(* one that is not empty.                                                    *)
StDirKnown(p, c, d) ==
    /\ c.at \in StTesting => c.name \in StNames /\ d[c.name] # StNone /\ d[c.name].by = p
    /\ c.at = "idle" =>
          \A n \in StNames : d[n] # StNone /\ d[n].by = p /\ c.name = n => d[n].deep \/ d[n].items > 0
StDirsKnown == \A p \in StProcs : StDirKnown(p, stCaller[p], stDirs)

StInv == StTypedC /\ StTypedT /\ StTypedD /\ StLocked /\ StTreesKnown /\ StDirsKnown

LEMMA StNumbers ==
    /\ StBudget \in Nat /\ StBudget > 0 /\ StLimit \in Nat /\ StLimit > 0
    /\ StNone \notin {"passed", "failed"} /\ StNone \notin Nat /\ StNone \notin StNames
    /\ StNone \notin StDirectories
<1>1. ASSUME StNone \in StDirectories PROVE FALSE
    <2>1. PICK p \in StProcs, i \in 0..StBudget + 1, d \in BOOLEAN : StNone = [by |-> p, items |-> i, deep |-> d]
        BY <1>1 DEF StDirectories
    <2> QED BY <2>1, StAssumption
<1> QED BY <1>1, StAssumption

(* What every step of one process but its opening of the root has: its own   *)
(* caller and tree change, to c and t, and it takes no lock.                 *)
StLocal(p, c, t) ==
    /\ stCaller' = [stCaller EXCEPT ![p] = c] /\ c \in StCallers
    /\ stTree' = [stTree EXCEPT ![p] = t] /\ t \in StTrees
    /\ StTreeKnown(c, t)
StNoLock(old, c) ==
    c.at \in StBusy =>
        /\ old.at \in StBusy /\ c.mode = old.mode
        /\ c.at = "sweep" => old.at = "sweep"

LEMMA LocalTypes ==
    ASSUME StInv, NEW p \in StProcs, NEW c, NEW t, StLocal(p, c, t)
    PROVE  StTypedC' /\ StTypedT' /\ StTreesKnown'
<1>1. StTypedC' /\ StTypedT'
    BY DEF StInv, StTypedC, StTypedT, StLocal
<1>2. ASSUME NEW q \in StProcs PROVE StTreeKnown(stCaller'[q], stTree'[q])
    <2>1. CASE q = p
        <3>1. stCaller'[q] = c /\ stTree'[q] = t
            BY <2>1 DEF StInv, StTypedC, StTypedT, StLocal
        <3> QED BY <3>1 DEF StLocal
    <2>2. CASE q # p
        <3>1. stCaller'[q] = stCaller[q] /\ stTree'[q] = stTree[q]
            BY <2>2 DEF StInv, StTypedC, StTypedT, StLocal
        <3> QED BY <3>1 DEF StInv, StTreesKnown
    <2> QED BY <2>1, <2>2
<1> QED BY <1>1, <1>2 DEF StTreesKnown

LEMMA LocalLock ==
    ASSUME StInv, NEW p \in StProcs, NEW c, NEW t, StLocal(p, c, t), StNoLock(stCaller[p], c)
    PROVE  StLocked'
<1>1. \A q \in StProcs : stCaller'[q] = IF q = p THEN c ELSE stCaller[q]
    BY DEF StInv, StTypedC, StLocal
<1>2. ASSUME NEW q \in StProcs, stCaller'[q].at = "sweep" PROVE stCaller'[q].mode = "exclusive"
    BY <1>1, <1>2 DEF StInv, StLocked, StNoLock, StBusy
<1>3. ASSUME NEW q \in StProcs, NEW r \in StProcs, q # r, stCaller'[q].at \in StBusy, stCaller'[r].at \in StBusy
      PROVE  stCaller'[q].mode = "shared" /\ stCaller'[r].mode = "shared"
    <2>1. ASSUME NEW x \in StProcs, stCaller'[x].at \in StBusy
          PROVE  stCaller[x].at \in StBusy /\ stCaller'[x].mode = stCaller[x].mode
        BY <1>1, <2>1 DEF StNoLock
    <2>2. stCaller[q].mode = "shared" /\ stCaller[r].mode = "shared"
        BY <1>3, <2>1 DEF StInv, StLocked, StHolds
    <2> QED BY <1>3, <2>1, <2>2
<1> QED BY <1>2, <1>3 DEF StLocked, StHolds

(* A step that leaves the directories alone and starts no test keeps what is *)
(* known of them, unless it ends in rest.                                    *)
LEMMA LocalDirs ==
    ASSUME StInv, NEW p \in StProcs, NEW c, NEW t, StLocal(p, c, t), stDirs' = stDirs,
           c.at \in StTesting => stCaller[p].at \in StTesting /\ c.name = stCaller[p].name,
           c.at = "idle" => (stCaller[p].at = "idle" /\ c.name = stCaller[p].name) \/ c.name = StNone
    PROVE  StTypedD' /\ StDirsKnown'
<1>1. \A q \in StProcs : stCaller'[q] = IF q = p THEN c ELSE stCaller[q]
    BY DEF StInv, StTypedC, StLocal
<1>2. StDirKnown(p, c, stDirs)
    BY StAssumption DEF StInv, StDirsKnown, StDirKnown
<1> QED BY <1>1, <1>2 DEF StInv, StTypedD, StDirsKnown

LEMMA OpenKeeps ==
    ASSUME StInv, NEW p \in StProcs, NEW mode \in {"shared", "exclusive"}, open_with_mode(p, mode)
    PROVE  StInv'
<1> DEFINE c == IF mode = "shared" THEN [StIdle EXCEPT !.at = "bind", !.mode = mode]
                ELSE [StIdle EXCEPT !.at = "sweep", !.mode = mode, !.budget = StBudget]
<1>1. c \in StCallers /\ c.verdict = StNone /\ c.at \in {"bind", "sweep"} /\ c.mode = mode
      /\ (c.at = "sweep" => mode = "exclusive") /\ c.read = 0
    <2>1. CASE mode = "shared"
        <3>1. c = [at |-> "bind", mode |-> "shared", name |-> StNone, tries |-> 0, budget |-> 0, read |-> 0,
                   status |-> StNone, verdict |-> StNone]
            BY <2>1 DEF StIdle
        <3> HIDE DEF c
        <3> QED BY <2>1, <3>1, StNumbers DEF StCallers, StBusy, StCodes
    <2>2. CASE mode = "exclusive"
        <3>1. c = [at |-> "sweep", mode |-> "exclusive", name |-> StNone, tries |-> 0, budget |-> StBudget,
                   read |-> 0, status |-> StNone, verdict |-> StNone]
            BY <2>2 DEF StIdle
        <3> HIDE DEF c
        <3> QED BY <2>2, <3>1, StNumbers DEF StCallers, StBusy, StCodes
    <2> QED BY <2>1, <2>2
<1>2. stCaller' = [stCaller EXCEPT ![p] = c] /\ stTree' = [stTree EXCEPT ![p] = StNoTree] /\ stDirs' = stDirs
      /\ Lockable(p, mode)
    BY DEF open_with_mode, Set
<1> HIDE DEF c
<1>3. StNoTree \in StTrees /\ StTreeKnown(c, StNoTree)
    BY <1>1, StAssumption DEF StNoTree, StTrees, StCodes, StTreeKnown
<1>4. StLocal(p, c, StNoTree)
    BY <1>1, <1>2, <1>3 DEF StLocal
<1>5. StTypedC' /\ StTypedT' /\ StTreesKnown'
    BY <1>4, LocalTypes
<1>6. StLocked'
    <2>1. \A q \in StProcs : stCaller'[q] = IF q = p THEN c ELSE stCaller[q]
        BY <1>2 DEF StInv, StTypedC
    <2> QED BY <2>1, <1>1, <1>2 DEF StInv, StLocked, StHolds, Lockable, StBusy
<1>7. StTypedD' /\ StDirsKnown'
    BY <1>1, <1>2, <1>4, LocalDirs DEF StTesting
<1> QED BY <1>5, <1>6, <1>7 DEF StInv

LEMMA LocalKeeps ==
    ASSUME StInv, NEW p \in StProcs, NEW c, NEW t, StLocal(p, c, t), StNoLock(stCaller[p], c), stDirs' = stDirs,
           c.at \in StTesting => stCaller[p].at \in StTesting /\ c.name = stCaller[p].name,
           c.at = "idle" => (stCaller[p].at = "idle" /\ c.name = stCaller[p].name) \/ c.name = StNone
    PROVE  StInv'
<1>1. StTypedC' /\ StTypedT' /\ StTreesKnown'
    BY LocalTypes
<1>2. StLocked'
    BY LocalLock
<1>3. StTypedD' /\ StDirsKnown'
    BY LocalDirs
<1> QED BY <1>1, <1>2, <1>3 DEF StInv

LEMMA StOwn ==
    ASSUME StInv, NEW p \in StProcs
    PROVE  /\ stCaller[p] \in StCallers /\ stTree[p] \in StTrees /\ StTreeKnown(stCaller[p], stTree[p])
           /\ StDirKnown(p, stCaller[p], stDirs)
           /\ stCaller = [stCaller EXCEPT ![p] = stCaller[p]] /\ stTree = [stTree EXCEPT ![p] = stTree[p]]
BY DEF StInv, StTypedC, StTypedT, StTreesKnown, StDirsKnown

(* The callers that steps make: on to the next step, or out with a verdict.  *)
LEMMA StAt ==
    ASSUME NEW o \in StCallers, NEW place \in StBusy \cup {"idle", "down"}
    PROVE  /\ [o EXCEPT !.at = place] \in StCallers
           /\ [o EXCEPT !.at = place].at = place /\ [o EXCEPT !.at = place].mode = o.mode
           /\ [o EXCEPT !.at = place].name = o.name /\ [o EXCEPT !.at = place].read = o.read
           /\ [o EXCEPT !.at = place].status = o.status /\ [o EXCEPT !.at = place].verdict = o.verdict
BY DEF StCallers

(* A failure takes no lock, starts no test and passes nothing.               *)
LEMMA FailsKeeps ==
    ASSUME StInv, NEW p \in StProcs, NEW t \in StTrees, stCaller[p].at \in StBusy, Fails(p),
           stTree' = [stTree EXCEPT ![p] = t], stDirs' = stDirs,
           t.grouped, t.leader = "candidate" \/ t.helper # "none" => t.confined
    PROVE  StInv'
<1> DEFINE c == [stCaller[p] EXCEPT !.at = "drop", !.verdict = "failed"]
<1>1. stCaller[p] \in StCallers
    BY StOwn
<1>2. c \in StCallers /\ c.at = "drop" /\ c.mode = stCaller[p].mode /\ c.name = stCaller[p].name /\ c.verdict = "failed"
    <2>1. c = [stCaller[p] EXCEPT !.at = "drop", !.verdict = "failed"]
        OBVIOUS
    <2> HIDE DEF c
    <2> QED BY <1>1, <2>1 DEF StCallers, StBusy
<1>3. stCaller' = [stCaller EXCEPT ![p] = c]
    BY DEF Fails, Set
<1> HIDE DEF c
<1>4. StTreeKnown(c, t)
    BY <1>2 DEF StTreeKnown
<1>5. StLocal(p, c, t) /\ StNoLock(stCaller[p], c)
    BY <1>2, <1>3, <1>4 DEF StLocal, StNoLock, StBusy
<1> QED BY <1>2, <1>5, LocalKeeps DEF StTesting

LEMMA StoreKeeps ==
    ASSUME StInv, NEW p \in StProcs, for_store(p)
    PROVE  StInv'
<1>1. stTree' = [stTree EXCEPT ![p] = stTree[p]] /\ stDirs' = stDirs /\ stCaller[p].at = "bind"
    BY StOwn DEF for_store
<1>2. CASE StGoto(p, "dirs")
    <2> DEFINE c == [stCaller[p] EXCEPT !.at = "dirs"]
    <2>1. c \in StCallers /\ c.at = "dirs" /\ c.mode = stCaller[p].mode /\ c.verdict = stCaller[p].verdict
          /\ c.read = stCaller[p].read
        BY StOwn, StAt DEF StBusy
    <2>2. stCaller' = [stCaller EXCEPT ![p] = c]
        BY <1>2 DEF StGoto, Set
    <2> HIDE DEF c
    <2>3. StTreeKnown(c, stTree[p])
        BY <1>1, <2>1, StOwn DEF StTreeKnown, StBusy
    <2>4. StLocal(p, c, stTree[p]) /\ StNoLock(stCaller[p], c)
        BY <1>1, <2>1, <2>2, <2>3, StOwn DEF StLocal, StNoLock, StBusy
    <2> QED BY <1>1, <2>1, <2>4, LocalKeeps DEF StTesting
<1>3. CASE Fails(p)
    <2>1. stTree[p] \in StTrees /\ stTree[p].grouped
          /\ (stTree[p].leader = "candidate" \/ stTree[p].helper # "none" => stTree[p].confined)
        BY StOwn DEF StTreeKnown
    <2> QED BY <1>1, <1>3, <2>1, FailsKeeps DEF StBusy
<1> QED BY <1>2, <1>3 DEF for_store

LEMMA SpawnKeeps ==
    ASSUME StInv, NEW p \in StProcs, spawn(p)
    PROVE  StInv'
<1>1. stDirs' = stDirs /\ stCaller[p].at = "spawn" /\ stTree[p] = StNoTree
    BY StOwn DEF spawn, StTreeKnown
<1>2. CASE StGoto(p, "read") /\ stTree' = [stTree EXCEPT ![p] = [StNoTree EXCEPT !.leader = "supervisor"]]
    <2> DEFINE c == [stCaller[p] EXCEPT !.at = "read"]
               t == [StNoTree EXCEPT !.leader = "supervisor"]
    <2>1. c \in StCallers /\ c.at = "read" /\ c.mode = stCaller[p].mode /\ c.verdict = stCaller[p].verdict
          /\ c.name = stCaller[p].name /\ c.read = stCaller[p].read
        BY StOwn, StAt DEF StBusy
    <2>2. stCaller' = [stCaller EXCEPT ![p] = c] /\ stTree' = [stTree EXCEPT ![p] = t]
        BY <1>2 DEF StGoto, Set
    <2>3. t \in StTrees /\ t.leader = "supervisor" /\ t.helper = "none" /\ t.grouped
          /\ t.written = StNoTree.written
        <3>1. StNoTree \in StTrees /\ StNoTree.helper = "none" /\ StNoTree.grouped
            BY StNumbers DEF StNoTree, StTrees, StCodes
        <3> QED BY <3>1 DEF StTrees
    <2> HIDE DEF c, t
    <2>4. StTreeKnown(c, t)
        BY <1>1, <2>1, <2>3, StOwn DEF StTreeKnown, StBusy
    <2>5. StLocal(p, c, t) /\ StNoLock(stCaller[p], c)
        BY <1>1, <2>1, <2>2, <2>3, <2>4 DEF StLocal, StNoLock, StBusy
    <2> QED BY <1>1, <2>1, <2>5, LocalKeeps DEF StTesting
<1>3. CASE Fails(p) /\ UNCHANGED stTree
    <2>1. stTree[p] \in StTrees /\ stTree[p].grouped
          /\ (stTree[p].leader = "candidate" \/ stTree[p].helper # "none" => stTree[p].confined)
          /\ stTree' = [stTree EXCEPT ![p] = stTree[p]]
        BY <1>3, StOwn DEF StTreeKnown
    <2> QED BY <1>1, <1>3, <2>1, FailsKeeps DEF StBusy
<1> QED BY <1>2, <1>3 DEF spawn

LEMMA KilledTree ==
    ASSUME NEW t \in StTrees
    PROVE  /\ Killed(t) \in StTrees /\ Killed(t).leader \in {"none", "exited"}
           /\ t.leader = "exited" => Killed(t).leader = "exited" /\ Killed(t).code = t.code
           /\ t.grouped => Killed(t).helper # "runs"
           /\ t.helper = "none" => Killed(t).helper = "none"
           /\ Killed(t).confined = t.confined /\ Killed(t).grouped = t.grouped /\ Killed(t).answer = t.answer
           /\ Killed(t).written = t.written /\ Killed(t).stuck = t.stuck
<1> DEFINE alive == t.leader \in {"supervisor", "candidate"}
           l == IF alive THEN "exited" ELSE t.leader
           k == IF alive THEN 137 ELSE t.code
           h == IF t.helper = "runs" /\ t.grouped THEN "dying" ELSE t.helper
           u == Killed(t)
<1>1. u = [t EXCEPT !.leader = l, !.code = k, !.helper = h]
    BY DEF Killed
<1>2. /\ l \in {"none", "exited"} /\ k \in StCodes /\ h \in {"none", "runs", "dying"}
      /\ (t.leader = "exited" => l = "exited" /\ k = t.code)
      /\ (t.grouped => h # "runs") /\ (t.helper = "none" => h = "none")
    BY DEF StTrees, StCodes
<1> HIDE DEF u, l, k, h
<1>3. /\ u \in StTrees /\ u.leader = l /\ u.code = k /\ u.helper = h /\ u.confined = t.confined
      /\ u.grouped = t.grouped /\ u.answer = t.answer /\ u.written = t.written /\ u.stuck = t.stuck
    BY <1>1, <1>2 DEF StTrees
<1>4. /\ u \in StTrees /\ u.leader \in {"none", "exited"}
      /\ t.leader = "exited" => u.leader = "exited" /\ u.code = t.code
      /\ t.grouped => u.helper # "runs"
      /\ t.helper = "none" => u.helper = "none"
      /\ u.confined = t.confined /\ u.grouped = t.grouped /\ u.answer = t.answer
      /\ u.written = t.written /\ u.stuck = t.stuck
    BY <1>2, <1>3
<1> QED BY <1>4 DEF u

(* Whatever terminate_tree does, what is known of every tree stays true.     *)
LEMMA TerminatedTree ==
    ASSUME StInv, NEW p \in StProcs, terminate_tree(p)
    PROVE  \E t \in StTrees :
              /\ stTree' = [stTree EXCEPT ![p] = t]
              /\ t.grouped /\ (t.leader = "candidate" \/ t.helper # "none" => t.confined)
<1> DEFINE o == stTree[p]
<1>1. o \in StTrees /\ o.grouped /\ (o.leader = "candidate" \/ o.helper # "none" => o.confined)
    BY StOwn DEF StTreeKnown
<1>2. CASE stTree' = [stTree EXCEPT ![p] = Killed(o)]
    <2>1. Killed(o) \in StTrees /\ Killed(o).grouped
          /\ (Killed(o).leader = "candidate" \/ Killed(o).helper # "none" => Killed(o).confined)
        BY <1>1, KilledTree
    <2> QED BY <1>2, <2>1
<1>3. CASE stTree' = [stTree EXCEPT ![p].stuck = TRUE]
    <2> DEFINE t == [o EXCEPT !.stuck = TRUE]
    <2>1. stTree' = [stTree EXCEPT ![p] = t]
        BY <1>3
    <2>2. t \in StTrees /\ t.grouped /\ (t.leader = "candidate" \/ t.helper # "none" => t.confined)
        BY <1>1 DEF StTrees
    <2> QED BY <2>1, <2>2
<1> QED BY <1>2, <1>3 DEF terminate_tree

LEMMA ReadKeeps ==
    ASSUME StInv, NEW p \in StProcs, ReadOutput(p)
    PROVE  StInv'
<1>1. stDirs' = stDirs /\ stCaller[p].at = "read" /\ stTree[p] \in StTrees /\ stCaller[p] \in StCallers
    BY StOwn DEF ReadOutput
<1>2. CASE stTree[p].written > StLimit
    <2>1. Fails(p) /\ terminate_tree(p)
        BY <1>2 DEF ReadOutput
    <2> QED BY <1>1, <2>1, TerminatedTree, FailsKeeps DEF StBusy
<1>3. CASE ~(stTree[p].written > StLimit)
    <2> DEFINE c == [stCaller[p] EXCEPT !.at = "poll", !.read = stTree[p].written]
               w == stTree[p].written
    <2>1. stCaller' = [stCaller EXCEPT ![p] = c] /\ stTree' = stTree
        BY <1>3 DEF ReadOutput, Set
    <2>2. w \in 0..StLimit
        BY <1>1, <1>3, StNumbers DEF StTrees
    <2>3. c = [stCaller[p] EXCEPT !.at = "poll", !.read = w]
        OBVIOUS
    <2> HIDE DEF c, w
    <2>4. c \in StCallers /\ c.at = "poll" /\ c.mode = stCaller[p].mode /\ c.name = stCaller[p].name
          /\ c.verdict = stCaller[p].verdict /\ c.read = w
        BY <1>1, <2>2, <2>3 DEF StCallers, StBusy
    <2>5. StTreeKnown(c, stTree[p])
        BY <1>1, <2>2, <2>4, StOwn DEF StTreeKnown, w
    <2>6. StLocal(p, c, stTree[p]) /\ StNoLock(stCaller[p], c)
        BY <1>1, <2>1, <2>4, <2>5, StOwn DEF StLocal, StNoLock, StBusy
    <2> QED BY <1>1, <2>4, <2>6, LocalKeeps DEF StTesting
<1> QED BY <1>2, <1>3

LEMMA PollKeeps ==
    ASSUME StInv, NEW p \in StProcs, PollExit(p)
    PROVE  StInv'
<1> DEFINE o == stTree[p]
<1>1. stDirs' = stDirs /\ stCaller[p].at = "poll" /\ o \in StTrees /\ stCaller[p] \in StCallers
      /\ o.grouped /\ (o.leader = "candidate" \/ o.helper # "none" => o.confined) /\ stCaller[p].verdict # "passed"
      /\ stCaller[p].read <= o.written
    BY StOwn DEF PollExit, StTreeKnown, StBusy
<1>2. CASE o.leader = "exited"
    <2> DEFINE k == o.code
               c == [stCaller[p] EXCEPT !.at = "drain", !.status = k]
               t == Killed(o)
    <2>1. stCaller' = [stCaller EXCEPT ![p] = c] /\ stTree' = [stTree EXCEPT ![p] = t]
        BY <1>2 DEF PollExit, Set
    <2>2. /\ t \in StTrees /\ t.leader = "exited" /\ t.code = k /\ t.grouped /\ k \in StCodes
          /\ t.helper # "none" => t.confined
          /\ t.written = o.written
        BY <1>1, <1>2, KilledTree DEF StTrees
    <2>3. c = [stCaller[p] EXCEPT !.at = "drain", !.status = k]
        OBVIOUS
    <2> HIDE DEF c, k, t
    <2>4. c \in StCallers /\ c.at = "drain" /\ c.mode = stCaller[p].mode /\ c.name = stCaller[p].name
          /\ c.verdict = stCaller[p].verdict /\ c.status = k
          /\ c.read = stCaller[p].read
        BY <1>1, <2>2, <2>3 DEF StCallers, StBusy
    <2>5. StTreeKnown(c, t)
        BY <1>1, <2>2, <2>4 DEF StTreeKnown
    <2>6. StLocal(p, c, t) /\ StNoLock(stCaller[p], c)
        BY <1>1, <2>1, <2>2, <2>4, <2>5 DEF StLocal, StNoLock, StBusy
    <2> QED BY <1>1, <2>4, <2>6, LocalKeeps DEF StTesting
<1>3. CASE StGoto(p, "read") /\ UNCHANGED stTree
    <2> DEFINE c == [stCaller[p] EXCEPT !.at = "read"]
    <2>1. c \in StCallers /\ c.at = "read" /\ c.mode = stCaller[p].mode /\ c.verdict = stCaller[p].verdict
          /\ c.name = stCaller[p].name /\ c.read = stCaller[p].read
        BY <1>1, StAt DEF StBusy
    <2>2. stCaller' = [stCaller EXCEPT ![p] = c] /\ stTree' = [stTree EXCEPT ![p] = o]
        BY <1>3, StOwn DEF StGoto, Set
    <2> HIDE DEF c
    <2>3. StTreeKnown(c, o)
        BY <1>1, <2>1 DEF StTreeKnown
    <2>4. StLocal(p, c, o) /\ StNoLock(stCaller[p], c)
        BY <1>1, <2>1, <2>2, <2>3 DEF StLocal, StNoLock, StBusy
    <2> QED BY <1>1, <2>1, <2>4, LocalKeeps DEF StTesting
<1>4. CASE Fails(p) /\ terminate_tree(p)
    BY <1>1, <1>4, TerminatedTree, FailsKeeps DEF StBusy
<1> QED BY <1>2, <1>3, <1>4 DEF PollExit

LEMMA DrainKeeps ==
    ASSUME StInv, NEW p \in StProcs, drain(p)
    PROVE  StInv'
<1> DEFINE o == stTree[p]
<1>1. stDirs' = stDirs /\ stCaller[p].at = "drain" /\ o \in StTrees /\ stCaller[p] \in StCallers
      /\ stTree' = [stTree EXCEPT ![p] = o]
    BY StOwn DEF drain
<1>2. /\ o.grouped /\ o.leader = "exited" /\ stCaller[p].status = o.code /\ stCaller[p].verdict # "passed"
      /\ o.helper # "none" => o.confined
      /\ stCaller[p].read <= o.written
    BY <1>1, StOwn DEF StTreeKnown, StBusy
<1>3. CASE Fails(p)
    BY <1>1, <1>2, <1>3, FailsKeeps DEF StBusy
<1>4. CASE ~(o.written > StLimit) /\ Set(p, [stCaller[p] EXCEPT !.read = o.written])
    <2> DEFINE c == [stCaller[p] EXCEPT !.read = o.written]
    <2>1. o.written \in 0..StLimit
        BY <1>1, <1>4, StNumbers DEF StTrees
    <2>2. c \in StCallers /\ c.at = "drain" /\ c.mode = stCaller[p].mode /\ c.name = stCaller[p].name
          /\ c.verdict = stCaller[p].verdict /\ c.status = stCaller[p].status
          /\ c.read = o.written
        BY <1>1, <2>1 DEF StCallers
    <2>3. stCaller' = [stCaller EXCEPT ![p] = c]
        BY <1>4 DEF Set
    <2> HIDE DEF c
    <2>4. StTreeKnown(c, o)
        BY <1>1, <1>2, <2>1, <2>2 DEF StTreeKnown
    <2>5. StLocal(p, c, o) /\ StNoLock(stCaller[p], c)
        BY <1>1, <2>2, <2>3, <2>4 DEF StLocal, StNoLock, StBusy
    <2> QED BY <1>1, <2>2, <2>5, LocalKeeps DEF StTesting
<1>5. CASE ~StPending(p) /\ ~StWriter(p) /\ StGoto(p, "judge")
    <2> DEFINE c == [stCaller[p] EXCEPT !.at = "judge"]
    <2>1. c \in StCallers /\ c.at = "judge" /\ c.mode = stCaller[p].mode /\ c.name = stCaller[p].name
          /\ c.verdict = stCaller[p].verdict /\ c.status = stCaller[p].status /\ c.read = stCaller[p].read
        BY <1>1, StAt DEF StBusy
    <2>2. stCaller' = [stCaller EXCEPT ![p] = c]
        BY <1>5 DEF StGoto, Set
    <2>3. o.helper = "none" /\ stCaller[p].read >= o.written
        BY <1>1, <1>5, StNumbers DEF StPending, StWriter, StTrees, StCallers
    <2>4. stCaller[p].read = o.written
        BY <2>3, <1>1, <1>2, StNumbers DEF StTrees, StCallers
    <2> HIDE DEF c
    <2>5. StTreeKnown(c, o)
        BY <1>1, <1>2, <2>1, <2>3, <2>4 DEF StTreeKnown
    <2>6. StLocal(p, c, o) /\ StNoLock(stCaller[p], c)
        BY <1>1, <2>1, <2>2, <2>5 DEF StLocal, StNoLock, StBusy
    <2> QED BY <1>1, <2>1, <2>6, LocalKeeps DEF StTesting
<1> QED BY <1>3, <1>4, <1>5 DEF drain

LEMMA JudgeKeeps ==
    ASSUME StInv, NEW p \in StProcs, Judge(p)
    PROVE  StInv'
<1> DEFINE o == stTree[p]
           v == IF stCaller[p].status = 0 /\ stCaller[p].read = 1 /\ o.answer THEN "passed" ELSE "failed"
           c == [stCaller[p] EXCEPT !.at = "drop", !.verdict = v]
<1>1. stDirs' = stDirs /\ stCaller[p].at = "judge" /\ o \in StTrees /\ stCaller[p] \in StCallers
      /\ stTree' = [stTree EXCEPT ![p] = o] /\ stCaller' = [stCaller EXCEPT ![p] = c]
    BY StOwn DEF Judge, Set
<1>2. /\ o.grouped /\ o.leader = "exited" /\ stCaller[p].status = o.code /\ o.helper = "none"
      /\ stCaller[p].read = o.written
    BY <1>1, StOwn DEF StTreeKnown
<1>3. v \in {"passed", "failed"} /\ (v = "passed" => o.code = 0 /\ o.written = 1 /\ o.answer)
    BY <1>2
<1>4. c = [stCaller[p] EXCEPT !.at = "drop", !.verdict = v]
    OBVIOUS
<1> HIDE DEF c, v
<1>5. c \in StCallers /\ c.at = "drop" /\ c.mode = stCaller[p].mode /\ c.name = stCaller[p].name /\ c.verdict = v
    BY <1>1, <1>3, <1>4 DEF StCallers, StBusy
<1>6. StTreeKnown(c, o)
    BY <1>2, <1>3, <1>5 DEF StTreeKnown
<1>7. StLocal(p, c, o) /\ StNoLock(stCaller[p], c)
    BY <1>1, <1>5, <1>6 DEF StLocal, StNoLock, StBusy
<1> QED BY <1>1, <1>5, <1>7, LocalKeeps DEF StTesting

LEMMA CrashKeeps ==
    ASSUME StInv, NEW p \in StProcs, StCrash(p)
    PROVE  StInv'
<1> DEFINE o == stTree[p]
           c == [stCaller[p] EXCEPT !.at = "down", !.verdict = StNone]
<1>1. stDirs' = stDirs /\ o \in StTrees /\ stCaller[p] \in StCallers
      /\ stTree' = [stTree EXCEPT ![p] = o] /\ stCaller' = [stCaller EXCEPT ![p] = c]
    BY StOwn DEF StCrash, Set
<1>2. c = [stCaller[p] EXCEPT !.at = "down", !.verdict = StNone]
    OBVIOUS
<1> HIDE DEF c
<1>3. c \in StCallers /\ c.at = "down" /\ c.verdict = StNone
    BY <1>1, <1>2 DEF StCallers, StBusy
<1>4. StTreeKnown(c, o)
    BY <1>3, StOwn, StNumbers DEF StTreeKnown, StBusy
<1>5. StLocal(p, c, o) /\ StNoLock(stCaller[p], c)
    BY <1>1, <1>3, <1>4 DEF StLocal, StNoLock, StBusy
<1> QED BY <1>1, <1>3, <1>5, LocalKeeps DEF StTesting

LEMMA StRest ==
    /\ StIdle \in StCallers /\ StIdle.at = "idle" /\ StIdle.name = StNone /\ StIdle.verdict = StNone
    /\ StNoTree \in StTrees /\ StNoTree.leader = "none" /\ StNoTree.helper = "none" /\ StNoTree.grouped
    /\ StTreeKnown(StIdle, StNoTree)
<1>1. StIdle \in StCallers /\ StIdle.at = "idle" /\ StIdle.name = StNone /\ StIdle.verdict = StNone
    BY StNumbers DEF StIdle, StCallers, StCodes
<1>2. StNoTree \in StTrees /\ StNoTree.leader = "none" /\ StNoTree.helper = "none" /\ StNoTree.grouped
    BY StNumbers DEF StNoTree, StTrees, StCodes
<1>3. StTreeKnown(StIdle, StNoTree)
    BY <1>1, <1>2, StNumbers DEF StTreeKnown, StBusy
<1> QED BY <1>1, <1>2, <1>3

LEMMA RestartKeeps ==
    ASSUME StInv, NEW p \in StProcs, StRestart(p)
    PROVE  StInv'
<1>1. stDirs' = stDirs /\ stCaller' = [stCaller EXCEPT ![p] = StIdle]
      /\ stTree' = [stTree EXCEPT ![p] = StNoTree]
    BY DEF StRestart, Set
<1>2. StLocal(p, StIdle, StNoTree) /\ StNoLock(stCaller[p], StIdle)
    BY <1>1, StRest DEF StLocal, StNoLock, StBusy
<1> QED BY <1>1, <1>2, StRest, LocalKeeps DEF StTesting

(* The steps of the tree: it changes to t, and its caller stays.             *)
LEMMA TreeKeeps ==
    ASSUME StInv, NEW p \in StProcs, NEW t \in StTrees, stTree' = [stTree EXCEPT ![p] = t],
           UNCHANGED <<stCaller, stDirs>>, StTreeKnown(stCaller[p], t)
    PROVE  StInv'
<1>1. StLocal(p, stCaller[p], t) /\ StNoLock(stCaller[p], stCaller[p])
    BY StOwn DEF StLocal, StNoLock
<1> QED BY <1>1, LocalKeeps

LEMMA SupervisorKeeps ==
    ASSUME StInv, NEW p \in StProcs, run_self_test_supervisor(p)
    PROVE  StInv'
<1> DEFINE o == stTree[p]
<1>1. o \in StTrees /\ o.leader = "supervisor" /\ StTreeKnown(stCaller[p], o) /\ UNCHANGED <<stCaller, stDirs>>
    BY StOwn DEF run_self_test_supervisor, Tree
<1>2. ASSUME NEW a \in BOOLEAN, Tree(p, [o EXCEPT !.leader = "candidate", !.confined = TRUE, !.answer = a])
      PROVE  StInv'
    <2> DEFINE t == [o EXCEPT !.leader = "candidate", !.confined = TRUE, !.answer = a]
    <2>1. stTree' = [stTree EXCEPT ![p] = t]
        BY <1>2 DEF Tree
    <2>2. t \in StTrees /\ t.leader = "candidate" /\ t.confined /\ t.helper = o.helper /\ t.grouped = o.grouped
          /\ t.written = o.written /\ t.stuck = o.stuck
        BY <1>1 DEF StTrees
    <2> HIDE DEF t
    <2>3. StTreeKnown(stCaller[p], t)
        BY <1>1, <2>2 DEF StTreeKnown, StNoTree
    <2> QED BY <1>1, <2>1, <2>2, <2>3, TreeKeeps
<1>3. CASE Tree(p, [o EXCEPT !.leader = "exited", !.code = 1])
    <2> DEFINE t == [o EXCEPT !.leader = "exited", !.code = 1]
    <2>1. stTree' = [stTree EXCEPT ![p] = t]
        BY <1>3 DEF Tree
    <2>2. t \in StTrees /\ t.leader = "exited" /\ t.confined = o.confined /\ t.helper = o.helper
          /\ t.grouped = o.grouped /\ t.written = o.written /\ t.stuck = o.stuck
        BY <1>1 DEF StTrees, StCodes
    <2> HIDE DEF t
    <2>3. StTreeKnown(stCaller[p], t)
        BY <1>1, <2>2 DEF StTreeKnown, StNoTree
    <2> QED BY <1>1, <2>1, <2>2, <2>3, TreeKeeps
<1> QED BY <1>2, <1>3 DEF run_self_test_supervisor

LEMMA WritesKeeps ==
    ASSUME StInv, NEW p \in StProcs, CandidateWrites(p)
    PROVE  StInv'
<1> DEFINE o == stTree[p]
           w == o.written + 1
           t == [o EXCEPT !.written = w]
<1>1. o \in StTrees /\ (o.leader = "candidate" \/ o.helper = "runs") /\ StTreeKnown(stCaller[p], o)
      /\ UNCHANGED <<stCaller, stDirs>> /\ stTree' = [stTree EXCEPT ![p] = t] /\ o.written <= StLimit
      /\ stCaller[p] \in StCallers
    BY StOwn DEF CandidateWrites, Tree, Runs
<1>2. w \in 0..StLimit + 1 /\ o.written < w /\ o.written \in Nat /\ stCaller[p].read \in Nat
    BY <1>1, StNumbers DEF StTrees, StCallers
<1>3. t = [o EXCEPT !.written = w]
    OBVIOUS
<1> HIDE DEF t, w
<1>4. t \in StTrees /\ t.leader = o.leader /\ t.confined = o.confined /\ t.helper = o.helper
      /\ t.grouped = o.grouped /\ t.written = w /\ t.stuck = o.stuck /\ t.code = o.code
    BY <1>1, <1>2, <1>3 DEF StTrees
<1>5. StTreeKnown(stCaller[p], t)
    BY <1>1, <1>2, <1>4 DEF StTreeKnown, StNoTree
<1> QED BY <1>1, <1>4, <1>5, TreeKeeps

LEMMA ForksKeeps ==
    ASSUME StInv, NEW p \in StProcs, CandidateForks(p)
    PROVE  StInv'
<1> DEFINE o == stTree[p]
           t == [o EXCEPT !.helper = "runs"]
<1>1. o \in StTrees /\ o.leader = "candidate" /\ StTreeKnown(stCaller[p], o)
      /\ UNCHANGED <<stCaller, stDirs>> /\ stTree' = [stTree EXCEPT ![p] = t]
    BY StOwn DEF CandidateForks, Tree
<1>2. t \in StTrees /\ t.leader = o.leader /\ t.confined = o.confined /\ t.helper = "runs"
      /\ t.grouped = o.grouped /\ t.written = o.written /\ t.stuck = o.stuck /\ t.code = o.code
    BY <1>1 DEF StTrees
<1> HIDE DEF t
<1>3. StTreeKnown(stCaller[p], t)
    BY <1>1, <1>2 DEF StTreeKnown, StNoTree
<1> QED BY <1>1, <1>2, <1>3, TreeKeeps

LEMMA ExitsKeeps ==
    ASSUME StInv, NEW p \in StProcs, CandidateExits(p)
    PROVE  StInv'
<1> DEFINE o == stTree[p]
<1>1. PICK k \in {0, 1} : Tree(p, [o EXCEPT !.leader = "exited", !.code = k])
    BY DEF CandidateExits
<1> DEFINE t == [o EXCEPT !.leader = "exited", !.code = k]
<1>2. o \in StTrees /\ o.leader = "candidate" /\ StTreeKnown(stCaller[p], o)
      /\ UNCHANGED <<stCaller, stDirs>> /\ stTree' = [stTree EXCEPT ![p] = t]
    BY <1>1, StOwn DEF CandidateExits, Tree
<1>3. t \in StTrees /\ t.leader = "exited" /\ t.confined = o.confined /\ t.helper = o.helper
      /\ t.grouped = o.grouped /\ t.written = o.written /\ t.stuck = o.stuck
    BY <1>2 DEF StTrees, StCodes
<1> HIDE DEF t
<1>4. StTreeKnown(stCaller[p], t)
    BY <1>2, <1>3 DEF StTreeKnown, StNoTree
<1> QED BY <1>2, <1>3, <1>4, TreeKeeps

LEMMA EndsKeeps ==
    ASSUME StInv, NEW p \in StProcs, DescendantEnds(p)
    PROVE  StInv'
<1> DEFINE o == stTree[p]
           t == [o EXCEPT !.helper = "none"]
<1>1. o \in StTrees /\ o.helper # "none" /\ StTreeKnown(stCaller[p], o)
      /\ UNCHANGED <<stCaller, stDirs>> /\ stTree' = [stTree EXCEPT ![p] = t]
    BY StOwn DEF DescendantEnds, Tree
<1>2. t \in StTrees /\ t.leader = o.leader /\ t.confined = o.confined /\ t.helper = "none"
      /\ t.grouped = o.grouped /\ t.written = o.written /\ t.stuck = o.stuck /\ t.code = o.code
      /\ t.answer = o.answer
    BY <1>1 DEF StTrees
<1> HIDE DEF t
<1>3. StTreeKnown(stCaller[p], t)
    BY <1>1, <1>2 DEF StTreeKnown, StNoTree
<1> QED BY <1>1, <1>2, <1>3, TreeKeeps

(* The filter of the supervisor: what runs below it never leaves the group.  *)
LEMMA NeverLeaves ==
    ASSUME StInv, NEW p \in StProcs
    PROVE  ~HelperLeavesGroup(p)
BY StOwn DEF HelperLeavesGroup, StTreeKnown

(* A directory of the process's own, or one that was not there, becomes d:   *)
(* the others' directories are other ones.                                   *)
LEMMA OwnDir ==
    ASSUME StInv, NEW p \in StProcs, NEW c, NEW t, StLocal(p, c, t), NEW n \in StNames,
           NEW d \in StDirectories \cup {StNone}, stDirs' = [stDirs EXCEPT ![n] = d],
           stDirs[n] = StNone \/ stDirs[n].by = p, d # StNone => d.by = p, StDirKnown(p, c, stDirs')
    PROVE  StTypedD' /\ StDirsKnown'
<1>1. StTypedD' /\ (\A m \in StNames : stDirs'[m] = IF m = n THEN d ELSE stDirs[m])
    BY DEF StInv, StTypedD
<1>2. \A q \in StProcs : stCaller'[q] = IF q = p THEN c ELSE stCaller[q]
    BY DEF StInv, StTypedC, StLocal
<1>3. ASSUME NEW q \in StProcs, q # p PROVE StDirKnown(q, stCaller[q], stDirs')
    <2>1. StDirKnown(q, stCaller[q], stDirs)
        BY DEF StInv, StDirsKnown
    <2> QED BY <1>1, <1>3, <2>1 DEF StDirKnown
<1> QED BY <1>1, <1>2, <1>3 DEF StDirsKnown

LEMMA CleanedDir ==
    ASSUME NEW d \in StDirectories, NEW budget \in 0..StBudget, NEW r \in cleanup_directory_contents(d, budget)
    PROVE  /\ r.budget \in 0..StBudget /\ r.dir \in StDirectories \cup {StNone}
           /\ r.dir # StNone => r.dir.by = d.by /\ (r.dir.deep \/ r.dir.items > 0)
<1>1. PICK k \in 0..budget : /\ k <= d.items
                             /\ r = [dir |-> IF ~d.deep /\ d.items = k THEN StNone ELSE [d EXCEPT !.items = @ - k],
                                     budget |-> budget - k]
    BY DEF cleanup_directory_contents
<1> DEFINE i == d.items - k
           e == [d EXCEPT !.items = i]
<1>2. i \in 0..StBudget + 1 /\ (d.items # k => i > 0) /\ budget - k \in 0..StBudget
    BY <1>1, StNumbers DEF StDirectories
<1>3. r.budget = budget - k /\ r.dir = IF ~d.deep /\ d.items = k THEN StNone ELSE e
    BY <1>1
<1> HIDE DEF i
<1>4. e \in StDirectories /\ e.by = d.by /\ e.deep = d.deep /\ e.items = i
    BY <1>2 DEF StDirectories
<1> HIDE DEF e
<1> QED BY <1>2, <1>3, <1>4

LEMMA SweepKeeps ==
    ASSUME StInv, NEW p \in StProcs, cleanup_stale_probe_directories(p)
    PROVE  StInv'
<1> DEFINE o == stTree[p]
<1>1. stCaller[p].at = "sweep" /\ stCaller[p] \in StCallers /\ o \in StTrees /\ StTreeKnown(stCaller[p], o)
      /\ stTree' = [stTree EXCEPT ![p] = o]
    BY StOwn DEF cleanup_stale_probe_directories
<1>2. CASE Set(p, [stCaller[p] EXCEPT !.at = "bind", !.budget = 0]) /\ UNCHANGED stDirs
    <2> DEFINE b == 0
               c == [stCaller[p] EXCEPT !.at = "bind", !.budget = b]
    <2>1. stCaller' = [stCaller EXCEPT ![p] = c] /\ b \in 0..StBudget
        BY <1>2, StNumbers DEF Set
    <2> HIDE DEF b
    <2>2. c \in StCallers /\ c.at = "bind" /\ c.mode = stCaller[p].mode /\ c.verdict = stCaller[p].verdict
          /\ c.read = stCaller[p].read
        BY <1>1, <2>1 DEF StCallers, StBusy
    <2> HIDE DEF c
    <2>3. StTreeKnown(c, o)
        BY <1>1, <2>2 DEF StTreeKnown, StBusy
    <2>4. StLocal(p, c, o) /\ StNoLock(stCaller[p], c)
        BY <1>1, <2>1, <2>2, <2>3 DEF StLocal, StNoLock, StBusy
    <2> QED BY <1>2, <2>2, <2>4, LocalKeeps DEF StTesting
<1>3. ASSUME NEW n \in StNames, stDirs[n] # StNone,
             NEW r \in cleanup_directory_contents(stDirs[n], stCaller[p].budget),
             stDirs' = [stDirs EXCEPT ![n] = r.dir], Set(p, [stCaller[p] EXCEPT !.budget = r.budget])
      PROVE  StInv'
    <2> DEFINE b == r.budget
               d == r.dir
               c == [stCaller[p] EXCEPT !.budget = b]
    <2>1. stDirs[n] \in StDirectories
        BY <1>3 DEF StInv, StTypedD
    <2>2. /\ b \in 0..StBudget /\ d \in StDirectories \cup {StNone}
          /\ d # StNone => d.by = stDirs[n].by /\ (d.deep \/ d.items > 0)
        BY <1>1, <1>3, <2>1, CleanedDir DEF StCallers
    <2>3. stCaller' = [stCaller EXCEPT ![p] = c] /\ stDirs' = [stDirs EXCEPT ![n] = d]
        BY <1>3 DEF Set
    <2> HIDE DEF b, d
    <2>4. c \in StCallers /\ c.at = "sweep" /\ c.mode = stCaller[p].mode /\ c.verdict = stCaller[p].verdict
          /\ c.read = stCaller[p].read
        BY <1>1, <2>2 DEF StCallers
    <2> HIDE DEF c
    <2>5. StTreeKnown(c, o)
        BY <1>1, <2>4 DEF StTreeKnown
    <2>6. StLocal(p, c, o) /\ StNoLock(stCaller[p], c)
        BY <1>1, <2>3, <2>4, <2>5 DEF StLocal, StNoLock, StBusy
    <2>7. StTypedC' /\ StTypedT' /\ StTreesKnown' /\ StLocked'
        BY <2>6, LocalTypes, LocalLock
    <2>8. StTypedD' /\ (\A m \in StNames : stDirs'[m] = IF m = n THEN d ELSE stDirs[m])
        BY <2>2, <2>3 DEF StInv, StTypedD
    <2>9. ASSUME NEW q \in StProcs PROVE StDirKnown(q, stCaller'[q], stDirs')
        <3>1. CASE q = p
            <4>1. stCaller'[q] = c
                BY <2>3, <3>1 DEF StInv, StTypedC
            <4> QED BY <2>4, <4>1 DEF StDirKnown, StTesting
        <3>2. CASE q # p
            <4>1. stCaller'[q] = stCaller[q]
                BY <2>3, <3>2 DEF StInv, StTypedC
            <4>2. stCaller[q].at \notin StTesting
                BY <1>1, <3>2 DEF StInv, StLocked, StHolds, StBusy, StTesting
            <4>3. StDirKnown(q, stCaller[q], stDirs)
                BY DEF StInv, StDirsKnown
            <4> QED BY <2>2, <2>8, <4>1, <4>2, <4>3 DEF StDirKnown
        <3> QED BY <3>1, <3>2
    <2> QED BY <2>7, <2>8, <2>9 DEF StInv, StDirsKnown
<1> QED BY <1>2, <1>3 DEF cleanup_stale_probe_directories

LEMMA PrivateKeeps ==
    ASSUME StInv, NEW p \in StProcs, private_probe_directories(p)
    PROVE  StInv'
<1> DEFINE o == stTree[p]
<1>1. stCaller[p].at = "dirs" /\ stCaller[p] \in StCallers /\ o \in StTrees /\ StTreeKnown(stCaller[p], o)
      /\ stTree' = [stTree EXCEPT ![p] = o] /\ o = StNoTree /\ o.grouped /\ o.leader = "none" /\ o.helper = "none"
    BY StOwn, StRest DEF private_probe_directories, StTreeKnown
<1>2. CASE Fails(p) /\ UNCHANGED stDirs
    BY <1>1, <1>2, FailsKeeps DEF StBusy
<1>3. CASE stCaller[p].tries # 3 /\ Set(p, [stCaller[p] EXCEPT !.tries = @ + 1]) /\ UNCHANGED stDirs
    <2> DEFINE i == stCaller[p].tries + 1
               c == [stCaller[p] EXCEPT !.tries = i]
    <2>1. i \in 0..3 /\ stCaller' = [stCaller EXCEPT ![p] = c]
        BY <1>1, <1>3 DEF StCallers, Set
    <2> HIDE DEF i
    <2>2. c \in StCallers /\ c.at = "dirs" /\ c.mode = stCaller[p].mode /\ c.verdict = stCaller[p].verdict
          /\ c.read = stCaller[p].read
        BY <1>1, <2>1 DEF StCallers
    <2> HIDE DEF c
    <2>3. StTreeKnown(c, o)
        BY <1>1, <2>2 DEF StTreeKnown
    <2>4. StLocal(p, c, o) /\ StNoLock(stCaller[p], c)
        BY <1>1, <2>1, <2>2, <2>3 DEF StLocal, StNoLock, StBusy
    <2> QED BY <1>3, <2>2, <2>4, LocalKeeps DEF StTesting
<1>4. ASSUME NEW n \in StNames, stDirs[n] = StNone, NEW place \in {"spawn", "drop"},
             stDirs' = [stDirs EXCEPT ![n] = [by |-> p, items |-> 0, deep |-> FALSE]],
             Set(p, [stCaller[p] EXCEPT !.at = place, !.name = n,
                                        !.verdict = IF place = "drop" THEN "failed" ELSE @])
      PROVE  StInv'
    <2> DEFINE v == IF place = "drop" THEN "failed" ELSE stCaller[p].verdict
               c == [stCaller[p] EXCEPT !.at = place, !.name = n, !.verdict = v]
               d == [by |-> p, items |-> 0, deep |-> FALSE]
    <2>1. stCaller' = [stCaller EXCEPT ![p] = c] /\ stDirs' = [stDirs EXCEPT ![n] = d]
        BY <1>4 DEF Set
    <2>2. d \in StDirectories /\ d # StNone /\ d.by = p
        <3>1. d \in StDirectories /\ d.by = p
            BY StNumbers DEF StDirectories
        <3> HIDE DEF d
        <3> QED BY <3>1, StNumbers
    <2>3. v \in {StNone, "failed"}
        BY <1>1 DEF StTreeKnown, StCallers
    <2> HIDE DEF v, d
    <2>4. c \in StCallers /\ c.at = place /\ c.mode = stCaller[p].mode /\ c.verdict = v /\ c.name = n
          /\ c.read = stCaller[p].read
        BY <1>1, <2>3 DEF StCallers, StBusy
    <2> HIDE DEF c
    <2>5. StTreeKnown(c, o)
        BY <1>1, <2>3, <2>4, StNumbers DEF StTreeKnown, StBusy
    <2>6. StLocal(p, c, o) /\ StNoLock(stCaller[p], c)
        BY <1>1, <2>1, <2>4, <2>5 DEF StLocal, StNoLock, StBusy
    <2>7. StTypedC' /\ StTypedT' /\ StTreesKnown' /\ StLocked'
        BY <2>6, LocalTypes, LocalLock
    <2>8. stDirs'[n] = d
        BY <2>1 DEF StInv, StTypedD
    <2>9. StDirKnown(p, c, stDirs')
        BY <2>2, <2>4, <2>8 DEF StDirKnown
    <2>10. StTypedD' /\ StDirsKnown'
        BY <1>4, <2>1, <2>2, <2>6, <2>9, OwnDir
    <2> QED BY <2>7, <2>10 DEF StInv
<1> QED BY <1>2, <1>3, <1>4 DEF private_probe_directories

LEMMA StoresKeeps ==
    ASSUME StInv, NEW p \in StProcs, CandidateStores(p)
    PROVE  StInv'
<1> DEFINE n == stCaller[p].name
           o == stDirs[n]
<1>1. n \in StNames /\ o \in StDirectories /\ o.by = p /\ ~o.deep /\ stCaller[p] \in StCallers
      /\ o # StNone /\ StDirKnown(p, stCaller[p], stDirs) /\ UNCHANGED <<stCaller, stTree>>
    BY StOwn DEF CandidateStores, StInv, StTypedD, StCallers
<1>2. \E d \in StDirectories : d.by = p /\ (d.deep \/ d.items > 0) /\ stDirs' = [stDirs EXCEPT ![n] = d]
    <2>1. CASE o.items <= StBudget /\ stDirs' = [stDirs EXCEPT ![n].items = @ + 1]
        <3> DEFINE i == o.items + 1
                   d == [o EXCEPT !.items = i]
        <3>1. i \in 0..StBudget + 1 /\ i > 0
            BY <1>1, <2>1, StNumbers DEF StDirectories
        <3>2. stDirs' = [stDirs EXCEPT ![n] = d]
            BY <2>1
        <3> HIDE DEF i
        <3>3. d \in StDirectories /\ d.by = p /\ d.items > 0
            BY <1>1, <3>1 DEF StDirectories
        <3> QED BY <3>2, <3>3
    <2>2. CASE stDirs' = [stDirs EXCEPT ![n].deep = TRUE]
        <3> DEFINE d == [o EXCEPT !.deep = TRUE]
        <3>1. stDirs' = [stDirs EXCEPT ![n] = d]
            BY <2>2
        <3>2. d \in StDirectories /\ d.by = p /\ d.deep
            BY <1>1 DEF StDirectories
        <3> QED BY <3>1, <3>2
    <2> QED BY <2>1, <2>2 DEF CandidateStores
<1>3. PICK d \in StDirectories : d.by = p /\ (d.deep \/ d.items > 0) /\ stDirs' = [stDirs EXCEPT ![n] = d]
    BY <1>2
<1>4. StLocal(p, stCaller[p], stTree[p]) /\ StNoLock(stCaller[p], stCaller[p])
    BY <1>1, StOwn DEF StLocal, StNoLock
<1>5. StTypedC' /\ StTypedT' /\ StTreesKnown' /\ StLocked'
    BY <1>4, LocalTypes, LocalLock
<1>6. stDirs'[n] = d /\ d # StNone
    BY <1>1, <1>3, StNumbers DEF StInv, StTypedD
<1>7. StDirKnown(p, stCaller[p], stDirs')
    BY <1>1, <1>3, <1>6 DEF StDirKnown
<1>8. StTypedD' /\ StDirsKnown'
    BY <1>1, <1>3, <1>4, <1>7, OwnDir
<1> QED BY <1>5, <1>8 DEF StInv

LEMMA DroppedTree ==
    ASSUME NEW t \in StTrees, t.grouped, t.leader = "candidate" \/ t.helper # "none" => t.confined,
           NEW u, u = IF t.stuck THEN t ELSE Reaped(Killed(t))
    PROVE  /\ u \in StTrees /\ u.grouped /\ (u.leader = "candidate" \/ u.helper # "none" => u.confined)
           /\ u.leader \in {"none", "exited"} \/ u.stuck
           /\ u.helper = "runs" => u.stuck
<1>1. CASE t.stuck
    BY <1>1
<1>2. CASE ~t.stuck
    <2>1. /\ Killed(t) \in StTrees /\ Killed(t).leader \in {"none", "exited"} /\ Killed(t).grouped
          /\ Killed(t).helper # "runs" /\ (Killed(t).helper # "none" => Killed(t).confined)
        BY KilledTree
    <2>2. u = StNoTree \/ u = Killed(t)
        BY <1>2 DEF Reaped
    <2> QED BY <2>1, <2>2, StRest
<1> QED BY <1>1, <1>2

LEMMA DropKeeps ==
    ASSUME StInv, NEW p \in StProcs, DropAll(p)
    PROVE  StInv'
<1> DEFINE n == stCaller[p].name
           o == stTree[p]
           c == [StIdle EXCEPT !.name = n]
           t == IF o.stuck THEN o ELSE Reaped(Killed(o))
<1>1. stCaller' = [stCaller EXCEPT ![p] = c] /\ stTree' = [stTree EXCEPT ![p] = t]
    BY DEF DropAll, Set
<1>2. n \in StNames \cup {StNone} /\ o \in StTrees /\ o.grouped
      /\ (o.leader = "candidate" \/ o.helper # "none" => o.confined)
    BY StOwn DEF StCallers, StTreeKnown
<1>3. c \in StCallers /\ c.at = "idle" /\ c.name = n /\ c.verdict = StNone
    <2> HIDE DEF n
    <2> QED BY <1>2, StRest DEF StCallers
<1>4. /\ t \in StTrees /\ t.grouped /\ (t.leader = "candidate" \/ t.helper # "none" => t.confined)
      /\ t.leader \in {"none", "exited"} \/ t.stuck
      /\ t.helper = "runs" => t.stuck
    <2>1. t = IF o.stuck THEN o ELSE Reaped(Killed(o))
        OBVIOUS
    <2> HIDE DEF t, o
    <2> QED BY <1>2, <2>1, DroppedTree
<1> HIDE DEF c, t
<1>5. StTreeKnown(c, t)
    BY <1>3, <1>4, StNumbers DEF StTreeKnown, StBusy
<1>6. StLocal(p, c, t) /\ StNoLock(stCaller[p], c)
    BY <1>1, <1>3, <1>4, <1>5 DEF StLocal, StNoLock, StBusy
<1>7. StTypedC' /\ StTypedT' /\ StTreesKnown' /\ StLocked'
    BY <1>6, LocalTypes, LocalLock
<1>8. StTypedD' /\ StDirsKnown'
    <2>1. CASE n # StNone /\ stDirs[n] # StNone /\ stDirs[n].by = p
        <3>1. n \in StNames /\ stDirs[n] \in StDirectories
            BY <1>2, <2>1 DEF StInv, StTypedD
        <3>2. PICK r \in cleanup_directory_contents(stDirs[n], StBudget) : stDirs' = [stDirs EXCEPT ![n] = r.dir]
            BY <2>1 DEF DropAll
        <3> DEFINE d == r.dir
        <3>3. d \in StDirectories \cup {StNone} /\ (d # StNone => d.by = p /\ (d.deep \/ d.items > 0))
            BY <2>1, <3>1, <3>2, CleanedDir, StNumbers
        <3>4. stDirs' = [stDirs EXCEPT ![n] = d] /\ stDirs'[n] = d
            BY <3>1, <3>2 DEF StInv, StTypedD
        <3> HIDE DEF d
        <3>5. StDirKnown(p, c, stDirs')
            BY <1>3, <3>3, <3>4 DEF StDirKnown, StTesting
        <3> QED BY <1>6, <2>1, <3>1, <3>3, <3>4, <3>5, OwnDir
    <2>2. CASE ~(n # StNone /\ stDirs[n] # StNone /\ stDirs[n].by = p)
        <3>1. stDirs' = stDirs
            BY <2>2 DEF DropAll
        <3>2. StDirKnown(p, c, stDirs)
            BY <1>3, <2>2, StNumbers DEF StDirKnown, StTesting
        <3>3. \A q \in StProcs : stCaller'[q] = IF q = p THEN c ELSE stCaller[q]
            BY <1>1 DEF StInv, StTypedC
        <3> QED BY <3>1, <3>2, <3>3 DEF StInv, StTypedD, StDirsKnown
    <2> QED BY <2>1, <2>2
<1> QED BY <1>7, <1>8 DEF StInv

LEMMA StStarts == StInit => StInv
<1> SUFFICES ASSUME StInit PROVE StInv
    OBVIOUS
<1>1. \A p \in StProcs : stCaller[p] = StIdle /\ stTree[p] = StNoTree
    BY DEF StInit
<1>2. StTypedC /\ StTypedT /\ StTypedD
    BY StRest DEF StInit, StTypedC, StTypedT, StTypedD
<1>3. StLocked
    BY <1>1, StRest DEF StLocked, StHolds, StBusy
<1>4. StTreesKnown
    BY <1>1, StRest DEF StTreesKnown
<1>5. StDirsKnown
    BY <1>1, StRest, StNumbers DEF StDirsKnown, StDirKnown, StTesting
<1> QED BY <1>2, <1>3, <1>4, <1>5 DEF StInv

LEMMA StSteps == StInv /\ [StNext]_stVars => StInv'
<1> SUFFICES ASSUME StInv, [StNext]_stVars PROVE StInv'
    OBVIOUS
<1>1. CASE UNCHANGED stVars
    BY <1>1 DEF StInv, stVars, StTypedC, StTypedT, StTypedD, StLocked, StHolds, StTreesKnown, StDirsKnown
<1>2. ASSUME NEW p \in StProcs, NEW mode \in {"shared", "exclusive"}, open_with_mode(p, mode) PROVE StInv'
    BY <1>2, OpenKeeps
<1>3. ASSUME NEW p \in StProcs, CallerStep(p) PROVE StInv'
    BY <1>3, SweepKeeps, StoreKeeps, PrivateKeeps, SpawnKeeps, ReadKeeps, PollKeeps, DrainKeeps, JudgeKeeps, DropKeeps
       DEF CallerStep
<1>4. ASSUME NEW p \in StProcs, TreeStep(p) PROVE StInv'
    BY <1>4, SupervisorKeeps, WritesKeeps, ForksKeeps, NeverLeaves, StoresKeeps, ExitsKeeps, EndsKeeps DEF TreeStep
<1>5. ASSUME NEW p \in StProcs, StCrash(p) \/ StRestart(p) PROVE StInv'
    BY <1>5, CrashKeeps, RestartKeeps
<1> QED BY <1>1, <1>2, <1>3, <1>4, <1>5 DEF StNext

LEMMA StConcludes == StInv => SelfTestSound /\ StTypeOK
<1> SUFFICES ASSUME StInv PROVE SelfTestSound /\ StTypeOK
    OBVIOUS
<1>1. StPassIsWhole
    BY DEF StInv, StTreesKnown, StTreeKnown, StPassIsWhole, StWriter
<1>2. StNothingLeft
    BY DEF StInv, StTreesKnown, StTreeKnown, StDirsKnown, StDirKnown, StNothingLeft
<1>3. StLiveKept
    BY DEF StInv, StDirsKnown, StDirKnown, StLiveKept
<1>4. ASSUME NEW p \in StProcs
      PROVE  /\ stCaller[p].at \in StBusy \cup {"idle", "down"} /\ stCaller[p].tries \in 0..3
             /\ stCaller[p].read <= StLimit /\ stCaller[p].verdict \in {StNone, "passed", "failed"}
             /\ stTree[p].leader \in {"none", "supervisor", "candidate", "exited"}
             /\ stTree[p].helper \in {"none", "runs", "dying"} /\ stTree[p].written <= StLimit + 1
    <2>1. stCaller[p] \in StCallers /\ stTree[p] \in StTrees
        BY StOwn
    <2> QED BY <2>1, StNumbers DEF StCallers, StTrees
<1>5. \A n \in StNames : stDirs[n] # StNone => stDirs[n].by \in StProcs
    BY DEF StInv, StTypedD, StDirectories
<1> QED BY <1>1, <1>2, <1>3, <1>4, <1>5 DEF SelfTestSound, StTypeOK

(* For any number of processes and directories, any budget and any limit:    *)
(* a candidate passes only on its own exit and all it wrote, a process that  *)
(* is done leaves nothing running and no empty directory, and no sweep takes *)
(* the directory of a test that runs (lifecycle.rs).                         *)
THEOREM SelfTestHolds == StSpec => []SelfTestSound
<1>1. StInit => StInv
    BY StStarts
<1>2. StInv /\ [StNext]_stVars => StInv'
    BY StSteps
<1>3. StInv => SelfTestSound
    BY StConcludes
<1> QED BY <1>1, <1>2, <1>3, PTL DEF StSpec

(* The callers, the trees and the directories keep their types.              *)
THEOREM SelfTestTypes == StSpec => []StTypeOK
<1>1. StInit => StInv
    BY StStarts
<1>2. StInv /\ [StNext]_stVars => StInv'
    BY StSteps
<1>3. StInv => StTypeOK
    BY StConcludes
<1> QED BY <1>1, <1>2, <1>3, PTL DEF StSpec

-----------------------------------------------------------------------------
(* The inductive invariant of the probe of the system.                       *)

PbPlaces ==
    {"none", "made", "seen", "empty", "written", "renamed", "unheld", "drop", "held", "programmed", "exact", "ran",
     "match", "unlink", "swept", "rmdir", "removed"}
PbMoves == PbPlaces \cup {"unmoved"}
PbFiles == {PbNone, "ours", "foreign"}
PbProcesses ==
    [stage : 1..10, facts : SUBSET PbFacts, dirs : SUBSET PbDirFacts, compatible : BOOLEAN,
     orphan : SUBSET {"ended", "deadline", "wait"}, left : SUBSET PbMoves]
PbChildren ==
    [leader : {"none", "runs", "exited"}, code : {0, 1}, helper : {"none", "holds", "closed"},
     output : {"empty", "ready", "winch", "twice", "whole", "over"}, size : {"initial", "resized", "retry"},
     foreground : BOOLEAN, signals : Nat, attempts : Nat, seen : {0, 1}]
PbDirectories ==
    [at : PbPlaces, name : PbFiles, moved : PbMoves, created : PbFiles, source : PbFiles, destination : PbFiles,
     aside : SUBSET {"ours"}, held : {PbNone, "source", "destination"}, exact : PbFiles, ran : PbFiles,
     writable : BOOLEAN, rename : BOOLEAN, exec : BOOLEAN, clean : BOOLEAN]

PbTyped == pb \in PbProcesses /\ pbHost \in DOMAIN PbHosts
PbTypedChild == pbChild \in PbChildren
PbTypedDir == pbDir \in PbDirectories

(* Every fact that was learnt is true of the host.                           *)
PbTrue(h, facts, dirs) ==
    /\ "version" \in facts \/ "protocol" \in facts => h.asb
    /\ "size" \in facts => h.size /\ h.interactive
    /\ "resize" \in facts => h.resizes
    /\ "git" \in facts \/ "keygen" \in facts => h.tools
    /\ \A s \in {"config", "cache"} :
          /\ <<s, "writable">> \in dirs => h.dirs
          /\ <<s, "rename">> \in dirs => h.rename
          /\ <<s, "exec">> \in dirs => h.executes
PbLearnt == PbTrue(Host, pb.facts, pb.dirs)

(* What the child can have done at the stage it belongs to.                  *)
PbCommandKnown(s, c) ==
    s \in PbCommands /\ c.leader # "none" =>
        /\ Asked(s) /\ (s \in {"git", "keygen"} => Host.tools)
        /\ c.leader = "exited" /\ c.code = 0 => Truth(s)
PbResizeKnown(c) ==
    /\ c.signals = c.attempts
    /\ c.seen = 0 => c.size = IF c.attempts % 2 = 1 THEN "resized"
                              ELSE IF c.attempts = 0 THEN "initial" ELSE "retry"
    /\ c.output \in {"winch", "twice"} => Host.resizes
PbChildKnown ==
    /\ pbChild.leader = "none" => pbChild = PbNoChild
    /\ PbStage \notin PbCommands \cup {"resize"} => pbChild = PbNoChild
    /\ PbCommandKnown(PbStage, pbChild)
    /\ PbStage = "resize" => PbResizeKnown(pbChild)

(* At a place: what the directory shows of the host, and what the descriptor *)
(* gives.                                                                    *)
PbDirShows(place, d) ==
    /\ d.rename => Host.rename
    /\ d.exec => Host.executes
    /\ d.ran = "ours" => Host.executes
    /\ d.ran # "foreign"
    /\ place = "exact" => d.exact = "ours"
    /\ place = "ran" => d.ran = "ours"
    /\ place = "unlink" => d.held # PbNone

(* Where the directory that was made is: under its name until it is moved.   *)
(* The one that was looked at is it, unless it was moved before; the last    *)
(* look lets no other move pass.                                             *)
PbDirOwned(place, d) ==
    /\ d.moved # "unmoved" => d.name # "ours"
    /\ place = "made" => d.moved \in {"unmoved", "made"}
    /\ place \notin {"none", "made"} => d.created = IF d.moved = "made" THEN "foreign" ELSE "ours"
    /\ place \notin {"none", "removed"} => d.name = IF d.moved = "unmoved" THEN "ours" ELSE "foreign"
    /\ place = "rmdir" => d.moved \in {"unmoved", "made", "rmdir"}
    /\ place = "removed" /\ d.clean => d.moved \in {"unmoved", "made", "rmdir"} /\ d.name # "ours"
PbDirKnown(d) ==
    /\ d.at # "none" => Host.dirs
    /\ d.at = "none" => d = PbNoDir
    /\ PbDirShows(d.at, d) /\ PbDirOwned(d.at, d)
PbPlaced == PbDirKnown(pbDir) /\ (~InDir => pbDir = PbNoDir)

PbInv ==
    /\ PbTyped /\ PbTypedChild /\ PbTypedDir
    /\ PbLearnt /\ PbEarned /\ PbNothingLeft /\ PbChildKnown /\ PbPlaced

LEMMA PbNot == PbNone \notin {"ours", "foreign", "source", "destination"}
BY PbAssumption

LEMMA PbHostFields ==
    ASSUME PbTyped
    PROVE  Host \in [platform : BOOLEAN, asb : BOOLEAN, interactive : BOOLEAN, features : BOOLEAN,
                     size : BOOLEAN, resizes : BOOLEAN, dirs : BOOLEAN, rename : BOOLEAN,
                     executes : BOOLEAN, tools : BOOLEAN, shared : BOOLEAN]
BY PbAssumption DEF PbTyped, Host

LEMMA StageRange ==
    ASSUME pb.stage \in 1..10
    PROVE  /\ PbStage # "done" => pb.stage \in 1..9
           /\ PbStage \in {"version", "capabilities", "size", "resize", "config", "cache", "git", "keygen",
                           "report", "done"}
BY DEF PbStage, PbStages

LEMMA PbNothing ==
    /\ PbNoChild \in PbChildren /\ PbNoChild.leader = "none" /\ PbResizeKnown(PbNoChild)
    /\ PbNoDir \in PbDirectories /\ PbDirKnown(PbNoDir)
<1>1. PbNoChild \in PbChildren /\ PbNoChild.leader = "none"
    BY DEF PbNoChild, PbChildren
<1>2. PbResizeKnown(PbNoChild)
    BY DEF PbNoChild, PbResizeKnown
<1>3. PbNoDir \in PbDirectories
    BY DEF PbNoDir, PbDirectories, PbPlaces, PbFiles, PbMoves
<1>4. PbDirKnown(PbNoDir)
    BY PbNot DEF PbNoDir, PbDirKnown, PbDirShows, PbDirOwned
<1> QED BY <1>1, <1>2, <1>3, <1>4

(* With nothing started and nothing made, what is known of both holds at     *)
(* every stage.                                                              *)
LEMMA NothingKnown ==
    ASSUME pbChild' = PbNoChild, pbDir' = PbNoDir, Host' = Host
    PROVE  PbTypedChild' /\ PbTypedDir' /\ PbChildKnown' /\ PbPlaced'
<1>1. PbTypedChild' /\ PbTypedDir'
    BY PbNothing DEF PbTypedChild, PbTypedDir
<1>2. PbChildKnown'
    BY PbNothing DEF PbChildKnown, PbCommandKnown, PbResizeKnown
<1>3. PbPlaced'
    BY PbNothing DEF PbPlaced, PbDirKnown, PbDirShows, PbDirOwned
<1> QED BY <1>1, <1>2, <1>3

(* The next stage, with true facts and at most the leftover that an error of *)
(* try_wait leaves.                                                          *)
LEMMA ProbeMovesOn ==
    ASSUME PbInv, PbStage # "done", NEW f \in SUBSET PbFacts, PbTrue(Host, f, {}), NEW o \in SUBSET {"wait"},
           NEW n, n = pb.stage + 1, NEW g, g = pb.facts \cup f, NEW e, e = {},
           pb' = [pb EXCEPT !.stage = n, !.facts = g, !.orphan = o, !.left = e],
           pbChild' = PbNoChild, pbDir' = PbNoDir, pbHost' = pbHost
    PROVE  PbInv'
<1>2. pb \in PbProcesses /\ n \in 1..10 /\ g \in SUBSET PbFacts /\ o \in SUBSET {"ended", "deadline", "wait"}
      /\ e \in SUBSET PbMoves
    BY StageRange DEF PbInv, PbTyped, PbProcesses
<1>3. Host' = Host
    BY DEF Host
<1>4. PbTrue(Host, g, pb.dirs)
    BY DEF PbInv, PbLearnt, PbTrue
<1>5. pb' \in PbProcesses /\ pb'.facts = g /\ pb'.dirs = pb.dirs /\ pb'.compatible = pb.compatible
      /\ pb'.orphan = o /\ pb'.left = e
    BY <1>2 DEF PbProcesses
<1>6. PbTypedChild' /\ PbTypedDir' /\ PbChildKnown' /\ PbPlaced'
    BY <1>3, NothingKnown
<1>7. PbTyped' /\ PbLearnt' /\ PbEarned'
    BY <1>3, <1>4, <1>5 DEF PbInv, PbTyped, PbLearnt, PbEarned
<1>8. PbNothingLeft'
    BY <1>5, PbNothing, PbNot DEF PbNothingLeft, PbDirKnown, PbDirShows
<1> QED BY <1>6, <1>7, <1>8 DEF PbInv

LEMMA ProbeAdvanceKeeps ==
    ASSUME PbInv, PbStage # "done", NEW f \in SUBSET PbFacts, PbTrue(Host, f, {}), Advance(f)
    PROVE  PbInv'
<1> DEFINE n == pb.stage + 1
           g == pb.facts \cup f
           e == {}
<1>1. pb' = [pb EXCEPT !.stage = n, !.facts = g, !.orphan = e, !.left = e] /\ pbChild' = PbNoChild
      /\ pbDir' = PbNoDir /\ pbHost' = pbHost
    BY DEF Advance
<1>2. e \in SUBSET {"wait"} /\ e = {} /\ n = pb.stage + 1 /\ g = pb.facts \cup f
    OBVIOUS
<1> HIDE DEF n, g, e
<1> QED BY <1>1, <1>2, ProbeMovesOn

(* A way out that kills the group, or the one that kills nothing.            *)
LEMMA WayOutKeeps ==
    ASSUME PbInv, PbStage # "done", NEW f \in SUBSET PbFacts, PbTrue(Host, f, {}), NEW way, NEW c,
           way = "wait" \/ ~InGroup(c), WayOut(way, c, f)
    PROVE  PbInv'
<1> DEFINE n == pb.stage + 1
           g == pb.facts \cup f
           e == {}
           o == IF InGroup(c) THEN {way} ELSE {}
<1>1. pb' = [pb EXCEPT !.stage = n, !.facts = g, !.orphan = o, !.left = e] /\ pbChild' = PbNoChild
      /\ pbDir' = PbNoDir /\ pbHost' = pbHost
    BY DEF WayOut
<1>2. o \in SUBSET {"wait"} /\ e = {} /\ n = pb.stage + 1 /\ g = pb.facts \cup f
    OBVIOUS
<1> HIDE DEF n, g, e, o
<1> QED BY <1>1, <1>2, ProbeMovesOn

(* Whatever kills the group leaves nothing of it.                            *)
LEMMA KilledGroup ==
    ASSUME NEW c \in PbChildren
    PROVE  ~InGroup(kill_group(c)) /\ ~InGroup(terminate_group(c))
<1> DEFINE k == kill_group(c)
           t == [k EXCEPT !.leader = "exited"]
<1>1. k.leader = "exited" /\ k.helper = "none" /\ k \in PbChildren
    BY DEF kill_group, PbChildren
<1>2. t = terminate_group(c)
    BY DEF terminate_group
<1> HIDE DEF k
<1>3. t.leader = "exited" /\ t.helper = "none"
    BY <1>1 DEF PbChildren
<1> QED BY <1>1, <1>2, <1>3 DEF InGroup, k

(* A step of the child alone.                                                *)
LEMMA ChildKeeps ==
    ASSUME PbInv, NEW c \in PbChildren, Child(c), c.leader # "none", PbStage \in PbCommands \cup {"resize"},
           PbCommandKnown(PbStage, c), PbStage = "resize" => PbResizeKnown(c)
    PROVE  PbInv'
<1>1. pb' = pb /\ pbChild' = c /\ pbDir' = pbDir /\ pbHost' = pbHost
    BY DEF Child
<1>2. Host' = Host /\ PbStage' = PbStage
    BY <1>1 DEF Host, PbStage
<1>3. PbTyped' /\ PbTypedChild' /\ PbTypedDir' /\ PbLearnt' /\ PbEarned' /\ PbNothingLeft'
    BY <1>1, <1>2 DEF PbInv, PbTyped, PbTypedChild, PbTypedDir, PbLearnt, PbEarned, PbNothingLeft
<1>4. PbCommandKnown(PbStage, pbChild)'
    BY <1>1, <1>2 DEF PbCommandKnown, Asked, Truth
<1>5. PbStage' = "resize" => PbResizeKnown(pbChild)'
    BY <1>1, <1>2 DEF PbResizeKnown
<1>6. PbPlaced'
    BY <1>1, <1>2 DEF PbInv, PbPlaced, PbDirKnown, PbDirShows, PbDirOwned, InDir
<1> QED BY <1>1, <1>2, <1>3, <1>4, <1>5, <1>6 DEF PbInv, PbChildKnown

(* A step in the directory alone.                                            *)
LEMMA DirKeeps ==
    ASSUME PbInv, InDir, NEW place, NEW d, NEW e \in PbDirectories, Dir(place, d), e = [d EXCEPT !.at = place], PbDirKnown(e)
    PROVE  PbInv'
<1>1. pb' = pb /\ pbChild' = pbChild /\ pbDir' = e /\ pbHost' = pbHost
    BY DEF Dir
<1>2. Host' = Host /\ PbStage' = PbStage
    BY <1>1 DEF Host, PbStage
<1>3. PbTyped' /\ PbTypedChild' /\ PbTypedDir' /\ PbLearnt' /\ PbEarned' /\ PbNothingLeft'
    BY <1>1, <1>2 DEF PbInv, PbTyped, PbTypedChild, PbTypedDir, PbLearnt, PbEarned, PbNothingLeft, PbDirKnown, PbDirShows
<1>4. PbChildKnown'
    BY <1>1, <1>2 DEF PbInv, PbChildKnown, PbCommandKnown, PbResizeKnown, Asked, Truth
<1>5. PbPlaced'
    BY <1>1, <1>2 DEF PbPlaced, PbDirKnown, PbDirShows, PbDirOwned, InDir
<1> QED BY <1>3, <1>4, <1>5 DEF PbInv

LEMMA NoFacts ==
    ASSUME PbInv, PbStage # "done", Advance({})
    PROVE  PbInv'
<1>1. {} \in SUBSET PbFacts /\ PbTrue(Host, {}, {})
    BY DEF PbTrue
<1> QED BY <1>1, ProbeAdvanceKeeps

LEMMA PbOwn ==
    ASSUME PbInv
    PROVE  pbChild \in PbChildren /\ pbDir \in PbDirectories /\ pb \in PbProcesses
BY DEF PbInv, PbTyped, PbTypedChild, PbTypedDir

(* The child that was started: it runs, and has done nothing.                *)
LEMMA PbStarted ==
    ASSUME NEW c, c = [PbNoChild EXCEPT !.leader = "runs"]
    PROVE  c \in PbChildren /\ c.leader = "runs" /\ PbResizeKnown(c)
<1>1. PbNoChild \in PbChildren /\ PbNoChild.signals = 0 /\ PbNoChild.attempts = 0 /\ PbNoChild.size = "initial"
      /\ PbNoChild.output = "empty" /\ PbNoChild.seen = 0
    BY DEF PbNoChild, PbChildren
<1>2. c \in PbChildren /\ c.leader = "runs" /\ c.signals = 0 /\ c.attempts = 0 /\ c.size = "initial"
      /\ c.output = "empty"
    BY <1>1 DEF PbChildren
<1> QED BY <1>2 DEF PbResizeKnown

LEMMA SpawnCommandKeeps == PbInv /\ SpawnCommand => PbInv'
<1> SUFFICES ASSUME PbInv, SpawnCommand PROVE PbInv'
    OBVIOUS
<1>1. PbStage \in PbCommands /\ PbStage # "done" /\ PbStage # "resize"
    BY DEF SpawnCommand, PbCommands
<1>2. CASE Advance({})
    BY <1>1, <1>2, NoFacts
<1>3. CASE Asked(PbStage) /\ (PbStage \in {"git", "keygen"} => Host.tools)
           /\ Child([PbNoChild EXCEPT !.leader = "runs"])
    <2> DEFINE c == [PbNoChild EXCEPT !.leader = "runs"]
    <2>1. c \in PbChildren /\ c.leader = "runs" /\ Child(c)
        BY <1>3, PbStarted
    <2> HIDE DEF c
    <2>2. PbCommandKnown(PbStage, c)
        BY <1>3, <2>1 DEF PbCommandKnown
    <2> QED BY <1>1, <2>1, <2>2, ChildKeeps
<1> QED BY <1>2, <1>3 DEF SpawnCommand

LEMMA CommandStepsKeep == PbInv /\ (ChildForks \/ ChildExits \/ HelperCloses) => PbInv'
<1> SUFFICES ASSUME PbInv, ChildForks \/ ChildExits \/ HelperCloses PROVE PbInv'
    OBVIOUS
<1>1. pbChild \in PbChildren /\ PbCommandKnown(PbStage, pbChild) /\ (PbStage = "resize" => PbResizeKnown(pbChild))
    BY PbOwn DEF PbInv, PbChildKnown
<1>2. CASE ChildForks
    <2> DEFINE c == [pbChild EXCEPT !.helper = "holds"]
    <2>1. c \in PbChildren /\ c.leader = "runs" /\ Child(c) /\ PbStage \in PbCommands
        BY <1>1, <1>2 DEF ChildForks, PbChildren
    <2> HIDE DEF c
    <2>2. PbCommandKnown(PbStage, c) /\ PbStage # "resize"
        BY <1>1, <1>2, <2>1 DEF PbCommandKnown, ChildForks, PbCommands
    <2> QED BY <2>1, <2>2, ChildKeeps
<1>3. CASE ChildExits
    <2>1. PICK o \in {"whole", "over"} :
             Child([pbChild EXCEPT !.leader = "exited", !.code = IF Truth(PbStage) THEN 0 ELSE 1, !.output = o])
        BY <1>3 DEF ChildExits
    <2> DEFINE k == IF Truth(PbStage) THEN 0 ELSE 1
               c == [pbChild EXCEPT !.leader = "exited", !.code = k, !.output = o]
    <2>2. Child(c) /\ k \in {0, 1} /\ (k = 0 => Truth(PbStage)) /\ PbStage \in PbCommands /\ pbChild.leader = "runs"
        BY <1>3, <2>1 DEF ChildExits
    <2> HIDE DEF k
    <2>3. c \in PbChildren /\ c.leader = "exited" /\ c.code = k
        BY <1>1, <2>2 DEF PbChildren
    <2> HIDE DEF c
    <2>4. PbCommandKnown(PbStage, c) /\ PbStage # "resize"
        BY <1>1, <2>2, <2>3 DEF PbCommandKnown, PbCommands
    <2> QED BY <2>2, <2>3, <2>4, ChildKeeps
<1>4. CASE HelperCloses
    <2>0. PICK h \in {"closed", "none"} : pbChild.helper \notin {"none", h} /\ Child([pbChild EXCEPT !.helper = h])
        BY <1>4 DEF HelperCloses
    <2> DEFINE c == [pbChild EXCEPT !.helper = h]
    <2>1. Child(c) /\ pbChild.helper # "none"
        BY <2>0
    <2>2. pbChild.leader # "none" /\ PbStage \in PbCommands \cup {"resize"}
        BY <2>1 DEF PbInv, PbChildKnown, PbNoChild
    <2>3. c \in PbChildren /\ c.leader = pbChild.leader /\ c.code = pbChild.code /\ c.signals = pbChild.signals
          /\ c.attempts = pbChild.attempts /\ c.seen = pbChild.seen /\ c.size = pbChild.size
          /\ c.output = pbChild.output
        BY <1>1 DEF PbChildren
    <2> HIDE DEF c
    <2>4. PbCommandKnown(PbStage, c) /\ (PbStage = "resize" => PbResizeKnown(c))
        BY <1>1, <2>2, <2>3 DEF PbCommandKnown, PbResizeKnown
    <2> QED BY <2>1, <2>2, <2>3, <2>4, ChildKeeps
<1> QED BY <1>2, <1>3, <1>4

LEMMA BoundedKeeps == PbInv /\ bounded_command_with_stdin => PbInv'
<1> SUFFICES ASSUME PbInv, bounded_command_with_stdin PROVE PbInv'
    OBVIOUS
<1>1. PbStage \in PbCommands /\ PbStage # "done" /\ PbStage # "resize" /\ pbChild.leader # "none"
    BY DEF bounded_command_with_stdin, PbCommands
<1> DEFINE k == kill_group(pbChild)
           t == terminate_group(pbChild)
<1>k. ~InGroup(k) /\ ~InGroup(t)
    BY KilledGroup, PbOwn
<1>2. CASE WayOut("ended", k, {}) \/ WayOut("deadline", t, {}) \/ WayOut("wait", pbChild, {})
    <2> HIDE DEF k, t
    <2>1. {} \in SUBSET PbFacts /\ PbTrue(Host, {}, {})
        BY DEF PbTrue
    <2> QED BY <1>1, <1>2, <1>k, <2>1, WayOutKeeps
<1>3. CASE pbChild.leader = "exited" /\ (pbChild.code = 0 \/ PbStage \in {"git", "keygen"})
           /\ WayOut("ended", k, Learnt(PbStage))
    <2>1. Asked(PbStage) /\ (PbStage \in {"git", "keygen"} => Host.tools) /\ (pbChild.code = 0 => Truth(PbStage))
        BY <1>1, <1>3 DEF PbInv, PbChildKnown, PbCommandKnown
    <2> DEFINE f == Learnt(PbStage)
    <2>2. f \in SUBSET PbFacts
        BY <1>1 DEF Learnt, PbCommands, PbFacts
    <2>3. PbTrue(Host, f, {})
        <3>1. CASE PbStage = "version"
            BY <3>1, <1>3, <2>1 DEF Learnt, PbTrue, Truth
        <3>2. CASE PbStage = "capabilities"
            BY <3>2, <1>3, <2>1 DEF Learnt, PbTrue, Truth
        <3>3. CASE PbStage = "size"
            BY <3>3, <1>3, <2>1 DEF Learnt, PbTrue, Truth, Asked
        <3>4. CASE PbStage \in {"git", "keygen"}
            BY <3>4, <1>3, <2>1 DEF Learnt, PbTrue
        <3> QED BY <1>1, <3>1, <3>2, <3>3, <3>4 DEF PbCommands
    <2> HIDE DEF k, t
    <2> QED BY <1>1, <1>3, <1>k, <2>2, <2>3, WayOutKeeps
<1> QED BY <1>2, <1>3 DEF bounded_command_with_stdin

LEMMA SpawnHelperKeeps == PbInv /\ SpawnHelper => PbInv'
<1> SUFFICES ASSUME PbInv, SpawnHelper PROVE PbInv'
    OBVIOUS
<1>1. PbStage = "resize" /\ PbStage \notin PbCommands
    BY DEF SpawnHelper, PbCommands
<1>2. CASE Advance({})
    BY <1>1, <1>2, NoFacts
<1>3. CASE Child([PbNoChild EXCEPT !.leader = "runs"])
    <2> DEFINE c == [PbNoChild EXCEPT !.leader = "runs"]
    <2>1. c \in PbChildren /\ c.leader = "runs" /\ Child(c) /\ PbResizeKnown(c)
        BY <1>3, PbStarted
    <2> HIDE DEF c
    <2>2. PbCommandKnown(PbStage, c)
        BY <1>1 DEF PbCommandKnown
    <2> QED BY <1>1, <2>1, <2>2, ChildKeeps
<1> QED BY <1>2, <1>3 DEF SpawnHelper

(* A step of the helper that leaves its signals, sizes and attempts alone.   *)
LEMMA HelperStepsKeep == PbInv /\ (HelperReady \/ HelperForeground \/ HelperEnds) => PbInv'
<1> SUFFICES ASSUME PbInv, HelperReady \/ HelperForeground \/ HelperEnds PROVE PbInv'
    OBVIOUS
<1>1. pbChild \in PbChildren /\ PbResizeKnown(pbChild) /\ PbStage = "resize" /\ PbStage \notin PbCommands
    BY PbOwn DEF PbInv, PbChildKnown, HelperReady, HelperForeground, HelperEnds, PbCommands
<1>2. \E c \in PbChildren :
         /\ Child(c) /\ c.leader # "none" /\ c.signals = pbChild.signals /\ c.attempts = pbChild.attempts
         /\ c.seen = pbChild.seen /\ c.size = pbChild.size
         /\ c.output = pbChild.output \/ c.output = "ready"
    <2>1. CASE HelperReady
        <3> DEFINE c == [pbChild EXCEPT !.output = "ready"]
        <3>1. Child(c) /\ pbChild.leader = "runs"
            BY <2>1 DEF HelperReady
        <3>2. c \in PbChildren /\ c.leader # "none" /\ c.signals = pbChild.signals /\ c.attempts = pbChild.attempts
              /\ c.seen = pbChild.seen /\ c.size = pbChild.size /\ c.output = "ready"
            BY <1>1, <3>1 DEF PbChildren
        <3> QED BY <3>1, <3>2
    <2>2. CASE HelperForeground
        <3> DEFINE c == [pbChild EXCEPT !.foreground = TRUE]
        <3>1. Child(c) /\ pbChild.leader = "runs"
            BY <2>2 DEF HelperForeground
        <3>2. c \in PbChildren /\ c.leader # "none" /\ c.signals = pbChild.signals /\ c.attempts = pbChild.attempts
              /\ c.seen = pbChild.seen /\ c.size = pbChild.size /\ c.output = pbChild.output
            BY <1>1, <3>1 DEF PbChildren
        <3> QED BY <3>1, <3>2
    <2>3. CASE HelperEnds
        <3> DEFINE k == 0
                   c == [pbChild EXCEPT !.leader = "exited", !.code = k]
        <3>1. Child(c) /\ k \in {0, 1}
            BY <2>3 DEF HelperEnds
        <3> HIDE DEF k
        <3>2. c \in PbChildren /\ c.leader # "none" /\ c.signals = pbChild.signals /\ c.attempts = pbChild.attempts
              /\ c.seen = pbChild.seen /\ c.size = pbChild.size /\ c.output = pbChild.output
            BY <1>1, <3>1 DEF PbChildren
        <3> QED BY <3>1, <3>2
    <2> QED BY <2>1, <2>2, <2>3
<1>3. PICK c \in PbChildren :
         /\ Child(c) /\ c.leader # "none" /\ c.signals = pbChild.signals /\ c.attempts = pbChild.attempts
         /\ c.seen = pbChild.seen /\ c.size = pbChild.size
         /\ c.output = pbChild.output \/ c.output = "ready"
    BY <1>2
<1>4. PbResizeKnown(c) /\ PbCommandKnown(PbStage, c)
    BY <1>1, <1>3 DEF PbResizeKnown, PbCommandKnown
<1> QED BY <1>1, <1>3, <1>4, ChildKeeps

LEMMA SignalledChild ==
    ASSUME NEW c \in PbChildren, NEW s \in Signalled(c)
    PROVE  /\ s \in PbChildren /\ s.leader = c.leader /\ s.size = c.size /\ s.signals = c.signals
           /\ s.attempts = c.attempts /\ s.seen = c.seen
           /\ s.output \in {"winch", "twice"} => Host.resizes \/ c.output \in {"winch", "twice"}
<1>1. \/ s = c
      \/ c.foreground /\ Host.resizes /\ s = [c EXCEPT !.output = "winch"]
      \/ c.foreground /\ Host.resizes /\ s = [c EXCEPT !.output = "twice"]
    BY DEF Signalled
<1>2. CASE s = c
    BY <1>2
<1>3. CASE Host.resizes /\ s = [c EXCEPT !.output = "winch"]
    BY <1>3 DEF PbChildren
<1>4. CASE Host.resizes /\ s = [c EXCEPT !.output = "twice"]
    BY <1>4 DEF PbChildren
<1> QED BY <1>1, <1>2, <1>3, <1>4

(* A size that is set: nothing for the same, one signal for another.         *)
LEMMA WindowSet ==
    ASSUME NEW c \in PbChildren, NEW size \in {"resized", "retry"}, NEW r \in tcsetwinsize(c, size)
    PROVE  /\ r \in PbChildren /\ r.leader = c.leader /\ r.attempts = c.attempts /\ r.seen = c.seen
           /\ r.size = size
           /\ r.signals = IF size = c.size THEN c.signals ELSE c.signals + 1
           /\ r.output \in {"winch", "twice"} => Host.resizes \/ c.output \in {"winch", "twice"}
<1>1. CASE size = c.size
    BY <1>1 DEF tcsetwinsize
<1>2. CASE size # c.size
    <2>1. PICK s \in Signalled(c) : r = [s EXCEPT !.size = size, !.signals = @ + 1]
        BY <1>2 DEF tcsetwinsize
    <2> DEFINE n == s.signals + 1
    <2>2. /\ s \in PbChildren /\ s.leader = c.leader /\ s.signals = c.signals
          /\ s.attempts = c.attempts /\ s.seen = c.seen
          /\ s.output \in {"winch", "twice"} => Host.resizes \/ c.output \in {"winch", "twice"}
        BY SignalledChild
    <2>3. n \in Nat /\ n = c.signals + 1 /\ r = [s EXCEPT !.size = size, !.signals = n]
        BY <2>1, <2>2 DEF PbChildren
    <2> HIDE DEF n
    <2>4. r \in PbChildren /\ r.leader = s.leader /\ r.attempts = s.attempts /\ r.seen = s.seen
          /\ r.size = size /\ r.signals = n /\ r.output = s.output
        BY <2>2, <2>3 DEF PbChildren
    <2> QED BY <1>2, <2>2, <2>3, <2>4
<1> QED BY <1>1, <1>2

LEMMA AttemptKeeps == PbInv /\ ResizeAttempt => PbInv'
<1> SUFFICES ASSUME PbInv, ResizeAttempt PROVE PbInv'
    OBVIOUS
<1> DEFINE a == pbChild.attempts + 1
           c == [pbChild EXCEPT !.attempts = a]
           size == IF pbChild.attempts % 2 = 0 THEN "resized" ELSE "retry"
<1>1. pbChild \in PbChildren /\ PbResizeKnown(pbChild) /\ PbStage = "resize" /\ PbStage \notin PbCommands
    BY PbOwn DEF PbInv, PbChildKnown, ResizeAttempt, PbCommands
<1>2. pbChild.output # "empty" /\ pbChild.seen = 0 /\ pbChild.leader # "none"
    BY DEF ResizeAttempt, PbInv, PbChildKnown, PbNoChild
<1>3. PICK r \in tcsetwinsize(c, size) : Child(r)
    BY DEF ResizeAttempt
<1>4. a \in Nat /\ a = pbChild.attempts + 1 /\ size \in {"resized", "retry"}
      /\ (size = "resized" <=> a % 2 = 1) /\ a # 0
    BY <1>1 DEF PbChildren
<1>5. size # pbChild.size
    BY <1>1, <1>2, <1>4 DEF PbResizeKnown, PbChildren
<1> HIDE DEF a, size
<1>6. c \in PbChildren /\ c.leader = pbChild.leader /\ c.attempts = a /\ c.seen = 0 /\ c.size = pbChild.size
      /\ c.signals = pbChild.signals /\ c.output = pbChild.output
    BY <1>1, <1>2, <1>4 DEF PbChildren
<1> HIDE DEF c
<1>7. /\ r \in PbChildren /\ r.leader # "none" /\ r.attempts = a /\ r.seen = 0 /\ r.size = size
      /\ r.signals = pbChild.signals + 1
      /\ r.output \in {"winch", "twice"} => Host.resizes \/ pbChild.output \in {"winch", "twice"}
    BY <1>2, <1>3, <1>4, <1>5, <1>6, WindowSet
<1>8. PbResizeKnown(r)
    BY <1>1, <1>4, <1>7 DEF PbResizeKnown
<1>9. PbCommandKnown(PbStage, r)
    BY <1>1 DEF PbCommandKnown
<1> QED BY <1>1, <1>3, <1>7, <1>8, <1>9, ChildKeeps

LEMMA ObservedKeeps == PbInv /\ ResizeObserved => PbInv'
<1> SUFFICES ASSUME PbInv, ResizeObserved PROVE PbInv'
    OBVIOUS
<1> DEFINE a == IF pbChild.size = "resized" THEN pbChild.attempts ELSE pbChild.attempts + 1
           one == 1
           c == [pbChild EXCEPT !.seen = one, !.attempts = a]
<1>1. pbChild \in PbChildren /\ PbResizeKnown(pbChild) /\ PbStage = "resize" /\ PbStage \notin PbCommands
    BY PbOwn DEF PbInv, PbChildKnown, ResizeObserved, PbCommands
<1>2. pbChild.output \in {"winch", "twice"} /\ pbChild.leader # "none"
    BY DEF ResizeObserved, PbInv, PbChildKnown, PbNoChild
<1>3. PICK r \in tcsetwinsize(c, "resized") : Child(r)
    BY DEF ResizeObserved
<1>4. a \in Nat /\ a = (IF pbChild.size = "resized" THEN pbChild.attempts ELSE pbChild.attempts + 1) /\ one = 1
    BY <1>1 DEF PbChildren
<1> HIDE DEF a, one
<1>6. c \in PbChildren /\ c.leader = pbChild.leader /\ c.attempts = a /\ c.seen = one /\ c.size = pbChild.size
      /\ c.signals = pbChild.signals /\ c.output = pbChild.output
    BY <1>1, <1>2, <1>4 DEF PbChildren
<1> HIDE DEF c
<1>7. /\ r \in PbChildren /\ r.leader # "none" /\ r.attempts = a /\ r.seen = 1
      /\ r.signals = IF "resized" = pbChild.size THEN pbChild.signals ELSE pbChild.signals + 1
    BY <1>2, <1>3, <1>4, <1>6, WindowSet
<1>8. PbResizeKnown(r)
    BY <1>1, <1>2, <1>4, <1>7 DEF PbResizeKnown
<1>9. PbCommandKnown(PbStage, r)
    BY <1>1 DEF PbCommandKnown
<1> QED BY <1>1, <1>3, <1>7, <1>8, <1>9, ChildKeeps

LEMMA RunResizeKeeps == PbInv /\ run_resize_probe => PbInv'
<1> SUFFICES ASSUME PbInv, run_resize_probe PROVE PbInv'
    OBVIOUS
<1>1. PbStage = "resize" /\ PbResizeKnown(pbChild)
    BY DEF run_resize_probe, PbInv, PbChildKnown
<1> DEFINE k == kill_group(pbChild)
           t == terminate_group(pbChild)
<1>k. ~InGroup(k) /\ ~InGroup(t)
    BY KilledGroup, PbOwn
<1>2. CASE WayOut("ended", k, {}) \/ WayOut("deadline", t, {})
    <2> HIDE DEF k, t
    <2>1. {} \in SUBSET PbFacts /\ PbTrue(Host, {}, {})
        BY DEF PbTrue
    <2> QED BY <1>1, <1>2, <1>k, <2>1, WayOutKeeps
<1>3. CASE pbChild.output = "winch" /\ WayOut("ended", k, {"resize"})
    <2>1. {"resize"} \in SUBSET PbFacts /\ PbTrue(Host, {"resize"}, {})
        BY <1>1, <1>3 DEF PbFacts, PbTrue, PbResizeKnown
    <2> HIDE DEF k, t
    <2> QED BY <1>1, <1>3, <1>k, <2>1, WayOutKeeps
<1> QED BY <1>2, <1>3 DEF run_resize_probe

(* The directory as a step leaves it: at a place, with d's other parts.      *)
LEMMA DirMoves ==
    ASSUME PbInv, InDir, NEW place \in PbPlaces \ {"none"}, NEW d \in PbDirectories, Dir(place, d), Host.dirs,
           PbDirShows(place, d), PbDirOwned(place, d)
    PROVE  PbInv'
<1> DEFINE e == [d EXCEPT !.at = place]
<1>1. e = [d EXCEPT !.at = place]
    OBVIOUS
<1>2. e \in PbDirectories /\ e.at = place /\ e.name = d.name /\ e.moved = d.moved /\ e.created = d.created
      /\ e.held = d.held /\ e.exact = d.exact /\ e.ran = d.ran /\ e.rename = d.rename /\ e.exec = d.exec
      /\ e.clean = d.clean
    BY DEF PbDirectories
<1> HIDE DEF e
<1>3. PbDirKnown(e)
    BY <1>2 DEF PbDirKnown, PbDirShows, PbDirOwned
<1> QED BY <1>1, <1>2, <1>3, DirKeeps

LEMMA DirOwn ==
    ASSUME PbInv, InDir, pbDir.at # "none"
    PROVE  /\ pbDir \in PbDirectories /\ Host.dirs /\ PbDirShows(pbDir.at, pbDir) /\ PbDirOwned(pbDir.at, pbDir)
           /\ PbStage # "done"
BY PbOwn DEF PbInv, PbPlaced, PbDirKnown, InDir

(* A change of the place alone, to one about which nothing more is known.    *)
LEMMA DirOnly ==
    ASSUME PbInv, InDir, pbDir.at \notin {"none", "made", "removed"}, NEW place \in PbPlaces, Dir(place, pbDir),
           place \notin {"none", "made", "exact", "ran", "unlink", "rmdir", "removed"}
    PROVE  PbInv'
<1>1. PbDirShows(place, pbDir) /\ PbDirOwned(place, pbDir)
    BY DirOwn DEF PbDirShows, PbDirOwned
<1> QED BY <1>1, DirOwn, DirMoves

(* A change of what is in the directory only.                                *)
SameKnown(d) ==
    /\ d \in PbDirectories /\ d.name = pbDir.name /\ d.moved = pbDir.moved /\ d.created = pbDir.created
    /\ d.ran = pbDir.ran /\ d.exec = pbDir.exec
LEMMA DirInside ==
    ASSUME PbInv, InDir, pbDir.at \notin {"none", "made", "removed"}, NEW place \in PbPlaces, NEW d, Dir(place, d),
           place \notin {"none", "made", "exact", "ran", "unlink", "rmdir", "removed"},
           SameKnown(d), d.rename => Host.rename
    PROVE  PbInv'
<1>1. PbDirShows(place, d) /\ PbDirOwned(place, d)
    BY DirOwn DEF PbDirShows, PbDirOwned, SameKnown
<1> QED BY <1>1, DirOwn, DirMoves DEF SameKnown

LEMMA CreateKeeps == PbInv /\ create_with_hook => PbInv'
<1> SUFFICES ASSUME PbInv, create_with_hook PROVE PbInv'
    OBVIOUS
<1>1. InDir /\ PbStage # "done" /\ pbDir = PbNoDir
    BY DEF create_with_hook, InDir, PbInv, PbPlaced, PbDirKnown
<1>2. CASE Advance({})
    BY <1>1, <1>2, NoFacts
<1>3. CASE Host.dirs /\ Dir("made", [pbDir EXCEPT !.name = "ours"])
    <2> DEFINE d == [pbDir EXCEPT !.name = "ours"]
    <2>1. pbDir \in PbDirectories /\ ~pbDir.rename /\ ~pbDir.exec /\ pbDir.ran = PbNone /\ pbDir.moved = "unmoved"
        BY <1>1, PbNothing DEF PbNoDir
    <2>2. d \in PbDirectories /\ ~d.rename /\ ~d.exec /\ d.ran = PbNone /\ d.moved = "unmoved" /\ d.name = "ours"
          /\ Dir("made", d)
        BY <1>3, <2>1 DEF PbDirectories, PbFiles
    <2> HIDE DEF d
    <2>3. PbDirShows("made", d) /\ PbDirOwned("made", d)
        BY <2>2, PbNot DEF PbDirShows, PbDirOwned
    <2> QED BY <1>1, <1>3, <2>2, <2>3, DirMoves DEF PbPlaces
<1> QED BY <1>2, <1>3 DEF create_with_hook

LEMMA StatKeeps == PbInv /\ StatCreated => PbInv'
<1> SUFFICES ASSUME PbInv, StatCreated PROVE PbInv'
    OBVIOUS
<1>1. InDir /\ pbDir.at = "made"
    BY DEF StatCreated
<1>2. CASE Advance({})
    BY <1>1, <1>2, NoFacts, DirOwn
<1>3. CASE Dir("seen", [pbDir EXCEPT !.created = pbDir.name])
    <2> DEFINE c == pbDir.name
               d == [pbDir EXCEPT !.created = c]
    <2>1. Dir("seen", d) /\ c \in PbFiles /\ c = pbDir.name
        BY <1>3, PbOwn DEF PbDirectories
    <2> HIDE DEF c
    <2>2. d \in PbDirectories /\ d.rename = pbDir.rename /\ d.exec = pbDir.exec /\ d.ran = pbDir.ran
          /\ d.name = pbDir.name /\ d.moved = pbDir.moved /\ d.created = c
        BY <2>1, PbOwn DEF PbDirectories
    <2> HIDE DEF d
    <2>3. PbDirShows("seen", d) /\ PbDirOwned("seen", d)
        BY <1>1, <2>1, <2>2, DirOwn DEF PbDirShows, PbDirOwned
    <2> QED BY <1>1, <2>1, <2>2, <2>3, DirOwn, DirMoves DEF PbPlaces
<1> QED BY <1>2, <1>3 DEF StatCreated

LEMMA OpenCreatedKeeps == PbInv /\ OpenCreated => PbInv'
<1> SUFFICES ASSUME PbInv, OpenCreated PROVE PbInv'
    OBVIOUS
<1>1. InDir /\ pbDir.at = "seen"
    BY DEF OpenCreated
<1>2. CASE Advance({})
    BY <1>1, <1>2, NoFacts, DirOwn
<1>3. CASE Dir("empty", pbDir)
    BY <1>1, <1>3, DirOnly DEF PbPlaces
<1> QED BY <1>2, <1>3 DEF OpenCreated

LEMMA PrepareKeeps == PbInv /\ prepare_destination_with => PbInv'
<1> SUFFICES ASSUME PbInv, prepare_destination_with PROVE PbInv'
    OBVIOUS
<1>1. InDir /\ pbDir.at = "empty"
    BY DEF prepare_destination_with
<1>2. CASE Dir("swept", pbDir)
    BY <1>1, <1>2, DirOnly DEF PbPlaces
<1>3. CASE Dir("unheld", [pbDir EXCEPT !.source = "ours"])
    <2> DEFINE d == [pbDir EXCEPT !.source = "ours"]
    <2>1. Dir("unheld", d)
        BY <1>3
    <2>2. SameKnown(d) /\ d.rename = pbDir.rename
        BY PbOwn DEF PbDirectories, PbFiles, SameKnown
    <2> HIDE DEF d
    <2> QED BY <1>1, <2>1, <2>2, DirOwn, DirInside DEF PbPlaces, PbDirShows
<1>4. CASE Dir("written", [pbDir EXCEPT !.source = "ours", !.writable = TRUE])
    <2> DEFINE d == [pbDir EXCEPT !.source = "ours", !.writable = TRUE]
    <2>1. Dir("written", d)
        BY <1>4
    <2>2. SameKnown(d) /\ d.rename = pbDir.rename
        BY PbOwn DEF PbDirectories, PbFiles, SameKnown
    <2> HIDE DEF d
    <2> QED BY <1>1, <2>1, <2>2, DirOwn, DirInside DEF PbPlaces, PbDirShows
<1> QED BY <1>2, <1>3, <1>4 DEF prepare_destination_with

LEMMA RenameKeeps == PbInv /\ RenameSource => PbInv'
<1> SUFFICES ASSUME PbInv, RenameSource PROVE PbInv'
    OBVIOUS
<1>1. InDir /\ pbDir.at = "written"
    BY DEF RenameSource
<1>2. CASE Dir("renamed", pbDir)
    BY <1>1, <1>2, DirOnly DEF PbPlaces
<1>3. CASE /\ Host.rename
           /\ Dir("renamed", [pbDir EXCEPT !.destination = pbDir.source, !.source = PbNone, !.rename = TRUE])
    <2> DEFINE f == pbDir.source
               d == [pbDir EXCEPT !.destination = f, !.source = PbNone, !.rename = TRUE]
    <2>1. Dir("renamed", d) /\ f \in PbFiles
        BY <1>3, PbOwn DEF PbDirectories
    <2> HIDE DEF f
    <2>2. SameKnown(d)
        BY <2>1, PbOwn DEF PbDirectories, PbFiles, SameKnown
    <2> HIDE DEF d
    <2> QED BY <1>1, <1>3, <2>1, <2>2, DirInside DEF PbPlaces
<1> QED BY <1>2, <1>3 DEF RenameSource

LEMMA HoldKeeps == PbInv /\ HoldArtifact => PbInv'
<1> SUFFICES ASSUME PbInv, HoldArtifact PROVE PbInv'
    OBVIOUS
<1>1. InDir /\ pbDir.at = "renamed"
    BY DEF HoldArtifact
<1>2. CASE Dir(IF pbDir.rename THEN "held" ELSE "match", [pbDir EXCEPT !.held = FileName(pbDir)])
    <2> DEFINE place == IF pbDir.rename THEN "held" ELSE "match"
               h == FileName(pbDir)
               d == [pbDir EXCEPT !.held = h]
    <2>1. Dir(place, d) /\ place \in {"held", "match"} /\ h \in {"source", "destination"}
        BY <1>2 DEF FileName
    <2> HIDE DEF h, place
    <2>2. SameKnown(d) /\ d.rename = pbDir.rename
        BY <2>1, PbOwn DEF PbDirectories, SameKnown
    <2> HIDE DEF d
    <2> QED BY <1>1, <2>1, <2>2, DirOwn, DirInside DEF PbPlaces, PbDirShows
<1>3. CASE Dir("unheld", pbDir)
    BY <1>1, <1>3, DirOnly DEF PbPlaces
<1> QED BY <1>2, <1>3 DEF HoldArtifact

LEMMA UnheldKeeps == PbInv /\ (MatchUnheld \/ UnlinkUnheld) => PbInv'
<1> SUFFICES ASSUME PbInv, MatchUnheld \/ UnlinkUnheld PROVE PbInv'
    OBVIOUS
<1>1. InDir /\ pbDir.at \in {"unheld", "drop"}
    BY DEF MatchUnheld, UnlinkUnheld
<1>2. CASE Dir("drop", pbDir) \/ Dir("swept", pbDir)
    BY <1>1, <1>2, DirOnly DEF PbPlaces
<1>3. CASE Dir("swept", [pbDir EXCEPT ![FileName(pbDir)] = PbNone])
    <2> DEFINE h == FileName(pbDir)
               d == [pbDir EXCEPT ![h] = PbNone]
    <2>1. Dir("swept", d) /\ h \in {"source", "destination"}
        BY <1>3 DEF FileName
    <2>2. SameKnown(d) /\ d.rename = pbDir.rename
        <3>1. CASE h = "source"
            <4>1. d = [pbDir EXCEPT !.source = PbNone]
                BY <3>1
            <4> HIDE DEF d
            <4> QED BY <4>1, PbOwn DEF PbDirectories, PbFiles, SameKnown
        <3>2. CASE h = "destination"
            <4>1. d = [pbDir EXCEPT !.destination = PbNone]
                BY <3>2
            <4> HIDE DEF d
            <4> QED BY <4>1, PbOwn DEF PbDirectories, PbFiles, SameKnown
        <3> QED BY <2>1, <3>1, <3>2
    <2> HIDE DEF d
    <2> QED BY <1>1, <2>1, <2>2, DirOwn, DirInside DEF PbPlaces, PbDirShows
<1> QED BY <1>2, <1>3 DEF MatchUnheld, UnlinkUnheld

(* The program: what is compared is the descriptor that is run.              *)
LEMMA ExecuteKeeps == PbInv /\ (executable_probe_with_hook \/ OpenExact \/ RunExact) => PbInv'
<1> SUFFICES ASSUME PbInv, executable_probe_with_hook \/ OpenExact \/ RunExact PROVE PbInv'
    OBVIOUS
<1>1. InDir /\ pbDir.at \in {"held", "programmed", "exact"}
    BY DEF executable_probe_with_hook, OpenExact, RunExact
<1>2. CASE Dir("match", pbDir) \/ Dir("programmed", pbDir)
    BY <1>1, <1>2, DirOnly DEF PbPlaces
<1>3. CASE pbDir.destination = "ours" /\ Dir("exact", [pbDir EXCEPT !.exact = pbDir.destination])
    <2> DEFINE x == pbDir.destination
               d == [pbDir EXCEPT !.exact = x]
    <2>1. Dir("exact", d) /\ x = "ours" /\ x \in PbFiles
        BY <1>3 DEF PbFiles
    <2> HIDE DEF x
    <2>2. SameKnown(d) /\ d.rename = pbDir.rename /\ d.exact = x
        BY <2>1, PbOwn DEF PbDirectories, SameKnown
    <2> HIDE DEF d
    <2>3. PbDirShows("exact", d) /\ PbDirOwned("exact", d)
        BY <1>1, <2>1, <2>2, DirOwn DEF PbDirShows, PbDirOwned, SameKnown
    <2> QED BY <1>1, <2>1, <2>2, <2>3, DirOwn, DirMoves DEF PbPlaces, SameKnown
<1>4. CASE pbDir.at = "exact" /\ Host.executes /\ Dir("ran", [pbDir EXCEPT !.ran = pbDir.exact])
    <2> DEFINE x == pbDir.exact
               d == [pbDir EXCEPT !.ran = x]
    <2>1. Dir("ran", d) /\ x = "ours" /\ x \in PbFiles
        BY <1>1, <1>4, DirOwn DEF PbDirShows, PbFiles
    <2> HIDE DEF x
    <2>2. d \in PbDirectories /\ d.rename = pbDir.rename /\ d.exec = pbDir.exec /\ d.ran = x
          /\ d.name = pbDir.name /\ d.moved = pbDir.moved /\ d.created = pbDir.created
        BY <2>1, PbOwn DEF PbDirectories
    <2> HIDE DEF d
    <2>3. PbDirShows("ran", d) /\ PbDirOwned("ran", d)
        BY <1>1, <1>4, <2>1, <2>2, DirOwn DEF PbDirShows, PbDirOwned
    <2> QED BY <1>1, <2>1, <2>2, <2>3, DirOwn, DirMoves DEF PbPlaces
<1> QED BY <1>2, <1>3, <1>4 DEF executable_probe_with_hook, OpenExact, RunExact

LEMMA AfterRunKeeps == PbInv /\ AfterRun => PbInv'
<1> SUFFICES ASSUME PbInv, AfterRun PROVE PbInv'
    OBVIOUS
<1> DEFINE x == (pbDir.destination = "ours")
           d == [pbDir EXCEPT !.exec = x]
<1>1. InDir /\ pbDir.at = "ran" /\ Dir("match", d) /\ x \in BOOLEAN
    BY DEF AfterRun
<1> HIDE DEF x
<1>2. d \in PbDirectories /\ d.rename = pbDir.rename /\ d.ran = pbDir.ran
      /\ d.name = pbDir.name /\ d.moved = pbDir.moved /\ d.created = pbDir.created
    BY <1>1, PbOwn DEF PbDirectories
<1> HIDE DEF d
<1>3. PbDirShows("match", d) /\ PbDirOwned("match", d)
    BY <1>1, <1>2, DirOwn DEF PbDirShows, PbDirOwned
<1> QED BY <1>1, <1>2, <1>3, DirOwn, DirMoves DEF PbPlaces

LEMMA MatchKeeps == PbInv /\ MatchArtifact => PbInv'
<1> SUFFICES ASSUME PbInv, MatchArtifact PROVE PbInv'
    OBVIOUS
<1>1. InDir /\ pbDir.at = "match"
    BY DEF MatchArtifact
<1>2. CASE pbDir.held # PbNone /\ Dir("unlink", pbDir)
    <2>1. PbDirShows("unlink", pbDir) /\ PbDirOwned("unlink", pbDir)
        BY <1>1, <1>2, DirOwn DEF PbDirShows, PbDirOwned
    <2> QED BY <1>1, <1>2, <2>1, DirOwn, DirMoves DEF PbPlaces
<1>3. CASE Dir("swept", pbDir)
    BY <1>1, <1>3, DirOnly DEF PbPlaces
<1>4. CASE Dir("swept", [pbDir EXCEPT !.clean = FALSE])
    <2> DEFINE d == [pbDir EXCEPT !.clean = FALSE]
    <2>1. Dir("swept", d)
        BY <1>4
    <2>2. SameKnown(d) /\ d.rename = pbDir.rename
        BY PbOwn DEF PbDirectories, SameKnown
    <2> HIDE DEF d
    <2> QED BY <1>1, <2>1, <2>2, DirOwn, DirInside DEF PbPlaces, PbDirShows
<1> QED BY <1>2, <1>3, <1>4 DEF MatchArtifact

LEMMA UnlinkKeeps == PbInv /\ UnlinkArtifact => PbInv'
<1> SUFFICES ASSUME PbInv, UnlinkArtifact PROVE PbInv'
    OBVIOUS
<1>1. InDir /\ pbDir.at = "unlink" /\ pbDir.held \in {"source", "destination"}
    BY DirOwn DEF UnlinkArtifact, PbDirectories, PbDirShows
<1>2. CASE Dir("swept", [pbDir EXCEPT !.clean = @ /\ pbDir[pbDir.held] # PbNone, ![pbDir.held] = PbNone])
    <2> DEFINE h == pbDir.held
               k == (pbDir.clean /\ pbDir[h] # PbNone)
               d == [pbDir EXCEPT !.clean = k, ![h] = PbNone]
    <2>1. Dir("swept", d) /\ k \in BOOLEAN /\ h \in {"source", "destination"}
        BY <1>1, <1>2, DirOwn DEF PbDirectories
    <2> HIDE DEF k
    <2>2. SameKnown(d) /\ d.rename = pbDir.rename
        <3>1. CASE h = "source"
            <4>1. d = [pbDir EXCEPT !.clean = k, !.source = PbNone]
                BY <3>1
            <4> HIDE DEF d
            <4> QED BY <4>1, <2>1, PbOwn DEF PbDirectories, PbFiles, SameKnown
        <3>2. CASE h = "destination"
            <4>1. d = [pbDir EXCEPT !.clean = k, !.destination = PbNone]
                BY <3>2
            <4> HIDE DEF d
            <4> QED BY <4>1, <2>1, PbOwn DEF PbDirectories, PbFiles, SameKnown
        <3> QED BY <2>1, <3>1, <3>2
    <2> HIDE DEF d
    <2> QED BY <1>1, <2>1, <2>2, DirOwn, DirInside DEF PbPlaces, PbDirShows
<1>3. CASE Dir("swept", [pbDir EXCEPT !.clean = FALSE])
    <2> DEFINE d == [pbDir EXCEPT !.clean = FALSE]
    <2>1. Dir("swept", d)
        BY <1>3
    <2>2. SameKnown(d) /\ d.rename = pbDir.rename
        BY PbOwn DEF PbDirectories, SameKnown
    <2> HIDE DEF d
    <2> QED BY <1>1, <2>1, <2>2, DirOwn, DirInside DEF PbPlaces, PbDirShows
<1> QED BY <1>2, <1>3 DEF UnlinkArtifact

(* The last look: the name gives the directory of the first one.             *)
LEMMA LookKeeps == PbInv /\ MatchDirectory => PbInv'
<1> SUFFICES ASSUME PbInv, MatchDirectory PROVE PbInv'
    OBVIOUS
<1>1. InDir /\ pbDir.at = "swept"
    BY DEF MatchDirectory
<1>2. CASE pbDir.name = pbDir.created /\ Dir("rmdir", pbDir)
    <2>1. PbDirShows("rmdir", pbDir) /\ PbDirOwned("rmdir", pbDir)
        BY <1>1, <1>2, DirOwn DEF PbDirShows, PbDirOwned
    <2> QED BY <1>1, <1>2, <2>1, DirOwn, DirMoves DEF PbPlaces
<1>3. CASE Dir("removed", [pbDir EXCEPT !.clean = FALSE])
    <2> DEFINE d == [pbDir EXCEPT !.clean = FALSE]
    <2>1. Dir("removed", d)
        BY <1>3
    <2>2. SameKnown(d) /\ d.rename = pbDir.rename /\ ~d.clean
        BY PbOwn DEF PbDirectories, SameKnown
    <2> HIDE DEF d
    <2>3. PbDirShows("removed", d) /\ PbDirOwned("removed", d)
        BY <1>1, <2>2, DirOwn DEF PbDirShows, PbDirOwned, SameKnown
    <2> QED BY <1>1, <2>1, <2>2, <2>3, DirOwn, DirMoves DEF PbPlaces, SameKnown
<1> QED BY <1>2, <1>3 DEF MatchDirectory

LEMMA RemoveKeeps == PbInv /\ RemoveDirectory => PbInv'
<1> SUFFICES ASSUME PbInv, RemoveDirectory PROVE PbInv'
    OBVIOUS
<1>1. InDir /\ pbDir.at = "rmdir"
    BY DEF RemoveDirectory
<1>2. CASE Dir("removed", [pbDir EXCEPT !.name = PbNone])
    <2> DEFINE d == [pbDir EXCEPT !.name = PbNone]
    <2>1. Dir("removed", d)
        BY <1>2
    <2>2. d \in PbDirectories /\ d.rename = pbDir.rename /\ d.exec = pbDir.exec /\ d.ran = pbDir.ran
          /\ d.name = PbNone /\ d.moved = pbDir.moved /\ d.created = pbDir.created
        BY PbOwn DEF PbDirectories, PbFiles
    <2> HIDE DEF d
    <2>3. PbDirShows("removed", d) /\ PbDirOwned("removed", d)
        BY <1>1, <2>2, DirOwn, PbNot DEF PbDirShows, PbDirOwned
    <2> QED BY <1>1, <2>1, <2>2, <2>3, DirOwn, DirMoves DEF PbPlaces
<1>3. CASE Dir("removed", [pbDir EXCEPT !.clean = FALSE])
    <2> DEFINE d == [pbDir EXCEPT !.clean = FALSE]
    <2>1. Dir("removed", d)
        BY <1>3
    <2>2. SameKnown(d) /\ d.rename = pbDir.rename /\ ~d.clean
        BY PbOwn DEF PbDirectories, SameKnown
    <2> HIDE DEF d
    <2>3. PbDirShows("removed", d) /\ PbDirOwned("removed", d)
        BY <1>1, <2>2, DirOwn DEF PbDirShows, PbDirOwned, SameKnown
    <2> QED BY <1>1, <2>1, <2>2, <2>3, DirOwn, DirMoves DEF PbPlaces, SameKnown
<1> QED BY <1>2, <1>3 DEF RemoveDirectory

LEMMA SwapsKeep == PbInv /\ (SwapFile \/ SwapDirectory) => PbInv'
<1> SUFFICES ASSUME PbInv, SwapFile \/ SwapDirectory PROVE PbInv'
    OBVIOUS
<1>1. InDir /\ pbDir.at \notin {"none", "removed"} /\ pbDir.at \in PbPlaces
    BY PbOwn DEF SwapFile, SwapDirectory, PbDirectories
<1>2. CASE SwapFile
    <2>1. PICK n \in {"source", "destination"} :
             Dir(pbDir.at, [pbDir EXCEPT ![n] = "foreign", !.aside = {"ours"}])
        BY <1>2 DEF SwapFile
    <2> DEFINE a == {"ours"}
               d == [pbDir EXCEPT ![n] = "foreign", !.aside = a]
    <2>2. Dir(pbDir.at, d) /\ a \in SUBSET {"ours"}
        BY <2>1
    <2> HIDE DEF a
    <2>3. SameKnown(d) /\ d.rename = pbDir.rename /\ d.held = pbDir.held /\ d.exact = pbDir.exact
        <3>1. CASE n = "source"
            <4>1. d = [pbDir EXCEPT !.source = "foreign", !.aside = a]
                BY <3>1
            <4> HIDE DEF d
            <4> QED BY <4>1, <2>2, PbOwn DEF PbDirectories, PbFiles, SameKnown
        <3>2. CASE n = "destination"
            <4>1. d = [pbDir EXCEPT !.destination = "foreign", !.aside = a]
                BY <3>2
            <4> HIDE DEF d
            <4> QED BY <4>1, <2>2, PbOwn DEF PbDirectories, PbFiles, SameKnown
        <3> QED BY <3>1, <3>2
    <2> HIDE DEF d
    <2>4. PbDirShows(pbDir.at, d) /\ PbDirOwned(pbDir.at, d)
        BY <1>1, <2>3, DirOwn DEF PbDirShows, PbDirOwned, SameKnown
    <2> QED BY <1>1, <2>2, <2>3, <2>4, DirOwn, DirMoves DEF SameKnown
<1>3. CASE SwapDirectory
    <2> DEFINE p == pbDir.at
               d == [pbDir EXCEPT !.name = "foreign", !.moved = p]
    <2>1. Dir(p, d) /\ pbDir.name = "ours" /\ p \in PbMoves /\ p = pbDir.at /\ p # "unmoved"
        BY <1>1, <1>3 DEF SwapDirectory, PbMoves, PbPlaces
    <2> HIDE DEF p
    <2>2. d \in PbDirectories /\ d.rename = pbDir.rename /\ d.exec = pbDir.exec /\ d.ran = pbDir.ran
          /\ d.held = pbDir.held /\ d.exact = pbDir.exact /\ d.name = "foreign" /\ d.moved = p
          /\ d.created = pbDir.created
        BY <2>1, PbOwn DEF PbDirectories, PbFiles
    <2> HIDE DEF d
    <2>3. pbDir.moved = "unmoved"
        BY <1>1, <2>1, DirOwn DEF PbDirOwned
    <2>4. PbDirShows(p, d) /\ PbDirOwned(p, d)
        BY <1>1, <2>1, <2>2, <2>3, DirOwn DEF PbDirShows, PbDirOwned
    <2> QED BY <1>1, <2>1, <2>2, <2>4, DirOwn, DirMoves
<1> QED BY <1>2, <1>3

LEMMA ResultKeeps == PbInv /\ probe_directory_with_cleanup_hook => PbInv'
<1> SUFFICES ASSUME PbInv, probe_directory_with_cleanup_hook PROVE PbInv'
    OBVIOUS
<1> DEFINE n == pb.stage + 1
           g == IF pbDir.clean THEN pb.dirs \cup DirectoryResult ELSE pb.dirs
           o == {}
           l == IF pbDir.clean /\ Stays(pbDir) THEN {pbDir.moved} ELSE {}
<1>1. InDir /\ pbDir.at = "removed" /\ pb' = [pb EXCEPT !.stage = n, !.dirs = g, !.orphan = o, !.left = l]
      /\ pbDir' = PbNoDir /\ pbChild' = pbChild /\ pbHost' = pbHost
    BY DEF probe_directory_with_cleanup_hook
<1>2. PbStage \in {"config", "cache"} /\ Host' = Host
    BY <1>1 DEF InDir, Host
<1>3. pbDir \in PbDirectories /\ Host.dirs /\ (pbDir.rename => Host.rename) /\ (pbDir.exec => Host.executes)
      /\ (pbDir.clean => pbDir.moved \in {"unmoved", "made", "rmdir"} /\ pbDir.name # "ours")
    BY <1>1, DirOwn DEF PbDirShows, PbDirOwned
<1>4. pbChild = PbNoChild
    BY <1>2 DEF PbInv, PbChildKnown, PbCommands
<1>5. l \in SUBSET {"made", "rmdir"} /\ l \in SUBSET PbMoves /\ o = {}
    BY <1>3 DEF Stays, PbMoves, PbPlaces
<1>7. DirectoryResult \subseteq PbDirFacts
    BY <1>2 DEF DirectoryResult, PbDirFacts
<1>8. pb \in PbProcesses /\ n \in 1..10 /\ g \in SUBSET PbDirFacts
    BY <1>2, <1>7, StageRange DEF PbInv, PbTyped, PbProcesses
<1>9. PbTrue(Host, pb.facts, g)
    <2>1. ASSUME NEW s \in {"config", "cache"}
          PROVE  /\ <<s, "writable">> \in DirectoryResult => Host.dirs
                 /\ <<s, "rename">> \in DirectoryResult => Host.rename
                 /\ <<s, "exec">> \in DirectoryResult => Host.executes
        BY <1>3 DEF DirectoryResult
    <2>2. PbTrue(Host, pb.facts, pb.dirs)
        BY DEF PbInv, PbLearnt
    <2> QED BY <2>1, <2>2 DEF PbTrue
<1> HIDE DEF n, g, l, o
<1>10. pb' \in PbProcesses /\ pb'.facts = pb.facts /\ pb'.dirs = g /\ pb'.compatible = pb.compatible
       /\ pb'.orphan = o /\ pb'.left = l
    BY <1>1, <1>5, <1>8 DEF PbProcesses
<1>11. PbTypedChild' /\ PbTypedDir' /\ PbChildKnown' /\ PbPlaced'
    BY <1>1, <1>2, <1>4, NothingKnown
<1>12. PbTyped' /\ PbLearnt' /\ PbEarned' /\ PbNothingLeft'
    BY <1>1, <1>2, <1>5, <1>9, <1>10, PbNot DEF PbInv, PbTyped, PbLearnt, PbEarned, PbNothingLeft, PbNoDir
<1> QED BY <1>11, <1>12 DEF PbInv

(* No reason against: every fact is there, and what is true of the host      *)
(* itself holds.                                                             *)
LEMMA NoReason ==
    ASSUME NEW h, NEW facts, NEW dirs, evaluate(h, facts, dirs) = {}
    PROVE  /\ h.platform /\ h.interactive /\ h.features
           /\ {"version", "size", "resize", "git", "keygen"} \subseteq facts
           /\ {<<"cache", "writable">>, <<"cache", "rename">>, <<"cache", "exec">>} \subseteq dirs
<1> DEFINE S == evaluate(h, facts, dirs)
<1>1. h.platform
    <2>1. "unsupported_platform" \notin S
        OBVIOUS
    <2> QED BY <2>1 DEF evaluate
<1>2. h.interactive /\ h.features
    <2>1. "terminal_features_unavailable" \notin S
        OBVIOUS
    <2> QED BY <2>1 DEF evaluate
<1>3. "version" \in facts
    <2>1. "asb_version_unavailable" \notin S
        OBVIOUS
    <2> QED BY <2>1 DEF evaluate
<1>4. "size" \in facts
    <2>1. "terminal_too_small" \notin S
        OBVIOUS
    <2> QED BY <2>1 DEF evaluate
<1>5. "resize" \in facts
    <2>1. "resize_events_unavailable" \notin S
        OBVIOUS
    <2> QED BY <2>1 DEF evaluate
<1>6. <<"cache", "writable">> \in dirs
    <2>1. "storage_unavailable" \notin S
        OBVIOUS
    <2>2. {"config", "cache"} \X {"writable"} \subseteq dirs
        BY <2>1 DEF evaluate
    <2> QED BY <2>2
<1>7. <<"cache", "rename">> \in dirs /\ <<"cache", "exec">> \in dirs
    <2>1. "filesystem_incompatible" \notin S
        OBVIOUS
    <2>2. ({"config", "cache"} \X {"rename"}) \cup {<<"cache", "exec">>} \subseteq dirs
        BY <2>1 DEF evaluate
    <2> QED BY <2>2
<1>8. "git" \in facts /\ "keygen" \in facts
    <2>1. "release_verifier_unavailable" \notin S
        OBVIOUS
    <2>2. {"git", "keygen"} \subseteq facts
        BY <2>1 DEF evaluate
    <2> QED BY <2>2
<1> QED BY <1>1, <1>2, <1>3, <1>4, <1>5, <1>6, <1>7, <1>8

LEMMA ReportKeeps == PbInv /\ Report => PbInv'
<1> SUFFICES ASSUME PbInv, Report PROVE PbInv'
    OBVIOUS
<1> DEFINE n == pb.stage + 1
           k == (evaluate(Host, pb.facts, pb.dirs) = {})
<1>1. PbStage = "report" /\ pb' = [pb EXCEPT !.stage = n, !.compatible = k]
      /\ pbDir' = pbDir /\ pbChild' = pbChild /\ pbHost' = pbHost /\ k \in BOOLEAN
    BY DEF Report
<1>2. Host' = Host /\ pbChild = PbNoChild /\ pbDir = PbNoDir
    BY <1>1 DEF Host, PbInv, PbChildKnown, PbPlaced, InDir, PbCommands
<1>3. pb \in PbProcesses /\ n \in 1..10
    BY <1>1, StageRange DEF PbInv, PbTyped, PbProcesses
<1>4. k => /\ Host.platform /\ Host.asb /\ Host.interactive /\ Host.features /\ Host.size
           /\ Host.resizes /\ Host.dirs /\ Host.rename /\ Host.executes /\ Host.tools
    BY NoReason DEF PbInv, PbLearnt, PbTrue
<1> HIDE DEF n, k
<1>5. pb' \in PbProcesses /\ pb'.facts = pb.facts /\ pb'.dirs = pb.dirs /\ pb'.compatible = k
      /\ pb'.orphan = pb.orphan /\ pb'.left = pb.left
    BY <1>1, <1>3 DEF PbProcesses
<1>6. PbTypedChild' /\ PbTypedDir' /\ PbChildKnown' /\ PbPlaced'
    BY <1>1, <1>2, NothingKnown
<1>7. PbTyped' /\ PbLearnt' /\ PbEarned' /\ PbNothingLeft'
    BY <1>1, <1>2, <1>4, <1>5 DEF PbInv, PbTyped, PbLearnt, PbEarned, PbNothingLeft
<1> QED BY <1>6, <1>7 DEF PbInv

LEMMA PbBegin ==
    PbFresh \in PbProcesses /\ PbFresh.facts = {} /\ PbFresh.dirs = {} /\ PbFresh.compatible = FALSE
    /\ PbFresh.orphan = {} /\ PbFresh.left = {}
BY DEF PbFresh, PbProcesses, PbMoves, PbPlaces

LEMMA AgainKeeps == PbInv /\ DetectAgain => PbInv'
<1> SUFFICES ASSUME PbInv, DetectAgain PROVE PbInv'
    OBVIOUS
<1>1. PbStage = "done" /\ pb' = PbFresh /\ pbDir' = pbDir /\ pbChild' = pbChild /\ pbHost' = pbHost
    BY DEF DetectAgain
<1>2. Host' = Host /\ pbChild = PbNoChild /\ pbDir = PbNoDir
    BY <1>1 DEF Host, PbInv, PbChildKnown, PbPlaced, InDir, PbCommands
<1>3. PbTypedChild' /\ PbTypedDir' /\ PbChildKnown' /\ PbPlaced'
    BY <1>1, <1>2, NothingKnown
<1>4. PbTyped' /\ PbLearnt' /\ PbEarned' /\ PbNothingLeft'
    BY <1>1, <1>2, PbBegin, PbNot DEF PbInv, PbTyped, PbLearnt, PbTrue, PbEarned, PbNothingLeft, PbNoDir
<1> QED BY <1>3, <1>4 DEF PbInv

LEMMA PbStarts == PbInit => PbInv
<1> SUFFICES ASSUME PbInit PROVE PbInv
    OBVIOUS
<1>1. PbTyped /\ PbLearnt /\ PbEarned /\ PbNothingLeft
    BY PbBegin, PbNot DEF PbInit, PbTyped, PbLearnt, PbTrue, PbEarned, PbNothingLeft, PbNoDir
<1>2. PbTypedChild /\ PbTypedDir /\ PbChildKnown /\ PbPlaced
    BY PbNothing DEF PbInit, PbTypedChild, PbTypedDir, PbChildKnown, PbCommandKnown, PbPlaced
<1> QED BY <1>1, <1>2 DEF PbInv

LEMMA PbSteps == PbInv /\ [PbNext]_pbVars => PbInv'
<1> SUFFICES ASSUME PbInv, [PbNext]_pbVars PROVE PbInv'
    OBVIOUS
<1>1. CASE UNCHANGED pbVars
    <2>1. pb' = pb /\ pbChild' = pbChild /\ pbDir' = pbDir /\ pbHost' = pbHost
        BY <1>1 DEF pbVars
    <2>2. Host' = Host /\ PbStage' = PbStage
        BY <2>1 DEF Host, PbStage
    <2> QED BY <2>1, <2>2 DEF PbInv, PbTyped, PbTypedChild, PbTypedDir, PbLearnt, PbEarned, PbNothingLeft,
               PbChildKnown, PbCommandKnown, PbResizeKnown, PbPlaced, PbDirKnown, PbDirShows, PbDirOwned, InDir,
               Asked, Truth
<1>2. CASE PbNext
    BY <1>2, SpawnCommandKeeps, CommandStepsKeep, BoundedKeeps, SpawnHelperKeeps, HelperStepsKeep, AttemptKeeps,
       ObservedKeeps, RunResizeKeeps, CreateKeeps, StatKeeps, OpenCreatedKeeps, PrepareKeeps, RenameKeeps,
       HoldKeeps, UnheldKeeps, ExecuteKeeps, AfterRunKeeps, MatchKeeps, UnlinkKeeps, LookKeeps, RemoveKeeps,
       ResultKeeps, SwapsKeep, ReportKeeps, AgainKeeps DEF PbNext
<1> QED BY <1>1, <1>2

LEMMA PbConcludes == PbInv => ProbeHonest /\ PbTypeOK
<1> SUFFICES ASSUME PbInv PROVE ProbeHonest /\ PbTypeOK
    OBVIOUS
<1>1. PbRetrySignals
    BY DEF PbInv, PbChildKnown, PbResizeKnown, PbRetrySignals
<1>2. PbTypeOK
    BY PbOwn DEF PbTypeOK, PbProcesses, PbChildren
<1> QED BY <1>1, <1>2 DEF PbInv, ProbeHonest

(* On every host, with any bound on the attempts: a system is called         *)
(* compatible only if it can do all that is asked; every attempt at a resize *)
(* is a change; a directory that stays behind a probe reported as clean was  *)
(* moved in one of the two windows between a call and its look; no foreign   *)
(* file is run; and only an error of try_wait leaves a process of a          *)
(* command's group (system_probe.rs, compatibility.rs).                      *)
THEOREM ProbeIsHonest == PbSpec => []ProbeHonest
<1>1. PbInit => PbInv
    BY PbStarts
<1>2. PbInv /\ [PbNext]_pbVars => PbInv'
    BY PbSteps
<1>3. PbInv => ProbeHonest
    BY PbConcludes
<1> QED BY <1>1, <1>2, <1>3, PTL DEF PbSpec

(* The probe, its child and its facts keep their types.                      *)
THEOREM ProbeTypes == PbSpec => []PbTypeOK
<1>1. PbInit => PbInv
    BY PbStarts
<1>2. PbInv /\ [PbNext]_pbVars => PbInv'
    BY PbSteps
<1>3. PbInv => PbTypeOK
    BY PbConcludes
<1> QED BY <1>1, <1>2, <1>3, PTL DEF PbSpec

-----------------------------------------------------------------------------
(* The inductive invariant of the bundle.  Bytes past their digest are the   *)
(* artifact, a process that has what it asked for made the checks of its     *)
(* way, and a mismatch that is resumed is excluded as stated.                *)

BunBytes == {s \in Seq({"good", "bad"}) : Len(s) <= BunSize}
BunChecked == {"insert", "link", "unstage", "clear", "rest"}
BunStations == {"idle", "cache", "partial", "read", "store", "rename", "digest"} \cup BunChecked
BunCallers ==
    [at : BunStations, bytes : BunBytes, failures : 0..BunAttempts - 1, verdict : BunVerdicts \cup {BunNone}]
BunDisks ==
    [entry : BunBytes \cup {BunNone}, partial : BunBytes \cup {BunNone}, last : BunPids \cup {BunNone},
     staged : [BunPids -> BOOLEAN], inserting : [BunPids -> BOOLEAN]]

BunWhole(r) ==
    /\ r.at \in BunChecked \/ r.verdict = "obtained" => r.bytes = Good
    /\ r.at # "idle" => r.verdict = BunNone
BunBacked(r) ==
    /\ r.verdict \in {"obtained", "installed"} =>
          /\ validate_bundle_documents(Offer.manifest, Offer.documents)
          /\ \A i \in DOMAIN Offer.manifest.artifacts : Obtainable(Offer.manifest.artifacts[i])
    /\ r.verdict = "installed" =>
          verify_bundle_manifest(Offer) /\ Offer.permits /\ Offer.request.release = Offer.manifest.release
    /\ r.verdict = "locked" => verify_release_lock_contents(Offer)
BunInv ==
    /\ bun \in [BunPids -> BunCallers] /\ bunDisk \in BunDisks /\ bunOffer \in DOMAIN BunReleases
    /\ \A p \in BunPids : BunWhole(bun[p]) /\ BunBacked(bun[p])
    /\ BunNoPoison

(* The chunks of the artifact are bytes of its size. *)
LEMMA BunGoodBytes == Good \in BunBytes /\ [Good EXCEPT ![1] = "bad"] \in BunBytes /\ <<>> \in BunBytes
<1>1. Good \in Seq({"good", "bad"}) /\ Len(Good) = BunSize
    BY BunAssumption DEF Good
<1>2. [Good EXCEPT ![1] = "bad"] \in Seq({"good", "bad"}) /\ Len([Good EXCEPT ![1] = "bad"]) = BunSize
    BY BunAssumption DEF Good
<1>3. <<>> \in Seq({"good", "bad"}) /\ Len(<<>>) <= BunSize
    BY BunAssumption
<1> QED BY <1>1, <1>2, <1>3, BunAssumption DEF BunBytes

(* An idle process is one of the callers. *)
LEMMA BunIdleCaller == BunIdle \in BunCallers
BY BunGoodBytes, BunAssumption DEF BunIdle, BunCallers, BunStations

(* One process moves and the cache with it: what is to be shown of its new   *)
(* record and of the new cache.                                              *)
LEMMA BunMoves ==
    ASSUME BunInv, NEW p \in BunPids, NEW r \in BunCallers, NEW d \in BunDisks,
           bun' = [bun EXCEPT ![p] = r], bunDisk' = d, bunOffer' = bunOffer,
           BunWhole(r), BunBacked(r),
           r.at # "idle" \/ d.partial = BunNone \/ (d.last = p /\ r.verdict # "digest_mismatch")
    PROVE  BunInv'
<1>1. bun' \in [BunPids -> BunCallers] /\ bunDisk' \in BunDisks /\ bunOffer' \in DOMAIN BunReleases
    BY DEF BunInv
<1>2. \A q \in BunPids : bun'[q] = IF q = p THEN r ELSE bun[q]
    BY DEF BunInv
<1>3. \A q \in BunPids : BunWhole(bun'[q]) /\ BunBacked(bun'[q])
    BY <1>2 DEF BunInv
<1>4. Offer' = Offer
    BY DEF Offer
<1>5. (\A q \in BunPids : BunWhole(bun[q]) /\ BunBacked(bun[q]))'
    BY <1>3, <1>4 DEF BunWhole, BunBacked
<1>6. BunNoPoison'
    BY <1>2 DEF BunNoPoison
<1> QED BY <1>1, <1>5, <1>6 DEF BunInv

(* Processes start idle, beside an entry that may be wrong. *)
LEMMA BunStarts == BunInit => BunInv
<1> SUFFICES ASSUME BunInit PROVE BunInv
    OBVIOUS
<1>1. bun \in [BunPids -> BunCallers] /\ bunOffer \in DOMAIN BunReleases
    BY BunIdleCaller DEF BunInit
<1>2. bunDisk \in BunDisks
    BY BunGoodBytes DEF BunInit, BunDisks
<1>3. \A p \in BunPids : BunWhole(bun[p]) /\ BunBacked(bun[p])
    BY BunAssumption DEF BunInit, BunIdle, BunWhole, BunBacked, BunChecked
<1>4. BunNoPoison
    BY BunAssumption DEF BunInit, BunIdle, BunNoPoison
<1> QED BY <1>1, <1>2, <1>3, <1>4 DEF BunInv

(* What the steps have in common. *)
LEMMA BunKnown ==
    ASSUME BunInv, NEW p \in BunPids
    PROVE  /\ bun[p] \in BunCallers /\ bunDisk \in BunDisks
           /\ BunWhole(bun[p]) /\ BunBacked(bun[p])
BY DEF BunInv

(* A step that ends a process with a failure that is no mismatch, whatever   *)
(* it leaves in the cache.                                                   *)
BunFailures ==
    {"refused", "policy_refused", "transfer_failed", "partial_cache_failed", "verified_cache_failed", BunNone}
LEMMA BunFails ==
    ASSUME BunInv, NEW p \in BunPids, NEW v \in BunFailures, NEW d \in BunDisks, d.last = p,
           Ends(p, v) \/ Bun(p, [BunIdle EXCEPT !.verdict = v]), bunDisk' = d, bunOffer' = bunOffer
    PROVE  BunInv'
<1> DEFINE r == [BunIdle EXCEPT !.verdict = v]
<1>0. v # "obtained"
    BY BunAssumption DEF BunFailures
<1>1. r \in BunCallers /\ r.at = "idle" /\ r.verdict = v
    BY BunIdleCaller DEF BunIdle, BunCallers, BunVerdicts, BunFailures
<1>3. BunWhole(r) /\ BunBacked(r) /\ r.verdict # "digest_mismatch"
    BY <1>1, BunAssumption DEF BunWhole, BunBacked, BunChecked, BunFailures
<1>4. bun' = [bun EXCEPT ![p] = r]
    BY <1>0 DEF Ends, Bun, BunIdle
<1> HIDE DEF r
<1> QED BY <1>1, <1>3, <1>4, BunMoves

(* The same with the cache as it is, but for who ended last.                 *)
LEMMA BunGivesUp ==
    ASSUME BunInv, NEW p \in BunPids,
           NEW v \in BunFailures, Ends(p, v) \/ Bun(p, [BunIdle EXCEPT !.verdict = v]), Ended(p)
    PROVE  BunInv'
<1> DEFINE d == [bunDisk EXCEPT !.last = p]
<1>1. d \in BunDisks /\ d.last = p /\ bunDisk' = d /\ bunOffer' = bunOffer
    BY BunKnown DEF BunDisks, Ended
<1> HIDE DEF d
<1> QED BY <1>1, BunFails

(* A step of a working process that changes nothing but where it is. *)
LEMMA BunGoesOn ==
    ASSUME BunInv, NEW p \in BunPids, bun[p].at # "idle", NEW place \in BunStations, place # "idle",
           place \in BunChecked => bun[p].bytes = Good,
           NEW d \in BunDisks, Step(p, place), bunDisk' = d, bunOffer' = bunOffer
    PROVE  BunInv'
<1> DEFINE r == [bun[p] EXCEPT !.at = place]
<1>1. r \in BunCallers /\ r.at = place /\ r.bytes = bun[p].bytes /\ r.verdict = bun[p].verdict
    BY BunKnown DEF BunCallers
<1>2. BunWhole(r) /\ BunBacked(r)
    BY <1>1, BunKnown DEF BunWhole, BunBacked
<1>3. bun' = [bun EXCEPT ![p] = r]
    BY DEF Step, Bun
<1> HIDE DEF r
<1> QED BY <1>1, <1>2, <1>3, BunMoves

(* The fields of the artifact are looked at before anything is fetched. *)
LEMMA BunManifestFirst == ASSUME BunInv, NEW p \in BunPids, StartProcess(p) PROVE BunInv'
<1>1. CASE Bun(p, [BunIdle EXCEPT !.at = "cache"]) /\ SameDisk
  <2> DEFINE r == [BunIdle EXCEPT !.at = "cache"]
  <2>1. r \in BunCallers /\ r.at = "cache" /\ r.verdict = BunNone
      BY BunIdleCaller DEF BunIdle, BunCallers, BunStations
  <2>2. BunWhole(r) /\ BunBacked(r)
      BY <2>1, BunAssumption DEF BunWhole, BunBacked, BunChecked
  <2>3. bun' = [bun EXCEPT ![p] = r] /\ bunDisk' = bunDisk /\ bunOffer' = bunOffer
      BY <1>1 DEF Bun, SameDisk
  <2> HIDE DEF r
  <2> QED BY <2>1, <2>2, <2>3, BunMoves, BunKnown
<1>2. CASE Bun(p, [BunIdle EXCEPT !.verdict = "refused"]) /\ Ended(p)
    BY <1>2, BunGivesUp DEF BunFailures
<1> QED BY <1>1, <1>2 DEF StartProcess

(* What the cache serves has the digest. *)
LEMMA BunFromCache == ASSUME BunInv, NEW p \in BunPids, cache_get(p) PROVE BunInv'
<1>1. CASE bunDisk.entry = Good
  <2> DEFINE r == [bun[p] EXCEPT !.at = "rest", !.bytes = Good]
  <2>1. r \in BunCallers /\ r.at = "rest" /\ r.verdict = bun[p].verdict /\ r.bytes = Good
      BY BunKnown, BunGoodBytes DEF BunCallers, BunStations, BunChecked
  <2>2. BunWhole(r) /\ BunBacked(r)
      BY <2>1, BunKnown DEF cache_get, BunWhole, BunBacked
  <2>3. bun' = [bun EXCEPT ![p] = r] /\ bunDisk' = bunDisk /\ bunOffer' = bunOffer
      BY <1>1 DEF cache_get, Bun, SameDisk
  <2> HIDE DEF r
  <2> QED BY <2>1, <2>2, <2>3, BunMoves, BunKnown
<1>2. CASE bunDisk.entry # Good
    BY <1>2, BunGoesOn, BunKnown DEF cache_get, SameDisk, BunStations, BunChecked
<1> QED BY <1>1, <1>2

(* A resumed download has no more than the size. *)
LEMMA BunResumes == ASSUME BunInv, NEW p \in BunPids, get_partial(p) PROVE BunInv'
<1> DEFINE b == IF bunDisk.partial # BunNone /\ Len(bunDisk.partial) < BunSize THEN bunDisk.partial ELSE <<>>
           r == [bun[p] EXCEPT !.at = "read", !.bytes = b]
<1>1. b \in BunBytes
    BY BunKnown, BunGoodBytes DEF BunDisks
<1>2. bun' = [bun EXCEPT ![p] = r] /\ bunDisk' = bunDisk /\ bunOffer' = bunOffer
    BY DEF get_partial, Bun, SameDisk
<1> HIDE DEF b
<1>3. r \in BunCallers /\ r.at = "read" /\ r.verdict = bun[p].verdict
    BY <1>1, BunKnown DEF BunCallers, BunStations
<1>4. BunWhole(r) /\ BunBacked(r)
    BY <1>3, BunKnown, BunAssumption DEF get_partial, BunWhole, BunBacked, BunChecked
<1> HIDE DEF r
<1> QED BY <1>2, <1>3, <1>4, BunMoves, BunKnown

(* A chunk, a failure, or the last failure. *)
LEMMA BunReads == ASSUME BunInv, NEW p \in BunPids, read_chunk(p) PROVE BunInv'
<1>1. ASSUME NEW c \in Offer.source,
             Bun(p, [bun[p] EXCEPT !.at = "store", !.bytes = Append(@, c), !.failures = 0]), SameDisk
      PROVE  BunInv'
  <2> DEFINE b == Append(bun[p].bytes, c)
             r == [bun[p] EXCEPT !.at = "store", !.bytes = b, !.failures = 0]
  <2>1. c \in {"good", "bad"}
      BY BunAssumption DEF BunInv, Offer
  <2>2. bun[p].bytes \in BunBytes /\ Len(bun[p].bytes) < BunSize
      BY BunKnown DEF read_chunk, BunCallers
  <2>3. b \in BunBytes
      BY <2>1, <2>2, BunAssumption DEF BunBytes
  <2>4. bun' = [bun EXCEPT ![p] = r] /\ bunDisk' = bunDisk /\ bunOffer' = bunOffer
      BY <1>1 DEF Bun, SameDisk
  <2> HIDE DEF b
  <2>5. r \in BunCallers /\ r.at = "store" /\ r.verdict = bun[p].verdict
    <3>1. 0 \in 0..BunAttempts - 1 /\ "store" \in BunStations
        BY BunAssumption DEF BunStations
    <3>2. bun[p] \in BunCallers
        BY BunKnown
    <3> DEFINE F == 0..BunAttempts - 1
    <3> HIDE DEF F
    <3> QED BY <2>3, <3>1, <3>2 DEF BunCallers, F
  <2>6. BunWhole(r) /\ BunBacked(r)
      BY <2>5, BunKnown, BunAssumption DEF read_chunk, BunWhole, BunBacked, BunChecked
  <2> HIDE DEF r
  <2> QED BY <2>4, <2>5, <2>6, BunMoves, BunKnown
<1>2. CASE bun[p].failures + 1 >= BunAttempts /\ Ends(p, "transfer_failed") /\ Ended(p)
  BY <1>2, BunGivesUp DEF BunFailures
<1>3. CASE ~(bun[p].failures + 1 >= BunAttempts) /\ SameDisk /\ Bun(p, [bun[p] EXCEPT !.failures = @ + 1])
  <2> DEFINE n == bun[p].failures + 1
             r == [bun[p] EXCEPT !.failures = n]
  <2>1. n \in 0..BunAttempts - 1
      BY <1>3, BunKnown, BunAssumption DEF BunCallers
  <2>2. bun' = [bun EXCEPT ![p] = r] /\ bunDisk' = bunDisk /\ bunOffer' = bunOffer
      BY <1>3 DEF Bun, SameDisk
  <2> HIDE DEF n
  <2>3. r \in BunCallers /\ r.at = bun[p].at /\ r.verdict = bun[p].verdict /\ r.bytes = bun[p].bytes
      BY <2>1, BunKnown DEF BunCallers
  <2>4. BunWhole(r) /\ BunBacked(r) /\ r.at # "idle"
      BY <2>3, BunKnown DEF read_chunk, BunWhole, BunBacked
  <2> HIDE DEF r
  <2> QED BY <2>2, <2>3, <2>4, BunMoves, BunKnown
<1> QED BY <1>1, <1>2, <1>3 DEF read_chunk

(* A staging file, or one that a dead process left. *)
LEMMA BunStores == ASSUME BunInv, NEW p \in BunPids, store_partial(p) PROVE BunInv'
<1>1. CASE bunDisk.staged[p]
    BY <1>1, BunGivesUp DEF store_partial, BunFailures
<1>2. CASE ~bunDisk.staged[p]
  <2> DEFINE d == [bunDisk EXCEPT !.staged[p] = TRUE]
  <2>1. d \in BunDisks
      BY BunKnown DEF BunDisks
  <2>2. Step(p, "rename") /\ bunDisk' = d /\ bunOffer' = bunOffer
      BY <1>2 DEF store_partial
  <2> HIDE DEF d
  <2> QED BY <2>1, <2>2, BunGoesOn DEF store_partial, BunStations, BunChecked
<1> QED BY <1>1, <1>2

(* The staging file becomes the partial download. *)
LEMMA BunRenames == ASSUME BunInv, NEW p \in BunPids, rename_partial(p) PROVE BunInv'
<1> DEFINE a == IF Len(bun[p].bytes) < BunSize THEN "read" ELSE "digest"
           d == [bunDisk EXCEPT !.partial = bun[p].bytes, !.staged[p] = FALSE]
<1>1. d \in BunDisks
    BY BunKnown DEF BunDisks, BunCallers
<1>2. a \in BunStations /\ a \notin BunChecked /\ a # "idle"
    BY DEF BunStations, BunChecked
<1>3. Step(p, a) /\ bunDisk' = d /\ bunOffer' = bunOffer /\ bun[p].at # "idle"
    BY DEF rename_partial
<1> HIDE DEF a, d
<1> QED BY <1>1, <1>2, <1>3, BunGoesOn

(* Only bytes with the digest go on; others are not left to be resumed. *)
LEMMA BunCompares == ASSUME BunInv, NEW p \in BunPids, compare_digest(p) PROVE BunInv'
<1>1. CASE bun[p].bytes = Good
    BY <1>1, BunGoesOn, BunKnown DEF compare_digest, SameDisk, BunStations, BunChecked
<1>2. CASE bun[p].bytes # Good
  <2> DEFINE r == [BunIdle EXCEPT !.verdict = "digest_mismatch"]
             d == [bunDisk EXCEPT !.partial = BunNone, !.last = p]
  <2>1. r \in BunCallers /\ r.at = "idle" /\ r.verdict = "digest_mismatch"
      BY BunIdleCaller DEF BunIdle, BunCallers, BunVerdicts
  <2>2. d \in BunDisks /\ d.partial = BunNone
      BY BunKnown DEF BunDisks
  <2>3. BunWhole(r) /\ BunBacked(r)
      BY <2>1 DEF BunWhole, BunBacked, BunChecked
  <2>4. bun' = [bun EXCEPT ![p] = r] /\ bunDisk' = d /\ bunOffer' = bunOffer
      BY <1>2 DEF compare_digest, Ends, Bun, BunIdle
  <2> HIDE DEF r, d
  <2> QED BY <2>1, <2>2, <2>3, <2>4, BunMoves
<1> QED BY <1>1, <1>2

(* Whatever entry is there, the process has the right bytes. *)
LEMMA BunInserts == ASSUME BunInv, NEW p \in BunPids, insert(p) PROVE BunInv'
<1>0. bun[p].bytes = Good /\ bun[p].at # "idle"
    BY BunKnown DEF insert, BunWhole, BunChecked
<1>1. CASE bunDisk.entry # BunNone
    BY <1>0, <1>1, BunGoesOn, BunKnown DEF insert, SameDisk, BunStations, BunChecked
<1>2. CASE bunDisk.entry = BunNone /\ bunDisk.inserting[p]
    BY <1>2, BunGivesUp DEF insert, BunFailures
<1>3. CASE bunDisk.entry = BunNone /\ ~bunDisk.inserting[p]
  <2> DEFINE d == [bunDisk EXCEPT !.inserting[p] = TRUE]
  <2>1. d \in BunDisks
      BY BunKnown DEF BunDisks
  <2>2. Step(p, "link") /\ bunDisk' = d /\ bunOffer' = bunOffer
      BY <1>3 DEF insert
  <2> HIDE DEF d
  <2> QED BY <1>0, <2>1, <2>2, BunGoesOn DEF BunStations, BunChecked
<1> QED BY <1>1, <1>2, <1>3

(* The entry appears under its name. *)
LEMMA BunLinks == ASSUME BunInv, NEW p \in BunPids, hard_link(p) PROVE BunInv'
<1> DEFINE e == IF bunDisk.entry = BunNone THEN bun[p].bytes ELSE bunDisk.entry
           d == [bunDisk EXCEPT !.entry = e]
<1>1. bun[p].bytes = Good /\ bun[p].at # "idle"
    BY BunKnown DEF hard_link, BunWhole, BunChecked
<1>2. e \in BunBytes \cup {BunNone}
    BY BunKnown DEF BunDisks, BunCallers
<1>3. Step(p, "unstage") /\ bunDisk' = d /\ bunOffer' = bunOffer
    BY DEF hard_link
<1> HIDE DEF e
<1>4. d \in BunDisks
    BY <1>2, BunKnown DEF BunDisks
<1> HIDE DEF d
<1> QED BY <1>1, <1>3, <1>4, BunGoesOn DEF BunStations, BunChecked

(* The staging name goes. *)
LEMMA BunUnstages == ASSUME BunInv, NEW p \in BunPids, remove_staging(p) PROVE BunInv'
<1> DEFINE d == [bunDisk EXCEPT !.inserting[p] = FALSE]
<1>1. bun[p].bytes = Good /\ bun[p].at # "idle"
    BY BunKnown DEF remove_staging, BunWhole, BunChecked
<1>2. d \in BunDisks
    BY BunKnown DEF BunDisks
<1>3. Step(p, "clear") /\ bunDisk' = d /\ bunOffer' = bunOffer
    BY DEF remove_staging
<1> HIDE DEF d
<1> QED BY <1>1, <1>2, <1>3, BunGoesOn DEF BunStations, BunChecked

(* The partial download goes. *)
LEMMA BunClears == ASSUME BunInv, NEW p \in BunPids, clear_partial(p) PROVE BunInv'
<1> DEFINE d == [bunDisk EXCEPT !.partial = BunNone]
<1>1. bun[p].bytes = Good /\ bun[p].at # "idle"
    BY BunKnown DEF clear_partial, BunWhole, BunChecked
<1>2. d \in BunDisks
    BY BunKnown DEF BunDisks
<1>3. Step(p, "rest") /\ bunDisk' = d /\ bunOffer' = bunOffer
    BY DEF clear_partial
<1> HIDE DEF d
<1> QED BY <1>1, <1>2, <1>3, BunGoesOn DEF BunStations, BunChecked

(* A failure of the file system on the way, which is never a mismatch. *)
LEMMA BunDiskFails ==
    ASSUME BunInv, NEW p \in BunPids, StoreFails(p) \/ InsertFails(p) \/ ClearFails(p) PROVE BunInv'
<1>0. bunDisk \in BunDisks /\ bun[p].bytes \in BunBytes
    BY BunKnown DEF BunCallers
<1>1. CASE StoreFails(p)
  <2>1. Ends(p, "partial_cache_failed") /\ bunOffer' = bunOffer
      BY <1>1 DEF StoreFails
  <2>2. ASSUME NEW left \in BOOLEAN, bunDisk' = [bunDisk EXCEPT !.staged[p] = left, !.last = p] PROVE BunInv'
    <3> DEFINE d == [bunDisk EXCEPT !.staged[p] = left, !.last = p]
    <3>1. d \in BunDisks /\ d.last = p
        BY <1>0 DEF BunDisks
    <3> HIDE DEF d
    <3> QED BY <2>1, <2>2, <3>1, BunFails DEF BunFailures, d
  <2>3. CASE bunDisk' = [bunDisk EXCEPT !.partial = bun[p].bytes, !.staged[p] = FALSE, !.last = p]
    <3> DEFINE b == bun[p].bytes
               d == [bunDisk EXCEPT !.partial = b, !.staged[p] = FALSE, !.last = p]
    <3>0. b \in BunBytes /\ bunDisk' = d
        BY <1>0, <2>3
    <3> HIDE DEF b
    <3>1. d \in BunDisks /\ d.last = p
        BY <1>0, <3>0 DEF BunDisks
    <3> HIDE DEF d
    <3> QED BY <2>1, <3>0, <3>1, BunFails DEF BunFailures
  <2> QED BY <1>1, <2>2, <2>3 DEF StoreFails
<1>2. CASE InsertFails(p)
  <2>1. Ends(p, "verified_cache_failed") /\ bunOffer' = bunOffer
      BY <1>2 DEF InsertFails
  <2>2. PICK left \in BOOLEAN : bunDisk' = [bunDisk EXCEPT !.inserting[p] = left, !.last = p]
      BY <1>2 DEF InsertFails
  <2> DEFINE d == [bunDisk EXCEPT !.inserting[p] = left, !.last = p]
  <2>3. d \in BunDisks /\ d.last = p /\ bunDisk' = d
      BY <1>0, <2>2 DEF BunDisks
  <2> HIDE DEF d
  <2> QED BY <2>1, <2>3, BunFails DEF BunFailures
<1>3. CASE ClearFails(p)
  <2>1. Ends(p, "partial_cache_failed") /\ bunOffer' = bunOffer
      BY <1>3 DEF ClearFails
  <2>2. PICK b \in {bunDisk.partial, BunNone} : bunDisk' = [bunDisk EXCEPT !.partial = b, !.last = p]
      BY <1>3 DEF ClearFails
  <2> DEFINE d == [bunDisk EXCEPT !.partial = b, !.last = p]
  <2>3. d \in BunDisks /\ d.last = p /\ bunDisk' = d
      BY <1>0, <2>2 DEF BunDisks
  <2> HIDE DEF d
  <2> QED BY <2>1, <2>3, BunFails DEF BunFailures
<1> QED BY <1>1, <1>2, <1>3

(* The other artifacts, the policy, and the bytes are handed out. *)
LEMMA BunObtains == ASSUME BunInv, NEW p \in BunPids, obtain_verified_bundle(p) PROVE BunInv'
<1>1. bun[p].bytes = Good
    BY BunKnown DEF obtain_verified_bundle, BunWhole, BunChecked
<1>2. CASE Ends(p, "transfer_failed") \/ Ends(p, "policy_refused")
    BY <1>2, BunGivesUp DEF obtain_verified_bundle, BunFailures
<1>3. CASE /\ Ends(p, "obtained") /\ validate_bundle_documents(Offer.manifest, Offer.documents)
           /\ \A i \in DOMAIN Offer.manifest.artifacts : Obtainable(Offer.manifest.artifacts[i])
  <2> DEFINE r == [BunIdle EXCEPT !.bytes = Good, !.verdict = "obtained"]
             d == [bunDisk EXCEPT !.last = p]
  <2>2. r \in BunCallers /\ r.at = "idle" /\ r.verdict = "obtained" /\ r.bytes = Good
      BY BunIdleCaller, BunGoodBytes DEF BunIdle, BunCallers, BunVerdicts
  <2>3. d \in BunDisks /\ d.last = p
      BY BunKnown DEF BunDisks
  <2>4. BunWhole(r) /\ BunBacked(r)
      BY <1>3, <2>2 DEF BunWhole, BunBacked
  <2>5. bun' = [bun EXCEPT ![p] = r] /\ bunDisk' = d /\ bunOffer' = bunOffer
      BY <1>1, <1>3 DEF obtain_verified_bundle, Ends, Ended, Bun, BunIdle
  <2> HIDE DEF r, d
  <2> QED BY <2>2, <2>3, <2>4, <2>5, BunMoves
<1> QED BY <1>2, <1>3 DEF obtain_verified_bundle

(* A process that dies holds nothing. *)
LEMMA BunDies == ASSUME BunInv, NEW p \in BunPids, BunCrash(p) PROVE BunInv'
<1>1. Bun(p, [BunIdle EXCEPT !.verdict = BunNone]) /\ Ended(p)
    BY DEF BunCrash, Bun, BunIdle
<1> QED BY <1>1, BunGivesUp DEF BunFailures

(* What is verified locally can be obtained, and its request is met. *)
BunInstalled ==
    /\ verify_bundle_manifest(Offer) /\ Offer.permits /\ Offer.request.release = Offer.manifest.release
    /\ validate_bundle_documents(Offer.manifest, Offer.documents)
    /\ \A i \in DOMAIN Offer.manifest.artifacts : Obtainable(Offer.manifest.artifacts[i])
LEMMA BunInstallChecks == ASSUME NEW p, InstallLocal(p) PROVE BunInstalled
<1>1. verify_bundle_manifest(Offer) /\ Offer.permits /\ validate_bundle_documents(Offer.manifest, Offer.documents)
    BY DEF InstallLocal, verify_local_bundle_artifacts
<1>2. Offer.request.release = Offer.manifest.release
    BY DEF InstallLocal
<1>3. \A i \in DOMAIN Offer.manifest.artifacts : Obtainable(Offer.manifest.artifacts[i])
    BY <1>1 DEF verify_bundle_manifest, parse_and_validate_manifest, validate_artifacts, Obtainable
<1> QED BY <1>1, <1>2, <1>3 DEF BunInstalled

(* The other users of a release check it first. *)
LEMMA BunUsesDirectory ==
    ASSUME BunInv, NEW p \in BunPids, InstallLocal(p) \/ VerifyLock(p) PROVE BunInv'
<1> DEFINE d == [bunDisk EXCEPT !.last = p]
<1>1. PICK v \in {"installed", "locked"} :
          /\ v = "installed" => BunInstalled
          /\ v = "locked" => verify_release_lock_contents(Offer)
          /\ Bun(p, [BunIdle EXCEPT !.verdict = v]) /\ Ended(p)
    BY BunInstallChecks DEF InstallLocal, VerifyLock
<1> DEFINE r == [BunIdle EXCEPT !.verdict = v]
<1>2. r \in BunCallers /\ r.at = "idle" /\ r.verdict = v
    BY BunIdleCaller DEF BunIdle, BunCallers, BunVerdicts
<1>3. d \in BunDisks /\ d.last = p
    BY BunKnown DEF BunDisks
<1>4. BunWhole(r) /\ BunBacked(r) /\ r.verdict # "digest_mismatch"
    BY <1>1, <1>2 DEF BunWhole, BunBacked, BunChecked, BunInstalled
<1>5. bun' = [bun EXCEPT ![p] = r] /\ bunDisk' = d /\ bunOffer' = bunOffer
    BY <1>1 DEF Bun, Ended
<1> HIDE DEF r, d
<1> QED BY <1>2, <1>3, <1>4, <1>5, BunMoves

(* Every step preserves the invariant. *)
LEMMA BunSteps == BunInv /\ [BunNext]_bunVars => BunInv'
<1> SUFFICES ASSUME BunInv, [BunNext]_bunVars PROVE BunInv'
    OBVIOUS
<1>1. CASE UNCHANGED bunVars
    BY <1>1 DEF bunVars, BunInv, BunWhole, BunBacked, BunNoPoison, Offer
<1>2. ASSUME NEW p \in BunPids,
             \/ StartProcess(p) \/ cache_get(p) \/ get_partial(p) \/ read_chunk(p) \/ store_partial(p)
             \/ rename_partial(p) \/ StoreFails(p) \/ compare_digest(p) \/ insert(p) \/ hard_link(p)
             \/ remove_staging(p) \/ InsertFails(p) \/ clear_partial(p) \/ ClearFails(p)
             \/ obtain_verified_bundle(p) \/ BunCrash(p) \/ InstallLocal(p) \/ VerifyLock(p)
      PROVE  BunInv'
    BY <1>2, BunManifestFirst, BunFromCache, BunResumes, BunReads, BunStores, BunRenames, BunCompares,
       BunInserts, BunLinks, BunUnstages, BunClears, BunDiskFails, BunObtains, BunDies, BunUsesDirectory
<1> QED BY <1>1, <1>2 DEF BunNext

(* A lock of two dependencies that is accepted accounts for both tags. *)
LEMMA BunLockedTags ==
    ASSUME bunOffer \in DOMAIN BunReleases, verify_release_lock_contents(Offer)
    PROVE  \A n \in DOMAIN Offer.tags : Offer.tags[n] \in Offer.authentic
<1> DEFINE deps == Offer.lock
<1>1. Len(deps) = 2 /\ \A i, j \in DOMAIN deps : deps[i].name = deps[j].name => i = j
    BY DEF verify_release_lock_contents, Distinct
<1>2. \A i \in DOMAIN deps : /\ deps[i].name \in {"agent-workflow-coordinator", "agent-workflow-quality"}
                             /\ Offer.tags[deps[i].name] \in Offer.authentic
    BY DEF verify_release_lock_contents, validate_artifact_fields
<1>3. DOMAIN Offer.tags = {"agent-workflow-coordinator", "agent-workflow-quality"}
    BY BunAssumption DEF Offer
<1>4. DOMAIN deps = {1, 2}
    BY <1>1, BunAssumption DEF Offer
<1> HIDE DEF deps
<1>5. deps[1].name # deps[2].name
    BY <1>1, <1>4
<1> QED BY <1>2, <1>3, <1>4, <1>5

(* What the invariant gives. *)
LEMMA BunConcludes == BunInv => BundleSound /\ BunTypeOK
<1> SUFFICES ASSUME BunInv PROVE BundleSound /\ BunTypeOK
    OBVIOUS
<1>1. BunServedRight
    BY DEF BunInv, BunWhole, BunServedRight
<1> DEFINE m == Offer.manifest
           docs == Offer.documents
<1>0. ASSUME NEW p \in BunPids, bun[p].verdict \in {"obtained", "installed"}
      PROVE  /\ \A d \in {"licenses", "sbom", "provenance"} : docs[d].release = m.release
             /\ {docs.sbom.packages[i] : i \in DOMAIN docs.sbom.packages} = expected_inventory
             /\ \A i \in DOMAIN m.artifacts : m.artifacts[i].size <= BunArtifactMax
  <2>1. validate_bundle_documents(m, docs) /\ \A i \in DOMAIN m.artifacts : Obtainable(m.artifacts[i])
      BY <1>0, BunKnown DEF BunBacked
  <2>2. docs.licenses.release = m.release /\ docs.sbom.release = m.release /\ docs.provenance.release = m.release
      BY <2>1 DEF validate_bundle_documents
  <2>3. spdx_inventory(docs.sbom.packages) = expected_inventory
      BY <2>1 DEF validate_bundle_documents, Inventory
  <2>4. \A i \in DOMAIN m.artifacts : m.artifacts[i].size <= BunArtifactMax
      BY <2>1 DEF Obtainable
  <2> QED BY <2>2, <2>3, <2>4 DEF spdx_inventory
<1>2. ASSUME NEW p \in BunPids, bun[p].verdict = "installed"
      PROVE  /\ Offer.signed /\ m.issued <= BunNow /\ BunNow < m.expires
             /\ Offer.permits /\ Offer.request.release = m.release
             /\ \A k \in BunKinds : \E i \in DOMAIN m.artifacts : <<m.artifacts[i].name, m.artifacts[i].kind>> = k
             /\ Total(m.artifacts) <= BunBundleMax
  <2>1. Offer.signed /\ parse_and_validate_manifest(m) /\ Offer.permits /\ Offer.request.release = m.release
      BY <1>2, BunKnown DEF BunBacked, verify_bundle_manifest, verify_manifest_signature
  <2>2. m.issued <= BunNow /\ BunNow < m.expires /\ validate_artifacts(m.artifacts)
      BY <2>1 DEF parse_and_validate_manifest, ValidNow
  <2>3. Total(m.artifacts) <= BunBundleMax /\ Ids(m.artifacts) = BunKinds
      BY <2>2 DEF validate_artifacts
  <2>4. \A k \in BunKinds : \E i \in DOMAIN m.artifacts : <<m.artifacts[i].name, m.artifacts[i].kind>> = k
      BY <2>3, Zenon DEF Ids
  <2> QED BY <2>1, <2>2, <2>3, <2>4
<1>3. ASSUME NEW p \in BunPids, bun[p].verdict = "locked"
      PROVE  \A n \in DOMAIN Offer.tags : Offer.tags[n] \in Offer.authentic
    BY <1>3, BunKnown, BunLockedTags DEF BunBacked, BunInv
<1>4. BunUsedIsWhole
    BY <1>0, <1>2, <1>3 DEF BunUsedIsWhole
<1>5. BunTypeOK
    BY BunAssumption DEF BunInv, BunCallers, BunBytes, BunTypeOK
<1> QED BY <1>1, <1>4, <1>5 DEF BunInv, BundleSound

(* For any number of processes and chunks and any releases on offer: what is *)
(* handed out is exactly the artifact; a process that ends with a mismatch   *)
(* while no other runs leaves no download to resume; what is obtained has    *)
(* the documents of its release, and what is installed is the signed, valid, *)
(* complete release that was asked for (bundle.rs, delegated.rs, lib.rs).    *)
THEOREM BundleIsSound == BunSpec => []BundleSound
<1>1. BunInit => BunInv
    BY BunStarts
<1>2. BunInv /\ [BunNext]_bunVars => BunInv'
    BY BunSteps
<1>3. BunInv => BundleSound
    BY BunConcludes
<1> QED BY <1>1, <1>2, <1>3, PTL DEF BunSpec

(* The processes keep their types, their bytes and failures their bounds.    *)
THEOREM BundleTypes == BunSpec => []BunTypeOK
<1>1. BunInit => BunInv
    BY BunStarts
<1>2. BunInv /\ [BunNext]_bunVars => BunInv'
    BY BunSteps
<1>3. BunInv => BunTypeOK
    BY BunConcludes
<1> QED BY <1>1, <1>2, <1>3, PTL DEF BunSpec

-----------------------------------------------------------------------------
(* The entry points.  What a process has noted as active is what is on at    *)
(* its terminal, and nothing outside of a session; the guard is active from  *)
(* the loop to the unwinding, so that what is on at the end was tried.       *)
(* As long as no two processes record a channel at once, the one that does   *)
(* writes to the temporary file, which is not the file in force.             *)

EnFields == {"at", "cmd", "requested", "fd", "guard", "modes", "pending", "got", "code", "ran", "asked", "refused"}
EnHeld(r) ==
    /\ \A k \in EnFields : k \in DOMAIN r
    /\ r.modes \subseteq EnModes
    /\ r.at = "exited" => r.modes \subseteq r.refused
    /\ r.at \in {"loop", "quit", "unwind"} => r.guard
    /\ r.at \notin EnSession \cup {"exited"} => r.modes = {}
    /\ r.at # "exited" => r.code = EnNone
    /\ r.code \in {0, 143} => r.modes = {}
    /\ r.at \in {"write", "rename"} <=> r.fd # EnNone
EnTermInv ==
    /\ DOMAIN en = EnProcs /\ DOMAIN enTty = EnProcs
    /\ \A p \in EnProcs : EnHeld(en[p]) /\ enTty[p] = en[p].modes
EnFileShape ==
    /\ \A k \in {"file", "tmp", "data", "last", "overlap"} : k \in DOMAIN enChan
    /\ DOMAIN enChan.data = 1..3
    /\ enChan.file \in 1..3 \cup {EnNone} /\ enChan.tmp \in 1..3 \cup {EnNone}
EnFileInv ==
    ~enChan.overlap =>
        /\ enChan.tmp # EnNone => enChan.tmp # enChan.file
        /\ Contents("file") = enChan.last
        /\ \A p \in EnProcs : en[p].fd # EnNone =>
              /\ en[p].fd = enChan.tmp
              /\ en[p].at = "rename" => enChan.data[en[p].fd] = en[p].requested
              /\ \A q \in EnProcs \ {p} : en[q].fd = EnNone
EnInv == EnTermInv /\ EnFileShape /\ EnFileInv

LEMMA EnStarts == EnInit => EnInv
<1> SUFFICES ASSUME EnInit PROVE EnInv
    OBVIOUS
<1>1. EnHeld(EnIdle) /\ EnIdle.modes = {} /\ EnIdle.fd = EnNone
    BY DEF EnHeld, EnIdle, EnFields, EnSession, EnModes
<1>2. EnTermInv
    BY <1>1 DEF EnTermInv, EnInit
<1>3. EnFileShape
    BY DEF EnFileShape, EnInit
<1>4. EnFileInv
    BY <1>1 DEF EnFileInv, EnInit, Contents
<1> QED BY <1>2, <1>3, <1>4 DEF EnInv

(* A step of one process that has no file open afterwards, and leaves the    *)
(* channel alone; with its terminal.                                         *)
LEMMA EnOwnStep ==
    ASSUME EnInv, NEW p \in EnProcs, NEW q, en' = [en EXCEPT ![p] = q], EnHeld(q), q.fd = EnNone,
           enTty' = [enTty EXCEPT ![p] = q.modes], UNCHANGED enChan
    PROVE  EnInv'
<1>1. \A x \in EnProcs : en'[x] = IF x = p THEN q ELSE en[x]
    BY DEF EnInv, EnTermInv
<1>2. \A x \in EnProcs : enTty'[x] = IF x = p THEN q.modes ELSE enTty[x]
    BY DEF EnInv, EnTermInv
<1>3. EnTermInv'
    BY <1>1, <1>2 DEF EnInv, EnTermInv
<1>4. EnFileShape'
    BY DEF EnInv, EnFileShape
<1>5. EnFileInv'
    BY <1>1 DEF EnInv, EnFileInv, Contents
<1> QED BY <1>3, <1>4, <1>5 DEF EnInv

LEMMA EnQuietStep ==
    ASSUME EnInv, NEW p \in EnProcs, NEW q, en' = [en EXCEPT ![p] = q], EnHeld(q), q.fd = EnNone,
           q.modes = en[p].modes, EnOnly
    PROVE  EnInv'
<1>1. \A x \in EnProcs : en'[x] = IF x = p THEN q ELSE en[x]
    BY DEF EnInv, EnTermInv
<1>3. EnTermInv'
    BY <1>1 DEF EnInv, EnTermInv, EnOnly
<1>4. EnFileShape'
    BY DEF EnInv, EnFileShape, EnOnly
<1>5. EnFileInv'
    BY <1>1 DEF EnInv, EnFileInv, Contents, EnOnly
<1> QED BY <1>3, <1>4, <1>5 DEF EnInv

(* Ends and moves outside of a session. *)
EnOutside(r) == r.at \notin EnSession \cup {"exited"}

LEMMA EnExitStep ==
    ASSUME EnInv, NEW p \in EnProcs, EnOutside(en[p]), NEW code, Exit(p, code), EnOnly PROVE EnInv'
<1> DEFINE r == en[p]
           q == [r EXCEPT !.at = "exited", !.code = code, !.fd = EnNone, !.requested = EnNone]
<1>1. EnHeld(r)
    BY DEF EnInv, EnTermInv
<1>2. en' = [en EXCEPT ![p] = q]
    BY DEF Exit, EnSet
<1> HIDE DEF r
<1>3. /\ \A k \in EnFields : k \in DOMAIN q
      /\ q.modes = r.modes /\ q.refused = r.refused /\ q.at = "exited" /\ q.fd = EnNone
    BY <1>1 DEF EnHeld, EnFields
<1> HIDE DEF q
<1>4. EnHeld(q)
    BY <1>1, <1>3 DEF EnHeld, EnOutside, r
<1> QED BY <1>2, <1>3, <1>4, EnQuietStep DEF r

LEMMA EnGotoStep ==
    ASSUME EnInv, NEW p \in EnProcs, en[p].at # "exited", en[p].fd = EnNone,
           NEW place, place \notin {"exited", "write", "rename"}, EnOutside(en[p]) \/ place \in EnSession,
           place \in {"loop", "quit", "unwind"} => en[p].guard,
           EnGoto(p, place), EnOnly
    PROVE  EnInv'
<1> DEFINE r == en[p]
           q == [r EXCEPT !.at = place]
<1>1. EnHeld(r)
    BY DEF EnInv, EnTermInv
<1>2. en' = [en EXCEPT ![p] = q]
    BY DEF EnGoto, EnSet
<1> HIDE DEF r
<1>3. /\ \A k \in EnFields : k \in DOMAIN q
      /\ q.modes = r.modes /\ q.guard = r.guard /\ q.at = place /\ q.fd = r.fd /\ q.code = r.code
    BY <1>1 DEF EnHeld, EnFields
<1> HIDE DEF q
<1>4. EnHeld(q)
    BY <1>1, <1>3, EnAssumption DEF EnHeld, EnOutside, r
<1> QED BY <1>2, <1>3, <1>4, EnQuietStep DEF r

(* Which frontend, which terminal: before the session. *)
LEMMA EnBeforeStep ==
    ASSUME EnInv, NEW p \in EnProcs, en[p].at \in {"main", "descriptor", "adopt", "stdin", "policy"},
           NEW place \in {"tui", "descriptor", "adopt", "stdin", "policy", "raw"}, NEW code,
           EnGoto(p, place) \/ Exit(p, code), EnOnly
    PROVE  EnInv'
<1>1. EnOutside(en[p]) /\ en[p].at # "exited" /\ place \notin {"exited", "write", "rename"}
    BY DEF EnOutside, EnSession, EnModes
<1>2. en[p].fd = EnNone
    BY DEF EnInv, EnTermInv, EnHeld
<1>3. CASE EnGoto(p, place)
    BY <1>1, <1>2, <1>3, EnGotoStep
<1>4. CASE Exit(p, code)
    BY <1>1, <1>4, EnExitStep
<1> QED BY <1>3, <1>4

EnBefore(p) ==
    /\ en[p].at \in {"main", "descriptor", "adopt", "stdin", "policy"} /\ EnOnly
    /\ \E place \in {"tui", "descriptor", "adopt", "stdin", "policy", "raw"}, code \in {0, 2, 3} :
          EnGoto(p, place) \/ Exit(p, code)

LEMMA EnBeforeCases ==
    ASSUME NEW p, main(p) \/ launch_development_broker_entry(p) \/ launch_broker_entry(p) \/ RedirectStdin(p)
                  \/ launch_alone(p) \/ launch_authenticated_control(p) \/ run_for_launch(p)
    PROVE  EnBefore(p)
<1>1. CASE main(p)
    BY <1>1 DEF main, EnBefore
<1>2. CASE launch_development_broker_entry(p)
    BY <1>2 DEF launch_development_broker_entry, EnBefore
<1>3. CASE launch_broker_entry(p)
    BY <1>3 DEF launch_broker_entry, EnBefore
<1>4. CASE RedirectStdin(p)
    BY <1>4 DEF RedirectStdin, EnBefore
<1>5. ASSUME NEW plain \in {0, 2}, NEW ready, Policy(p, plain, ready), en[p].at = "policy" PROVE EnBefore(p)
    BY <1>5 DEF Policy, EnBefore
<1>6. CASE launch_alone(p)
    BY <1>5, <1>6 DEF launch_alone
<1>7. CASE launch_authenticated_control(p)
    BY <1>5, <1>7 DEF launch_authenticated_control
<1>8. CASE run_for_launch(p)
    BY <1>5, <1>8 DEF run_for_launch
<1> QED BY <1>1, <1>2, <1>3, <1>4, <1>6, <1>7, <1>8

(* The command of the router. *)
LEMMA EnTuiStep == ASSUME EnInv, NEW p \in EnProcs, launch_tui_command(p) PROVE EnInv'
<1> DEFINE r == en[p]
<1>1. r.at = "tui" /\ EnHeld(r) /\ EnOnly
    BY DEF launch_tui_command, EnInv, EnTermInv
<1>2. EnOutside(r) /\ r.fd = EnNone
    BY <1>1 DEF EnOutside, EnSession, EnModes, EnHeld
<1>3. CASE EnGoto(p, "policy")
    BY <1>1, <1>2, <1>3, EnGotoStep
<1>4. CASE Exit(p, 2)
    BY <1>1, <1>2, <1>4, EnExitStep
<1>5. ASSUME NEW x, NEW y, NEW place \in {"open", "tui_run"},
             EnSet(p, [en[p] EXCEPT !.requested = x, !.asked = y, !.at = place])
      PROVE  EnInv'
  <2> DEFINE q == [r EXCEPT !.requested = x, !.asked = y, !.at = place]
  <2> HIDE DEF r
  <2>2. /\ \A k \in EnFields : k \in DOMAIN q
        /\ q.modes = r.modes /\ q.refused = r.refused /\ q.at = place /\ q.fd = r.fd /\ q.code = r.code
      BY <1>1 DEF EnHeld, EnFields
  <2>3. en' = [en EXCEPT ![p] = q]
      BY <1>5 DEF EnSet, r
  <2> HIDE DEF q
  <2>4. EnHeld(q)
      BY <1>1, <1>2, <2>2, EnAssumption DEF EnHeld, EnOutside
  <2> QED BY <1>1, <1>2, <2>2, <2>3, <2>4, EnQuietStep DEF r
<1> DEFINE c == Cmd(p)
           x == parse(c, persisted).requested
           y == InForce(c)
           place == IF Explicit(c) THEN "open" ELSE "tui_run"
<1>6. \/ EnGoto(p, "policy") \/ Exit(p, 2)
      \/ EnSet(p, [en[p] EXCEPT !.requested = x, !.asked = y, !.at = place])
    BY DEF launch_tui_command
<1>7. place \in {"open", "tui_run"}
    OBVIOUS
<1> HIDE DEF c, x, y, place
<1> QED BY <1>3, <1>4, <1>5, <1>6, <1>7

LEMMA EnRunStep == ASSUME EnInv, NEW p \in EnProcs, execute_lifecycle(p) PROVE EnInv'
<1> DEFINE r == en[p]
<1>1. r.at = "tui_run" /\ EnHeld(r) /\ EnOnly
    BY DEF execute_lifecycle, EnInv, EnTermInv
<1>2. EnOutside(r) /\ r.fd = EnNone
    BY <1>1 DEF EnOutside, EnSession, EnModes, EnHeld
<1>3. CASE Exit(p, 3)
    BY <1>1, <1>2, <1>3, EnExitStep
<1>4. CASE \E x, code : en' = [en EXCEPT ![p] = [r EXCEPT !.at = "exited", !.code = code, !.requested = EnNone, !.ran = x]]
  <2>1. PICK x, code : en' = [en EXCEPT ![p] = [r EXCEPT !.at = "exited", !.code = code, !.requested = EnNone, !.ran = x]]
      BY <1>4
  <2> DEFINE q == [r EXCEPT !.at = "exited", !.code = code, !.requested = EnNone, !.ran = x]
  <2> HIDE DEF r
  <2>2. /\ \A k \in EnFields : k \in DOMAIN q
        /\ q.modes = r.modes /\ q.refused = r.refused /\ q.at = "exited" /\ q.fd = r.fd
      BY <1>1 DEF EnHeld, EnFields
  <2>3. en' = [en EXCEPT ![p] = q]
      BY <2>1
  <2> HIDE DEF q
  <2>4. EnHeld(q)
      BY <1>1, <1>2, <2>2 DEF EnHeld, EnOutside
  <2> QED BY <1>1, <1>2, <2>2, <2>3, <2>4, EnQuietStep DEF r
<1> QED BY <1>3, <1>4 DEF execute_lifecycle, EnSet

(* Starts, ends, signals and leaving the loop. *)
LEMMA EnIdleStep == ASSUME EnInv, NEW p \in EnProcs, Starts(p) \/ EnAgain(p) PROVE EnInv'
<1> DEFINE r == en[p]
<1>1. EnOnly /\ EnHeld(r) /\ r.modes = {}
    BY DEF Starts, EnAgain, EnInv, EnTermInv, EnHeld, EnSession, EnModes
<1>2. \E q : en' = [en EXCEPT ![p] = q] /\ EnHeld(q) /\ q.fd = EnNone /\ q.modes = {}
  <2>1. CASE Starts(p)
    <3>1. PICK i : en' = [en EXCEPT ![p] = [EnIdle EXCEPT !.at = "main", !.cmd = i]]
        BY <2>1 DEF Starts, EnSet
    <3>2. LET q == [EnIdle EXCEPT !.at = "main", !.cmd = i] IN EnHeld(q) /\ q.fd = EnNone /\ q.modes = {}
        BY EnAssumption DEF EnHeld, EnIdle, EnFields, EnSession, EnModes
    <3> QED BY <3>1, <3>2
  <2>2. CASE EnAgain(p)
    <3>1. EnHeld(EnIdle) /\ EnIdle.modes = {} /\ EnIdle.fd = EnNone
        BY EnAssumption DEF EnHeld, EnIdle, EnFields, EnSession, EnModes
    <3> QED BY <2>2, <3>1 DEF EnAgain, EnSet
  <2> QED BY <2>1, <2>2
<1>3. PICK q : en' = [en EXCEPT ![p] = q] /\ EnHeld(q) /\ q.fd = EnNone /\ q.modes = {}
    BY <1>2
<1> QED BY <1>1, <1>3, EnQuietStep

LEMMA EnSignalStep == ASSUME EnInv, NEW p \in EnProcs, NEW s, Signal(p, s) PROVE EnInv'
<1> DEFINE r == en[p]
           q == [r EXCEPT !.pending = @ \cup {s}, !.got = @ + 1]
<1>1. r.at \in EnSession /\ EnHeld(r) /\ EnOnly
    BY DEF Signal, EnInv, EnTermInv
<1>2. en' = [en EXCEPT ![p] = q]
    BY DEF Signal, EnSet
<1> HIDE DEF r
<1>3. /\ \A k \in EnFields : k \in DOMAIN q
      /\ q.modes = r.modes /\ q.guard = r.guard /\ q.at = r.at /\ q.fd = r.fd /\ q.code = r.code
    BY <1>1 DEF EnHeld, EnFields
<1> HIDE DEF q
<1>4. EnHeld(q) /\ q.fd = EnNone
    BY <1>1, <1>3 DEF EnHeld, EnSession, EnModes
<1> QED BY <1>1, <1>2, <1>3, <1>4, EnQuietStep DEF r

LEMMA EnLeaveStep == ASSUME EnInv, NEW p \in EnProcs, Leaves(p) \/ Continued(p) PROVE EnInv'
<1>1. en[p].at \in {"loop", "stopped"} /\ EnHeld(en[p]) /\ EnOnly
    BY DEF Leaves, Continued, EnInv, EnTermInv
<1>2. en[p].fd = EnNone
    BY <1>1 DEF EnHeld
<1>3. PICK place \in {"quit", "unwind", "raw"} : EnGoto(p, place) /\ (place # "raw" => en[p].at = "loop")
    BY DEF Leaves, Continued
<1>4. place \in {"loop", "quit", "unwind"} => en[p].guard
    BY <1>1, <1>3 DEF EnHeld
<1> QED BY <1>1, <1>2, <1>3, <1>4, EnGotoStep DEF EnSession, EnModes

(* The steps of a session.  What is left on after an undoing is what failed. *)
LEMMA EnUndo ==
    ASSUME EnInv, NEW p \in EnProcs, NEW f \in Undoes(p), restore(p, f)
    PROVE  LET q == Restored(p, f)
           IN  /\ \A k \in EnFields : k \in DOMAIN q
               /\ q.modes = f /\ f \subseteq q.refused /\ f \subseteq EnModes /\ q.at = en[p].at /\ q.fd = en[p].fd
               /\ q.code = en[p].code /\ q.guard = en[p].guard
               /\ enTty' = [enTty EXCEPT ![p] = f] /\ UNCHANGED <<enChan, enHost>>
<1> DEFINE r == en[p]
           q == Restored(p, f)
           ref == r.modes \cap f
           mod == r.modes \cap f
<1>1. EnHeld(r) /\ enTty[p] = r.modes /\ f \subseteq r.modes
    BY DEF EnInv, EnTermInv, Undoes
<1>2. q = [r EXCEPT !.modes = mod, !.refused = ref]
    BY DEF Restored
<1>3. mod = f /\ f \subseteq ref /\ f \subseteq EnModes
    BY <1>1 DEF EnHeld
<1>4. enTty' = [enTty EXCEPT ![p] = f] /\ UNCHANGED <<enChan, enHost>>
  <2>1. enTty[p] \ (en[p].modes \ f) = f
      BY <1>1
  <2> QED BY <2>1 DEF restore
<1> HIDE DEF r, mod, ref, q
<1>5. /\ \A k \in EnFields : k \in DOMAIN q
      /\ q.modes = mod /\ q.refused = ref /\ q.at = r.at /\ q.fd = r.fd /\ q.code = r.code /\ q.guard = r.guard
    BY <1>1, <1>2 DEF EnHeld, EnFields
<1> QED BY <1>3, <1>4, <1>5 DEF q, r

(* How a process goes on after it: to the end, the shell, or an unwinding. *)
LEMMA EnUndoneStep ==
    ASSUME EnInv, NEW p \in EnProcs, en[p].at \in EnSession, NEW f \in Undoes(p), restore(p, f),
           NEW q, en' = [en EXCEPT ![p] = q], \A k \in EnFields : k \in DOMAIN q,
           q.modes = f, q.refused = Restored(p, f).refused, q.fd = en[p].fd,
           \/ q.at = "unwind" /\ q.code = en[p].code /\ q.guard
           \/ q.at = "stopped" /\ q.code = en[p].code /\ f = {}
           \/ q.at = "exited" /\ (q.code = 2 \/ f = {})
    PROVE  EnInv'
<1>1. LET s == Restored(p, f)
      IN  f \subseteq s.refused /\ f \subseteq EnModes /\ enTty' = [enTty EXCEPT ![p] = f] /\ UNCHANGED <<enChan, enHost>>
    BY EnUndo
<1>2. EnHeld(en[p])
    BY DEF EnInv, EnTermInv
<1>3. EnHeld(q) /\ q.fd = EnNone
    BY <1>1, <1>2, EnAssumption DEF EnHeld, EnSession, EnModes
<1> QED BY <1>1, <1>3, EnOwnStep

LEMMA EnEnterStep == ASSUME EnInv, NEW p \in EnProcs, enter(p) PROVE EnInv'
<1> DEFINE r == en[p]
<1>1. r.at \in EnModes /\ EnHeld(r) /\ enTty[p] = r.modes
    BY DEF enter, EnInv, EnTermInv
<1>2. r.at \in EnSession /\ r.fd = EnNone /\ r.code = EnNone
    BY <1>1 DEF EnSession, EnHeld, EnModes
<1>3. CASE /\ EnSet(p, [r EXCEPT !.at = EnNext(@), !.modes = @ \cup {r.at},
                                 !.guard = EnNext(r.at) = "loop"])
           /\ enTty' = [enTty EXCEPT ![p] = @ \cup {r.at}] /\ UNCHANGED <<enChan, enHost>>
  <2> DEFINE place == EnNext(r.at)
             mod == r.modes \cup {r.at}
             g == place = "loop"
             q == [r EXCEPT !.at = place, !.modes = mod, !.guard = g]
  <2>0. place \notin {"quit", "unwind"} /\ (place = "loop" => g)
      BY <1>1 DEF EnNext
  <2>1. place \in EnSession
      BY <1>1 DEF EnNext, EnSession, EnModes
  <2>2. en' = [en EXCEPT ![p] = q] /\ enTty' = [enTty EXCEPT ![p] = mod] /\ UNCHANGED enChan
      BY <1>1, <1>3 DEF EnSet
  <2>3. mod \subseteq EnModes
      BY <1>1 DEF EnHeld
  <2> HIDE DEF place, mod, g, r
  <2>4. /\ \A k \in EnFields : k \in DOMAIN q
        /\ q.modes = mod /\ q.guard = g /\ q.at = place /\ q.fd = r.fd /\ q.code = r.code
      BY <1>1 DEF EnHeld, EnFields
  <2> HIDE DEF q
  <2>5. EnHeld(q) /\ q.fd = EnNone
      BY <1>2, <2>0, <2>1, <2>3, <2>4, EnAssumption DEF EnHeld, EnSession, EnModes
  <2> QED BY <2>2, <2>4, <2>5, EnOwnStep
<1>4. CASE \E f \in Undoes(p) :
              EnSet(p, [Restored(p, f) EXCEPT !.at = "exited", !.code = 2]) /\ restore(p, f)
  <2>1. PICK f \in Undoes(p) :
              EnSet(p, [Restored(p, f) EXCEPT !.at = "exited", !.code = 2]) /\ restore(p, f)
      BY <1>4
  <2> DEFINE s == Restored(p, f)
             q == [s EXCEPT !.at = "exited", !.code = 2]
  <2>2. (\A k \in EnFields : k \in DOMAIN s) /\ s.modes = f /\ s.fd = r.fd
      BY <2>1, EnUndo
  <2>3. en' = [en EXCEPT ![p] = q]
      BY <2>1 DEF EnSet
  <2> HIDE DEF s, r
  <2>4. /\ \A k \in EnFields : k \in DOMAIN q
        /\ q.modes = f /\ q.refused = s.refused /\ q.at = "exited" /\ q.fd = r.fd /\ q.code = 2
      BY <2>2 DEF EnFields
  <2> HIDE DEF q
  <2> QED BY <1>2, <2>1, <2>3, <2>4, EnUndoneStep DEF s, r
<1> QED BY <1>3, <1>4 DEF enter

LEMMA EnHandleStep == ASSUME EnInv, NEW p \in EnProcs, handle_signals(p) PROVE EnInv'
<1> DEFINE r == en[p]
<1>1. PICK s \in r.pending, f \in Undoes(p) :
          LET v == [Restored(p, f) EXCEPT !.pending = @ \ {s}, !.guard = f # {}]
          IN  /\ EnSet(p, IF f # {} THEN [v EXCEPT !.at = "unwind"]
                          ELSE IF s = "TERM" THEN [v EXCEPT !.at = "exited", !.code = 143]
                          ELSE [v EXCEPT !.at = "stopped"])
              /\ restore(p, f)
    BY DEF handle_signals
<1>2. r.at \in EnSession
    BY DEF handle_signals, EnSession
<1> DEFINE t == Restored(p, f)
           pend == t.pending \ {s}
           g == f # {}
           v == [t EXCEPT !.pending = pend, !.guard = g]
           q == IF f # {} THEN [v EXCEPT !.at = "unwind"]
                ELSE IF s = "TERM" THEN [v EXCEPT !.at = "exited", !.code = 143]
                ELSE [v EXCEPT !.at = "stopped"]
<1>3. (\A k \in EnFields : k \in DOMAIN t) /\ t.modes = f /\ t.fd = r.fd /\ t.code = r.code
    BY <1>1, EnUndo
<1>4. en' = [en EXCEPT ![p] = q] /\ restore(p, f)
    BY <1>1 DEF EnSet
<1> HIDE DEF t, r, pend, g
<1>5. /\ \A k \in EnFields : k \in DOMAIN v
      /\ v.modes = f /\ v.refused = t.refused /\ v.fd = r.fd /\ v.code = r.code /\ v.guard = g
    BY <1>3 DEF EnFields
<1> HIDE DEF v
<1>6. /\ \A k \in EnFields : k \in DOMAIN q
      /\ q.modes = f /\ q.refused = t.refused /\ q.fd = r.fd
      /\ \/ q.at = "unwind" /\ q.code = r.code /\ q.guard
         \/ q.at = "stopped" /\ q.code = r.code /\ f = {}
         \/ q.at = "exited" /\ (q.code = 2 \/ f = {})
  <2>1. CASE f # {}
      BY <1>5, <2>1 DEF EnFields, g
  <2>2. CASE f = {} /\ s = "TERM"
      BY <1>5, <2>2 DEF EnFields
  <2>3. CASE f = {} /\ s # "TERM"
      BY <1>5, <2>3 DEF EnFields
  <2> QED BY <2>1, <2>2, <2>3
<1> HIDE DEF q
<1> QED BY <1>2, <1>4, <1>6, EnUndoneStep DEF t, r

LEMMA EnQuitStep == ASSUME EnInv, NEW p \in EnProcs, session_restore(p) PROVE EnInv'
<1> DEFINE r == en[p]
<1>1. PICK f \in Undoes(p) :
          /\ EnSet(p, IF f = {} THEN [Restored(p, f) EXCEPT !.guard = FALSE, !.at = "exited", !.code = 0]
                      ELSE [Restored(p, f) EXCEPT !.at = "unwind"])
          /\ restore(p, f)
    BY DEF session_restore
<1>2. r.at \in EnSession
    BY DEF session_restore, EnSession
<1> DEFINE t == Restored(p, f)
           q == IF f = {} THEN [t EXCEPT !.guard = FALSE, !.at = "exited", !.code = 0]
                ELSE [t EXCEPT !.at = "unwind"]
<1>3. (\A k \in EnFields : k \in DOMAIN t) /\ t.modes = f /\ t.fd = r.fd /\ t.code = r.code /\ t.guard
  <2>1. t.guard = r.guard
      BY <1>1, EnUndo
  <2>2. r.guard
      BY DEF session_restore, EnInv, EnTermInv, EnHeld
  <2> QED BY <1>1, <2>1, <2>2, EnUndo
<1>4. en' = [en EXCEPT ![p] = q] /\ restore(p, f)
    BY <1>1 DEF EnSet
<1> HIDE DEF t, r
<1>5. /\ \A k \in EnFields : k \in DOMAIN q
      /\ q.modes = f /\ q.refused = t.refused /\ q.fd = r.fd
      /\ \/ q.at = "unwind" /\ q.code = r.code /\ q.guard
         \/ q.at = "exited" /\ f = {}
  <2>1. CASE f # {}
      BY <1>3, <2>1 DEF EnFields
  <2>2. CASE f = {}
      BY <1>3, <2>2 DEF EnFields
  <2> QED BY <2>1, <2>2
<1> HIDE DEF q
<1> QED BY <1>2, <1>4, <1>5, EnUndoneStep DEF t, r

LEMMA EnDropStep == ASSUME EnInv, NEW p \in EnProcs, drop(p) PROVE EnInv'
<1> DEFINE r == en[p]
<1>1. PICK f \in Undoes(p) :
          /\ (~en[p].guard => f = en[p].modes)
          /\ EnSet(p, [(IF en[p].guard THEN Restored(p, f) ELSE en[p]) EXCEPT !.at = "exited", !.code = 2])
          /\ restore(p, f)
    BY DEF drop
<1>2. r.at \in EnSession /\ EnHeld(r)
    BY DEF drop, EnSession, EnInv, EnTermInv
<1> DEFINE t == IF en[p].guard THEN Restored(p, f) ELSE en[p]
           q == [t EXCEPT !.at = "exited", !.code = 2]
<1>3. /\ \A k \in EnFields : k \in DOMAIN t
      /\ t.modes = f /\ t.fd = r.fd /\ f \subseteq t.refused /\ f \subseteq EnModes
      /\ enTty' = [enTty EXCEPT ![p] = f] /\ UNCHANGED enChan
  <2>1. en[p].guard
      BY DEF drop, EnInv, EnTermInv, EnHeld
  <2> QED BY <1>1, <2>1, EnUndo
<1>4. en' = [en EXCEPT ![p] = q]
    BY <1>1 DEF EnSet
<1>5. r.fd = EnNone
    BY <1>2 DEF EnHeld, EnSession, EnModes
<1> HIDE DEF t, r
<1>6. /\ \A k \in EnFields : k \in DOMAIN q
      /\ q.modes = f /\ q.refused = t.refused /\ q.fd = EnNone /\ q.at = "exited" /\ q.code = 2
    BY <1>3, <1>5 DEF EnFields
<1> HIDE DEF q
<1>7. EnHeld(q)
    BY <1>3, <1>6, EnAssumption DEF EnHeld
<1> QED BY <1>3, <1>4, <1>6, <1>7, EnOwnStep

(* Recording a channel. *)
LEMMA EnOpenStep == ASSUME EnInv, NEW p \in EnProcs, open_temporary(p) PROVE EnInv'
<1> DEFINE r == en[p]
<1>1. r.at = "open" /\ EnHeld(r) /\ enTty[p] = r.modes
    BY DEF open_temporary, EnInv, EnTermInv
<1>2. EnOutside(r) /\ r.fd = EnNone
    BY <1>1 DEF EnOutside, EnSession, EnModes, EnHeld
<1>3. CASE Exit(p, 3) /\ UNCHANGED enChan
    BY <1>2, <1>3, EnExitStep DEF open_temporary, EnOnly
<1>4. ASSUME NEW i \in DOMAIN enChan.data, IF enChan.tmp = EnNone THEN Free(i) ELSE i = enChan.tmp,
             EnSet(p, [en[p] EXCEPT !.at = "write", !.fd = i]),
             enChan' = [enChan EXCEPT !.tmp = i, !.data[i] = EnTorn, !.overlap = Overlaps(p)], UNCHANGED enTty
      PROVE  EnInv'
  <2> DEFINE q == [r EXCEPT !.at = "write", !.fd = i]
             o == Overlaps(p)
  <2>1. i \in 1..3 /\ i # EnNone
      BY <1>4, EnAssumption DEF EnInv, EnFileShape
  <2>2. en' = [en EXCEPT ![p] = q]
      BY <1>4 DEF EnSet
  <2> HIDE DEF r
  <2>3. /\ \A k \in EnFields : k \in DOMAIN q
        /\ q.modes = r.modes /\ q.refused = r.refused /\ q.at = "write" /\ q.fd = i /\ q.code = r.code
      BY <1>1 DEF EnHeld, EnFields
  <2> HIDE DEF q
  <2>4. EnHeld(q)
      BY <1>1, <1>2, <2>1, <2>3, EnAssumption DEF EnHeld, EnOutside
  <2>5. \A x \in EnProcs : en'[x] = IF x = p THEN q ELSE en[x]
      BY <2>2 DEF EnInv, EnTermInv
  <2>6. EnTermInv'
      BY <1>1, <1>4, <2>2, <2>3, <2>4, <2>5 DEF EnInv, EnTermInv, r
  <2> HIDE DEF o
  <2>7. /\ \A k \in {"file", "tmp", "data", "last", "overlap"} : k \in DOMAIN enChan'
        /\ enChan'.file = enChan.file /\ enChan'.tmp = i /\ enChan'.last = enChan.last /\ enChan'.overlap = o
        /\ enChan'.data = [enChan.data EXCEPT ![i] = EnTorn]
      BY <1>4 DEF EnInv, EnFileShape, o
  <2>8. EnFileShape'
      BY <2>1, <2>7 DEF EnInv, EnFileShape
  <2>9. ~o => ~enChan.overlap /\ \A x \in EnProcs \ {p} : en[x].fd = EnNone
      BY DEF o, Overlaps
  <2>10. ~o => i # enChan.file
      BY <1>4, <2>1, <2>9 DEF EnInv, EnFileInv, Free, Used
  <2>11. ~o => Contents("file")' = Contents("file")
    <3>1. \A j \in 1..3 : j # i => enChan'.data[j] = enChan.data[j]
        BY <2>7 DEF EnInv, EnFileShape
    <3> QED BY <2>7, <2>10, <3>1 DEF Contents, EnInv, EnFileShape
  <2>12. EnFileInv'
      BY <2>3, <2>5, <2>7, <2>9, <2>10, <2>11 DEF EnInv, EnFileInv
  <2> QED BY <2>6, <2>8, <2>12 DEF EnInv
<1> QED BY <1>3, <1>4 DEF open_temporary

LEMMA EnWriteStep == ASSUME EnInv, NEW p \in EnProcs, write_temporary(p) PROVE EnInv'
<1> DEFINE r == en[p]
<1>1. r.at = "write" /\ EnHeld(r) /\ enTty[p] = r.modes /\ UNCHANGED enTty
    BY DEF write_temporary, EnInv, EnTermInv
<1>2. EnOutside(r) /\ r.fd # EnNone
    BY <1>1 DEF EnOutside, EnSession, EnModes, EnHeld
<1>3. CASE Exit(p, 3) /\ UNCHANGED enChan
    BY <1>2, <1>3, EnExitStep DEF write_temporary, EnOnly
<1>4. CASE EnGoto(p, "rename") /\ enChan' = [enChan EXCEPT !.data[en[p].fd] = en[p].requested]
  <2> DEFINE q == [r EXCEPT !.at = "rename"]
             i == r.fd
  <2>1. en' = [en EXCEPT ![p] = q]
      BY <1>4 DEF EnGoto, EnSet
  <2> HIDE DEF r
  <2>2. /\ \A k \in EnFields : k \in DOMAIN q
        /\ q.modes = r.modes /\ q.refused = r.refused /\ q.at = "rename" /\ q.fd = i /\ q.code = r.code
        /\ q.requested = r.requested
      BY <1>1 DEF EnHeld, EnFields
  <2> HIDE DEF q
  <2>3. EnHeld(q)
      BY <1>1, <1>2, <2>2, EnAssumption DEF EnHeld, EnOutside
  <2>4. \A x \in EnProcs : en'[x] = IF x = p THEN q ELSE en[x]
      BY <2>1 DEF EnInv, EnTermInv
  <2>5. EnTermInv'
      BY <1>1, <2>1, <2>2, <2>3, <2>4 DEF EnInv, EnTermInv, r
  <2>6. /\ \A k \in {"file", "tmp", "data", "last", "overlap"} : k \in DOMAIN enChan'
        /\ enChan'.file = enChan.file /\ enChan'.tmp = enChan.tmp /\ enChan'.last = enChan.last
        /\ enChan'.overlap = enChan.overlap
        /\ enChan'.data = [enChan.data EXCEPT ![i] = r.requested]
      BY <1>4 DEF EnInv, EnFileShape, r
  <2>7. EnFileShape'
      BY <2>6 DEF EnInv, EnFileShape
  <2>8. ~enChan.overlap => /\ i = enChan.tmp /\ i \in 1..3 /\ i # enChan.file
                           /\ \A x \in EnProcs \ {p} : en[x].fd = EnNone
      BY <1>2 DEF EnInv, EnFileInv, EnFileShape, r
  <2>9. ~enChan.overlap => /\ enChan'.data[i] = r.requested
                           /\ Contents("file")' = Contents("file")
    <3>1. \A j \in 1..3 : enChan'.data[j] = IF j = i THEN r.requested ELSE enChan.data[j]
        BY <2>6 DEF EnInv, EnFileShape
    <3> QED BY <2>6, <2>8, <3>1 DEF Contents, EnInv, EnFileShape
  <2>10. EnFileInv'
      BY <2>2, <2>4, <2>6, <2>8, <2>9 DEF EnInv, EnFileInv
  <2> QED BY <2>5, <2>7, <2>10 DEF EnInv
<1> QED BY <1>3, <1>4 DEF write_temporary

LEMMA EnRenameStep == ASSUME EnInv, NEW p \in EnProcs, rename_temporary(p) PROVE EnInv'
<1> DEFINE r == en[p]
<1>1. r.at = "rename" /\ EnHeld(r) /\ enTty[p] = r.modes /\ UNCHANGED enTty
    BY DEF rename_temporary, EnInv, EnTermInv
<1>2. EnOutside(r) /\ r.fd # EnNone
    BY <1>1 DEF EnOutside, EnSession, EnModes, EnHeld
<1>3. CASE Exit(p, 3) /\ UNCHANGED enChan
    BY <1>2, <1>3, EnExitStep DEF rename_temporary, EnOnly
<1>4. CASE ~(Exit(p, 3) /\ UNCHANGED enChan)
  <2> DEFINE q == [r EXCEPT !.at = "tui_run", !.fd = EnNone]
             d == [i \in DOMAIN enChan.data |-> IF i = enChan.file THEN EnTorn ELSE enChan.data[i]]
  <2>1. /\ en' = [en EXCEPT ![p] = q]
        /\ enChan' = [enChan EXCEPT !.file = enChan.tmp, !.tmp = EnNone, !.last = r.requested, !.data = d]
      BY <1>4 DEF rename_temporary, EnSet
  <2> HIDE DEF r
  <2>2. /\ \A k \in EnFields : k \in DOMAIN q
        /\ q.modes = r.modes /\ q.refused = r.refused /\ q.at = "tui_run" /\ q.fd = EnNone /\ q.code = r.code
      BY <1>1 DEF EnHeld, EnFields
  <2> HIDE DEF q
  <2>3. EnHeld(q)
      BY <1>1, <1>2, <2>2, EnAssumption DEF EnHeld, EnOutside
  <2>4. \A x \in EnProcs : en'[x] = IF x = p THEN q ELSE en[x]
      BY <2>1 DEF EnInv, EnTermInv
  <2>5. EnTermInv'
      BY <1>1, <2>1, <2>2, <2>3, <2>4 DEF EnInv, EnTermInv, r
  <2>6. DOMAIN d = 1..3 /\ \A j \in 1..3 : d[j] = IF j = enChan.file THEN EnTorn ELSE enChan.data[j]
      BY DEF EnInv, EnFileShape
  <2> HIDE DEF d
  <2>7. /\ \A k \in {"file", "tmp", "data", "last", "overlap"} : k \in DOMAIN enChan'
        /\ enChan'.file = enChan.tmp /\ enChan'.tmp = EnNone /\ enChan'.last = r.requested
        /\ enChan'.overlap = enChan.overlap /\ enChan'.data = d
      BY <2>1 DEF EnInv, EnFileShape
  <2>8. EnFileShape'
      BY <2>6, <2>7 DEF EnInv, EnFileShape
  <2>9. ~enChan.overlap => /\ r.fd = enChan.tmp /\ r.fd # enChan.file /\ enChan.data[r.fd] = r.requested
                           /\ \A x \in EnProcs \ {p} : en[x].fd = EnNone
      BY <1>1, <1>2 DEF EnInv, EnFileInv, r
  <2>10. enChan.tmp \in 1..3 /\ enChan.tmp # EnNone
      BY <1>4 DEF rename_temporary, EnInv, EnFileShape
  <2>11. ~enChan.overlap => Contents("file")' = r.requested
      BY <2>6, <2>7, <2>9, <2>10 DEF Contents
  <2>12. EnFileInv'
      BY <2>2, <2>4, <2>7, <2>9, <2>11 DEF EnFileInv
  <2> QED BY <2>5, <2>8, <2>12 DEF EnInv
<1> QED BY <1>3, <1>4

LEMMA EnSteps == EnInv /\ [EnNextStep]_enVars => EnInv'
<1> SUFFICES ASSUME EnInv, [EnNextStep]_enVars PROVE EnInv'
    OBVIOUS
<1>1. CASE UNCHANGED enVars
    BY <1>1 DEF enVars, EnInv, EnTermInv, EnFileShape, EnFileInv, Contents
<1>2. ASSUME NEW p \in EnProcs, EnStep(p) PROVE EnInv'
  <2>1. CASE EnBefore(p)
      BY <2>1, EnBeforeStep DEF EnBefore
  <2> QED BY <1>2, <2>1, EnBeforeCases, EnTuiStep, EnOpenStep, EnWriteStep, EnRenameStep, EnRunStep,
             EnEnterStep, EnHandleStep, EnQuitStep, EnDropStep DEF EnStep
<1>3. ASSUME NEW p \in EnProcs, EnCrash(p) PROVE EnInv'
  <2>1. EnOutside(en[p]) /\ Exit(p, 137) /\ EnOnly
      BY <1>3 DEF EnCrash, EnOutside, EnSession, EnModes
  <2> QED BY <2>1, EnExitStep
<1> QED BY <1>1, <1>2, <1>3, EnIdleStep, EnLeaveStep, EnSignalStep DEF EnNextStep

(* The terminal is given back by every way out of the frontend, to the shell *)
(* while it is stopped; a mode that is still on at the end was tried, and    *)
(* its restoration failed (runtime.rs, "Dropping it always attempts          *)
(* restoration").                                                            *)
THEOREM TerminalIsGiven == EnSpec => []EnTerminalGiven
<1>1. EnInv => EnTerminalGiven
    BY EnAssumption DEF EnInv, EnTermInv, EnHeld, EnTerminalGiven, EnSession, EnModes
<1> QED BY <1>1, EnStarts, EnSteps, PTL DEF EnSpec

(* As long as no two processes record a channel at the same time, the file   *)
(* holds the last choice recorded (channel_selection.rs, persist).           *)
THEOREM ChoiceIsKept == EnSpec => []EnChoiceKept
<1>1. EnInv => EnChoiceKept
    BY DEF EnInv, EnFileInv, EnChoiceKept
<1> QED BY <1>1, EnStarts, EnSteps, PTL DEF EnSpec

-----------------------------------------------------------------------------
(* The command line.  A reading is a function on the numbers of flags read;  *)
(* that there is one that satisfies its equation, and what it says of the    *)
(* channel, are two inductions, each by a least counterexample.              *)

EnErrors == {EnNone, "usage_invalid", "production_profile_unsupported"}
EnReadings == [requested : EnChannels \cup {EnNone}, channel_dev : BOOLEAN, selected : BOOLEAN,
               json : BOOLEAN, error : EnErrors]

LEMMA FlagCases ==
    ASSUME NEW acc, NEW t
    PROVE  LET next == Flag(acc, t)
           IN  \/ acc.error # EnNone /\ next = acc
               \/ /\ acc.error = EnNone /\ t.flag = "--development" /\ ~acc.selected
                  /\ next = [acc EXCEPT !.channel_dev = FALSE, !.requested = "dev"]
               \/ /\ acc.error = EnNone /\ t.flag = "--channel" /\ ~acc.selected /\ t.value \in EnChannels
                  /\ next = [acc EXCEPT !.requested = t.value, !.channel_dev = available(t.value), !.selected = TRUE]
               \/ /\ acc.error = EnNone /\ t.flag \in {"--json", "--format"}
                  /\ next = [acc EXCEPT !.json = TRUE]
               \/ \E e \in {"usage_invalid", "production_profile_unsupported"} :
                     acc.error = EnNone /\ next = [acc EXCEPT !.error = e]
    BY Zenon DEF Flag

LEMMA FlagReads == ASSUME NEW acc \in EnReadings, NEW t PROVE Flag(acc, t) \in EnReadings
<1>1. \A c : available(c) \in BOOLEAN
    BY DEF available
<1>2. "dev" \in EnChannels
    BY DEF EnChannels
<1> DEFINE next == Flag(acc, t)
<1>3. CASE \E e \in {"usage_invalid", "production_profile_unsupported"} : next = [acc EXCEPT !.error = e]
    BY <1>3 DEF EnReadings, EnErrors
<1>4. CASE next = [acc EXCEPT !.channel_dev = FALSE, !.requested = "dev"]
    BY <1>2, <1>4 DEF EnReadings
<1>5. ASSUME NEW v \in EnChannels, NEW x \in BOOLEAN,
             next = [acc EXCEPT !.requested = v, !.channel_dev = x, !.selected = TRUE]
      PROVE  next \in EnReadings
    BY <1>5 DEF EnReadings
<1>6. CASE next = acc \/ next = [acc EXCEPT !.json = TRUE]
    BY <1>6 DEF EnReadings
<1> QED BY <1>1, <1>3, <1>4, <1>5, <1>6, FlagCases

LEMMA ReadingExists ==
    ASSUME NEW flags, NEW start \in EnReadings
    PROVE  LET read == Reading(flags, start)
           IN  /\ read \in [Nat -> EnReadings] /\ read[0] = start
               /\ \A n \in Nat \ {0} : read[n] = Flag(read[n - 1], flags[n])
<1> DEFINE Satisfies(g, n) == /\ g \in [0..n -> EnReadings] /\ g[0] = start
                         /\ \A i \in 1..n : g[i] = Flag(g[i - 1], flags[i])
           Missing == {n \in Nat : \A g : ~Satisfies(g, n)}
<1>1. \A n \in Nat : \E g : Satisfies(g, n)
  <2> SUFFICES ASSUME Missing # {} PROVE FALSE
      OBVIOUS
  <2>1. PICK n \in Missing : \A y \in Missing : n <= y
      BY LeastNat
  <2>2. n # 0
    <3>1. Satisfies([i \in 0..0 |-> start], 0)
        OBVIOUS
    <3> QED BY <2>1, <3>1
  <2>3. n - 1 \in Nat /\ n - 1 \notin Missing
    <3>1. n \in Nat
        BY <2>1
    <3> HIDE DEF Missing
    <3> QED BY <2>1, <2>2, <3>1
  <2>4. PICK g : Satisfies(g, n - 1)
      BY <2>3
  <2> DEFINE h == [i \in 0..n |-> IF i = n THEN Flag(g[n - 1], flags[n]) ELSE g[i]]
  <2>5. Flag(g[n - 1], flags[n]) \in EnReadings
      BY <2>3, <2>4, FlagReads
  <2>6. h \in [0..n -> EnReadings]
      BY <2>1, <2>3, <2>4, <2>5
  <2>7. h[0] = start
      BY <2>1, <2>2, <2>4
  <2>8. ASSUME NEW i \in 1..n PROVE h[i] = Flag(h[i - 1], flags[i])
    <3>1. CASE i = n
        BY <2>1, <2>3, <3>1
    <3>2. CASE i # n
        BY <2>1, <2>3, <2>4, <3>2
    <3> QED BY <3>1, <3>2
  <2> HIDE DEF h
  <2> QED BY <2>1, <2>6, <2>7, <2>8
<1>2. ASSUME NEW n \in Nat, NEW m \in Nat, NEW g, NEW h, Satisfies(g, n), Satisfies(h, m), NEW i \in 0..n, i \in 0..m
      PROVE  g[i] = h[i]
  <2> DEFINE Apart == {j \in Nat : j <= n /\ j <= m /\ g[j] # h[j]}
  <2> SUFFICES ASSUME Apart # {} PROVE FALSE
      BY <1>2
  <2>1. PICK j \in Apart : \A y \in Apart : j <= y
      BY LeastNat
  <2>2. j # 0
      BY <1>2, <2>1
  <2>3. j - 1 \in Nat /\ j - 1 \notin Apart
      BY <2>1, <2>2
  <2>4. g[j - 1] = h[j - 1]
      BY <2>1, <2>3
  <2> QED BY <1>2, <2>1, <2>2, <2>4
<1> DEFINE upTo == [n \in Nat |-> CHOOSE g : Satisfies(g, n)]
           h == [n \in Nat |-> upTo[n][n]]
<1>3. \A n \in Nat : Satisfies(upTo[n], n)
    BY <1>1
<1> HIDE DEF upTo, Satisfies
<1>4. ASSUME NEW n \in Nat \ {0} PROVE h[n] = Flag(h[n - 1], flags[n])
  <2>1. n - 1 \in Nat
      OBVIOUS
  <2>2. upTo[n][n - 1] = upTo[n - 1][n - 1]
      BY <1>2, <1>3, <2>1
  <2>3. upTo[n][n] = Flag(upTo[n][n - 1], flags[n])
      BY <1>3 DEF Satisfies
  <2> QED BY <2>1, <2>2, <2>3
<1>5. h[0] = start /\ \A n \in Nat : h[n] \in EnReadings
    BY <1>3 DEF Satisfies
<1>6. h = [n \in Nat |-> IF n = 0 THEN start ELSE Flag(h[n - 1], flags[n])]
    BY <1>4, <1>5
<1> HIDE DEF h
<1>7. Reading(flags, start) = [n \in Nat |-> IF n = 0 THEN start ELSE Flag(Reading(flags, start)[n - 1], flags[n])]
    BY <1>6, Zenon DEF Reading
<1> DEFINE read == Reading(flags, start)
<1> HIDE DEF read
<1>8. read[0] = start /\ \A n \in Nat \ {0} : read[n] = Flag(read[n - 1], flags[n])
    BY <1>7 DEF read
<1>9. \A n \in Nat : read[n] \in EnReadings
  <2> DEFINE Bad == {n \in Nat : read[n] \notin EnReadings}
  <2> SUFFICES ASSUME Bad # {} PROVE FALSE
      OBVIOUS
  <2>1. PICK n \in Bad : \A y \in Bad : n <= y
      BY LeastNat
  <2>2. n # 0
      BY <1>8, <2>1
  <2>3. n - 1 \in Nat /\ read[n - 1] \in EnReadings
      BY <2>1, <2>2
  <2> QED BY <1>8, <2>1, <2>2, <2>3, FlagReads
<1>10. read \in [Nat -> EnReadings]
    BY <1>7, <1>9 DEF read
<1> QED BY <1>8, <1>10 DEF read

(* What the flags that were read, up to the n-th, say of the channel. *)
EnGiven(flags, flag, n) == \E i \in 1..n : flags[i].flag = flag
EnNamed(flags, c, n) == \A i \in 1..n : flags[i].flag = "--channel" => flags[i].value = c
EnRead(acc, flags, n) ==
    acc.error = EnNone =>
        /\ acc.selected <=> EnGiven(flags, "--channel", n)
        /\ acc.selected => EnNamed(flags, acc.requested, n) /\ acc.requested # EnNone
        /\ ~acc.selected => acc.requested = IF EnGiven(flags, "--development", n) THEN "dev" ELSE EnNone

LEMMA EnReadOne ==
    ASSUME NEW flags, NEW n \in Nat \ {0}, NEW acc \in EnReadings, EnRead(acc, flags, n - 1)
    PROVE  EnRead(Flag(acc, flags[n]), flags, n)
<1> DEFINE t == flags[n]
           next == Flag(acc, t)
<1>1. /\ \A f : EnGiven(flags, f, n) <=> EnGiven(flags, f, n - 1) \/ t.flag = f
      /\ \A c : EnNamed(flags, c, n) <=> EnNamed(flags, c, n - 1) /\ (t.flag = "--channel" => t.value = c)
      /\ ~EnGiven(flags, "--channel", n - 1) => \A c : EnNamed(flags, c, n - 1)
  <2>1. 1..n = 1..(n - 1) \cup {n}
      OBVIOUS
  <2> QED BY <2>1 DEF EnGiven, EnNamed
<1>2. CASE acc.error # EnNone
    BY <1>2, FlagCases DEF EnRead
<1>3. ASSUME acc.error = EnNone, NEW e \in {"usage_invalid", "production_profile_unsupported"},
             next = [acc EXCEPT !.error = e] PROVE EnRead(next, flags, n)
    BY <1>3, EnAssumption DEF EnRead, EnReadings
<1>4. ASSUME acc.error = EnNone, t.flag = "--development", ~acc.selected,
             next = [acc EXCEPT !.channel_dev = FALSE, !.requested = "dev"]
      PROVE  EnRead(next, flags, n)
  <2>1. next.requested = "dev" /\ next.selected = acc.selected /\ next.error = acc.error
      BY <1>4 DEF EnReadings
  <2> HIDE DEF next
  <2> QED BY <1>1, <1>4, <2>1 DEF EnRead
<1>5. ASSUME acc.error = EnNone, t.flag = "--channel", ~acc.selected, t.value \in EnChannels,
             next = [acc EXCEPT !.requested = t.value, !.channel_dev = available(t.value), !.selected = TRUE]
      PROVE  EnRead(next, flags, n)
  <2>1. next.requested = t.value /\ next.selected /\ next.error = acc.error
      BY <1>5 DEF EnReadings
  <2>2. t.value # EnNone
      BY <1>5, EnAssumption DEF EnChannels
  <2> HIDE DEF next
  <2> QED BY <1>1, <1>5, <2>1, <2>2 DEF EnRead
<1>6. ASSUME acc.error = EnNone, t.flag \in {"--json", "--format"}, next = [acc EXCEPT !.json = TRUE]
      PROVE  EnRead(next, flags, n)
  <2>1. next.requested = acc.requested /\ next.selected = acc.selected /\ next.error = acc.error
      BY <1>6 DEF EnReadings
  <2> HIDE DEF next
  <2> QED BY <1>1, <1>6, <2>1 DEF EnRead
<1> QED BY <1>2, <1>3, <1>4, <1>5, <1>6, FlagCases

(* A command line that is taken asks for the choice in force. *)
LEMMA ParseAsks ==
    ASSUME NEW c, Len(c.flags) \in Nat, DOMAIN c.flags = 1..Len(c.flags),
           NEW recorded \in EnChannels \cup {EnNone}
    PROVE  /\ parse(c, recorded).requested \in EnChannels \cup {EnNone}
           /\ parse(c, recorded).error = EnNone /\ recorded = enChan.last => parse(c, recorded).requested = InForce(c)
           /\ parse(c, recorded).error = EnNone /\ Explicit(c) => parse(c, recorded).requested \in EnChannels
<1> DEFINE start == [requested |-> EnNone, channel_dev |-> TRUE, selected |-> FALSE, json |-> FALSE,
                     error |-> IF ArgCount(c) > EnArgMax \/ c.operation \notin EnOperations
                               THEN "usage_invalid" ELSE EnNone]
           read == Reading(c.flags, start)
           last == read[Len(c.flags)]
           req == IF last.requested = EnNone THEN recorded ELSE last.requested
<1>1. start \in EnReadings
    BY DEF EnReadings, EnErrors
<1>2. EnRead(start, c.flags, 0)
    BY DEF EnRead, EnGiven
<1>3. parse(c, recorded) = [last EXCEPT !.requested = req]
    BY DEF parse
<1> HIDE DEF start
<1>4. /\ read \in [Nat -> EnReadings] /\ read[0] = start
      /\ \A n \in Nat \ {0} : read[n] = Flag(read[n - 1], c.flags[n])
    BY <1>1, ReadingExists
<1> HIDE DEF read
<1>5. \A n \in Nat : EnRead(read[n], c.flags, n)
  <2> DEFINE Bad == {n \in Nat : ~EnRead(read[n], c.flags, n)}
  <2> SUFFICES ASSUME Bad # {} PROVE FALSE
      OBVIOUS
  <2>1. PICK n \in Bad : \A y \in Bad : n <= y
      BY LeastNat
  <2>2. n # 0
      BY <1>2, <1>4, <2>1
  <2>3. n \in Nat \ {0} /\ n - 1 \in Nat /\ EnRead(read[n - 1], c.flags, n - 1)
      BY <2>1, <2>2
  <2> QED BY <1>4, <2>1, <2>3, EnReadOne
<1>6. last \in EnReadings /\ EnRead(last, c.flags, Len(c.flags))
    BY <1>4, <1>5
<1> HIDE DEF last
<1>7. req \in EnChannels \cup {EnNone}
    BY <1>6 DEF EnReadings
<1>8. parse(c, recorded).requested = req /\ parse(c, recorded).error = last.error
    BY <1>3, <1>6 DEF EnReadings
<1>9. ASSUME last.error = EnNone, recorded = enChan.last PROVE req = InForce(c)
  <2>1. CASE Explicit(c)
      BY <1>6, <1>9, <2>1 DEF EnRead, EnGiven, EnNamed, Explicit, InForce
  <2>2. CASE ~Explicit(c) /\ \E i \in DOMAIN c.flags : c.flags[i].flag = "--development"
      BY <1>6, <1>9, <2>2, EnAssumption DEF EnRead, EnGiven, EnNamed, Explicit, InForce
  <2>3. CASE ~Explicit(c) /\ ~\E i \in DOMAIN c.flags : c.flags[i].flag = "--development"
      BY <1>6, <1>9, <2>3 DEF EnRead, EnGiven, EnNamed, Explicit, InForce
  <2> QED BY <2>1, <2>2, <2>3
<1>10. ASSUME last.error = EnNone, Explicit(c) PROVE req \in EnChannels
  <2>1. last.selected /\ last.requested # EnNone
      BY <1>6, <1>10 DEF EnRead, EnGiven, Explicit
  <2> QED BY <1>6, <2>1 DEF EnReadings
<1> HIDE DEF req
<1> QED BY <1>7, <1>8, <1>9, <1>10

(* What a process asks for, from the command line to the operation, is the   *)
(* choice in force; what it ran was one of the channel that is available.    *)
EnAsking == {"open", "write", "rename", "tui_run"}
EnAskOf(p, r, host, overlap) ==
    /\ r.at # "idle" => r.cmd \in DOMAIN EnHosts[host].commands[p]
    /\ r.at # "exited" => r.ran = EnNone
    /\ r.at \in EnAsking => r.requested \in EnChannels \cup {EnNone}
    /\ ~overlap /\ r.at \in EnAsking => r.asked = r.requested
    /\ ~overlap /\ r.ran # EnNone => r.asked \in {"dev", EnNone}
EnAskInv ==
    /\ enHost \in DOMAIN EnHosts /\ enChan.last \in EnChannels \cup {EnNone}
    /\ \A p \in EnProcs : EnAskOf(p, en[p], enHost, enChan.overlap)

LEMMA EnAskStarts == EnInit => EnAskInv
<1> SUFFICES ASSUME EnInit PROVE EnAskInv
    OBVIOUS
<1>1. \A p \in EnProcs : \A h, o : EnAskOf(p, EnIdle, h, o)
    BY DEF EnAskOf, EnIdle, EnAsking
<1> QED BY <1>1 DEF EnInit, EnAskInv

(* A step of one process. *)
LEMMA EnAskStep ==
    ASSUME EnInv, EnAskInv, NEW p \in EnProcs, NEW q, en' = [en EXCEPT ![p] = q], UNCHANGED enHost,
           enChan.overlap => enChan'.overlap, enChan'.last \in EnChannels \cup {EnNone},
           EnAskOf(p, q, enHost, enChan'.overlap)
    PROVE  EnAskInv'
<1>1. \A x \in EnProcs : en'[x] = IF x = p THEN q ELSE en[x]
    BY DEF EnInv, EnTermInv
<1> QED BY <1>1 DEF EnAskInv, EnAskOf

(* One that asks for nothing, or goes on with what is asked for. *)
LEMMA EnAskQuiet ==
    ASSUME EnInv, EnAskInv, NEW p \in EnProcs, NEW q, en' = [en EXCEPT ![p] = q], UNCHANGED enHost,
           enChan.overlap => enChan'.overlap, enChan'.last \in EnChannels \cup {EnNone},
           en[p].at \notin {"idle", "exited"}, q.cmd = en[p].cmd, q.ran = en[p].ran,
           \/ q.at \notin EnAsking
           \/ en[p].at \in EnAsking /\ q.requested = en[p].requested /\ q.asked = en[p].asked
    PROVE  EnAskInv'
<1>1. EnAskOf(p, en[p], enHost, enChan.overlap)
    BY DEF EnAskInv
<1>2. EnAskOf(p, q, enHost, enChan'.overlap)
    BY <1>1 DEF EnAskOf
<1> QED BY <1>2, EnAskStep

LEMMA EnAskExit ==
    ASSUME EnInv, EnAskInv, NEW p \in EnProcs, en[p].at \notin {"idle", "exited"}, NEW code, Exit(p, code),
           UNCHANGED <<enHost, enChan>>
    PROVE  EnAskInv'
<1> DEFINE r == en[p]
           q == [r EXCEPT !.at = "exited", !.code = code, !.fd = EnNone, !.requested = EnNone]
<1>1. \A k \in EnFields : k \in DOMAIN r
    BY DEF EnInv, EnTermInv, EnHeld
<1>2. en' = [en EXCEPT ![p] = q] /\ enChan.last \in EnChannels \cup {EnNone}
    BY DEF Exit, EnSet, EnAskInv
<1> HIDE DEF r
<1>3. q.cmd = r.cmd /\ q.ran = r.ran /\ q.at = "exited"
    BY <1>1 DEF EnFields
<1> HIDE DEF q
<1> QED BY <1>2, <1>3, EnAskQuiet DEF EnAsking, r

LEMMA EnAskGoto ==
    ASSUME EnInv, EnAskInv, NEW p \in EnProcs, en[p].at \notin {"idle", "exited"}, NEW place, place \notin EnAsking,
           EnGoto(p, place), UNCHANGED <<enHost, enChan>>
    PROVE  EnAskInv'
<1> DEFINE r == en[p]
           q == [r EXCEPT !.at = place]
<1>1. \A k \in EnFields : k \in DOMAIN r
    BY DEF EnInv, EnTermInv, EnHeld
<1>2. en' = [en EXCEPT ![p] = q] /\ enChan.last \in EnChannels \cup {EnNone}
    BY DEF EnGoto, EnSet, EnAskInv
<1> HIDE DEF r
<1>3. q.cmd = r.cmd /\ q.ran = r.ran /\ q.at = place
    BY <1>1 DEF EnFields
<1> HIDE DEF q
<1> QED BY <1>2, <1>3, EnAskQuiet DEF r

LEMMA EnAskBefore == ASSUME EnInv, EnAskInv, NEW p \in EnProcs, EnBefore(p) PROVE EnAskInv'
<1>1. en[p].at \notin {"idle", "exited"} /\ UNCHANGED <<enHost, enChan>>
    BY DEF EnBefore, EnOnly
<1>2. PICK place \in {"tui", "descriptor", "adopt", "stdin", "policy", "raw"}, code \in {0, 2, 3} :
          EnGoto(p, place) \/ Exit(p, code)
    BY DEF EnBefore
<1> QED BY <1>1, <1>2, EnAskGoto, EnAskExit DEF EnAsking

(* The command line fixes what is asked for. *)
LEMMA EnAskTui == ASSUME EnInv, EnAskInv, NEW p \in EnProcs, launch_tui_command(p) PROVE EnAskInv'
<1> DEFINE r == en[p]
           c == Cmd(p)
           x == parse(c, persisted).requested
           y == InForce(c)
           place == IF Explicit(c) THEN "open" ELSE "tui_run"
           q == [r EXCEPT !.requested = x, !.asked = y, !.at = place]
<1>1. r.at = "tui" /\ UNCHANGED <<enHost, enChan>> /\ enChan.last \in EnChannels \cup {EnNone}
    BY DEF launch_tui_command, EnOnly, EnAskInv
<1>2. (\A k \in EnFields : k \in DOMAIN r) /\ EnAskOf(p, r, enHost, enChan.overlap)
    BY DEF EnInv, EnTermInv, EnHeld, EnAskInv
<1>3. \/ EnGoto(p, "policy") \/ Exit(p, 2)
      \/ en' = [en EXCEPT ![p] = q] /\ parse(c, persisted).error = EnNone
    BY DEF launch_tui_command, EnSet
<1>4. CASE EnGoto(p, "policy") \/ Exit(p, 2)
    BY <1>1, <1>4, EnAskGoto, EnAskExit DEF EnAsking
<1>5. CASE en' = [en EXCEPT ![p] = q] /\ parse(c, persisted).error = EnNone
  <2>1. Len(c.flags) \in Nat /\ DOMAIN c.flags = 1..Len(c.flags)
      BY <1>1, <1>2, EnAssumption DEF Cmd, EnHost, EnAskOf, EnAskInv
  <2>2. persisted \in EnChannels \cup {EnNone}
      BY DEF persisted
  <2>3. ~enChan.overlap => persisted = enChan.last
      BY <1>1 DEF persisted, EnInv, EnFileInv
  <2>4. x \in EnChannels \cup {EnNone} /\ (~enChan.overlap => x = y)
    <3> HIDE DEF c
    <3> QED BY <1>5, <2>1, <2>2, <2>3, ParseAsks
  <2>5. place \in {"open", "tui_run"}
      OBVIOUS
  <2> HIDE DEF r, c, x, y, place
  <2>6. q.requested = x /\ q.asked = y /\ q.at = place /\ q.cmd = r.cmd /\ q.ran = r.ran
      BY <1>2 DEF EnFields
  <2>7. en' = [en EXCEPT ![p] = q]
      BY <1>5
  <2> HIDE DEF q
  <2>8. EnAskOf(p, q, enHost, enChan.overlap)
      BY <1>1, <1>2, <2>4, <2>5, <2>6 DEF EnAskOf
  <2> QED BY <1>1, <2>7, <2>8, EnAskStep
<1> QED BY <1>3, <1>4, <1>5

LEMMA EnAskRun == ASSUME EnInv, EnAskInv, NEW p \in EnProcs, execute_lifecycle(p) PROVE EnAskInv'
<1> DEFINE r == en[p]
<1>1. r.at = "tui_run" /\ UNCHANGED <<enHost, enChan>> /\ enChan.last \in EnChannels \cup {EnNone}
    BY DEF execute_lifecycle, EnOnly, EnAskInv
<1>2. (\A k \in EnFields : k \in DOMAIN r) /\ EnAskOf(p, r, enHost, enChan.overlap)
    BY DEF EnInv, EnTermInv, EnHeld, EnAskInv
<1>3. CASE Exit(p, 3)
    BY <1>1, <1>3, EnAskExit
<1>4. CASE ~Exit(p, 3)
  <2>1. /\ ~for_request("dev", r.requested).warning
        /\ \E x, code : en' = [en EXCEPT ![p] = [r EXCEPT !.at = "exited", !.code = code, !.requested = EnNone, !.ran = x]]
      BY <1>4 DEF execute_lifecycle, EnSet
  <2>2. PICK x, code : en' = [en EXCEPT ![p] = [r EXCEPT !.at = "exited", !.code = code, !.requested = EnNone, !.ran = x]]
      BY <2>1
  <2>3. r.requested \in {"dev", EnNone}
      BY <2>1 DEF for_request, available
  <2> DEFINE q == [r EXCEPT !.at = "exited", !.code = code, !.requested = EnNone, !.ran = x]
  <2> HIDE DEF r
  <2>4. q.at = "exited" /\ q.cmd = r.cmd /\ q.asked = r.asked
      BY <1>2 DEF EnFields
  <2>5. en' = [en EXCEPT ![p] = q]
      BY <2>2
  <2> HIDE DEF q
  <2>6. EnAskOf(p, q, enHost, enChan.overlap)
      BY <1>1, <1>2, <2>3, <2>4 DEF EnAskOf, EnAsking
  <2> QED BY <1>1, <2>5, <2>6, EnAskStep
<1> QED BY <1>3, <1>4

LEMMA EnAskIdle == ASSUME EnInv, EnAskInv, NEW p \in EnProcs, Starts(p) \/ EnAgain(p) PROVE EnAskInv'
<1>1. UNCHANGED <<enHost, enChan>> /\ enChan.last \in EnChannels \cup {EnNone}
    BY DEF Starts, EnAgain, EnOnly, EnAskInv
<1>2. CASE Starts(p)
  <2>1. PICK i \in DOMAIN EnHosts[enHost].commands[p] : en' = [en EXCEPT ![p] = [EnIdle EXCEPT !.at = "main", !.cmd = i]]
      BY <1>2 DEF Starts, EnSet, EnHost
  <2> DEFINE q == [EnIdle EXCEPT !.at = "main", !.cmd = i]
  <2>2. q.at = "main" /\ q.cmd = i /\ q.ran = EnNone
      BY DEF EnIdle
  <2>3. en' = [en EXCEPT ![p] = q]
      BY <2>1
  <2> HIDE DEF q
  <2>4. EnAskOf(p, q, enHost, enChan.overlap)
      BY <2>2 DEF EnAskOf, EnAsking
  <2> QED BY <1>1, <2>3, <2>4, EnAskStep
<1>3. CASE EnAgain(p)
  <2>1. EnAskOf(p, EnIdle, enHost, enChan.overlap)
      BY DEF EnAskOf, EnIdle, EnAsking
  <2> QED BY <1>1, <1>3, <2>1, EnAskStep DEF EnAgain, EnSet
<1> QED BY <1>2, <1>3

(* The steps of a session ask for nothing, and end with one of three codes. *)
EnInSession(p) ==
    enter(p) \/ handle_signals(p) \/ session_restore(p) \/ drop(p) \/ (\E s \in {"TERM", "TSTP"} : Signal(p, s))
LEMMA EnSessionMoves ==
    ASSUME EnInv, NEW p \in EnProcs, EnInSession(p)
    PROVE  /\ en[p].at \notin EnAsking \cup {"idle", "exited"} /\ UNCHANGED <<enHost, enChan>>
           /\ \E q : /\ en' = [en EXCEPT ![p] = q] /\ q.cmd = en[p].cmd /\ q.ran = en[p].ran /\ q.at \notin EnAsking
                     /\ q.code \in {en[p].code, 0, 2, 143}
<1> USE DEF EnInSession
<1> DEFINE r == en[p]
<1>1. /\ r.at \in EnSession /\ \A k \in EnFields : k \in DOMAIN r
      /\ UNCHANGED <<enHost, enChan>>
    BY DEF enter, handle_signals, session_restore, drop, Signal, EnSession, EnInv, EnTermInv, EnHeld, EnOnly,
           restore
<1>2. r.at \notin EnAsking \cup {"idle", "exited"}
    BY <1>1 DEF EnAsking, EnSession, EnModes
<1> SUFFICES \E q : /\ en' = [en EXCEPT ![p] = q] /\ q.cmd = r.cmd /\ q.ran = r.ran /\ q.at \notin EnAsking
                    /\ q.code \in {r.code, 0, 2, 143}
    BY <1>1, <1>2
<1>3. CASE \E s \in {"TERM", "TSTP"} : Signal(p, s)
  <2>1. PICK s \in {"TERM", "TSTP"} : en' = [en EXCEPT ![p] = [r EXCEPT !.pending = @ \cup {s}, !.got = @ + 1]]
      BY <1>3 DEF Signal, EnSet
  <2> DEFINE q == [r EXCEPT !.pending = @ \cup {s}, !.got = @ + 1]
  <2> HIDE DEF r
  <2>2. q.cmd = r.cmd /\ q.ran = r.ran /\ q.at = r.at /\ q.code = r.code
      BY <1>1 DEF EnFields
  <2> QED BY <1>2, <2>1, <2>2
<1>4. ASSUME NEW f PROVE LET s == Restored(p, f)
                         IN  s.cmd = r.cmd /\ s.ran = r.ran /\ s.code = r.code /\ \A k \in EnFields : k \in DOMAIN s
  <2> DEFINE ref == r.modes \cap f
             mod == r.modes \cap f
             s == [r EXCEPT !.modes = mod, !.refused = ref]
  <2>1. Restored(p, f) = s
      BY DEF Restored
  <2> HIDE DEF r, mod, ref
  <2>2. s.cmd = r.cmd /\ s.ran = r.ran /\ s.code = r.code /\ \A k \in EnFields : k \in DOMAIN s
      BY <1>1 DEF EnFields
  <2> QED BY <2>1, <2>2
<1>5. CASE enter(p)
  <2>1. CASE \E f : en' = [en EXCEPT ![p] = [Restored(p, f) EXCEPT !.at = "exited", !.code = 2]]
    <3>1. PICK f : en' = [en EXCEPT ![p] = [Restored(p, f) EXCEPT !.at = "exited", !.code = 2]]
        BY <2>1
    <3> DEFINE s == Restored(p, f)
               q == [s EXCEPT !.at = "exited", !.code = 2]
    <3>2. s.cmd = r.cmd /\ s.ran = r.ran /\ s.code = r.code /\ \A k \in EnFields : k \in DOMAIN s
        BY <1>4
    <3>3. en' = [en EXCEPT ![p] = q]
        BY <3>1
    <3> HIDE DEF s, r
    <3>4. q.cmd = r.cmd /\ q.ran = r.ran /\ q.at = "exited" /\ q.code = 2
        BY <3>2 DEF EnFields
    <3> QED BY <3>3, <3>4 DEF EnAsking
  <2>2. CASE en' = [en EXCEPT ![p] = [r EXCEPT !.at = EnNext(@), !.modes = @ \cup {r.at},
                                               !.guard = EnNext(r.at) = "loop"]]
    <3> DEFINE place == EnNext(r.at)
               mod == r.modes \cup {r.at}
               g == place = "loop"
               q == [r EXCEPT !.at = place, !.modes = mod, !.guard = g]
    <3>1. place \notin EnAsking
        BY DEF EnNext, EnAsking
    <3>2. en' = [en EXCEPT ![p] = q]
        BY <2>2
    <3> HIDE DEF place, mod, g, r
    <3>3. q.cmd = r.cmd /\ q.ran = r.ran /\ q.at = place /\ q.code = r.code
        BY <1>1 DEF EnFields
    <3> QED BY <3>1, <3>2, <3>3
  <2> QED BY <1>5, <2>1, <2>2 DEF enter, EnSet
<1>6. CASE handle_signals(p)
  <2>1. PICK s \in r.pending, f \in Undoes(p) :
          LET v == [Restored(p, f) EXCEPT !.pending = @ \ {s}, !.guard = f # {}]
          IN  EnSet(p, IF f # {} THEN [v EXCEPT !.at = "unwind"]
                       ELSE IF s = "TERM" THEN [v EXCEPT !.at = "exited", !.code = 143]
                       ELSE [v EXCEPT !.at = "stopped"])
      BY <1>6 DEF handle_signals
  <2> DEFINE t == Restored(p, f)
             pend == t.pending \ {s}
             g == f # {}
             v == [t EXCEPT !.pending = pend, !.guard = g]
             q == IF f # {} THEN [v EXCEPT !.at = "unwind"]
                  ELSE IF s = "TERM" THEN [v EXCEPT !.at = "exited", !.code = 143]
                  ELSE [v EXCEPT !.at = "stopped"]
  <2>2. t.cmd = r.cmd /\ t.ran = r.ran /\ t.code = r.code /\ \A k \in EnFields : k \in DOMAIN t
      BY <1>4
  <2>3. en' = [en EXCEPT ![p] = q]
      BY <2>1 DEF EnSet
  <2> HIDE DEF t, r, pend, g
  <2>4. v.cmd = r.cmd /\ v.ran = r.ran /\ v.code = r.code /\ \A k \in EnFields : k \in DOMAIN v
      BY <2>2 DEF EnFields
  <2> HIDE DEF v
  <2>5. q.cmd = r.cmd /\ q.ran = r.ran /\ q.at \in {"unwind", "exited", "stopped"} /\ q.code \in {r.code, 143}
      BY <2>4 DEF EnFields
  <2> HIDE DEF q
  <2> QED BY <2>3, <2>5 DEF EnAsking
<1>7. CASE session_restore(p) \/ drop(p)
  <2>1. PICK t : /\ t.cmd = r.cmd /\ t.ran = r.ran /\ t.code = r.code /\ \A k \in EnFields : k \in DOMAIN t
                 /\ \/ en' = [en EXCEPT ![p] = [t EXCEPT !.guard = FALSE, !.at = "exited", !.code = 0]]
                    \/ en' = [en EXCEPT ![p] = [t EXCEPT !.at = "unwind"]]
                    \/ en' = [en EXCEPT ![p] = [t EXCEPT !.at = "exited", !.code = 2]]
    <3>1. CASE session_restore(p)
        BY <1>4, <3>1 DEF session_restore, EnSet
    <3>2. CASE drop(p)
        BY <1>1, <1>4, <3>2 DEF drop, EnSet
    <3> QED BY <1>7, <3>1, <3>2
  <2> DEFINE a == [t EXCEPT !.guard = FALSE, !.at = "exited", !.code = 0]
             b == [t EXCEPT !.at = "unwind"]
             c == [t EXCEPT !.at = "exited", !.code = 2]
  <2>2. \A q \in {a, b, c} : q.cmd = t.cmd /\ q.ran = t.ran /\ q.at \notin EnAsking /\ q.code \in {t.code, 0, 2}
      BY <2>1 DEF EnFields, EnAsking
  <2>3. PICK q \in {a, b, c} : en' = [en EXCEPT ![p] = q]
      BY <2>1
  <2>4. t.cmd = r.cmd /\ t.ran = r.ran /\ t.code = r.code
      BY <2>1
  <2> HIDE DEF a, b, c, r
  <2>5. q.cmd = r.cmd /\ q.ran = r.ran /\ q.at \notin EnAsking /\ q.code \in {r.code, 0, 2, 143}
      BY <2>2, <2>3, <2>4
  <2> QED BY <2>3, <2>5
<1> QED BY <1>3, <1>5, <1>6, <1>7

LEMMA EnAskSession == ASSUME EnInv, EnAskInv, NEW p \in EnProcs, EnInSession(p) PROVE EnAskInv'
<1>1. enChan.last \in EnChannels \cup {EnNone}
    BY DEF EnAskInv
<1> QED BY <1>1, EnSessionMoves, EnAskQuiet

(* The file of the channel gets what was asked for. *)
LEMMA EnAskFile ==
    ASSUME EnInv, EnAskInv, NEW p \in EnProcs, open_temporary(p) \/ write_temporary(p) \/ rename_temporary(p)
    PROVE  EnAskInv'
<1> DEFINE r == en[p]
<1>1. /\ r.at \in {"open", "write", "rename"} /\ \A k \in EnFields : k \in DOMAIN r
      /\ UNCHANGED enHost /\ enChan.last \in EnChannels \cup {EnNone} /\ EnAskOf(p, r, enHost, enChan.overlap)
    BY DEF open_temporary, write_temporary, rename_temporary, EnInv, EnTermInv, EnHeld, EnAskInv
<1>2. r.at \in EnAsking /\ r.at \notin {"idle", "exited"} /\ r.requested \in EnChannels \cup {EnNone}
    BY <1>1 DEF EnAsking, EnAskOf
<1>3. ASSUME NEW place \in EnAsking, NEW fd, en' = [en EXCEPT ![p] = [r EXCEPT !.at = place, !.fd = fd]],
             enChan.overlap => enChan'.overlap, enChan'.last \in EnChannels \cup {EnNone}
      PROVE  EnAskInv'
  <2> DEFINE q == [r EXCEPT !.at = place, !.fd = fd]
  <2>1. en' = [en EXCEPT ![p] = q]
      BY <1>3
  <2> HIDE DEF r
  <2>2. q.cmd = r.cmd /\ q.ran = r.ran /\ q.at = place /\ q.requested = r.requested /\ q.asked = r.asked
      BY <1>1 DEF EnFields
  <2> HIDE DEF q
  <2> QED BY <1>1, <1>2, <1>3, <2>1, <2>2, EnAskQuiet DEF r
<1>4. CASE Exit(p, 3) /\ UNCHANGED enChan
    BY <1>1, <1>2, <1>4, EnAskExit
<1>5. (\A k \in {"file", "tmp", "data", "last", "overlap"} : k \in DOMAIN enChan)
    BY DEF EnInv, EnFileShape
<1>6. CASE open_temporary(p)
  <2>1. ASSUME NEW i, en' = [en EXCEPT ![p] = [r EXCEPT !.at = "write", !.fd = i]],
               enChan' = [enChan EXCEPT !.tmp = i, !.data[i] = EnTorn, !.overlap = Overlaps(p)]
        PROVE  EnAskInv'
    <3> DEFINE o == Overlaps(p)
    <3>1. enChan.overlap => o
        BY DEF Overlaps
    <3> HIDE DEF o
    <3>2. enChan'.last = enChan.last /\ enChan'.overlap = o
        BY <1>5, <2>1 DEF o
    <3> QED BY <1>1, <1>3, <2>1, <3>1, <3>2 DEF EnAsking
  <2> QED BY <1>4, <1>6, <2>1 DEF open_temporary, EnSet
<1>7. CASE write_temporary(p)
  <2>1. CASE EnGoto(p, "rename") /\ enChan' = [enChan EXCEPT !.data[en[p].fd] = en[p].requested]
    <3> DEFINE q == [r EXCEPT !.at = "rename"]
    <3>1. en' = [en EXCEPT ![p] = q]
        BY <2>1 DEF EnGoto, EnSet
    <3>2. enChan'.last = enChan.last /\ enChan'.overlap = enChan.overlap
        BY <1>5, <2>1
    <3> HIDE DEF r
    <3>3. q.cmd = r.cmd /\ q.ran = r.ran /\ q.at = "rename" /\ q.requested = r.requested /\ q.asked = r.asked
        BY <1>1 DEF EnFields
    <3> HIDE DEF q
    <3> QED BY <1>1, <1>2, <3>1, <3>2, <3>3, EnAskQuiet DEF r
  <2> QED BY <1>4, <1>7, <2>1 DEF write_temporary
<1>8. CASE rename_temporary(p)
  <2>1. CASE ~(Exit(p, 3) /\ UNCHANGED enChan)
    <3> DEFINE d == [i \in DOMAIN enChan.data |-> IF i = enChan.file THEN EnTorn ELSE enChan.data[i]]
    <3>1. /\ en' = [en EXCEPT ![p] = [r EXCEPT !.at = "tui_run", !.fd = EnNone]]
          /\ enChan' = [enChan EXCEPT !.file = enChan.tmp, !.tmp = EnNone, !.last = r.requested, !.data = d]
        BY <1>8, <2>1 DEF rename_temporary, EnSet
    <3> HIDE DEF d
    <3>2. enChan'.last = r.requested /\ enChan'.overlap = enChan.overlap
        BY <1>5, <3>1
    <3> QED BY <1>2, <1>3, <3>1, <3>2 DEF EnAsking
  <2> QED BY <1>4, <1>8, <2>1 DEF rename_temporary
<1> QED BY <1>6, <1>7, <1>8

LEMMA EnAskSteps == EnInv /\ EnAskInv /\ [EnNextStep]_enVars => EnAskInv'
<1> SUFFICES ASSUME EnInv, EnAskInv, [EnNextStep]_enVars PROVE EnAskInv'
    OBVIOUS
<1>1. CASE UNCHANGED enVars
    BY <1>1 DEF enVars, EnAskInv, EnAskOf
<1>2. ASSUME NEW p \in EnProcs, EnStep(p) PROVE EnAskInv'
    BY <1>2, EnBeforeCases, EnAskBefore, EnAskTui, EnAskFile, EnAskRun, EnAskSession DEF EnStep, EnInSession
<1>3. ASSUME NEW p \in EnProcs, EnCrash(p) \/ Leaves(p) \/ Continued(p) PROVE EnAskInv'
  <2>1. en[p].at \notin {"idle", "exited"} /\ UNCHANGED <<enHost, enChan>>
      BY <1>3 DEF EnCrash, Leaves, Continued, EnOnly
  <2>2. Exit(p, 137) \/ \E place \in {"quit", "unwind", "raw"} : EnGoto(p, place)
      BY <1>3 DEF EnCrash, Leaves, Continued
  <2> QED BY <2>1, <2>2, EnAskExit, EnAskGoto DEF EnAsking
<1> QED BY <1>1, <1>2, <1>3, EnAskIdle, EnAskSession DEF EnNextStep, EnInSession

(* The entry points: every way out of the frontend tries to give the         *)
(* terminal back, and leaves on only what it could not.  For any processes   *)
(* of which no two have recorded a channel at the same time: the file holds  *)
(* the last choice recorded, and an operation is one of the channel in       *)
(* force, whatever flags the command line has, an unavailable one never      *)
(* being replaced by another (runtime.rs, channel_selection.rs,              *)
(* top_level.rs).                                                            *)
THEOREM EntryIsSound == EnSpec => []EntrySound
<1>1. EnAskInv => EnNoFallback
    BY DEF EnAskInv, EnAskOf, EnNoFallback
<1>2. EnSpec => []EnAskInv
    BY EnStarts, EnSteps, EnAskStarts, EnAskSteps, PTL DEF EnSpec
<1> QED BY <1>1, <1>2, TerminalIsGiven, ChoiceIsKept, PTL DEF EntrySound

(* Types.  What is written to the channel's file is a channel: a command     *)
(* line with a channel that is taken has asked for one.                      *)
EnCodes == {EnNone, 0, 2, 3, 137, 143}
EnRecording == {"open", "write", "rename"}
EnTypedOf(r) == r.code \in EnCodes /\ (r.at \in EnRecording => r.requested \in EnChannels)
EnTypedInv ==
    /\ \A p \in EnProcs : EnTypedOf(en[p])
    /\ \A i \in 1..3 : enChan.data[i] \in EnChannels \cup {EnTorn}

LEMMA EnTypedStarts == EnInit => EnTypedInv
BY DEF EnInit, EnTypedInv, EnTypedOf, EnIdle, EnCodes, EnRecording

LEMMA EnTypedStep ==
    ASSUME EnInv, EnTypedInv, NEW p \in EnProcs, NEW q, en' = [en EXCEPT ![p] = q], EnTypedOf(q),
           \A i \in 1..3 : enChan'.data[i] \in EnChannels \cup {EnTorn}
    PROVE  EnTypedInv'
<1>1. \A x \in EnProcs : en'[x] = IF x = p THEN q ELSE en[x]
    BY DEF EnInv, EnTermInv
<1> QED BY <1>1 DEF EnTypedInv

LEMMA EnTypedExit ==
    ASSUME EnInv, EnTypedInv, NEW p \in EnProcs, NEW code \in EnCodes, Exit(p, code), UNCHANGED enChan
    PROVE  EnTypedInv'
<1> DEFINE r == en[p]
           q == [r EXCEPT !.at = "exited", !.code = code, !.fd = EnNone, !.requested = EnNone]
<1>1. \A k \in EnFields : k \in DOMAIN r
    BY DEF EnInv, EnTermInv, EnHeld
<1>2. en' = [en EXCEPT ![p] = q]
    BY DEF Exit, EnSet
<1> HIDE DEF r
<1>3. q.at = "exited" /\ q.code = code
    BY <1>1 DEF EnFields
<1> HIDE DEF q
<1> QED BY <1>2, <1>3, EnTypedStep DEF EnTypedInv, EnTypedOf, EnRecording

LEMMA EnTypedGoto ==
    ASSUME EnInv, EnTypedInv, NEW p \in EnProcs, NEW place, place \notin EnRecording, EnGoto(p, place), UNCHANGED enChan
    PROVE  EnTypedInv'
<1> DEFINE r == en[p]
           q == [r EXCEPT !.at = place]
<1>1. \A k \in EnFields : k \in DOMAIN r
    BY DEF EnInv, EnTermInv, EnHeld
<1>2. en' = [en EXCEPT ![p] = q]
    BY DEF EnGoto, EnSet
<1> HIDE DEF r
<1>3. q.at = place /\ q.code = r.code
    BY <1>1 DEF EnFields
<1> HIDE DEF q
<1> QED BY <1>2, <1>3, EnTypedStep DEF EnTypedInv, EnTypedOf, r

LEMMA EnTypedTui ==
    ASSUME EnInv, EnAskInv, EnTypedInv, NEW p \in EnProcs, launch_tui_command(p) PROVE EnTypedInv'
<1> DEFINE r == en[p]
           c == Cmd(p)
           x == parse(c, persisted).requested
           y == InForce(c)
           place == IF Explicit(c) THEN "open" ELSE "tui_run"
           q == [r EXCEPT !.requested = x, !.asked = y, !.at = place]
<1>1. r.at = "tui" /\ UNCHANGED <<enHost, enChan>>
    BY DEF launch_tui_command, EnOnly
<1>2. (\A k \in EnFields : k \in DOMAIN r) /\ EnAskOf(p, r, enHost, enChan.overlap) /\ EnTypedOf(r)
    BY DEF EnInv, EnTermInv, EnHeld, EnAskInv, EnTypedInv
<1>3. \/ EnGoto(p, "policy") \/ Exit(p, 2)
      \/ en' = [en EXCEPT ![p] = q] /\ parse(c, persisted).error = EnNone
    BY DEF launch_tui_command, EnSet
<1>4. CASE EnGoto(p, "policy") \/ Exit(p, 2)
    BY <1>1, <1>4, EnTypedGoto, EnTypedExit DEF EnRecording, EnCodes
<1>5. CASE en' = [en EXCEPT ![p] = q] /\ parse(c, persisted).error = EnNone
  <2>1. Len(c.flags) \in Nat /\ DOMAIN c.flags = 1..Len(c.flags)
      BY <1>1, <1>2, EnAssumption DEF Cmd, EnHost, EnAskOf, EnAskInv
  <2>2. persisted \in EnChannels \cup {EnNone}
      BY DEF persisted
  <2>3. Explicit(c) => x \in EnChannels
    <3> HIDE DEF c
    <3> QED BY <1>5, <2>1, <2>2, ParseAsks
  <2>4. place \in EnRecording => x \in EnChannels
      BY <2>3 DEF EnRecording
  <2> HIDE DEF r, c, x, y, place
  <2>6. q.requested = x /\ q.at = place /\ q.code = r.code
      BY <1>2 DEF EnFields
  <2>7. en' = [en EXCEPT ![p] = q]
      BY <1>5
  <2> HIDE DEF q
  <2>8. EnTypedOf(q)
      BY <1>2, <2>4, <2>6 DEF EnTypedOf
  <2> QED BY <1>1, <2>7, <2>8, EnTypedStep DEF EnTypedInv
<1> QED BY <1>3, <1>4, <1>5

LEMMA EnTypedRun ==
    ASSUME EnInv, EnTypedInv, NEW p \in EnProcs, execute_lifecycle(p) PROVE EnTypedInv'
<1> DEFINE r == en[p]
<1>1. UNCHANGED enChan /\ \A k \in EnFields : k \in DOMAIN r
    BY DEF execute_lifecycle, EnOnly, EnInv, EnTermInv, EnHeld
<1>2. CASE Exit(p, 3)
    BY <1>1, <1>2, EnTypedExit DEF EnCodes
<1>3. CASE ~Exit(p, 3)
  <2>1. \E x : \E code \in {0, 3} :
            en' = [en EXCEPT ![p] = [r EXCEPT !.at = "exited", !.code = code, !.requested = EnNone, !.ran = x]]
      BY <1>3 DEF execute_lifecycle, EnSet
  <2>6. PICK x : \E code \in {0, 3} :
            en' = [en EXCEPT ![p] = [r EXCEPT !.at = "exited", !.code = code, !.requested = EnNone, !.ran = x]]
      BY <2>1
  <2>2. PICK code \in {0, 3} :
            en' = [en EXCEPT ![p] = [r EXCEPT !.at = "exited", !.code = code, !.requested = EnNone, !.ran = x]]
      BY <2>6
  <2> DEFINE q == [r EXCEPT !.at = "exited", !.code = code, !.requested = EnNone, !.ran = x]
  <2> HIDE DEF r
  <2>3. q.at = "exited" /\ q.code = code
      BY <1>1 DEF EnFields
  <2>4. en' = [en EXCEPT ![p] = q]
      BY <2>2
  <2> HIDE DEF q
  <2>5. EnTypedOf(q)
      BY <2>3 DEF EnTypedOf, EnCodes, EnRecording
  <2> QED BY <1>1, <2>4, <2>5, EnTypedStep DEF EnTypedInv
<1> QED BY <1>2, <1>3

LEMMA EnTypedIdle ==
    ASSUME EnInv, EnTypedInv, NEW p \in EnProcs, Starts(p) \/ EnAgain(p) PROVE EnTypedInv'
<1>1. UNCHANGED enChan
    BY DEF Starts, EnAgain, EnOnly
<1>4. \E q : en' = [en EXCEPT ![p] = q] /\ q.code = EnNone /\ q.at \in {"idle", "main"}
  <2>1. CASE Starts(p)
    <3>1. PICK i : en' = [en EXCEPT ![p] = [EnIdle EXCEPT !.at = "main", !.cmd = i]]
        BY <2>1 DEF Starts, EnSet
    <3>2. LET q == [EnIdle EXCEPT !.at = "main", !.cmd = i] IN q.code = EnNone /\ q.at = "main"
        BY DEF EnIdle
    <3> QED BY <3>1, <3>2
  <2>2. CASE EnAgain(p)
    <3>1. EnIdle.code = EnNone /\ EnIdle.at = "idle"
        BY DEF EnIdle
    <3> QED BY <2>2, <3>1 DEF EnAgain, EnSet
  <2> QED BY <2>1, <2>2
<1>2. PICK q : en' = [en EXCEPT ![p] = q] /\ q.code = EnNone /\ q.at \in {"idle", "main"}
    BY <1>4
<1>3. EnTypedOf(q)
    BY <1>2 DEF EnTypedOf, EnCodes, EnRecording
<1> QED BY <1>1, <1>2, <1>3, EnTypedStep DEF EnTypedInv

LEMMA EnTypedSession ==
    ASSUME EnInv, EnTypedInv, NEW p \in EnProcs, EnInSession(p) PROVE EnTypedInv'
<1>1. PICK q : en' = [en EXCEPT ![p] = q] /\ q.at \notin EnAsking /\ q.code \in {en[p].code, 0, 2, 143}
    BY EnSessionMoves
<1>2. EnTypedOf(q)
    BY <1>1 DEF EnTypedInv, EnTypedOf, EnCodes, EnRecording, EnAsking
<1> QED BY <1>1, <1>2, EnSessionMoves, EnTypedStep DEF EnTypedInv

LEMMA EnTypedFile ==
    ASSUME EnInv, EnTypedInv, NEW p \in EnProcs, open_temporary(p) \/ write_temporary(p) \/ rename_temporary(p)
    PROVE  EnTypedInv'
<1> DEFINE r == en[p]
<1>1. r.at \in EnRecording /\ (\A k \in EnFields : k \in DOMAIN r) /\ EnTypedOf(r)
    BY DEF open_temporary, write_temporary, rename_temporary, EnRecording, EnInv, EnTermInv, EnHeld, EnTypedInv
<1>2. ASSUME NEW place, NEW fd, en' = [en EXCEPT ![p] = [r EXCEPT !.at = place, !.fd = fd]],
             \A i \in 1..3 : enChan'.data[i] \in EnChannels \cup {EnTorn}
      PROVE  EnTypedInv'
  <2> DEFINE q == [r EXCEPT !.at = place, !.fd = fd]
  <2>1. en' = [en EXCEPT ![p] = q]
      BY <1>2
  <2> HIDE DEF r
  <2>2. q.requested = r.requested /\ q.code = r.code
      BY <1>1 DEF EnFields
  <2> HIDE DEF q
  <2>3. EnTypedOf(q)
      BY <1>1, <2>2 DEF EnTypedOf
  <2> QED BY <1>2, <2>1, <2>3, EnTypedStep
<1>3. CASE Exit(p, 3) /\ UNCHANGED enChan
    BY <1>3, EnTypedExit DEF EnCodes
<1>4. (\A k \in {"file", "tmp", "data", "last", "overlap"} : k \in DOMAIN enChan) /\ DOMAIN enChan.data = 1..3
    BY DEF EnInv, EnFileShape
<1>5. CASE open_temporary(p)
  <2>1. ASSUME NEW i, en' = [en EXCEPT ![p] = [r EXCEPT !.at = "write", !.fd = i]],
               enChan' = [enChan EXCEPT !.tmp = i, !.data[i] = EnTorn, !.overlap = Overlaps(p)]
        PROVE  EnTypedInv'
    <3>1. enChan'.data = [enChan.data EXCEPT ![i] = EnTorn]
        BY <1>4, <2>1
    <3> QED BY <1>2, <1>4, <2>1, <3>1 DEF EnTypedInv
  <2> QED BY <1>3, <1>5, <2>1 DEF open_temporary, EnSet
<1>6. CASE write_temporary(p)
  <2>1. CASE EnGoto(p, "rename") /\ enChan' = [enChan EXCEPT !.data[en[p].fd] = en[p].requested]
    <3> DEFINE q == [r EXCEPT !.at = "rename"]
               i == r.fd
               c == r.requested
    <3>1. en' = [en EXCEPT ![p] = q] /\ c \in EnChannels
        BY <1>1, <2>1 DEF EnGoto, EnSet, EnTypedOf
    <3>2. enChan' = [enChan EXCEPT !.data[i] = c]
        BY <2>1
    <3> HIDE DEF r, i, c
    <3>3. q.requested = r.requested /\ q.code = r.code
        BY <1>1 DEF EnFields
    <3>4. enChan'.data = [enChan.data EXCEPT ![i] = c]
        BY <1>4, <3>2
    <3>5. \A j \in 1..3 : enChan'.data[j] \in EnChannels \cup {EnTorn}
        BY <1>4, <3>1, <3>4 DEF EnTypedInv
    <3> HIDE DEF q
    <3>6. EnTypedOf(q)
        BY <1>1, <3>3 DEF EnTypedOf
    <3> QED BY <3>1, <3>5, <3>6, EnTypedStep
  <2> QED BY <1>3, <1>6, <2>1 DEF write_temporary
<1>7. CASE rename_temporary(p)
  <2>1. CASE ~(Exit(p, 3) /\ UNCHANGED enChan)
    <3> DEFINE d == [i \in DOMAIN enChan.data |-> IF i = enChan.file THEN EnTorn ELSE enChan.data[i]]
    <3>1. /\ en' = [en EXCEPT ![p] = [r EXCEPT !.at = "tui_run", !.fd = EnNone]]
          /\ enChan' = [enChan EXCEPT !.file = enChan.tmp, !.tmp = EnNone, !.last = r.requested, !.data = d]
        BY <1>7, <2>1 DEF rename_temporary, EnSet
    <3>2. \A i \in 1..3 : d[i] \in EnChannels \cup {EnTorn}
        BY <1>4 DEF EnTypedInv
    <3> HIDE DEF d
    <3>3. enChan'.data = d
        BY <1>4, <3>1
    <3> QED BY <1>2, <3>1, <3>2, <3>3
  <2> QED BY <1>3, <1>7, <2>1 DEF rename_temporary
<1> QED BY <1>5, <1>6, <1>7

LEMMA EnTypedSteps == EnInv /\ EnAskInv /\ EnTypedInv /\ [EnNextStep]_enVars => EnTypedInv'
<1> SUFFICES ASSUME EnInv, EnAskInv, EnTypedInv, [EnNextStep]_enVars PROVE EnTypedInv'
    OBVIOUS
<1>1. CASE UNCHANGED enVars
    BY <1>1 DEF enVars, EnTypedInv, EnTypedOf
<1>2. ASSUME NEW p \in EnProcs, EnBefore(p) PROVE EnTypedInv'
  <2>1. UNCHANGED enChan
      BY <1>2 DEF EnBefore, EnOnly
  <2>2. PICK place \in {"tui", "descriptor", "adopt", "stdin", "policy", "raw"}, code \in {0, 2, 3} :
            EnGoto(p, place) \/ Exit(p, code)
      BY <1>2 DEF EnBefore
  <2> QED BY <2>1, <2>2, EnTypedGoto, EnTypedExit DEF EnRecording, EnCodes
<1>3. ASSUME NEW p \in EnProcs, EnStep(p) PROVE EnTypedInv'
    BY <1>2, <1>3, EnBeforeCases, EnTypedTui, EnTypedFile, EnTypedRun, EnTypedSession DEF EnStep, EnInSession
<1>4. ASSUME NEW p \in EnProcs, EnCrash(p) \/ Leaves(p) \/ Continued(p) PROVE EnTypedInv'
  <2>1. UNCHANGED enChan /\ (Exit(p, 137) \/ \E place \in {"quit", "unwind", "raw"} : EnGoto(p, place))
      BY <1>4 DEF EnCrash, Leaves, Continued, EnOnly
  <2> QED BY <2>1, EnTypedExit, EnTypedGoto DEF EnRecording, EnCodes
<1> QED BY <1>1, <1>3, <1>4, EnTypedIdle, EnTypedSession DEF EnNextStep, EnInSession

(* The terminals stay a function of the processes. *)
EnTtyFunction == enTty = [p \in EnProcs |-> enTty[p]]
LEMMA EnTtyFunctions == EnTtyFunction /\ [EnNextStep]_enVars => EnTtyFunction'
<1> SUFFICES ASSUME EnTtyFunction, [EnNextStep]_enVars PROVE EnTtyFunction'
    OBVIOUS
<1>1. CASE UNCHANGED enTty
    BY <1>1 DEF EnTtyFunction
<1>2. ASSUME NEW p \in EnProcs, NEW x, enTty' = [enTty EXCEPT ![p] = x] PROVE EnTtyFunction'
    BY <1>2 DEF EnTtyFunction
<1>3. ASSUME NEW p \in EnProcs, enter(p) \/ handle_signals(p) \/ session_restore(p) \/ drop(p) PROVE EnTtyFunction'
    BY <1>2, <1>3 DEF enter, handle_signals, session_restore, drop, restore
<1>4. ASSUME NEW p \in EnProcs, EnStep(p) PROVE EnTtyFunction'
  <2>1. CASE EnBefore(p)
      BY <1>1, <2>1 DEF EnBefore, EnOnly
  <2> QED BY <1>1, <1>3, <1>4, <2>1, EnBeforeCases
          DEF EnStep, launch_tui_command, open_temporary, write_temporary, rename_temporary, execute_lifecycle, EnOnly
<1>5. ASSUME NEW p \in EnProcs, NEW s, Starts(p) \/ Continued(p) \/ Leaves(p) \/ EnCrash(p) \/ EnAgain(p) \/ Signal(p, s)
      PROVE  EnTtyFunction'
    BY <1>1, <1>5 DEF Starts, Continued, Leaves, EnCrash, EnAgain, Signal, EnOnly
<1> QED BY <1>1, <1>4, <1>5 DEF EnNextStep, enVars

(* Types of the processes and of the channel's file: nothing but a channel   *)
(* or an unfinished write is in it, whichever processes record at once       *)
(* (channel_selection.rs, persist).                                          *)
THEOREM EntryTypes == EnSpec => []EnTypeOK
<1>2. EnInit => EnTtyFunction
    BY DEF EnInit, EnTtyFunction
<1>1. EnInv /\ EnTypedInv /\ EnTtyFunction => EnTypeOK
  <2> SUFFICES ASSUME EnInv, EnTypedInv, EnTtyFunction PROVE EnTypeOK
      OBVIOUS
  <2>1. DOMAIN enTty = EnProcs /\ \A p \in EnProcs : enTty[p] = en[p].modes /\ en[p].modes \subseteq EnModes
      BY DEF EnInv, EnTermInv, EnHeld
  <2>2. enTty \in [EnProcs -> SUBSET EnModes]
      BY <2>1 DEF EnTtyFunction
  <2> QED BY <2>1, <2>2 DEF EnTypeOK, EnInv, EnFileShape, EnTypedInv, EnTypedOf, EnCodes
<1> QED BY <1>1, <1>2, EnStarts, EnSteps, EnAskStarts, EnAskSteps, EnTypedStarts, EnTypedSteps, EnTtyFunctions, PTL DEF EnSpec

-----------------------------------------------------------------------------
(* The machines side by side.  They share no state: what is a behaviour of   *)
(* all is, seen from each, one of its own.                                   *)

LEMMA MachinesStart ==
    MachinesInit => /\ Init /\ DevInit /\ CliInit /\ CfgInit /\ HandInit /\ StInit /\ PbInit /\ BunInit /\ EnInit
BY DEF MachinesInit

LEMMA MachinesMove ==
    [MachinesNext]_machineVars =>
        /\ [Next]_vars /\ [DevNext]_devVars /\ [CliNext]_cliVars /\ [CfgNext]_cfgVars /\ [HandNext]_handVars
        /\ [StNext]_stVars /\ [PbNext]_pbVars /\ [BunNext]_bunVars /\ [EnNextStep]_enVars
<1> SUFFICES ASSUME [MachinesNext]_machineVars
             PROVE  /\ [Next]_vars /\ [DevNext]_devVars /\ [CliNext]_cliVars /\ [CfgNext]_cfgVars /\ [HandNext]_handVars
                    /\ [StNext]_stVars /\ [PbNext]_pbVars /\ [BunNext]_bunVars /\ [EnNextStep]_enVars
    OBVIOUS
<1>1. [Next]_vars
    BY Zenon DEF MachinesNext, machineVars
<1>2. [DevNext]_devVars
    BY Zenon DEF MachinesNext, machineVars
<1>3. [CliNext]_cliVars
    BY Zenon DEF MachinesNext, machineVars
<1>4. [CfgNext]_cfgVars
    BY Zenon DEF MachinesNext, machineVars
<1>5. [HandNext]_handVars
    BY Zenon DEF MachinesNext, machineVars
<1>6. [StNext]_stVars
    BY Zenon DEF MachinesNext, machineVars
<1>7. [PbNext]_pbVars
    BY Zenon DEF MachinesNext, machineVars
<1>8. [BunNext]_bunVars
    BY Zenon DEF MachinesNext, machineVars
<1>9. [EnNextStep]_enVars
    BY Zenon DEF MachinesNext, machineVars
<1> QED BY <1>1, <1>2, <1>3, <1>4, <1>5, <1>6, <1>7, <1>8, <1>9

(* Each machine behaves as it does alone. *)
THEOREM MachinesAlone ==
    MachinesSpec => /\ Spec /\ DevSpec /\ CliSpec /\ CfgSpec /\ HandSpec
                    /\ StSpec /\ PbSpec /\ BunSpec /\ EnSpec
BY MachinesStart, MachinesMove, PTL
   DEF MachinesSpec, Spec, DevSpec, CliSpec, CfgSpec, HandSpec, StSpec, PbSpec, BunSpec, EnSpec

(* Every machine keeps its types, and its cursors and counters their ranges, *)
(* for any constants: the launch, both installers' screens and files, the    *)
(* ledger, the configuration, the checks of a host and of a release, the     *)
(* terminals and the channel.                                                *)
THEOREM MachinesTypes == MachinesSpec => []MachinesTypeOK
BY MachinesAlone, LaunchTypeCorrect, DevelopmentTypes, ClientTypes, ConfigTypes, HandoffTypes, SelfTestTypes,
   ProbeTypes, BundleTypes, EntryTypes, PTL DEF MachinesTypeOK
=============================================================================
