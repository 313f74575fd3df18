------------------------------ MODULE SelfTest ------------------------------
(* The self-test of a candidate executable (lifecycle.rs): a process of the  *)
(* installer, or of a launch, makes private directories, starts a supervisor *)
(* that confines itself and becomes the candidate, reads the candidate's     *)
(* answer with a limit and a clock, kills the whole group, drains the pipe,  *)
(* judges, and cleans up.  A process may die at any step; the directories it *)
(* leaves are cleaned by the next one that opens the root exclusively.       *)
(*                                                                           *)
(* The answer is counted in units: a right one is one unit, and nothing else.*)
EXTENDS Naturals

CONSTANTS
    StNone,      \* Option::None, a directory that does not exist
    StProcs,     \* the processes that open the installation root
    StTesters,   \* those whose operation tests a candidate: install, upgrade, launch
    StNames,     \* the random names of probe directories
    StBudget,    \* PROBE_CLEANUP_ITEMS
    StLimit      \* SELF_TEST_OUTPUT_BYTES

ASSUME StAssumption ==
    /\ StTesters \subseteq StProcs /\ StBudget \in Nat \ {0} /\ StLimit \in Nat \ {0}
    /\ StNone \notin {"passed", "failed"} /\ StNone \notin Nat /\ StNone \notin StNames
    /\ \A p \in StProcs, i \in 0..StBudget + 1, d \in BOOLEAN : StNone # [by |-> p, items |-> i, deep |-> d]

VARIABLES
    stCaller,    \* the testing processes
    stTree,      \* the process tree each has started
    stDirs       \* the probe directories in the root
stVars == <<stCaller, stTree, stDirs>>

StIdle == [at |-> "idle", mode |-> "shared", name |-> StNone, tries |-> 0, budget |-> 0, read |-> 0,
           status |-> StNone, verdict |-> StNone]
StNoTree == [leader |-> "none", helper |-> "none", confined |-> FALSE, grouped |-> TRUE, code |-> StNone,
             answer |-> FALSE, written |-> 0, stuck |-> FALSE]
StBusy == {"sweep", "bind", "dirs", "spawn", "read", "poll", "drain", "judge", "drop"}
StTesting == {"spawn", "read", "poll", "drain", "judge"}

Set(p, c) == stCaller' = [stCaller EXCEPT ![p] = c]
StGoto(p, at) == Set(p, [stCaller[p] EXCEPT !.at = at])
(* Every early return: what was made so far is dropped. *)
Fails(p) == Set(p, [stCaller[p] EXCEPT !.at = "drop", !.verdict = "failed"])

-----------------------------------------------------------------------------
(* Cleaning: a budget of entries for all directories of one sweep, and a     *)
(* clock that may stop it between any two entries.  A tree deeper than the   *)
(* limit stops the sweep of its directory each time.  The directory goes     *)
(* when it is empty.                                                         *)
cleanup_directory_contents(d, budget) ==
    {[dir |-> IF ~d.deep /\ d.items = k THEN StNone ELSE [d EXCEPT !.items = @ - k],
      budget |-> budget - k] : k \in {k \in 0..budget : k <= d.items}}

-----------------------------------------------------------------------------
(* Opening the root, exclusively for an update and shared for a launch; the  *)
(* sweep belongs to the exclusive opening, and the lock is held to the end.  *)
StHolds(p) == stCaller[p].at \in StBusy
Lockable(p, mode) ==
    \A q \in StProcs \ {p} : StHolds(q) => mode = "shared" /\ stCaller[q].mode = "shared"

(* A careless variant: the launch sweeps too. *)
open_sweeping(p, mode) ==
    /\ stCaller[p].at = "idle" /\ Lockable(p, mode)
    /\ Set(p, [StIdle EXCEPT !.at = "sweep", !.mode = mode, !.budget = StBudget])
    /\ stTree' = [stTree EXCEPT ![p] = StNoTree]
    /\ UNCHANGED stDirs

open_with_mode(p, mode) ==
    /\ stCaller[p].at = "idle" /\ Lockable(p, mode)
    /\ Set(p, IF mode = "shared" THEN [StIdle EXCEPT !.at = "bind", !.mode = mode]
              ELSE [StIdle EXCEPT !.at = "sweep", !.mode = mode, !.budget = StBudget])
    /\ stTree' = [stTree EXCEPT ![p] = StNoTree]
    /\ UNCHANGED stDirs

(* The order of read_dir is any order; one that comes again is one that was  *)
(* cleaned for longer.                                                       *)
cleanup_stale_probe_directories(p) ==
    /\ stCaller[p].at = "sweep"
    /\ \/ \E n \in StNames :
             /\ stDirs[n] # StNone /\ stCaller[p].budget > 0
             /\ \E c \in cleanup_directory_contents(stDirs[n], stCaller[p].budget) :
                   /\ stDirs' = [stDirs EXCEPT ![n] = c.dir]
                   /\ Set(p, [stCaller[p] EXCEPT !.budget = c.budget])
       \/ Set(p, [stCaller[p] EXCEPT !.at = "bind", !.budget = 0]) /\ UNCHANGED stDirs
    /\ UNCHANGED stTree

(* The sealed copies of the supervisor and of the candidate; an operation    *)
(* without a test closes the root again.                                     *)
for_store(p) ==
    /\ stCaller[p].at = "bind"
    /\ (p \in StTesters /\ StGoto(p, "dirs")) \/ Fails(p)
    /\ UNCHANGED <<stTree, stDirs>>

(* Up to four random names; a child directory that cannot be made drops the  *)
(* whole.                                                                    *)
private_probe_directories(p) ==
    /\ stCaller[p].at = "dirs"
    /\ \E n \in StNames :
          IF stDirs[n] # StNone
          THEN /\ IF stCaller[p].tries = 3 THEN Fails(p)
                  ELSE Set(p, [stCaller[p] EXCEPT !.tries = @ + 1])
               /\ UNCHANGED stDirs
          ELSE \/ /\ stDirs' = [stDirs EXCEPT ![n] = [by |-> p, items |-> 0, deep |-> FALSE]]
                  /\ \E at \in {"spawn", "drop"} :
                        Set(p, [stCaller[p] EXCEPT !.at = at, !.name = n,
                                                   !.verdict = IF at = "drop" THEN "failed" ELSE @])
               \/ Fails(p) /\ UNCHANGED stDirs
    /\ UNCHANGED stTree

(* The terminal, the process lock, the spawn and the descriptor of the       *)
(* leader may each fail; a leader without a descriptor is killed at once.    *)
spawn(p) ==
    /\ stCaller[p].at = "spawn"
    /\ \/ Fails(p) /\ UNCHANGED stTree
       \/ /\ StGoto(p, "read")
          /\ stTree' = [stTree EXCEPT ![p] = [StNoTree EXCEPT !.leader = "supervisor"]]
    /\ UNCHANGED stDirs

-----------------------------------------------------------------------------
(* The tree: the supervisor, which denies itself setpgid and setsid before   *)
(* it executes the candidate, and whatever the candidate does.               *)

Tree(p, t) == stTree' = [stTree EXCEPT ![p] = t] /\ UNCHANGED stCaller

(* A careless variant: the candidate is executed without the filter. *)
supervisor_unfiltered(p) ==
    /\ stTree[p].leader = "supervisor"
    /\ \/ \E a \in BOOLEAN : Tree(p, [stTree[p] EXCEPT !.leader = "candidate", !.answer = a])
       \/ Tree(p, [stTree[p] EXCEPT !.leader = "exited", !.code = 1])
    /\ UNCHANGED stDirs

run_self_test_supervisor(p) ==
    /\ stTree[p].leader = "supervisor"
    /\ \/ \E a \in BOOLEAN : Tree(p, [stTree[p] EXCEPT !.leader = "candidate", !.confined = TRUE, !.answer = a])
       \/ Tree(p, [stTree[p] EXCEPT !.leader = "exited", !.code = 1])
    /\ UNCHANGED stDirs

Runs(p) == stTree[p].leader = "candidate" \/ stTree[p].helper = "runs"

CandidateWrites(p) ==
    /\ Runs(p) /\ stTree[p].written <= StLimit
    /\ Tree(p, [stTree[p] EXCEPT !.written = @ + 1]) /\ UNCHANGED stDirs

CandidateForks(p) ==
    /\ stTree[p].leader = "candidate" /\ stTree[p].helper = "none"
    /\ Tree(p, [stTree[p] EXCEPT !.helper = "runs"]) /\ UNCHANGED stDirs

(* setsid of the helper: refused once the filter is on. *)
HelperLeavesGroup(p) ==
    /\ stTree[p].helper = "runs" /\ ~stTree[p].confined
    /\ Tree(p, [stTree[p] EXCEPT !.grouped = FALSE]) /\ UNCHANGED stDirs

CandidateStores(p) ==
    /\ Runs(p) /\ stCaller[p].name # StNone
    /\ LET n == stCaller[p].name
       IN  /\ stDirs[n] # StNone /\ stDirs[n].by = p /\ ~stDirs[n].deep
           /\ \/ stDirs[n].items <= StBudget /\ stDirs' = [stDirs EXCEPT ![n].items = @ + 1]
              \/ stDirs' = [stDirs EXCEPT ![n].deep = TRUE]
    /\ UNCHANGED <<stCaller, stTree>>

CandidateExits(p) ==
    /\ stTree[p].leader = "candidate"
    /\ \E c \in {0, 1} : Tree(p, [stTree[p] EXCEPT !.leader = "exited", !.code = c])
    /\ UNCHANGED stDirs

DescendantEnds(p) ==
    /\ stTree[p].helper \in {"runs", "dying"}
    /\ Tree(p, [stTree[p] EXCEPT !.helper = "none"]) /\ UNCHANGED stDirs

-----------------------------------------------------------------------------
(* The test.                                                                 *)

Killed(t) ==
    [t EXCEPT !.leader = IF @ \in {"supervisor", "candidate"} THEN "exited" ELSE @,
              !.code = IF t.leader \in {"supervisor", "candidate"} THEN 137 ELSE @,
              !.helper = IF @ = "runs" /\ t.grouped THEN "dying" ELSE @]

(* terminate_tree: the leader may be stuck in the kernel past the deadline. *)
terminate_tree(p) ==
    \/ stTree' = [stTree EXCEPT ![p] = Killed(stTree[p])]
    \/ stTree[p].leader # "exited" /\ stTree' = [stTree EXCEPT ![p].stuck = TRUE]

ReadOutput(p) ==
    /\ stCaller[p].at = "read"
    /\ IF stTree[p].written > StLimit
       THEN Fails(p) /\ terminate_tree(p)
       ELSE Set(p, [stCaller[p] EXCEPT !.at = "poll", !.read = stTree[p].written]) /\ UNCHANGED stTree
    /\ UNCHANGED stDirs

(* exited_without_reaping, then the kill of what is left of the group: the   *)
(* status is the leader's own.  Else the clock.                              *)
PollExit(p) ==
    /\ stCaller[p].at = "poll"
    /\ IF stTree[p].leader = "exited"
       THEN /\ stTree' = [stTree EXCEPT ![p] = Killed(stTree[p])]
            /\ Set(p, [stCaller[p] EXCEPT !.at = "drain", !.status = stTree[p].code])
       ELSE \/ StGoto(p, "read") /\ UNCHANGED stTree
            \/ Fails(p) /\ terminate_tree(p)
    /\ UNCHANGED stDirs

StPending(p) == stCaller[p].read < stTree[p].written
StWriter(p) == stTree[p].helper \in {"runs", "dying"}

(* A careless variant: what was read by the deadline is judged. *)
drain_until_deadline(p) ==
    /\ stCaller[p].at = "drain"
    /\ \/ /\ StPending(p)
          /\ IF stTree[p].written > StLimit THEN Fails(p)
             ELSE Set(p, [stCaller[p] EXCEPT !.read = stTree[p].written])
       \/ StGoto(p, "judge")
    /\ UNCHANGED <<stTree, stDirs>>

(* To the end of the pipe or to the deadline, which is a failure. *)
drain(p) ==
    /\ stCaller[p].at = "drain"
    /\ \/ /\ StPending(p)
          /\ IF stTree[p].written > StLimit THEN Fails(p)
             ELSE Set(p, [stCaller[p] EXCEPT !.read = stTree[p].written])
       \/ ~StPending(p) /\ ~StWriter(p) /\ StGoto(p, "judge")
       \/ StWriter(p) /\ Fails(p)
    /\ UNCHANGED <<stTree, stDirs>>

(* One whole answer that matches the installation in every field. *)
Judge(p) ==
    /\ stCaller[p].at = "judge"
    /\ Set(p, [stCaller[p] EXCEPT
                 !.at = "drop",
                 !.verdict = IF stCaller[p].status = 0 /\ stCaller[p].read = 1 /\ stTree[p].answer
                             THEN "passed" ELSE "failed"])
    /\ UNCHANGED <<stTree, stDirs>>

Reaped(t) == IF t.leader = "exited" /\ t.helper # "runs" THEN StNoTree ELSE t
(* The drops, the process before the directories; then the lock is released. *)
DropAll(p) ==
    /\ stCaller[p].at = "drop"
    /\ stTree' = [stTree EXCEPT ![p] = IF stTree[p].stuck THEN @ ELSE Reaped(Killed(@))]
    /\ Set(p, [StIdle EXCEPT !.name = stCaller[p].name])
    /\ LET n == stCaller[p].name
       IN  IF n # StNone /\ stDirs[n] # StNone /\ stDirs[n].by = p
           THEN \E c \in cleanup_directory_contents(stDirs[n], StBudget) : stDirs' = [stDirs EXCEPT ![n] = c.dir]
           ELSE UNCHANGED stDirs

(* The process dies: the kernel releases its lock, its tree lives on. *)
StCrash(p) ==
    /\ stCaller[p].at \in StBusy
    /\ Set(p, [stCaller[p] EXCEPT !.at = "down", !.verdict = StNone])
    /\ UNCHANGED <<stTree, stDirs>>

(* The pid is free again once its tree has ended. *)
StRestart(p) ==
    /\ stCaller[p].at = "down" /\ stTree[p].leader \in {"none", "exited"} /\ stTree[p].helper = "none"
    /\ Set(p, StIdle) /\ stTree' = [stTree EXCEPT ![p] = StNoTree] /\ UNCHANGED stDirs

-----------------------------------------------------------------------------
StInit ==
    /\ stCaller = [p \in StProcs |-> StIdle]
    /\ stTree = [p \in StProcs |-> StNoTree]
    /\ stDirs = [n \in StNames |-> StNone]

CallerStep(p) ==
    \/ cleanup_stale_probe_directories(p) \/ for_store(p) \/ private_probe_directories(p) \/ spawn(p) \/ ReadOutput(p) \/ PollExit(p)
    \/ drain(p) \/ Judge(p) \/ DropAll(p)
TreeStep(p) ==
    \/ run_self_test_supervisor(p) \/ CandidateWrites(p) \/ CandidateForks(p) \/ HelperLeavesGroup(p)
    \/ CandidateStores(p) \/ CandidateExits(p) \/ DescendantEnds(p)

StNext ==
    \E p \in StProcs :
        \/ \E mode \in {"shared", "exclusive"} : open_with_mode(p, mode)
        \/ CallerStep(p)
        \/ TreeStep(p)
        \/ StCrash(p) \/ StRestart(p)
StSpec == StInit /\ [][StNext]_stVars

-----------------------------------------------------------------------------
(* Types of the callers, the trees and the directories. *)
StTypeOK ==
    /\ \A p \in StProcs :
          /\ stCaller[p].at \in StBusy \cup {"idle", "down"} /\ stCaller[p].tries \in 0..3
          /\ stCaller[p].read <= StLimit /\ stCaller[p].verdict \in {StNone, "passed", "failed"}
          /\ stTree[p].leader \in {"none", "supervisor", "candidate", "exited"}
          /\ stTree[p].helper \in {"none", "runs", "dying"} /\ stTree[p].written <= StLimit + 1
    /\ \A n \in StNames : stDirs[n] # StNone => stDirs[n].by \in StProcs

(* A test passes only on the candidate's own exit and on all it ever wrote:  *)
(* no helper is left that could write more, and the status is not that of    *)
(* the kill (lifecycle.rs, exited_without_reaping and the drain).            *)
StPassIsWhole ==
    \A p \in StProcs : stCaller[p].verdict = "passed" =>
        /\ stTree[p].code = 0 /\ stTree[p].answer /\ stTree[p].written = 1
        /\ stTree[p].leader = "exited" /\ ~StWriter(p)

(* A process that is done leaves no process of its tree running, and no      *)
(* directory but one the budget or the depth limit kept it from removing.    *)
StNothingLeft ==
    \A p \in StProcs : stCaller[p].at = "idle" =>
        /\ stTree[p].leader \in {"none", "exited"} \/ stTree[p].stuck
        /\ stTree[p].helper = "runs" => stTree[p].stuck
        /\ \A n \in StNames :
              stDirs[n] # StNone /\ stDirs[n].by = p /\ stCaller[p].name = n => stDirs[n].deep \/ stTree[p].stuck
                                                                                  \/ stDirs[n].items > 0

(* The directories of a test that runs are never swept away by another       *)
(* process: the sweep needs the lock that every test holds a share of.       *)
StLiveKept ==
    \A p \in StProcs : stCaller[p].at \in StTesting =>
        /\ stDirs[stCaller[p].name] # StNone
        /\ stDirs[stCaller[p].name].by = p

(* The self-test: a pass is earned, nothing is left over, nothing in use is  *)
(* swept away.                                                               *)
SelfTestSound == StPassIsWhole /\ StNothingLeft /\ StLiveKept
=============================================================================
