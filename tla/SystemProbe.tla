---------------------------- MODULE SystemProbe -----------------------------
(* The probe of the local system (system_probe.rs) and the verdict on it     *)
(* (compatibility.rs): bounded commands, a resize of an isolated terminal    *)
(* that a helper must notice, and a private directory in which a file is     *)
(* written, renamed, executed and removed while others may move things.      *)
EXTENDS Naturals, FiniteSets

CONSTANTS
    PbNone,       \* Option::None
    PbHosts,      \* a sequence of hosts: what each can do
    PbTries       \* bound on the resize attempts

ASSUME PbAssumption ==
    /\ PbTries \in Nat \ {0} /\ PbNone \notin {"ours", "foreign", "source", "destination"}
    /\ \A h \in DOMAIN PbHosts :
          PbHosts[h] \in [platform : BOOLEAN, asb : BOOLEAN, interactive : BOOLEAN, features : BOOLEAN,
                         size : BOOLEAN, resizes : BOOLEAN, dirs : BOOLEAN, rename : BOOLEAN,
                         executes : BOOLEAN, tools : BOOLEAN, shared : BOOLEAN]

VARIABLES
    pb,           \* the probing process: stage, facts, report
    pbChild,      \* the child of the command or of the resize probe
    pbDir,        \* the directory being probed
    pbHost        \* the host
pbVars == <<pb, pbChild, pbDir, pbHost>>
Host == PbHosts[pbHost]

(* detect calls its sources in this order. *)
PbStages == <<"version", "capabilities", "size", "resize", "config", "cache", "git", "keygen", "report">>
PbCommands == {"version", "capabilities", "size", "git", "keygen"}
PbStage == IF pb.stage \in DOMAIN PbStages THEN PbStages[pb.stage] ELSE "done"
PbFacts == {"version", "protocol", "size", "resize", "git", "keygen"}
PbDirFacts == {"config", "cache"} \X {"writable", "rename", "exec"}

PbNoChild == [leader |-> "none", code |-> 1, helper |-> "none", output |-> "empty", size |-> "initial",
              foreground |-> FALSE, signals |-> 0, attempts |-> 0, seen |-> 0]
PbNoDir == [at |-> "none", name |-> PbNone, moved |-> "unmoved", created |-> PbNone, source |-> PbNone,
            destination |-> PbNone, aside |-> {}, held |-> PbNone, exact |-> PbNone, ran |-> PbNone,
            writable |-> FALSE, rename |-> FALSE, exec |-> FALSE, clean |-> TRUE]

Advance(facts) ==
    /\ pb' = [pb EXCEPT !.stage = @ + 1, !.facts = @ \cup facts, !.orphan = {}, !.left = {}]
    /\ pbChild' = PbNoChild /\ pbDir' = PbNoDir /\ UNCHANGED pbHost
Child(c) == pbChild' = c /\ UNCHANGED <<pb, pbDir, pbHost>>

-----------------------------------------------------------------------------
(* bounded_command: the child and what it starts, then its result.           *)

(* A size is asked for only on a terminal, the capabilities count only for   *)
(* the version that was seen.                                                *)
Asked(stage) == stage = "size" => Host.interactive
Truth(stage) == CASE stage = "capabilities" -> Host.asb
                  [] stage = "version" -> Host.asb
                  [] stage = "size" -> Host.size
                  [] OTHER -> Host.tools
Learnt(stage) == CASE stage = "capabilities" -> IF "version" \in pb.facts THEN {"protocol"} ELSE {}
                   [] OTHER -> {stage}

SpawnCommand ==
    /\ PbStage \in PbCommands /\ pbChild.leader = "none"
    /\ \/ Advance({})
       \/ /\ Asked(PbStage) /\ (PbStage \in {"git", "keygen"} => Host.tools)
          /\ Child([PbNoChild EXCEPT !.leader = "runs"])

ChildForks == pbChild.leader = "runs" /\ PbStage \in PbCommands /\ pbChild.helper = "none"
              /\ Child([pbChild EXCEPT !.helper = "holds"])
ChildExits ==
    /\ pbChild.leader = "runs" /\ PbStage \in PbCommands
    /\ \E o \in {"whole", "over"} :
          Child([pbChild EXCEPT !.leader = "exited", !.code = IF Truth(PbStage) THEN 0 ELSE 1,
                                  !.output = o])
(* A descendant may close the pipe and live on, or end. *)
HelperCloses ==
    \E h \in {"closed", "none"} :
        pbChild.helper \notin {"none", h} /\ Child([pbChild EXCEPT !.helper = h])

(* What lives of the child and its group, and the two ways to kill it. *)
InGroup(c) == c.leader = "runs" \/ c.helper # "none"
(* A careless variant: the group is taken to be gone with its leader. *)
kill_group_leader(c) == [c EXCEPT !.leader = "exited"]
kill_group(c) == [c EXCEPT !.leader = "exited", !.helper = "none"]
terminate_group(c) == [kill_group(c) EXCEPT !.leader = "exited"]

(* The way out with the child as it is then: `orphan' keeps by which way     *)
(* something of the group was left alive.                                    *)
WayOut(way, c, facts) ==
    /\ pb' = [pb EXCEPT !.stage = @ + 1, !.facts = @ \cup facts,
                        !.orphan = IF InGroup(c) THEN {way} ELSE {}, !.left = {}]
    /\ pbChild' = PbNoChild /\ pbDir' = PbNoDir /\ UNCHANGED pbHost

(* The end of the output within the time, and a success where the output     *)
(* matters: only then a fact.  A deadline, or output over the limit, ends    *)
(* the whole group; an error of try_wait returns at once.                    *)
bounded_command_with_stdin ==
    /\ PbStage \in PbCommands /\ pbChild.leader \in {"runs", "exited"}
    /\ \/ /\ pbChild.leader = "exited" /\ pbChild.helper # "holds" /\ pbChild.output = "whole"
          /\ WayOut("ended", kill_group(pbChild),
                    IF pbChild.code = 0 \/ PbStage \in {"git", "keygen"} THEN Learnt(PbStage) ELSE {})
       \/ WayOut("deadline", terminate_group(pbChild), {})
       \/ WayOut("wait", pbChild, {})

-----------------------------------------------------------------------------
(* run_resize_probe: the helper says READY, and WINCH at its first signal,   *)
(* at which it ends; a signal before it is in the foreground is lost.        *)

SpawnHelper ==
    /\ PbStage = "resize" /\ pbChild.leader = "none"
    /\ IF Host.interactive /\ "size" \in pb.facts
       THEN Child([PbNoChild EXCEPT !.leader = "runs"]) \/ Advance({})
       ELSE Advance({})
HelperReady ==
    /\ PbStage = "resize" /\ pbChild.leader = "runs" /\ pbChild.output = "empty"
    /\ Child([pbChild EXCEPT !.output = "ready"])
HelperForeground ==
    /\ PbStage = "resize" /\ pbChild.leader = "runs" /\ ~pbChild.foreground
    /\ Child([pbChild EXCEPT !.foreground = TRUE])

(* A signal reaches a helper in the foreground of a host that delivers it; a *)
(* helper that has answered but not ended may answer once more.              *)
Signalled(c) ==
    IF ~(c.foreground /\ Host.resizes) THEN {c}
    ELSE CASE c.output = "ready" -> {[c EXCEPT !.output = "winch"]}
           [] c.output = "winch" /\ c.leader = "runs" -> {c, [c EXCEPT !.output = "twice"]}
           [] OTHER -> {c}
tcsetwinsize(c, size) ==
    IF size = c.size THEN {c} ELSE {[s EXCEPT !.size = size, !.signals = @ + 1] : s \in Signalled(c)}

(* A careless variant: every attempt asks for the same size. *)
ResizeSame ==
    /\ PbStage = "resize" /\ pbChild.output # "empty" /\ pbChild.seen = 0 /\ pbChild.attempts < PbTries
    /\ \E c \in tcsetwinsize([pbChild EXCEPT !.attempts = @ + 1], "resized") : Child(c)

(* While the marker has not come: one of two sizes in turn, so that each     *)
(* attempt is a change.                                                      *)
ResizeAttempt ==
    /\ PbStage = "resize" /\ pbChild.output # "empty" /\ pbChild.seen = 0 /\ pbChild.attempts < PbTries
    /\ \E c \in tcsetwinsize([pbChild EXCEPT !.attempts = @ + 1],
                             IF pbChild.attempts % 2 = 0 THEN "resized" ELSE "retry") : Child(c)

(* The marker came: the documented size is set again. *)
ResizeObserved ==
    /\ PbStage = "resize" /\ pbChild.output \in {"winch", "twice"} /\ pbChild.seen = 0 /\ pbChild.attempts > 0
    /\ \E c \in tcsetwinsize([pbChild EXCEPT !.seen = 1,
                                                 !.attempts = IF pbChild.size = "resized" THEN @ ELSE @ + 1],
                             "resized") : Child(c)

HelperEnds ==
    /\ PbStage = "resize" /\ pbChild.leader = "runs" /\ pbChild.output \in {"winch", "twice"}
    /\ Child([pbChild EXCEPT !.leader = "exited", !.code = 0])

(* The end: by a deadline of any stage, or with the helper's own exit. *)
run_resize_probe ==
    /\ PbStage = "resize" /\ pbChild.leader \in {"runs", "exited"}
    /\ \/ WayOut("deadline", terminate_group(pbChild), {})
       \/ /\ pbChild.leader = "exited" /\ pbChild.seen = 1
          /\ WayOut("ended", kill_group(pbChild),
                    IF pbChild.size = "resized" /\ pbChild.output = "winch" THEN {"resize"} ELSE {})

-----------------------------------------------------------------------------
(* probe_directory: `name' is what the directory's name stands for in the    *)
(* base, the other fields what is in the directory.                          *)

InDir == PbStage \in {"config", "cache"}
Dir(at, d) == pbDir' = [d EXCEPT !.at = at] /\ UNCHANGED <<pb, pbChild, pbHost>>

(* mkdir, then a look at the identity that the name gives, then the opening  *)
(* of the name, which must give the same: three calls.                       *)
create_with_hook ==
    /\ InDir /\ pbDir.at = "none"
    /\ (Host.dirs /\ Dir("made", [pbDir EXCEPT !.name = "ours"])) \/ Advance({})
StatCreated ==
    /\ InDir /\ pbDir.at = "made"
    /\ Dir("seen", [pbDir EXCEPT !.created = pbDir.name]) \/ Advance({})
OpenCreated ==
    /\ InDir /\ pbDir.at = "seen"
    /\ (pbDir.name = pbDir.created /\ Dir("empty", pbDir)) \/ Advance({})

(* A file is written and renamed; it is held only if what the name gives is  *)
(* the file that was made.  One that is not held is unlinked if the name     *)
(* still gives it: a look and a call.                                        *)
prepare_destination_with ==
    /\ InDir /\ pbDir.at = "empty"
    /\ \/ Dir("swept", pbDir)
       \/ Dir("unheld", [pbDir EXCEPT !.source = "ours"])
       \/ Dir("written", [pbDir EXCEPT !.source = "ours", !.writable = TRUE])
RenameSource ==
    /\ InDir /\ pbDir.at = "written"
    /\ \/ /\ Host.rename /\ pbDir.source # PbNone
          /\ Dir("renamed", [pbDir EXCEPT !.destination = pbDir.source, !.source = PbNone, !.rename = TRUE])
       \/ Dir("renamed", pbDir)
FileName(d) == IF d.rename THEN "destination" ELSE "source"
HoldArtifact ==
    /\ InDir /\ pbDir.at = "renamed"
    /\ \/ /\ pbDir[FileName(pbDir)] = "ours"
          /\ Dir(IF pbDir.rename THEN "held" ELSE "match", [pbDir EXCEPT !.held = FileName(pbDir)])
       \/ Dir("unheld", pbDir)
MatchUnheld ==
    /\ InDir /\ pbDir.at = "unheld"
    /\ Dir(IF pbDir[FileName(pbDir)] = "ours" THEN "drop" ELSE "swept", pbDir)
UnlinkUnheld ==
    /\ InDir /\ pbDir.at = "drop"
    /\ Dir("swept", [pbDir EXCEPT ![FileName(pbDir)] = PbNone]) \/ Dir("swept", pbDir)

(* The program is copied into the file; then the name is opened once more,   *)
(* and what is run is the descriptor whose identity was compared.            *)
executable_probe_with_hook ==
    /\ InDir /\ pbDir.at = "held"
    /\ (pbDir.destination = "ours" /\ Dir("programmed", pbDir)) \/ Dir("match", pbDir)
OpenExact ==
    /\ InDir /\ pbDir.at = "programmed"
    /\ \/ pbDir.destination = "ours" /\ Dir("exact", [pbDir EXCEPT !.exact = pbDir.destination])
       \/ Dir("match", pbDir)
(* A careless variant: the name that was compared is run. *)
RunName ==
    /\ InDir /\ pbDir.at = "exact"
    /\ (Host.executes /\ Dir("ran", [pbDir EXCEPT !.ran = pbDir.destination])) \/ Dir("match", pbDir)
RunExact ==
    /\ InDir /\ pbDir.at = "exact"
    /\ (Host.executes /\ Dir("ran", [pbDir EXCEPT !.ran = pbDir.exact])) \/ Dir("match", pbDir)
AfterRun ==
    /\ InDir /\ pbDir.at = "ran"
    /\ Dir("match", [pbDir EXCEPT !.exec = pbDir.destination = "ours"])

(* cleanup: look and remove are two calls each. *)
MatchArtifact ==
    /\ InDir /\ pbDir.at = "match"
    /\ CASE pbDir.held = PbNone -> Dir("swept", pbDir)
         [] pbDir.held # PbNone /\ pbDir[pbDir.held] = "ours" -> Dir("unlink", pbDir)
         [] OTHER -> Dir("swept", [pbDir EXCEPT !.clean = FALSE])
UnlinkArtifact ==
    /\ InDir /\ pbDir.at = "unlink"
    /\ \/ Dir("swept", [pbDir EXCEPT !.clean = @ /\ pbDir[pbDir.held] # PbNone, ![pbDir.held] = PbNone])
       \/ Dir("swept", [pbDir EXCEPT !.clean = FALSE])
(* A careless variant: whatever has the name is removed. *)
MatchNothing ==
    /\ InDir /\ pbDir.at = "swept" /\ Dir("rmdir", pbDir)
MatchDirectory ==
    /\ InDir /\ pbDir.at = "swept"
    /\ IF pbDir.name = pbDir.created THEN Dir("rmdir", pbDir)
       ELSE Dir("removed", [pbDir EXCEPT !.clean = FALSE])

(* What the name gives by now is removed if it is empty. *)
DirEmpty == pbDir.source = PbNone /\ pbDir.destination = PbNone /\ pbDir.aside = {}
RemoveDirectory ==
    /\ InDir /\ pbDir.at = "rmdir"
    /\ \/ (pbDir.name = pbDir.created => DirEmpty) /\ Dir("removed", [pbDir EXCEPT !.name = PbNone])
       \/ Dir("removed", [pbDir EXCEPT !.clean = FALSE])

(* The directory that mkdir made is still somewhere. *)
Stays(d) == d.name = "ours" \/ d.moved # "unmoved"
DirectoryResult ==
    {PbStage} \X {f \in {"writable", "rename", "exec"} : pbDir[f] /\ (f = "rename" => pbDir.held # PbNone)}
probe_directory_with_cleanup_hook ==
    /\ InDir /\ pbDir.at = "removed"
    /\ pb' = [pb EXCEPT !.stage = @ + 1, !.dirs = IF pbDir.clean THEN @ \cup DirectoryResult ELSE @,
                        !.orphan = {}, !.left = IF pbDir.clean /\ Stays(pbDir) THEN {pbDir.moved} ELSE {}]
    /\ pbDir' = PbNoDir /\ UNCHANGED <<pbChild, pbHost>>

(* Somebody else moves the file aside and puts another in its place, or the  *)
(* same with the directory; `moved' records after which call.                *)
SwapFile ==
    /\ InDir /\ pbDir.at \notin {"none", "removed"} /\ Host.shared
    /\ \E n \in {"source", "destination"} :
          pbDir[n] = "ours" /\ Dir(pbDir.at, [pbDir EXCEPT ![n] = "foreign", !.aside = {"ours"}])
SwapDirectory ==
    /\ InDir /\ pbDir.at \notin {"none", "removed"} /\ Host.shared
    /\ pbDir.name = "ours" /\ Dir(pbDir.at, [pbDir EXCEPT !.name = "foreign", !.moved = pbDir.at])

-----------------------------------------------------------------------------
(* evaluate: every fact that is missing is a reason against.                 *)
evaluate(h, facts, dirs) ==
    {r \in {"unsupported_platform", "asb_version_unavailable", "protocol_unavailable", "terminal_too_small",
            "non_interactive_channel", "terminal_features_unavailable", "resize_events_unavailable",
            "storage_unavailable", "filesystem_incompatible", "release_verifier_unavailable"} :
        CASE r = "unsupported_platform" -> ~h.platform
          [] r = "asb_version_unavailable" -> "version" \notin facts
          [] r = "protocol_unavailable" -> "protocol" \notin facts
          [] r = "terminal_too_small" -> "size" \notin facts
          [] r = "non_interactive_channel" -> ~h.interactive
          [] r = "terminal_features_unavailable" -> ~(h.interactive /\ h.features)
          [] r = "resize_events_unavailable" -> "resize" \notin facts
          [] r = "storage_unavailable" -> ~({"config", "cache"} \X {"writable"} \subseteq dirs)
          [] r = "filesystem_incompatible" ->
                ~(({"config", "cache"} \X {"rename"}) \cup {<<"cache", "exec">>} \subseteq dirs)
          [] OTHER -> ~({"git", "keygen"} \subseteq facts)}

Report ==
    /\ PbStage = "report"
    /\ pb' = [pb EXCEPT !.stage = @ + 1, !.compatible = evaluate(Host, pb.facts, pb.dirs) = {}]
    /\ UNCHANGED <<pbChild, pbDir, pbHost>>

PbFresh == [stage |-> 1, facts |-> {}, dirs |-> {}, compatible |-> FALSE, orphan |-> {}, left |-> {}]
DetectAgain ==
    /\ PbStage = "done"
    /\ pb' = PbFresh /\ UNCHANGED <<pbChild, pbDir, pbHost>>

PbInit ==
    /\ pb = PbFresh
    /\ pbChild = PbNoChild /\ pbDir = PbNoDir
    /\ pbHost \in DOMAIN PbHosts

PbNext ==
    \/ SpawnCommand \/ ChildForks \/ ChildExits \/ HelperCloses \/ bounded_command_with_stdin
    \/ SpawnHelper \/ HelperReady \/ HelperForeground \/ ResizeAttempt \/ ResizeObserved \/ HelperEnds
    \/ run_resize_probe
    \/ create_with_hook \/ StatCreated \/ OpenCreated \/ prepare_destination_with \/ RenameSource
    \/ HoldArtifact \/ MatchUnheld \/ UnlinkUnheld \/ executable_probe_with_hook \/ OpenExact \/ RunExact
    \/ AfterRun \/ MatchArtifact \/ UnlinkArtifact \/ MatchDirectory \/ RemoveDirectory
    \/ probe_directory_with_cleanup_hook \/ SwapFile \/ SwapDirectory
    \/ Report \/ DetectAgain
PbSpec == PbInit /\ [][PbNext]_pbVars

-----------------------------------------------------------------------------
(* Types of the probe's state. *)
PbTypeOK ==
    /\ pb.stage \in 1..10 /\ pb.facts \subseteq PbFacts /\ pb.dirs \subseteq PbDirFacts
    /\ pbChild.leader \in {"none", "runs", "exited"}
    /\ pbChild.output \in {"empty", "ready", "winch", "twice", "whole", "over"}

(* Compatible means that the host really can: a fact is never learnt from a  *)
(* command that failed or was cut off, a resize nobody noticed, or a file    *)
(* that was not the probe's own (system_probe.rs, compatibility.rs).         *)
PbEarned ==
    pb.compatible => /\ Host.platform /\ Host.asb /\ Host.interactive /\ Host.features /\ Host.size
                     /\ Host.resizes /\ Host.dirs /\ Host.rename /\ Host.executes /\ Host.tools

(* A retried resize is a change each time, so that a lost notification is    *)
(* not the last one.                                                         *)
PbRetrySignals == PbStage = "resize" => pbChild.signals = pbChild.attempts

(* A directory that was made and is still there although its probe reported  *)
(* facts was moved in one of two windows: between mkdirat and statat, where  *)
(* the one put in its place becomes the probe's own (system_probe.rs:718-    *)
(* 721), or between the last look and unlinkat (928-931).  Every other move  *)
(* is noticed.  What is run is never another's file, at whatever moment the  *)
(* name is given to one.  A process of a command's group outlives the        *)
(* command only by the one way out that kills nothing, an error of try_wait  *)
(* (342).                                                                    *)
PbNothingLeft ==
    /\ pb.left \subseteq {"made", "rmdir"}
    /\ pbDir.ran # "foreign"
    /\ pb.orphan \subseteq {"wait"}

(* The probe is honest about the host and about what it leaves behind. *)
ProbeHonest == PbEarned /\ PbRetrySignals /\ PbNothingLeft
=============================================================================
