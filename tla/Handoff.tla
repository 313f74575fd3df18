------------------------------ MODULE Handoff -------------------------------
(* The development handoff: the screen that installs the development channel *)
(* (development_handoff.rs, the handoff keys of ui.rs), the worker threads   *)
(* the interactive loop starts for it (runtime.rs), and what a worker does   *)
(* before it publishes: the host preflight (development_preflight.rs), the   *)
(* choice of the toolchain, the bounded commands that can be cancelled, the  *)
(* channel manifest (development_lifecycle.rs,                               *)
(* development_channel_manifest.rs).  The publication itself is one step     *)
(* here; its renames are DevLifecycle's.                                     *)
(*                                                                           *)
(* A worker's number stands for the build it makes.                          *)
EXTENDS Naturals

CONSTANTS
    HandNone,     \* Option::None, a file that does not exist
    HandHosts,    \* a sequence of the hosts the frontend may run on
    HandMax       \* bound on the workers started

(* Who may write a tool besides its owner is read off its mode. *)
ASSUME HandAssumption ==
    /\ HandNone \notin Nat /\ HandMax \in Nat
    /\ \A i \in DOMAIN HandHosts : \A t \in {"git", "setsid", "cc", "ar", "ld"} :
          HandHosts[i].tools[t] # HandNone => HandHosts[i].tools[t].write \in {"none", "group", "world"}

VARIABLES
    hand,         \* the screen and the loop: phase, code, the worker whose handle is held
    handWorker,   \* the worker threads
    handRoot,     \* the installation: the build, and its warning about shared directories
    handHost      \* the host
handVars == <<hand, handWorker, handRoot, handHost>>
HandHost == HandHosts[handHost]

HandIds == 1..HandMax
(* What status() says of a root whose files do not belong together. *)
HandInvalid == {"installation_invalid", "channel_manifest_mismatch"}
HandCodes == {"materializing", "retry", "installed", "activation_failed", "cancelled", "not_installed",
              "already_installed", "host_preflight_failed", "tool_unavailable", "command_failed",
              "manifest_refused", "stage_failed", "profile_required"} \cup HandInvalid
HandPhases == {"Ready", "Cloning", "Installed", "Cancelled", "RolledBack", "Failed", "Incompatible"}
HandCommands == [clone |-> "identity", identity |-> "build", build |-> "manifest"]
HandSteps == DOMAIN HandCommands \cup {"unborn", "start", "tools", "manifest", "check", "activate",
                                       "status", "gone"}

-----------------------------------------------------------------------------
(* The host: a file or directory is its owner and who may write it besides.  *)

trusted_owner_and_mode(f, allow_group) ==
    /\ f.owner \in {"root", "user"} /\ f.write # "world"
    /\ f.write = "group" => allow_group /\ f.owner = "user"
trusted_candidate(f) == f # HandNone /\ trusted_owner_and_mode(f, FALSE)

(* development_preflight::run: four tools, the private root, a terminal only *)
(* for a launch.                                                             *)
executable_with(f) == trusted_candidate(f)
private_root_with(d) ==
    d = HandNone \/ (d.owner = "user" /\ d.write = "none" /\ ~d.link)
terminal_with(h, required) == ~required \/ h.terminal
run_with_terminal_requirement(h, required) ==
    /\ \A t \in {"git", "setsid", "cc"} : executable_with(h.tools[t])
    /\ executable_with(h.cargo.file)
    /\ private_root_with(h.root)
    /\ terminal_with(h, required)

(* A rustup shim counts only in ~/.cargo/bin and as a link to its neighbour; *)
(* the two directories of it may be group-writable by the user's own group,  *)
(* the directories above them may not.                                       *)
validate_conventional_rustup_shim(h) ==
    /\ h.cargo.conventional
    /\ \A d \in h.cargo.above : trusted_owner_and_mode(d, FALSE)
    /\ \A d \in h.cargo.shim : trusted_owner_and_mode(d, TRUE)

rustup_default_toolchain(r) ==
    /\ trusted_owner_and_mode(r.home, FALSE) /\ ~r.home.link
    /\ r.settings # HandNone /\ r.settings.owner = "user" /\ r.settings.write # "world"

open_rustup_tool(f) == f # HandNone /\ f.owner = "user" /\ f.write = "none"
resolve_rustup_toolchain(r) ==
    /\ rustup_default_toolchain(r)
    /\ \A d \in r.chain : trusted_owner_and_mode(d, TRUE)
    /\ \A t \in {r.cargo, r.rustc} : open_rustup_tool(t)

Shared(files) == \E f \in files : f.write = "group"
(* A careless variant: the directories of the shim are not looked at. *)
SharedToolchain(h) == h.cargo.rustup # HandNone /\ Shared(h.cargo.rustup.chain \cup {h.cargo.rustup.settings})
group_writable_rustup_paths(h) ==
    /\ h.cargo.rustup # HandNone
    /\ Shared(h.cargo.rustup.chain \cup {h.cargo.rustup.settings} \cup h.cargo.shim)

trusted_cargo_resolution(h) ==
    /\ h.cargo.file # HandNone /\ h.cargo.file.owner = "user" /\ h.cargo.file.write = "none"
    /\ h.cargo.rustup # HandNone =>
          validate_conventional_rustup_shim(h) /\ resolve_rustup_toolchain(h.cargo.rustup)
trusted_tools(h) ==
    trusted_candidate(h.tools["setsid"]) /\ trusted_candidate(h.tools["git"]) /\ trusted_cargo_resolution(h)

(* The override of rustc must name the toolchain's own one or a shim. *)
rustc_override_matches_toolchain(h) == h.override \in {HandNone, "shim", "toolchain"}
trusted_toolchain(h) ==
    /\ trusted_tools(h)
    /\ h.cargo.rustup # HandNone => rustc_override_matches_toolchain(h)
    /\ h.cargo.rustup = HandNone => trusted_candidate(h.tools["rustc"])
    /\ \A t \in {"cc", "ar", "ld"} : trusted_candidate(h.tools[t])

(* The manifest ASB may have left: absent is well, present it must be for    *)
(* the very source and executable that were built.                           *)
consume_from_env(h) == h.manifest \in {HandNone, "matching", "stale"}
validate_current_main(h) == h.manifest \in {HandNone, "matching"}

-----------------------------------------------------------------------------
(* The screen.                                                               *)

HandActive == hand.phase = "Cloning"
operation(h) ==
    IF h.code = "retry" \/ h.phase \in {"Installed", "RolledBack"} THEN "upgrade" ELSE "install"

begin(h) == [h EXCEPT !.phase = "Cloning", !.code = "materializing"]
begin_retry(h) == [h EXCEPT !.phase = "Cloning", !.code = "retry"]
cancel(h) == IF h.phase = "Cloning" THEN [h EXCEPT !.phase = "Cancelled", !.code = "cancelled"] ELSE h

(* A careless variant: every answer without an error code of its own counts  *)
(* as a success.                                                             *)
apply_response_lenient(h, code) ==
    [h EXCEPT !.code = code,
              !.phase = CASE code = "activation_failed" -> "RolledBack"
                          [] code = "cancelled" -> "Cancelled"
                          [] OTHER -> "Installed"]

apply_response(h, code) ==
    [h EXCEPT !.code = code,
              !.phase = CASE code = "installed" -> "Installed"
                          [] code = "activation_failed" -> "RolledBack"
                          [] code = "installation_invalid" -> "Incompatible"
                          [] code = "cancelled" -> "Cancelled"
                          [] OTHER -> "Failed"]

Alive(w) == handWorker[w].at \notin {"unborn", "gone"}
Unborn == {w \in HandIds : handWorker[w].at = "unborn"}

(* The loop starts a worker and holds its handle; the handle it held before, *)
(* if any, is dropped with its flag and its channel.                         *)
Spawn(h) ==
    IF ~HandHost.development
    THEN /\ hand' = [h EXCEPT !.phase = "Failed", !.code = "profile_required"]
         /\ UNCHANGED <<handWorker, handRoot>>
    ELSE \E w \in Unborn :
            /\ \A v \in Unborn : w <= v
            /\ handWorker' = [handWorker EXCEPT ![w].at = "start", ![w].op = operation(h)]
            /\ hand' = [h EXCEPT !.held = w, !.began = handRoot.build,
                                 !.alone = \A v \in HandIds : ~Alive(v)]
            /\ UNCHANGED handRoot

Running == hand.quit = "no"
MaterializeDevelopment ==
    /\ Running /\ hand.phase = "Ready"
    /\ Spawn(begin(hand)) /\ UNCHANGED handHost

RetryDevelopment == Running /\ Spawn(begin_retry(hand)) /\ UNCHANGED handHost

(* Too late, from the last look on. *)
Late(t) == t.late \/ t.at \in {"activate", "status", "gone"}
Flagged(w) ==
    [handWorker EXCEPT ![w] = [at |-> @.at, op |-> @.op, cancelled |-> TRUE, late |-> Late(@), answer |-> @.answer]]

CancelDevelopment ==
    /\ Running
    /\ hand' = cancel(hand)
    /\ handWorker' = IF hand.held = HandNone THEN handWorker ELSE Flagged(hand.held)
    /\ UNCHANGED <<handRoot, handHost>>

(* The head of the loop takes the answer of the worker it holds. *)
ReceiveAnswer ==
    /\ Running /\ hand.held # HandNone /\ handWorker[hand.held].at = "gone"
    /\ hand' = [apply_response(hand, handWorker[hand.held].answer) EXCEPT !.held = HandNone]
    /\ UNCHANGED <<handWorker, handRoot, handHost>>

(* Leaving: the held worker is told to stop and given five seconds; then the *)
(* process ends with every thread in it.                                     *)
LeaveLoop ==
    /\ Running
    /\ hand' = [hand EXCEPT !.quit = "waiting"]
    /\ handWorker' = IF hand.held = HandNone THEN handWorker ELSE Flagged(hand.held)
    /\ UNCHANGED <<handRoot, handHost>>

ProcessEnds ==
    /\ hand.quit = "waiting"
    /\ hand' = [hand EXCEPT !.quit = "ended"]
    /\ UNCHANGED <<handWorker, handRoot, handHost>>

-----------------------------------------------------------------------------
(* A worker (execute_with_cancel, materialize).                              *)

Moves(w, next) ==
    handWorker' = [handWorker EXCEPT ![w].at = next] /\ UNCHANGED <<hand, handRoot, handHost>>
Answers(w, code) ==
    /\ handWorker' = [handWorker EXCEPT ![w].at = "gone", ![w].answer = code]
    /\ UNCHANGED <<hand, handRoot, handHost>>

HandInstalled == handRoot.build # HandNone
WorkerStarts(w) ==
    LET op == handWorker[w].op
    IN  /\ handWorker[w].at = "start"
        /\ CASE op = "upgrade" /\ ~HandInstalled -> Answers(w, "not_installed")
             [] ~(op = "upgrade" /\ ~HandInstalled) /\ ~run_with_terminal_requirement(HandHost, FALSE) ->
                    Answers(w, "host_preflight_failed")
             [] op = "install" /\ HandInstalled /\ run_with_terminal_requirement(HandHost, FALSE) ->
                    Answers(w, "already_installed")
             [] OTHER -> Moves(w, "tools")

WorkerResolves(w) ==
    /\ handWorker[w].at = "tools"
    /\ IF trusted_toolchain(HandHost) THEN Moves(w, "clone") ELSE Answers(w, "tool_unavailable")

(* A careless variant: a command that hangs is never given up. *)
run_bounded_untimed(w) ==
    /\ handWorker[w].at \in DOMAIN HandCommands
    /\ IF handWorker[w].cancelled THEN Answers(w, "cancelled")
       ELSE handWorker[w].at # "build" /\ Moves(w, HandCommands[handWorker[w].at])

(* run_bounded: the flag is looked at first, then the size of the workspace, *)
(* the child and the clock.                                                  *)
run_bounded(w) ==
    /\ handWorker[w].at \in DOMAIN HandCommands
    /\ IF handWorker[w].cancelled THEN Answers(w, "cancelled")
       ELSE Moves(w, HandCommands[handWorker[w].at]) \/ Answers(w, "command_failed")

WorkerChecksManifest(w) ==
    /\ handWorker[w].at = "manifest"
    /\ IF consume_from_env(HandHost) /\ validate_current_main(HandHost) THEN Moves(w, "check")
       ELSE Answers(w, "manifest_refused")

(* A careless variant: the flag is only looked at while a command runs. *)
WorkerGoesOn(w) == handWorker[w].at = "check" /\ Moves(w, "activate")
(* The last look at the flag; nothing stops the worker after it. *)
WorkerLastLook(w) ==
    /\ handWorker[w].at = "check"
    /\ IF handWorker[w].cancelled THEN Answers(w, "cancelled") ELSE Moves(w, "activate")

(* The staged files cannot be written, or the renames fail and are undone;   *)
(* an undo that fails as well is DevLifecycle's.                             *)
WorkerActivates(w) ==
    /\ handWorker[w].at = "activate"
    /\ \/ /\ handRoot' = [build |-> w, warned |-> group_writable_rustup_paths(HandHost)]
          /\ handWorker' = [handWorker EXCEPT ![w].at = "status"]
          /\ UNCHANGED <<hand, handHost>>
       \/ Answers(w, "stage_failed")
       \/ Answers(w, "activation_failed")

(* The answer of a success is the status of the root, whoever wrote it last; *)
(* while the renames of another worker are under way its files or its        *)
(* manifest need not fit.                                                    *)
WorkerReports(w) ==
    /\ handWorker[w].at = "status"
    /\ \/ Answers(w, "installed")
       \/ /\ \E v \in HandIds : handWorker[v].at = "activate"
          /\ \E code \in HandInvalid : Answers(w, code)

WorkerStep(w) ==
    /\ hand.quit # "ended"
    /\ \/ WorkerStarts(w) \/ WorkerResolves(w) \/ run_bounded(w) \/ WorkerChecksManifest(w)
       \/ WorkerLastLook(w) \/ WorkerActivates(w) \/ WorkerReports(w)

-----------------------------------------------------------------------------
HandInit ==
    /\ hand = [phase |-> "Ready", code |-> "not_installed", held |-> HandNone, began |-> HandNone,
               alone |-> TRUE, quit |-> "no"]
    /\ handWorker = [w \in HandIds |-> [at |-> "unborn", op |-> "install", cancelled |-> FALSE,
                                        late |-> FALSE, answer |-> HandNone]]
    /\ handRoot \in {[build |-> b, warned |-> FALSE] : b \in {HandNone, 0}}
    /\ handHost \in DOMAIN HandHosts

HandNext ==
    \/ MaterializeDevelopment
    \/ RetryDevelopment
    \/ CancelDevelopment
    \/ ReceiveAnswer
    \/ LeaveLoop
    \/ ProcessEnds
    \/ \E w \in HandIds : WorkerStep(w)

HandFairness == WF_handVars(ReceiveAnswer) /\ \A w \in HandIds : WF_handVars(WorkerStep(w))
HandSpec == HandInit /\ [][HandNext]_handVars /\ HandFairness

-----------------------------------------------------------------------------
(* Types of the screen, the workers and the installation. *)
HandTypeOK ==
    /\ hand.phase \in HandPhases /\ hand.code \in HandCodes
    /\ hand.held \in HandIds \cup {HandNone} /\ hand.quit \in {"no", "waiting", "ended"}
    /\ handRoot.build \in HandIds \cup {HandNone, 0}
    /\ \A w \in HandIds : /\ handWorker[w].at \in HandSteps
                          /\ handWorker[w].answer \in HandCodes \cup {HandNone}

(* Once its answer is in, the screen is right about the installation: it     *)
(* says installed when this operation's build is there, and anything else    *)
(* only if the operation changed nothing ("an error never implies that an    *)
(* existing installation was replaced", development_handoff.rs).  It need    *)
(* not hold when an earlier worker, whose handle was dropped by a second     *)
(* key, was still busy (runtime.rs, the replaced development_worker).        *)
HandRestIsTrue ==
    (hand.held = HandNone /\ hand.alone /\ Unborn # HandIds /\ Running) =>
        IF hand.phase = "Installed" THEN handRoot.build \notin {HandNone, hand.began}
        ELSE handRoot.build = hand.began

(* A worker that was told to stop before its last look never publishes: what *)
(* is installed was not cancelled, or was cancelled too late.                *)
HandCancelStops ==
    handRoot.build \in HandIds =>
        LET w == handWorker[handRoot.build] IN w.cancelled => w.late

(* What is installed was built with trusted tools, and its provenance warns  *)
(* exactly if a directory on their path is shared with the user's group      *)
(* (development_lifecycle.rs, the toolchain resolution).                     *)
HandBuiltWithTrust ==
    handRoot.build \in HandIds =>
        /\ \A t \in {"git", "setsid", "cc", "ar", "ld"} : HandHost.tools[t].write = "none"
        /\ handRoot.warned =
              (HandHost.cargo.rustup # HandNone
               /\ \E f \in HandHost.cargo.shim \cup HandHost.cargo.rustup.chain
                           \cup {HandHost.cargo.rustup.settings} : f.write = "group")

(* The handoff screen and the installation agree at rest, a cancel that is   *)
(* in time changes nothing, and nothing is built with tools others can write.*)
HandAsShown == HandRestIsTrue /\ HandCancelStops /\ HandBuiltWithTrust

(* The screen does not stay at `cloning source' for ever: whatever keys come *)
(* while a worker runs, the worker that is held answers and its answer is    *)
(* shown (runtime.rs, the head of the loop; run_bounded's timeout).          *)
HandSettles == (HandActive /\ Running) ~> (~HandActive \/ ~Running)
=============================================================================
