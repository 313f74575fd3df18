-------------------------------- MODULE Entry --------------------------------
(* The entry points (main.rs): the `tui' command with its release channel    *)
(* (top_level.rs, channel_selection.rs), and the frontends that take a       *)
(* terminal (terminal.rs, terminal_handoff.rs) and must give it back, by     *)
(* whatever way they end (runtime.rs).                                       *)
(*                                                                           *)
(* The file with the channel is replaced through a temporary file of a fixed *)
(* name.  A name stands for an inode, which a process may hold open while    *)
(* another one renames it.                                                   *)
EXTENDS Naturals, Sequences, FiniteSets

CONSTANTS
    EnNone,         \* Option::None, a file that does not exist
    EnTorn,         \* contents that do not parse
    EnProcs,        \* the processes
    EnHosts,        \* a sequence of hosts: a terminal, and for each process its command lines
    EnArgMax,       \* MAX_ARGUMENTS
    EnSideMax,      \* MAX_TERMINAL_DIMENSION
    EnCellsMax,     \* MAX_TERMINAL_CELLS
    EnSignalMax     \* bound on the signals each process gets

ASSUME EnAssumption ==
    /\ EnArgMax \in Nat /\ EnSideMax \in Nat /\ EnCellsMax \in Nat /\ EnSignalMax \in Nat
    /\ EnNone \notin Nat
    /\ EnNone \notin {"dev", "stable", "nightly", "experimental", "router", "usage_invalid",
                      "production_profile_unsupported"}
    /\ \A h \in DOMAIN EnHosts, p \in EnProcs :
          \A i \in DOMAIN EnHosts[h].commands[p] :
             LET flags == EnHosts[h].commands[p][i].flags IN Len(flags) \in Nat /\ DOMAIN flags = 1..Len(flags)

VARIABLES
    en,             \* the processes
    enTty,          \* the modes that are on, of each process's terminal
    enChan,         \* the channel's file, its temporary file, the contents
    enHost          \* the host, an index
enVars == <<en, enTty, enChan, enHost>>
EnHost == EnHosts[enHost]

EnIdle == [at |-> "idle", cmd |-> 0, requested |-> EnNone, fd |-> EnNone, guard |-> FALSE, modes |-> {},
           pending |-> {}, got |-> 0, code |-> EnNone, ran |-> EnNone, asked |-> EnNone, refused |-> {}]
Cmd(p) == EnHost.commands[p][en[p].cmd]
EnSet(p, r) == en' = [en EXCEPT ![p] = r]
EnGoto(p, at) == EnSet(p, [en[p] EXCEPT !.at = at])
Exit(p, code) == EnSet(p, [en[p] EXCEPT !.at = "exited", !.code = code, !.fd = EnNone, !.requested = EnNone])
EnOnly == UNCHANGED <<enTty, enChan, enHost>>

-----------------------------------------------------------------------------
(* The command line of `tui': an operation and flags, each with its value.   *)

EnChannels == {"dev", "stable", "nightly", "experimental"}
EnOperations == {"install", "upgrade", "status", "launch", "remove"}
available(c) == c = "dev"

Flag(acc, t) ==
    CASE acc.error # EnNone -> acc
      [] acc.error = EnNone /\ t.flag = "--development" /\ ~acc.selected ->
            [acc EXCEPT !.channel_dev = FALSE, !.requested = "dev"]
      [] acc.error = EnNone /\ t.flag = "--channel" /\ ~acc.selected ->
            IF t.value \in EnChannels
            THEN [acc EXCEPT !.requested = t.value, !.channel_dev = available(t.value), !.selected = TRUE]
            ELSE [acc EXCEPT !.error = "usage_invalid"]
      [] acc.error = EnNone /\ t.flag = "--production" -> [acc EXCEPT !.error = "production_profile_unsupported"]
      [] acc.error = EnNone /\ ~acc.json /\ (t.flag = "--json" \/ (t.flag = "--format" /\ t.value = "json")) ->
            [acc EXCEPT !.json = TRUE]
      [] OTHER -> [acc EXCEPT !.error = "usage_invalid"]

ArgCount(c) == 1 + Len(c.flags) + Cardinality({i \in DOMAIN c.flags : c.flags[i].flag \in {"--channel", "--format"}})

(* What is known after each of the flags. *)
Reading(flags, start) ==
    LET read[n \in Nat] == IF n = 0 THEN start ELSE Flag(read[n - 1], flags[n]) IN read

(* The recorded channel counts only where none is asked for. *)
parse(c, recorded) ==
    LET start == [requested |-> EnNone, channel_dev |-> TRUE, selected |-> FALSE, json |-> FALSE,
                  error |-> IF ArgCount(c) > EnArgMax \/ c.operation \notin EnOperations
                            THEN "usage_invalid" ELSE EnNone]
        read  == Reading(c.flags, start)[Len(c.flags)]
    IN  [read EXCEPT !.requested = IF @ = EnNone THEN recorded ELSE @]

(* Asked for, in force, and the warning that an unavailable one is. *)
for_request(active, requested) ==
    LET r == IF requested = EnNone THEN active ELSE requested
    IN  [requested |-> r, active |-> IF available(r) THEN r ELSE active, warning |-> ~available(r)]

Contents(name) == IF enChan[name] = EnNone THEN EnNone ELSE enChan.data[enChan[name]]
(* A file that is missing, or does not parse, is a fresh setup. *)
persisted == IF Contents("file") \in EnChannels THEN Contents("file") ELSE EnNone

Explicit(c) == \E i \in DOMAIN c.flags : c.flags[i].flag = "--channel"

(* The choice the operator has in force: the channel of the flags (parse     *)
(* takes no second one), else the last one that was recorded.                *)
InForce(c) ==
    IF Explicit(c) THEN c.flags[CHOOSE i \in DOMAIN c.flags : c.flags[i].flag = "--channel"].value
    ELSE IF \E i \in DOMAIN c.flags : c.flags[i].flag = "--development" THEN "dev"
    ELSE enChan.last

(* A careless variant: the recorded choice is not read. *)
launch_tui_forgetful(p) ==
    /\ en[p].at = "tui"
    /\ LET c == Cmd(p)
           got == parse(c, EnNone)
       IN  CASE c.operation = EnNone -> EnGoto(p, "policy")
             [] c.operation # EnNone /\ got.error # EnNone -> Exit(p, 2)
             [] OTHER -> EnSet(p, [en[p] EXCEPT !.requested = got.requested, !.asked = InForce(c),
                                                !.at = IF Explicit(c) THEN "open" ELSE "tui_run"])
    /\ EnOnly
launch_tui_command(p) ==
    /\ en[p].at = "tui"
    /\ LET c == Cmd(p)
           got == parse(c, persisted)
       IN  CASE c.operation = EnNone -> EnGoto(p, "policy")
             [] c.operation # EnNone /\ got.error # EnNone -> Exit(p, 2)
             [] OTHER -> EnSet(p, [en[p] EXCEPT !.requested = got.requested, !.asked = InForce(c),
                                                !.at = IF Explicit(c) THEN "open" ELSE "tui_run"])
    /\ EnOnly

(* persist: the temporary file is opened and emptied, written, renamed.      *)
Used == {enChan.file, enChan.tmp} \cup {en[q].fd : q \in EnProcs}
Free(i) == i \notin Used /\ 1..(i - 1) \subseteq Used
Overlaps(p) == enChan.overlap \/ \E q \in EnProcs \ {p} : en[q].fd # EnNone
open_temporary(p) ==
    /\ en[p].at = "open"
    /\ \/ Exit(p, 3) /\ UNCHANGED enChan
       \/ \E i \in DOMAIN enChan.data :
             /\ IF enChan.tmp = EnNone THEN Free(i) ELSE i = enChan.tmp
             /\ EnSet(p, [en[p] EXCEPT !.at = "write", !.fd = i])
             /\ enChan' = [enChan EXCEPT !.tmp = i, !.data[i] = EnTorn, !.overlap = Overlaps(p)]
    /\ UNCHANGED <<enTty, enHost>>
write_temporary(p) ==
    /\ en[p].at = "write"
    /\ \/ EnGoto(p, "rename") /\ enChan' = [enChan EXCEPT !.data[en[p].fd] = en[p].requested]
       \/ Exit(p, 3) /\ UNCHANGED enChan
    /\ UNCHANGED <<enTty, enHost>>
rename_temporary(p) ==
    /\ en[p].at = "rename"
    /\ \/ Exit(p, 3) /\ UNCHANGED enChan
       \/ /\ enChan.tmp # EnNone
          /\ EnSet(p, [en[p] EXCEPT !.at = "tui_run", !.fd = EnNone])
          /\ enChan' = [enChan EXCEPT !.file = enChan.tmp, !.tmp = EnNone, !.last = en[p].requested,
                                      !.data = [i \in DOMAIN @ |-> IF i = enChan.file THEN EnTorn ELSE @[i]]]
    /\ UNCHANGED <<enTty, enHost>>

(* An unavailable channel is an answer, never another channel's operation. *)
execute_lifecycle(p) ==
    /\ en[p].at = "tui_run"
    /\ LET c == Cmd(p)
           selection == for_request("dev", en[p].requested)
           router == \E i \in DOMAIN c.flags : c.flags[i].flag = "--development"
       IN  IF selection.warning THEN Exit(p, 3)
           ELSE \E code \in {0, 3} :
                   EnSet(p, [en[p] EXCEPT !.at = "exited", !.code = code, !.requested = EnNone,
                                          !.ran = IF router /\ ~Explicit(c) THEN "router" ELSE "dev"])
    /\ EnOnly

-----------------------------------------------------------------------------
(* Which frontend; the others only report.                                   *)
Starts(p) ==
    /\ en[p].at = "idle"
    /\ \E i \in DOMAIN EnHost.commands[p] : EnSet(p, [EnIdle EXCEPT !.at = "main", !.cmd = i])
    /\ EnOnly
main(p) ==
    /\ en[p].at = "main"
    /\ CASE Cmd(p).kind = "tui" -> EnGoto(p, "tui")
         [] Cmd(p).kind = "broker" -> EnGoto(p, IF Cmd(p).development THEN "descriptor" ELSE "adopt")
         [] Cmd(p).kind = "socket" -> EnGoto(p, "policy") \/ Exit(p, 2)
         [] Cmd(p).kind = "run" -> EnGoto(p, "policy")
         [] Cmd(p).kind = "report" -> Exit(p, 0) \/ Exit(p, 3)
         [] OTHER -> Exit(p, 2)
    /\ EnOnly
launch_development_broker_entry(p) ==
    /\ en[p].at = "descriptor"
    /\ EnGoto(p, "adopt") \/ Exit(p, 3)
    /\ EnOnly
launch_broker_entry(p) ==
    /\ en[p].at = "adopt"
    /\ EnGoto(p, "stdin") \/ Exit(p, 2)
    /\ EnOnly

(* The broker came in at stdin; the keys come from the controlling terminal, *)
(* in development from a named one or from the one stdout is attached to.    *)
preflight_terminal_path(path) == path = "pts"
redirect_stdin(development) ==
    CASE development /\ EnHost.path # EnNone -> preflight_terminal_path(EnHost.path) /\ EnHost.owned
      [] development /\ EnHost.path = EnNone -> EnHost.controlling \/ EnHost.tty
      [] OTHER -> EnHost.controlling
RedirectStdin(p) ==
    /\ en[p].at = "stdin"
    /\ IF redirect_stdin(Cmd(p).development) THEN EnGoto(p, "policy") ELSE Exit(p, 2)
    /\ EnOnly

frame_dimensions_are_safe(c, l) ==
    c \in 1..EnSideMax /\ l \in 1..EnSideMax /\ c * l <= EnCellsMax
validate(e) ==
    /\ e.columns # EnNone => e.columns \in 1..EnSideMax
    /\ e.lines # EnNone => e.lines \in 1..EnSideMax
    /\ e.columns # EnNone /\ e.lines # EnNone => frame_dimensions_are_safe(e.columns, e.lines)
AppStateNew(e) ==
    frame_dimensions_are_safe(IF e.columns = EnNone THEN 80 ELSE e.columns,
                              IF e.lines = EnNone THEN 24 ELSE e.lines)

(* from_evidence: what the terminal is asked for. *)
unknown_terminal(e) == e.term \in {EnNone, "dumb"}
tier(e) == CASE ~e.tty \/ e.no_color \/ unknown_terminal(e) -> "plain"
             [] ~(~e.tty \/ e.no_color \/ unknown_terminal(e)) /\ e.color = "truecolor" -> "truecolor"
             [] ~(~e.tty \/ e.no_color \/ unknown_terminal(e)) /\ e.color = "256" -> "indexed"
             [] OTHER -> "basic"
RenderPolicy(e) ==
    [alternate_screen |-> e.tty /\ ~unknown_terminal(e),
     bracketed_paste |-> tier(e) \in {"indexed", "truecolor"} /\ ~e.remote]

(* The evidence must be sound and its size one that can be drawn; without an *)
(* alternate screen a frontend ends with the code given.                     *)
Policy(p, plain, ready) ==
    /\ CASE ~validate(EnHost) \/ ~AppStateNew(EnHost) -> Exit(p, 2)
         [] validate(EnHost) /\ AppStateNew(EnHost) /\ ~RenderPolicy(EnHost).alternate_screen -> Exit(p, plain)
         [] OTHER -> IF ready THEN EnGoto(p, "raw") ELSE Exit(p, 2)
    /\ EnOnly

(* Alone it prints its state and is done, with a runner it refuses; in       *)
(* development the tools are checked last.                                   *)
launch_alone(p) == en[p].at = "policy" /\ Cmd(p).kind \in {"run", "tui"} /\ Policy(p, 0, TRUE)
launch_authenticated_control(p) == en[p].at = "policy" /\ Cmd(p).kind = "socket" /\ Policy(p, 2, TRUE)
run_for_launch(p) ==
    /\ en[p].at = "policy" /\ Cmd(p).kind = "broker"
    /\ \E ready \in {TRUE, ~Cmd(p).development} : Policy(p, 2, ready)

-----------------------------------------------------------------------------
(* The session.  Each mode is noted as active when its effect succeeded; the *)
(* signals are caught from before the first one.                             *)

EnNext(mode) == CASE mode = "raw" -> "screen" [] mode = "screen" -> "cursor"
                  [] mode = "cursor" /\ RenderPolicy(EnHost).bracketed_paste -> "paste"
                  [] OTHER -> "loop"
EnModes == {"raw", "screen", "cursor", "paste"}
EnSession == EnModes \cup {"loop", "quit", "unwind"}

(* Every mode that is active is tried; one that fails stays active, and is   *)
(* what was refused.                                                         *)
restore(p, failing) ==
    /\ enTty' = [enTty EXCEPT ![p] = @ \ (en[p].modes \ failing)]
    /\ UNCHANGED <<enChan, enHost>>
Restored(p, failing) == [en[p] EXCEPT !.modes = @ \cap failing, !.refused = en[p].modes \cap failing]
Undoes(p) == {f \in SUBSET en[p].modes : Cardinality(f) <= 1}

(* start: an effect that fails undoes those before it. *)
enter(p) ==
    /\ en[p].at \in EnModes
    /\ \/ /\ EnSet(p, [en[p] EXCEPT !.at = EnNext(@), !.modes = @ \cup {en[p].at},
                                    !.guard = EnNext(en[p].at) = "loop"])
          /\ enTty' = [enTty EXCEPT ![p] = @ \cup {en[p].at}] /\ UNCHANGED <<enChan, enHost>>
       \/ \E f \in Undoes(p) :
             /\ EnSet(p, [Restored(p, f) EXCEPT !.at = "exited", !.code = 2])
             /\ restore(p, f)

Signal(p, s) ==
    /\ en[p].at \in EnSession /\ en[p].got < EnSignalMax
    /\ EnSet(p, [en[p] EXCEPT !.pending = @ \cup {s}, !.got = @ + 1])
    /\ EnOnly

(* A careless variant: the signal is obeyed even where giving back failed. *)
handle_signals_anyway(p) ==
    /\ en[p].at = "loop" /\ en[p].pending # {}
    /\ \E s \in en[p].pending, f \in Undoes(p) :
          LET r == [Restored(p, f) EXCEPT !.pending = @ \ {s}, !.guard = f # {}]
          IN  /\ EnSet(p, IF s = "TERM" THEN [r EXCEPT !.at = "exited", !.code = 143]
                          ELSE [r EXCEPT !.at = "stopped"])
              /\ restore(p, f)

(* A termination is obeyed, and a stop taken, only with the terminal given   *)
(* back; a failure to do so ends the loop.                                   *)
handle_signals(p) ==
    /\ en[p].at = "loop" /\ en[p].pending # {}
    /\ \E s \in en[p].pending, f \in Undoes(p) :
          LET r == [Restored(p, f) EXCEPT !.pending = @ \ {s}, !.guard = f # {}]
          IN  /\ EnSet(p, IF f # {} THEN [r EXCEPT !.at = "unwind"]
                          ELSE IF s = "TERM" THEN [r EXCEPT !.at = "exited", !.code = 143]
                          ELSE [r EXCEPT !.at = "stopped"])
              /\ restore(p, f)

Continued(p) ==
    /\ en[p].at = "stopped"
    /\ EnGoto(p, "raw") /\ EnOnly

(* The operator quits, or something in the loop fails. *)
Leaves(p) ==
    /\ en[p].at = "loop" /\ en[p].pending = {}
    /\ EnGoto(p, "quit") \/ EnGoto(p, "unwind")
    /\ EnOnly
session_restore(p) ==
    /\ en[p].at = "quit"
    /\ \E f \in Undoes(p) :
          /\ EnSet(p, IF f = {} THEN [Restored(p, f) EXCEPT !.guard = FALSE, !.at = "exited", !.code = 0]
                      ELSE [Restored(p, f) EXCEPT !.at = "unwind"])
          /\ restore(p, f)
(* A careless variant: what is still active is left as it is. *)
drop_nothing(p) ==
    /\ en[p].at = "unwind"
    /\ EnSet(p, [en[p] EXCEPT !.at = "exited", !.code = 2]) /\ EnOnly
(* Drop tries what is still active once more, unless all was given back. *)
drop(p) ==
    /\ en[p].at = "unwind"
    /\ \E f \in Undoes(p) :
          /\ (~en[p].guard => f = en[p].modes)
          /\ EnSet(p, [(IF en[p].guard THEN Restored(p, f) ELSE en[p]) EXCEPT !.at = "exited", !.code = 2])
          /\ restore(p, f)

(* A process without a session may die at any step, and be started again    *)
(* (not after two have recorded at once: nothing is claimed of what follows).*)
EnCrash(p) ==
    /\ en[p].at \in {"open", "write", "rename", "tui_run"}
    /\ Exit(p, 137) /\ EnOnly
EnAgain(p) ==
    /\ en[p].at = "exited" /\ enTty[p] = {} /\ Cmd(p).kind = "tui" /\ ~enChan.overlap
    /\ EnSet(p, EnIdle) /\ EnOnly

EnInit ==
    /\ en = [p \in EnProcs |-> EnIdle]
    /\ enTty = [p \in EnProcs |-> {}]
    /\ enChan = [file |-> EnNone, tmp |-> EnNone, data |-> [i \in 1..3 |-> EnTorn], last |-> EnNone, overlap |-> FALSE]
    /\ enHost \in DOMAIN EnHosts

EnStep(p) ==
    \/ main(p) \/ launch_tui_command(p) \/ open_temporary(p) \/ write_temporary(p) \/ rename_temporary(p)
    \/ execute_lifecycle(p) \/ launch_development_broker_entry(p) \/ launch_broker_entry(p)
    \/ RedirectStdin(p) \/ launch_alone(p) \/ launch_authenticated_control(p)
    \/ run_for_launch(p) \/ enter(p) \/ handle_signals(p) \/ session_restore(p) \/ drop(p)
EnNextStep ==
    \E p \in EnProcs :
        \/ EnStep(p) \/ Starts(p) \/ Continued(p) \/ Leaves(p) \/ EnCrash(p) \/ EnAgain(p)
        \/ \E s \in {"TERM", "TSTP"} : Signal(p, s)

EnSpec == EnInit /\ [][EnNextStep]_enVars

-----------------------------------------------------------------------------
(* Types of the processes and of the channel's file. *)
EnTypeOK ==
    /\ enTty \in [EnProcs -> SUBSET EnModes]
    /\ \A p \in EnProcs : en[p].modes \subseteq EnModes /\ en[p].code \in {EnNone, 0, 2, 3, 137, 143}
    /\ \A i \in DOMAIN enChan.data : enChan.data[i] \in EnChannels \cup {EnTorn}

(* The terminal is given back: to the shell while the frontend is stopped,   *)
(* and at its end by every way out.  A mode that is still on at the end was  *)
(* tried, and its restoration failed (runtime.rs, "Dropping it always        *)
(* attempts restoration").                                                   *)
EnTerminalGiven ==
    \A p \in EnProcs :
        /\ en[p].at \in {"stopped", "exited"} => enTty[p] \subseteq en[p].refused
        /\ en[p].at = "stopped" \/ en[p].code \in {0, 143} => enTty[p] = {}

(* As long as no two processes record at the same time, the file holds the   *)
(* last choice that was recorded, wherever a process died.  Of recorders     *)
(* that overlap nothing is said: they share one temporary name, so the       *)
(* replacement is not atomic between them (channel_selection.rs:122-124).    *)
EnChoiceKept == ~enChan.overlap => Contents("file") = enChan.last

(* An operation is one of the channel in force: an unavailable one, asked    *)
(* for now or recorded before, is never replaced by another                  *)
(* (channel_selection.rs, "it is never silently replaced with dev").         *)
EnNoFallback == \A p \in EnProcs : en[p].ran # EnNone /\ ~enChan.overlap => en[p].asked \in {"dev", EnNone}

(* The entry points: the terminal is given back, and the channel is kept as  *)
(* long as no two record one at once.                                        *)
EntrySound == EnTerminalGiven /\ EnChoiceKept /\ EnNoFallback
=============================================================================
