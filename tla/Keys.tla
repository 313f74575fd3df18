-------------------------------- MODULE Keys --------------------------------
(* The keyboard of the workspace (ui.rs): which screen a key is for, which   *)
(* actions are legal, what the context help lists, and what a key does.  The *)
(* keys are decided by one long function in a fixed order (Ctrl-C, the help  *)
(* overlay, the wizard, the development handoff, the two text fields, the    *)
(* keys of a screen, the global keys), the help list by another, and the     *)
(* legality of an action by a third; snapshots of the runner arrive between  *)
(* two keys and change the ground under all of them.                         *)
(*                                                                           *)
(* The steps of the wizard are those of Setup; here the wizard is a screen   *)
(* that keeps its keys to itself, with the route of its formal state.  What  *)
(* a measure search finds is Picker's, the text of a setting Config's.       *)
EXTENDS FormalUi

CONSTANTS
    KeyNone,        \* Option::None
    KeySnapshots    \* the snapshots the runner may cause

ASSUME KeySnapshotsAssumption ==
    KeySnapshots \subseteq
        [caps : SUBSET {"run_control", "events", "validate_settings", "repeat", "analysis"},
         phase : {KeyNone, "None", "Planned", "Recording", "NeedsReconciliation",
                  "Complete", "Cancelled", "Failed"},
         covered : BOOLEAN, runs : Nat, fanout : BOOLEAN,
         configured : {KeyNone, TRUE, FALSE}, catalog : BOOLEAN, reviewed : BOOLEAN]

VARIABLES
    key    \* the workspace: WorkspaceState's fields that decide about keys

Screens == {"Landing", "DevelopmentHandoff", "Wizard", "Measures", "Configuration",
            "RunControl", "Reports"}
HandoffPhases == {"Ready", "Cloning", "Building", "Installing", "Installed", "Cancelled",
           "RolledBack", "Failed", "Incompatible"}
ActivePhases == {"Cloning", "Building", "Installing"}
RetryPhases == {"Cancelled", "RolledBack", "Failed", "Incompatible"}
ActiveRuns == {"Launching", "Running", "Cancelling"}
ASSUME KeyNoneAssumption == KeyNone \notin ActiveRuns \cup {"quit"}

NextScreen == [Landing |-> "Measures", Measures |-> "Configuration", Configuration |-> "RunControl",
               RunControl |-> "Reports", Reports |-> "Landing"]
PreviousScreen == [Landing |-> "Reports", Measures |-> "Landing", Configuration |-> "Measures",
                   RunControl |-> "Configuration", Reports |-> "RunControl"]

KeyCodes == {"Esc", "Enter", "Space", "Backspace", "Tab", "BackTab", "Up", "Down", "F1",
             "Ctrl-C", "Ctrl-S", "Ctrl-Z", "?", "1", "2", "3", "4", "s", "w", "q", "d", "f",
             "e", "P", "C", "G", "X", "Y", "o", "J", "]", "S", "U", "D", "V", "A", "x", "r",
             "t", "v", "a", "g", "b", "/"}
(* The keys that a text field takes as a character. *)
Printable == KeyCodes \ {"Esc", "Enter", "Backspace", "Tab", "BackTab", "Up", "Down", "F1",
                         "Ctrl-C", "Ctrl-S", "Ctrl-Z"}

-----------------------------------------------------------------------------
(* What is legal.                                                            *)

Capable(s, needed) == s.live # KeyNone /\ needed \subseteq s.live.caps
(* The setting being edited holds a value or text that is rejected. *)
Editing(s) == s.editing # KeyNone
RowsVisible(s) == s.search # "miss"
Phase(s) == IF s.live = KeyNone THEN KeyNone ELSE s.live.phase
(* build_preflight_bundle succeeds: here, with the catalogs of a snapshot. *)
Buildable(s) == s.live # KeyNone /\ s.live.reviewed
recording_prerequisites_ready(s) == s.live # KeyNone /\ s.live.configured = TRUE

RecordingActions ==
    {"estimate_recording", "plan_recording", "confirm_recording_capture", "progress_recording",
     "cancel_recording", "reconcile_recording", "activate_offline_default", "seal_recording",
     "reopen_recording", "remove_recording_cassette", "select_offline_cassette",
     "replay_selected"}

RecordingIsLegal(s, action) ==
    CASE action \in {"estimate_recording", "plan_recording"} ->
             /\ Capable(s, {"validate_settings"}) /\ recording_prerequisites_ready(s)
             /\ Phase(s) \in {KeyNone, "None", "Cancelled", "Failed"}
      [] action = "confirm_recording_capture" ->
             Capable(s, {"run_control"}) /\ Phase(s) = "Planned"
      [] action = "progress_recording" ->
             Capable(s, {"events"}) /\ s.tape.progress
             /\ Phase(s) \in {"Recording", "NeedsReconciliation"}
      [] action = "cancel_recording" ->
             /\ Capable(s, {"run_control", "events"})
             /\ Phase(s) \in {"Planned", "Recording", "NeedsReconciliation"}
      [] action = "reconcile_recording" ->
             Capable(s, {"run_control"}) /\ Phase(s) = "NeedsReconciliation"
      [] action \in {"activate_offline_default", "seal_recording"} ->
             Capable(s, {"run_control"}) /\ Phase(s) = "Complete" /\ s.live.covered
      [] action = "reopen_recording" ->
             /\ Capable(s, {"run_control"})
             /\ Phase(s) \in {"Complete", "Failed", "Cancelled", "NeedsReconciliation"}
      [] action = "remove_recording_cassette" ->
             Capable(s, {"run_control"}) /\ Phase(s) = "Complete" /\ s.tape.listed /\ s.tape.chosen
      [] action = "select_offline_cassette" -> Capable(s, {"run_control"}) /\ s.tape.listed
      [] action = "replay_selected" ->
             Capable(s, {"run_control"}) /\ s.tape.listed /\ s.tape.chosen

action_is_legal(s, action) ==
    CASE action \in RecordingActions -> RecordingIsLegal(s, action)
      [] action \in {"toggle_measure", "toggle_all_measures", "toggle_group", "toggle_benchmark",
                     "select_benchmark_pool"} ->
             s.screen = "Measures" /\ ~s.searching /\ RowsVisible(s)
      [] action = "start_run" ->
             s.bundle /\ Capable(s, {"run_control"}) /\ s.launch \in {KeyNone, "Idle"}
      [] action = "admit_fanout" -> s.bundle /\ Capable(s, {"run_control"}) /\ ~s.live.fanout
      [] action = "cancel_run" ->
             Capable(s, {"run_control", "events"}) /\ s.launch \in ActiveRuns
      [] action = "cancel_fanout" ->
             Capable(s, {"run_control", "events"}) /\ s.live.fanout
      [] action = "refresh_provider_catalog" -> Capable(s, {"validate_settings"})
      [] action = "retry_run" -> Capable(s, {"repeat"}) /\ s.row < s.live.runs
      [] action = "compare_live_offline" -> Capable(s, {"analysis"}) /\ Cardinality(s.picked) = 2
      [] action = "reconnect" -> s.launch # KeyNone
      [] action = "open_preflight" -> Buildable(s)
      [] action = "apply_preflight" -> s.bundle
      [] action = "open_development_handoff" -> s.screen = "Landing"
      [] action = "materialize_development" ->
             s.screen = "DevelopmentHandoff" /\ s.handoff = "Ready"
      [] action = "cancel_development" ->
             s.screen = "DevelopmentHandoff" /\ s.handoff \in ActivePhases
      [] action = "retry_development" ->
             s.screen = "DevelopmentHandoff" /\ s.handoff \in RetryPhases
      [] OTHER -> TRUE

(* The actions that only the help names; the rest are action_is_legal's.     *)
(* open_wizard is in neither list, and so never shown.                       *)
documented_action_is_legal(s, id) ==
    CASE id = "open_wizard" -> FALSE
      [] id \in {"move_measure_cursor", "focus_measure_search"} -> s.screen = "Measures"
      [] id = "edit_measure_search" -> s.screen = "Measures" /\ s.searching
      [] id = "backspace_measure_search" ->
             s.screen = "Measures" /\ s.searching /\ s.search # "empty"
      [] id \in {"move_configuration", "focus_configuration", "save_configuration"} ->
             s.screen = "Configuration" /\ ~Editing(s)
      [] id \in {"edit_configuration", "commit_configuration_edit", "backspace_configuration"} ->
             s.screen = "Configuration" /\ Editing(s)
      [] id = "move_report_cursor" -> s.screen = "Reports" /\ s.live # KeyNone /\ s.live.runs > 0
      [] id = "toggle_report_selection" ->
             s.screen = "Reports" /\ s.live # KeyNone /\ s.row < s.live.runs
      [] OTHER -> action_is_legal(s, id)

-----------------------------------------------------------------------------
(* What the help lists: pairs of an action and the keys shown for it.        *)

TextFocused(s) == Editing(s) \/ s.searching

ScreenHelp(s) ==
    CASE s.screen = "Landing" ->
             {<<"open_development_handoff", {"d"}>>, <<"open_wizard", {"w"}>>}
      [] s.screen = "DevelopmentHandoff" ->
             {<<"materialize_development", {"Enter", "Space"}>>, <<"cancel_development", {"x"}>>,
              <<"retry_development", {"r"}>>, <<"go_back", {"Esc"}>>}
      [] s.screen = "Measures" ->
             IF s.searching
             THEN {<<"edit_measure_search", {"a"}>>, <<"backspace_measure_search", {"Backspace"}>>,
                   <<"focus_measure_search", {"Esc", "Enter"}>>}
             ELSE {<<"move_measure_cursor", {"Up", "Down"}>>, <<"focus_measure_search", {"/"}>>,
                   <<"toggle_measure", {"Space"}>>, <<"toggle_all_measures", {"a"}>>,
                   <<"toggle_group", {"g"}>>, <<"toggle_benchmark", {"b"}>>,
                   <<"select_benchmark_pool", {"P"}>>}
      [] s.screen = "Configuration" ->
             {<<"move_configuration", {"Up", "Down"}>>, <<"edit_configuration", {"a"}>>,
              <<"backspace_configuration", {"Backspace"}>>, <<"save_configuration", {"Ctrl-S"}>>,
              <<"refresh_provider_catalog", {"f"}>>, <<"open_preflight", {"V"}>>,
              <<"apply_preflight", {"A"}>>}
             \cup {<<IF Editing(s) THEN "commit_configuration_edit" ELSE "focus_configuration",
                     {"Enter"}>>}
      [] s.screen = "RunControl" ->
             {<<"start_run", {"Enter"}>>, <<"admit_fanout", {"A"}>>, <<"cancel_run", {"Ctrl-C"}>>,
              <<"cancel_fanout", {"Ctrl-Z"}>>, <<"reconnect", {"x"}>>,
              <<"estimate_recording", {"e"}>>, <<"plan_recording", {"P"}>>,
              <<"confirm_recording_capture", {"C"}>>, <<"progress_recording", {"G"}>>,
              <<"cancel_recording", {"X"}>>, <<"reconcile_recording", {"Y"}>>,
              <<"activate_offline_default", {"o"}>>, <<"seal_recording", {"S"}>>,
              <<"reopen_recording", {"U"}>>, <<"remove_recording_cassette", {"D"}>>,
              <<"select_offline_cassette", {"]"}>>, <<"replay_selected", {"J"}>>}
      [] s.screen = "Reports" ->
             {<<"move_report_cursor", {"Up", "Down"}>>, <<"toggle_report_selection", {"Space"}>>,
              <<"retry_run", {"t"}>>, <<"compare_live_offline", {"v", "C"}>>}
      [] OTHER -> {}

NavigationKeys ==
    {<<"open_landing", {"1"}>>, <<"open_measurement_selection", {"2"}>>,
     <<"open_configuration", {"3"}>>, <<"open_run_control", {"s"}>>,
     <<"open_reports", {"4"}>>, <<"quit", {"q"}>>}

(* A careless variant: listed also while a text field has the focus. *)
NavigationAlways(s) ==
    IF s.screen \in {"DevelopmentHandoff", "Wizard"} THEN {} ELSE NavigationKeys

NavigationHelp(s) ==
    IF TextFocused(s) \/ s.screen \in {"DevelopmentHandoff", "Wizard"} THEN {}
    ELSE NavigationKeys

contextual_help_actions(s) ==
    {a \in ScreenHelp(s) \cup NavigationHelp(s)
             \cup {<<"open_help", IF TextFocused(s) THEN {"F1"} ELSE {"?"}>>} :
        documented_action_is_legal(s, a[1])}

-----------------------------------------------------------------------------
(* The overlay of the context help, bound to the route it was opened on.     *)

context_help_route(s) ==
    IF s.screen = "DevelopmentHandoff" THEN "Landing" ELSE s.screen

(* ContextHelpFormalState: the route of the open overlay (its cursor is left *)
(* out); the new value in a set, which is empty where the event is refused.  *)
Closed == KeyNone
ContextHelpApply(help, event, route) ==
    CASE event = "open" /\ help = Closed -> {route}
      [] event = "close" /\ help = route -> {Closed}
      [] OTHER -> {}

open_context_help(s) ==
    [s EXCEPT !.help = CHOOSE h \in ContextHelpApply(Closed, "open", context_help_route(s)) : TRUE]

(* Where the route has changed and the event is refused, the overlay is      *)
(* dropped all the same.                                                     *)
close_context_help(s) ==
    LET closed == ContextHelpApply(s.help, "close", context_help_route(s))
    IN  IF closed # {} THEN [s EXCEPT !.help = CHOOSE h \in closed : TRUE]
        ELSE [s EXCEPT !.help = Closed]

(* A careless variant: the overlay stays open over the wizard. *)
open_wizard_below_help(s) ==
    IF s.route # "Landing" THEN s ELSE [s EXCEPT !.route = "Wizard", !.screen = "Wizard"]

open_wizard(s) ==
    IF s.route # "Landing" THEN s
    ELSE [close_context_help(s) EXCEPT !.route = "Wizard", !.screen = "Wizard"]

-----------------------------------------------------------------------------
(* What a key does: the next state, the action done, and whether it is       *)
(* handed to the runtime as a control action.                                *)

Result(s, id, sent) == [to |-> s, did |-> id, sent |-> sent]
Ignore(s) == Result(s, KeyNone, FALSE)
Done(s, id) == Result(s, id, FALSE)
Send(s, id) == Result(s, id, TRUE)
KeyGoto(s, screen, id) == Done([s EXCEPT !.screen = screen], id)
Covered(s) == s.help # Closed
send_unchecked(s, id) == Send(s, id)
legal_control_action(s, id) == IF action_is_legal(s, id) THEN Send(s, id) ELSE Ignore(s)

HelpKey(s, k) ==
    CASE k \in {"Esc", "?", "F1"} -> Done(close_context_help(s), "close_help")
      [] OTHER -> Ignore(s)

(* Cancelling or completing the wizard; its other keys stay inside. *)
WizardKey(s, k) ==
    CASE k \in {"q", "Enter", "Esc"} /\ s.route = "Wizard" ->
             Done([s EXCEPT !.route = "Landing", !.screen = "Landing"], "leave_wizard")
      [] k = "?" -> Done(open_context_help(s), "open_help")
      [] OTHER -> Ignore(s)

HandoffKey(s, k) ==
    CASE k \in {"Esc", "1"} -> KeyGoto(s, "Landing", "go_back")
      [] k \in {"Space", "Enter"} /\ s.handoff = "Ready" ->
             Send([s EXCEPT !.handoff = "Cloning"], "materialize_development")
      [] k = "x" -> Send([s EXCEPT !.handoff = IF @ \in ActivePhases THEN "Cancelled" ELSE @],
                         "cancel_development")
      [] k = "r" -> Send([s EXCEPT !.handoff = "Cloning"], "retry_development")
      [] k = "?" -> Done(open_context_help(s), "open_help")
      [] OTHER -> Ignore(s)

(* A search character may leave rows or none; the text of a setting is Config's. *)
SearchKey(s, k) ==
    CASE k \in {"Esc", "Enter"} -> Done([s EXCEPT !.searching = FALSE], "focus_measure_search")
      [] k = "Backspace" -> Done([s EXCEPT !.search = "empty"], "backspace_measure_search")
      [] k \in Printable -> Done([s EXCEPT !.search = IF k = "q" THEN "miss" ELSE "hit"],
                                 "edit_measure_search")
      [] OTHER -> Ignore(s)

(* A careless variant: a setting takes letters only. *)
EditsLetters(s, k) ==
    /\ s.screen = "Configuration" /\ Editing(s)
    /\ k \in (Printable \ {"1", "2", "3", "4"}) \cup {"Esc", "Enter", "Backspace"}

EditsSetting(s, k) ==
    s.screen = "Configuration" /\ Editing(s) /\ k \in Printable \cup {"Esc", "Enter", "Backspace"}

Committed(s) == [s EXCEPT !.editing = IF @ = "accepted" THEN KeyNone ELSE @]
EditKey(s, k) ==
    CASE k = "Esc" -> Done([s EXCEPT !.editing = KeyNone], "leave_configuration_edit")
      [] k = "Enter" -> Done(Committed(s), "commit_configuration_edit")
      [] k = "Backspace" -> Done([s EXCEPT !.editing = "rejected"], "backspace_configuration")
      [] OTHER -> Done([s EXCEPT !.editing = "accepted"], "edit_configuration")

(* The keys that a screen takes before the global ones; the others of its    *)
(* keys are not global keys.                                                 *)
MeasuresKey(s, k) ==
    CASE k = "Space" -> Done(s, "toggle_measure")
      [] k = "P" -> Done(s, "select_benchmark_pool")
      [] k = "b" -> Done(s, "toggle_benchmark")
      [] k = "g" -> Done(s, "toggle_group")
      [] k = "a" -> Done(s, "toggle_all_measures")
      [] k = "/" -> Done([s EXCEPT !.searching = TRUE], "focus_measure_search")
      [] k \in {"Up", "Down"} -> Done(s, "move_measure_cursor")
      [] OTHER -> Ignore(s)

ConfigurationKey(s, k) ==
    CASE k = "Ctrl-S" -> Done(Committed(s), "save_configuration")
      [] k = "V" -> Send([s EXCEPT !.bundle = @ \/ Buildable(s)], "open_preflight")
      [] k = "A" -> Send(s, "apply_preflight")
      [] k = "f" -> legal_control_action(s, "refresh_provider_catalog")
      [] k = "Enter" -> Done([s EXCEPT !.editing = "accepted"], "focus_configuration")
      [] k \in {"Up", "Down"} -> Done(s, "move_configuration")
      [] OTHER -> Ignore(s)

RunControlLetters ==
    [x \in {"A", "Ctrl-Z", "S", "U", "D", "e", "P", "C", "G", "X", "Y", "o", "J", "]"} |->
        CASE x = "A" -> "admit_fanout" [] x = "Ctrl-Z" -> "cancel_fanout"
          [] x = "S" -> "seal_recording" [] x = "U" -> "reopen_recording"
          [] x = "D" -> "remove_recording_cassette" [] x = "e" -> "estimate_recording"
          [] x = "P" -> "plan_recording" [] x = "C" -> "confirm_recording_capture"
          [] x = "G" -> "progress_recording" [] x = "X" -> "cancel_recording"
          [] x = "Y" -> "reconcile_recording" [] x = "o" -> "activate_offline_default"
          [] x = "J" -> "replay_selected" [] x = "]" -> "select_offline_cassette"]

(* The keys of a run ask the documented state graph before anything is sent. *)
formal_control_action(s, id) ==
    IF run_control_formal(id) THEN legal_control_action(s, id) ELSE Ignore(s)

(* StartRun installs a launch state of its own and begins it. *)
RunControlKey(s, k) ==
    CASE k = "x" -> formal_control_action(s, "reconnect")
      [] k \in DOMAIN RunControlLetters -> legal_control_action(s, RunControlLetters[k])
      [] k = "Enter" /\ action_is_legal(s, "start_run") /\ run_control_formal("start_run") ->
             Send([s EXCEPT !.launch = "Launching"], "start_run")
      [] OTHER -> Ignore(s)

(* The cursor of the reports has three rows whatever the runs are. *)
move_one_too_far(s, k) == [s EXCEPT !.row = IF k = "Down" THEN @ + 1 ELSE @ - 1]
move_cursor(s, k) ==
    [s EXCEPT !.row = IF k = "Down" THEN (IF @ = 2 THEN 2 ELSE @ + 1)
                      ELSE IF @ = 0 THEN 0 ELSE @ - 1]

ReportsKey(s, k) ==
    CASE k = "Space" ->
             IF s.live = KeyNone \/ s.row >= s.live.runs THEN Ignore(s)
             ELSE Done([s EXCEPT !.picked = IF s.row \in @ THEN @ \ {s.row}
                                             ELSE IF Cardinality(@) < 2 THEN @ \cup {s.row} ELSE @],
                       "toggle_report_selection")
      [] k = "t" -> legal_control_action(s, "retry_run")
      [] k \in {"v", "C"} -> legal_control_action(s, "compare_live_offline")
      [] k \in {"Up", "Down"} -> Done(move_cursor(s, k), "move_report_cursor")
      [] OTHER -> Ignore(s)

ScreenKey(s, k) ==
    CASE s.screen = "Measures" -> MeasuresKey(s, k)
      [] s.screen = "Configuration" -> ConfigurationKey(s, k)
      [] s.screen = "RunControl" -> RunControlKey(s, k)
      [] s.screen = "Reports" -> ReportsKey(s, k)
      [] s.screen = "Landing" /\ k = "d" -> KeyGoto(s, "DevelopmentHandoff", "open_development_handoff")
      [] OTHER -> Ignore(s)

GlobalKey(s, k) ==
    CASE k = "q" -> Done(s, "quit")
      [] k = "?" -> Done(open_context_help(s), "open_help")
      [] k = "1" -> KeyGoto(s, "Landing", "open_landing")
      [] k = "2" -> KeyGoto(s, "Measures", "open_measurement_selection")
      [] k = "3" -> KeyGoto(s, "Configuration", "open_configuration")
      [] k = "s" -> KeyGoto(s, "RunControl", "open_run_control")
      [] k = "w" -> Done(open_wizard(s), "open_wizard")
      [] k = "4" -> KeyGoto(s, "Reports", "open_reports")
      [] k = "Tab" -> KeyGoto(s, NextScreen[s.screen], "next_screen")
      [] k = "BackTab" -> KeyGoto(s, PreviousScreen[s.screen], "previous_screen")
      [] OTHER -> ScreenKey(s, k)

InterruptKey(s) ==
    IF s.screen # "RunControl" THEN Done(s, "quit") ELSE formal_control_action(s, "cancel_run")

handle_key(s, k) ==
    CASE k = "Ctrl-C" -> InterruptKey(s)
      [] k # "Ctrl-C" /\ Covered(s) -> HelpKey(s, k)
      [] ~Covered(s) /\ k = "F1" -> Done(open_context_help(s), "open_help")
      [] ~Covered(s) /\ k \notin {"Ctrl-C", "F1"} ->
             CASE s.screen = "Wizard" -> WizardKey(s, k)
               [] s.screen = "DevelopmentHandoff" -> HandoffKey(s, k)
               [] EditsSetting(s, k) -> EditKey(s, k)
               [] s.screen = "Measures" /\ s.searching -> SearchKey(s, k)
               [] OTHER -> GlobalKey(s, k)

-----------------------------------------------------------------------------
(* The workspace and what happens to it.                                     *)

KeyInit ==
    key = [screen |-> "Landing", help |-> Closed, route |-> "Landing", editing |-> KeyNone,
           searching |-> FALSE, search |-> "empty", live |-> KeyNone, bundle |-> FALSE,
           launch |-> KeyNone, handoff |-> "Ready", row |-> 0, picked |-> {},
           tape |-> [listed |-> FALSE, chosen |-> FALSE, progress |-> TRUE]]

KeyPress(k) == key' = handle_key(key, k).to

(* apply_live_snapshot: a catalog replaces the draft of the wizard, a        *)
(* reviewed setup drops the preflight and its launch, a runner without       *)
(* configuration opens the wizard whatever the screen is.                    *)
apply_live_snapshot(s, p) ==
    LET fresh == [s EXCEPT !.route = IF p.catalog THEN "Landing" ELSE @,
                           !.bundle = @ /\ ~p.reviewed,
                           !.launch = IF p.reviewed THEN KeyNone ELSE @]
        shown == IF p.configured = FALSE THEN open_wizard(fresh) ELSE fresh
    IN  [shown EXCEPT !.live = p, !.row = 0, !.picked = {n \in @ : n < p.runs}]

KeySnapshot == \E p \in KeySnapshots : key' = apply_live_snapshot(key, p)

sync_recording_context ==
    \E t \in {[listed |-> FALSE, chosen |-> FALSE, progress |-> TRUE],
              [listed |-> TRUE, chosen |-> TRUE, progress |-> FALSE]} :
        key' = [key EXCEPT !.tape = t]

(* What the development worker reports (the phases that can be retried are   *)
(* reached by cancelling).                                                   *)
KeyHandoffReports ==
    /\ key.handoff \in ActivePhases
    /\ key' = [key EXCEPT !.handoff = "Installed"]

apply_resize ==
    LET rows == IF key.live = KeyNone THEN 0 ELSE key.live.runs
    IN  key' = [key EXCEPT !.row = IF rows = 0 THEN 0 ELSE IF @ < rows THEN @ ELSE rows - 1]

KeyNext ==
    \/ \E k \in KeyCodes : KeyPress(k)
    \/ KeySnapshot
    \/ sync_recording_context
    \/ KeyHandoffReports
    \/ apply_resize

keyVars == <<key>>
KeySpec == KeyInit /\ [][KeyNext]_keyVars

-----------------------------------------------------------------------------
KeyStates ==
    [screen : Screens, help : Screens \cup {Closed}, route : {"Landing", "Wizard"},
     editing : {KeyNone, "accepted", "rejected"}, searching : BOOLEAN,
     search : {"empty", "hit", "miss"}, live : KeySnapshots \cup {KeyNone},
     bundle : BOOLEAN, launch : {KeyNone, "Idle"} \cup ActiveRuns,
     handoff : HandoffPhases, row : 0..2, picked : SUBSET (0..2),
     tape : [listed : BOOLEAN, chosen : BOOLEAN, progress : BOOLEAN]]

(* The workspace is on one of its screens, with cursors inside their ranges. *)
KeyTypeOK == key \in KeyStates

(* Every key the context help lists does what the help says of it, once the  *)
(* overlay is closed again (contextual_help_actions and handle_key are two   *)
(* functions that name the keys independently).  While a setting is edited   *)
(* the letters f, V and A are listed but typed into the setting; the key     *)
(* that starts a run is a case of its own (KeyStartWorks).                   *)
KeyHelpTruthful ==
    LET s == close_context_help(key)
    IN  \A a \in contextual_help_actions(s) : \A k \in a[2] :
            \/ handle_key(s, k).did = a[1]
            \/ EditsSetting(s, k) /\ k \in {"f", "V", "A"}
            \/ a[1] = "start_run"

(* Where the help lists the key that starts a run, the key starts one        *)
(* (docs/ui-help.json, "Start the configured benchmark with the selected     *)
(* measures"; ui.rs, "a UI action is only emitted when its documented route  *)
(* transition exists").                                                      *)
KeyStartWorks ==
    LET s == close_context_help(key)
    IN  (\E a \in contextual_help_actions(s) : a[1] = "start_run") =>
            handle_key(s, "Enter").did = "start_run"

(* Every control action a key hands to the runtime is one the context help   *)
(* of that moment lists: nothing is sent that was not legal and shown, but   *)
(* for the four keys that send unconditionally (V and A on the configuration,*)
(* x and r on the development handoff).                                      *)
KeySentIsListed ==
    \A k \in KeyCodes :
        LET r == handle_key(key, k)
        IN  r.sent => \/ \E a \in contextual_help_actions(key) : a[1] = r.did /\ k \in a[2]
                      \/ r.did \in {"open_preflight", "apply_preflight", "cancel_development",
                                    "retry_development"}

(* While a text field has the focus, no character leaves the screen, quits   *)
(* or sends anything (handle_key looks at the fields before the global keys).*)
KeyTypingStaysTyping ==
    (\/ key.screen = "Configuration" /\ Editing(key)
     \/ key.screen = "Measures" /\ key.searching) =>
        \A k \in Printable :
            LET r == handle_key(key, k)
            IN  ~r.sent /\ r.did # "quit" /\ r.to.screen = key.screen

(* An open overlay belongs to the screen below it, so that its rows and its  *)
(* way back are those of this screen, also when a snapshot opens the wizard. *)
KeyOverlayRoute == Covered(key) => key.help = context_help_route(key)

(* The keys mean what the screen says: the help lists what they do, nothing  *)
(* is sent that is not listed, a text field keeps its characters and an      *)
(* overlay its screen, whatever snapshots come between two keys (ui.rs,      *)
(* contextual_help_actions against handle_key).                              *)
KeysAsShown == KeyHelpTruthful /\ KeySentIsListed /\ KeyTypingStaysTyping /\ KeyOverlayRoute
=============================================================================
