------------------------------ MODULE FormalUi ------------------------------
(* The interpreter of the documented state graph (formal_state.rs), and the  *)
(* gate of every destination (shell.rs).  The workspace runs a fresh         *)
(* interpreter before some of its keys and asks whether the documented       *)
(* transition exists.                                                        *)
EXTENDS Naturals, FiniteSets

CONSTANT
    UiNone     \* Option::None

-----------------------------------------------------------------------------
(* Destinations and what they need of the runner.                            *)

Capabilities == {"analysis", "cancel", "events", "history", "launch", "planning"}
UiRoutes == {"landing", "configuration", "measurement_selection", "run_control", "recent_runs",
             "reports", "help"}
LocalRoutes == {"landing", "configuration", "help"}
RouteNeeds(route) ==
    CASE route = "measurement_selection" -> {"planning"}
      [] route = "run_control" -> {"launch", "cancel", "events"}
      [] route = "recent_runs" -> {"history"}
      [] route = "reports" -> {"analysis", "history"}
      [] OTHER -> {}

(* Without a negotiation only the local destinations are open. *)
availability(route, caps) ==
    route \in LocalRoutes \/ (caps # UiNone /\ RouteNeeds(route) \subseteq caps)

(* The name says otherwise; it is the same gate. *)
available_or_unnegotiated(route, caps) == availability(route, caps)

-----------------------------------------------------------------------------
(* The document: what an event does on a route (docs/ui-state-model.json).   *)

DocumentRoutes == UiRoutes \cup {"wizard"}
UiHelpEvents == {"open_context_help", "move_context_help", "close_context_help"}
WizardSteps == {"wizard_next", "wizard_back"}
WizardCatalog == {"wizard_catalog_query", "wizard_catalog_move"}
WizardChoice == {"wizard_catalog_select", "wizard_catalog_toggle_visible_agents"}
WizardAuth == {"wizard_development_enroll", "wizard_development_test", "wizard_development_rotate",
               "wizard_development_reset", "wizard_development_select_fixture",
               "wizard_development_select_none", "wizard_development_restart"}
WizardEvents == WizardSteps \cup WizardCatalog \cup WizardChoice \cup WizardAuth
                \cup {"wizard_cycle_pane", "wizard_set_value", "wizard_bounded_choice_move"}
HandoffEvents == {"materialize_development", "cancel_development", "retry_development"}
RunEvents == {"start_run", "cancel_run", "reconnect"}
DraftEvents == {"edit_configuration", "backspace_configuration"}

To(event, from, to) == [event |-> event, from |-> from, to |-> to]
Same(from, events) == {To(e, from, from) : e \in events}

UiTransitions ==
    (UNION {Same(r, UiHelpEvents \cup {"resize"}) : r \in DocumentRoutes})
    \cup {To("open_landing", r, "landing") : r \in UiRoutes \ {"landing", "help"}}
    \cup {To("open_help", r, "help") : r \in UiRoutes \ {"help"}}
    \cup {To("go_back", "help", "landing"),
          To("open_configuration", "landing", "configuration"),
          To("open_measurement_selection", "landing", "measurement_selection"),
          To("open_measurement_selection", "configuration", "measurement_selection"),
          To("open_run_control", "measurement_selection", "run_control"),
          To("open_recent_runs", "run_control", "recent_runs"),
          To("open_reports", "recent_runs", "reports"),
          To("open_wizard", "landing", "wizard"),
          To("startup_auto_open_wizard", "landing", "wizard"),
          To("cancel_wizard", "wizard", "landing"),
          To("complete_wizard", "wizard", "landing")}
    \cup Same("landing", HandoffEvents \cup {"open_development_handoff"})
    \cup Same("measurement_selection", {"toggle_all_measures"})
    \cup Same("configuration", DraftEvents \cup {"commit_configuration_edit",
                               "save_configuration", "open_preflight", "apply_preflight"})
    \cup Same("run_control", RunEvents)
    \cup Same("wizard", WizardEvents)

(* The effects the document lists for an event, by the part that changes; a  *)
(* document that lists others is refused.                                    *)
DocumentEffects(event) ==
    CASE event = "resize" -> {"dimensions", "layout", "focus_preserved"}
      [] event = "save_configuration" -> {"persisted", "focus_reset"}
      [] event = "open_preflight" -> {"preflight", "focus_reset"}
      [] event = "apply_preflight" -> {"materialized", "focus_reset"}
      [] event = "open_development_handoff" -> {"handoff_opened", "focus_reset"}
      [] event \in HandoffEvents -> {"handoff_changed", "focus_reset"}
      [] event \in DraftEvents -> {"configuration_draft"}
      [] event = "commit_configuration_edit" -> {"configuration_draft", "focus_reset"}
      [] event \in WizardSteps -> {"wizard_step", "focus_reset"}
      [] event = "wizard_cycle_pane" -> {"wizard_pane"}
      [] event = "wizard_set_value" -> {"wizard_draft", "focus_reset"}
      [] event = "wizard_bounded_choice_move" -> {"wizard_bounded", "wizard_draft", "focus_reset"}
      [] event \in WizardCatalog -> {"wizard_catalog", "focus_reset"}
      [] event \in WizardChoice -> {"wizard_catalog", "wizard_draft", "focus_reset"}
      [] event \in WizardAuth -> {"wizard_auth", "focus_reset"}
      [] event = "go_back" -> {"route_restored", "focus_reset"}
      [] event = "toggle_all_measures" -> {"selection", "explicit_all"}
      [] event = "open_help" -> {"return_route", "route", "focus_reset"}
      [] event \in UiHelpEvents -> {"context_help", "focus_kept", "draft_kept"}
      [] event = "cancel_wizard" -> {"route", "focus_reset", "wizard_cleared"}
      [] event \in RunEvents -> {"run_state"}
      [] OTHER -> {"route", "focus_reset"}

(* An element of every route that can have the focus and one that cannot;    *)
(* the global ones belong to every route.                                    *)
UiElements ==
    {[route |-> r, focusable |-> f] : r \in UiRoutes \cup {"global"}, f \in BOOLEAN}

(* Every transition joins routes, and every route is reached from landing in *)
(* at most as many steps as there are routes.                                *)
UiStep(reached) == reached \cup {t.to : t \in {u \in UiTransitions : u.from \in reached}}
UiReached[n \in Nat] == IF n = 0 THEN {"landing"} ELSE UiStep(UiReached[n - 1])
validate_document ==
    /\ \A t \in UiTransitions : {t.from, t.to} \subseteq DocumentRoutes
    /\ UiReached[Cardinality(DocumentRoutes)] = DocumentRoutes

-----------------------------------------------------------------------------
(* The interpreter: the next states in a set, which is empty where the event *)
(* is refused.                                                               *)

UiFresh == [route |-> "landing", return_route |-> "landing", focus |-> UiNone,
            explicit_all |-> FALSE]
UiNew == IF validate_document THEN {UiFresh} ELSE {}

UiFocus(s, element) ==
    IF element.route \in {s.route, "global"} /\ element.focusable
    THEN {[s EXCEPT !.focus = element]} ELSE {}

UiSize(s, safe) == IF safe THEN {s} ELSE {}

(* What the interpreter expects the document to say of an event; it refuses  *)
(* one with other effects, as it does those of the help.                     *)
ExpectedEffects(event) ==
    IF event \in UiHelpEvents THEN {"route", "focus_reset"} ELSE DocumentEffects(event)

(* The events it knows: a size and a focus come by other ways. *)
UiEvents ==
    {"open_landing", "open_configuration", "open_measurement_selection", "toggle_all_measures",
     "open_run_control", "open_recent_runs", "open_reports", "open_help", "go_back",
     "open_development_handoff", "save_configuration", "open_preflight", "apply_preflight"}
    \cup HandoffEvents \cup RunEvents \cup UiHelpEvents

UiFound(s, event) ==
    {t \in UiTransitions : /\ t.from = s.route /\ t.event = event /\ event \in UiEvents
                           /\ ExpectedEffects(event) = DocumentEffects(event)}

(* A careless variant: the focus stays where it was. *)
UiEventKeepingFocus(s, event, everything, caps) ==
    {[s EXCEPT !.return_route = IF t.to = "help" THEN s.route ELSE @,
               !.route = IF event = "go_back" /\ s.route = "help" THEN s.return_route ELSE t.to,
               !.explicit_all = IF event = "toggle_all_measures" THEN everything ELSE @] :
        t \in {u \in UiFound(s, event) : available_or_unnegotiated(u.to, caps)}}

(* Going back from the help leads to the route it was opened on, whatever    *)
(* the document says; only the document's target is asked for.               *)
UiEvent(s, event, everything, caps) ==
    {[s EXCEPT !.return_route = IF t.to = "help" THEN s.route ELSE @,
               !.route = IF event = "go_back" /\ s.route = "help" THEN s.return_route ELSE t.to,
               !.explicit_all = IF event = "toggle_all_measures" THEN everything ELSE @,
               !.focus = UiNone] :
        t \in {u \in UiFound(s, event) : available_or_unnegotiated(u.to, caps)}}

(* A sequence of two events and a third, without capabilities, as the        *)
(* workspace asks before a key of the run control.                           *)
UiThen(states, event) == UNION {UiEvent(s, event, FALSE, UiNone) : s \in states}
run_control_formal(event) ==
    UiThen(UiThen(UiThen(UiNew, "open_measurement_selection"), "open_run_control"), event) # {}
=============================================================================
