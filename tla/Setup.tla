-------------------------------- MODULE Setup --------------------------------
(* The setup journey of a connected frontend: the wizard's keys (ui.rs), the  *)
(* checked wizard transitions (wizard.rs), what a snapshot of the runner does *)
(* to the draft, the review and the preflight (ui.rs), and the runtime's arm  *)
(* that applies a completed draft to the runner (runtime.rs,                  *)
(* provider_setup.rs).  The workspace holds the wizard twice: `formal` is     *)
(* what events change, `shown` is what the keys' guards and the other screens *)
(* read.                                                                      *)
EXTENDS Wizard

CONSTANTS
    SetVersions,   \* what the negotiated version offers: "old" (before 1.4),
                   \* "agents" (no provider catalog), "full" (1.7 and later)
    SetDurable,    \* the drafts a materialized bundle on disk may hold, or WizNone
    SetQueryMax,   \* bound: length of a search query
    SetMatches,    \* bound: the sets of options a query may match
    SetTexts       \* bound: the texts typed where there is no catalog, by step

VARIABLES
    set,        \* the workspace
    setWorld    \* the runner, the projection of it, and the frontend process

setVars == <<set, setWorld>>

SetGenerations == DOMAIN WizLive
SetProjection == [agents : BOOLEAN, providers : SetGenerations \cup {WizNone},
                  configured : BOOLEAN \cup {WizNone}]
SetValueOf(s) ==
    IF s \in WizCatalogSteps THEN WizId ELSE IF s = WizAuthentication THEN WizAuthValue
    ELSE {"all defaults", "live", "local-mock", "strict offline replay"}
SetValues ==
    {values \in [WizStep \ {WizReview} -> SUBSET UNION {SetValueOf(s) : s \in WizStep \ {WizReview}}] :
        \A s \in WizStep \ {WizReview} : values[s] \subseteq SetValueOf(s)}
SetSelection == [agents : SUBSET WizId, provider : WizId, model : WizId, auth : WizAuthValue]
SetDraft == [selection : SetSelection, generation : SetGenerations \cup {1}]
SetPicker == [catalog : {WizDevelopment} \cup
                  UNION {wizard_catalog_from_snapshot(WizLive[g]) : g \in SetGenerations},
              kind : WizCatalogSteps, cursor : 1..Len(WizOrder), query : Seq(SUBSET WizId),
              agents : SUBSET WizId, provider : WizId \cup {WizNone}, model : WizId \cup {WizNone}]
SetAuth == [method : {"fixture", "none"}, enrolled : BOOLEAN]
(* A bundle on disk was materialized from a draft; texts and searches are of *)
(* what can be chosen, of which there is something; None is no picker, and   *)
(* no generation.                                                            *)
ASSUME SetAssumption ==
    /\ \A d \in SetDurable : d = WizNone \/ d \in SetValues
    /\ WizOrder # <<>> /\ SetMatches \subseteq SUBSET WizId
    /\ \A s \in WizCatalogSteps : SetTexts[s] \subseteq SUBSET WizId
    /\ WizNone \notin SetPicker /\ WizNone \notin SetGenerations
SetWizardOK(w) ==
    /\ w.step \in WizStep
    /\ w.values \in SetValues
    /\ w.picker = WizNone \/ w.picker \in SetPicker
    /\ w.auth \in SetAuth
    /\ w.mode \in {"Stable", "Development"}

-----------------------------------------------------------------------------
(* Drafts.                                                                   *)

wizard_configuration_selection(values) ==
    {[agents |-> values[WizAgent], provider |-> p, model |-> m, auth |-> a] :
        p \in IF values[WizAgent] = {} THEN {} ELSE values[WizProvider],
        m \in values[WizModel], a \in values[WizAuthentication]}

(* ProviderDefaultDraft::into_selection and AgentScope::resolve: the tuple is *)
(* one the runner's catalogs offer.                                           *)
into_selection(s, live) ==
    /\ s.provider \in DOMAIN live.providers
    /\ live.providers[s.provider].available
    /\ s.model \in DOMAIN live.providers[s.provider].models
    /\ live.providers[s.provider].models[s.model]
    /\ WizAuthMethod(s.auth) \in live.providers[s.provider].auth
    /\ s.agents \subseteq {a \in DOMAIN live.agents : live.agents[a]}

(* A careless variant: the selection is not resolved against the catalogs. *)
from_wizard_values_unchecked(values, g) ==
    {[selection |-> s, generation |-> g] : s \in wizard_configuration_selection(values)}

from_wizard_values(values, g) ==
    {[selection |-> s, generation |-> g] :
        s \in {s \in wizard_configuration_selection(values) : into_selection(s, WizLive[g])}}

from_selection_for_development(s) == [selection |-> s, generation |-> 1]

-----------------------------------------------------------------------------
(* The workspace.                                                            *)

FreshFormal(w) == [route |-> "Landing", wizard |-> w]

(* WorkspaceState::default(): what is shown is stable, the checked wizard is *)
(* a development one.                                                        *)
WorkspaceDefault ==
    [formal |-> FreshFormal(WizardDefault), shown |-> WizardStable, screen |-> "Landing",
     bundle |-> WizNone, reviewed |-> WizNone, seen |-> FALSE, fallback |-> FALSE,
     gate |-> FALSE]

(* Writes the shown wizard only. *)
restore_materialized_bundle(ws, values) ==
    [ws EXCEPT !.shown = restore_values(@, values), !.bundle = values]

ShowFormal(ws, formal) == [ws EXCEPT !.formal = formal, !.shown = formal.wizard]

open_wizard(ws) ==
    IF ws.formal.route = "Landing"
    THEN [ws EXCEPT !.gate = FALSE, !.formal.route = "Wizard", !.screen = "Wizard"]
    ELSE [ws EXCEPT !.gate = FALSE]

ensure_development_catalog(ws) ==
    IF ws.shown.picker = WizNone
    THEN [ShowFormal(ws, FreshFormal(with_catalog(WizDevelopment))) EXCEPT !.fallback = TRUE]
    ELSE ws

(* (The launch goes with it; none is ever started: FormalUi.) *)
clear_preflight(ws) == [ws EXCEPT !.bundle = WizNone]

set_reviewed_provider_setup(ws, draft) == clear_preflight([ws EXCEPT !.reviewed = draft])

(* The live wizard of a snapshot: stable when the adapter view of the        *)
(* catalog is valid, a development one over the live catalog otherwise.      *)
LiveWizard(live, catalog) ==
    IF from_provider_catalog(live) # {}
    THEN stable_with_catalog_and_adapter(catalog, CHOOSE a \in from_provider_catalog(live) : TRUE)
    ELSE with_catalog(catalog)

(* First the catalog replaces the wizard while it has none of its own, the   *)
(* prepared bundle's values being restored into it ... *)
SnapshotCatalog(ws, p) ==
    LET catalogs == IF p.agents /\ p.providers # WizNone
                    THEN wizard_catalog_from_snapshot(WizLive[p.providers]) ELSE {}
        replaced == ShowFormal(ws, FreshFormal(LiveWizard(WizLive[p.providers],
                                                          CHOOSE c \in catalogs : TRUE)))
    IN  IF catalogs = {} \/ (ws.shown.picker # WizNone /\ ~ws.fallback) THEN ws
        ELSE [IF ws.bundle = WizNone THEN replaced
              ELSE restore_materialized_bundle(replaced, ws.bundle) EXCEPT !.fallback = FALSE]

(* ... then the shown values become the review when they are valid for the   *)
(* catalogs (which drops the preflight and the launch) ... *)
SnapshotReview(ws, p) ==
    IF p.agents /\ p.providers # WizNone
    THEN LET drafts == from_wizard_values(ws.shown.values, p.providers)
         IN  IF drafts = {} THEN [ws EXCEPT !.reviewed = WizNone]
             ELSE set_reviewed_provider_setup(ws, CHOOSE d \in drafts : TRUE)
    ELSE ws

(* ... and a runner without a configuration opens the wizard. *)
apply_live_snapshot(ws, p) ==
    LET reviewed == SnapshotReview(SnapshotCatalog(
                        [ws EXCEPT !.seen = p.agents \/ p.providers # WizNone], p), p)
    IN  IF p.configured = FALSE THEN open_wizard(ensure_development_catalog(reviewed))
        ELSE reviewed

(* build_preflight_bundle: the values of the bundle of the shown draft. *)
build_preflight_bundle(ws) ==
    {[ws.shown.values EXCEPT ![WizConfiguration] = {"all defaults"},
                             ![WizRecording] = IF @ # {} THEN @
                                               ELSE IF ws.bundle # WizNone THEN ws.bundle[WizRecording]
                                               ELSE {"local-mock"},
                             ![WizReplay] = {"strict offline replay"}] :
        s \in {s \in wizard_configuration_selection(ws.shown.values) :
                  IF ws.reviewed # WizNone THEN ws.reviewed.selection = s ELSE ~ws.seen}}

use_development_context(ws) == IF ws.seen THEN ws ELSE ensure_development_catalog(ws)

(* The live development route. *)
use_live_provider_context(ws) ==
    [ShowFormal(ws, [ws.formal EXCEPT !.wizard =
                        restore_values(@, [ws.shown.values EXCEPT ![WizRecording] = {"live"}])])
     EXCEPT !.screen = "Other"]

-----------------------------------------------------------------------------
(* The checked transitions: an event of the wizard's route, on a clone.      *)

FormalApply(ws, results) ==
    {[ws.formal EXCEPT !.wizard = w] : w \in IF ws.formal.route = "Wizard" THEN results ELSE {}}

Leave(formals) == {[f EXCEPT !.route = "Landing"] : f \in formals}

(* A careless variant: the shown wizard is not replaced. *)
KeepShown(ws, formals) ==
    IF formals = {} THEN ws ELSE [ws EXCEPT !.formal = CHOOSE f \in formals : TRUE]

(* `if apply(..).is_ok() { self.wizard = .. }` and `let _ = apply(..); ..` *)
ShowIfOk(ws, formals) ==
    IF formals = {} THEN ws ELSE ShowFormal(ws, CHOOSE f \in formals : TRUE)
ShowAlways(ws, formals) ==
    ShowFormal(ws, IF formals = {} THEN ws.formal ELSE CHOOSE f \in formals : TRUE)

wizard_back_or_cancel(ws) ==
    IF FormalApply(ws, back(ws.formal.wizard)) # {}
    THEN ShowIfOk(ws, FormalApply(ws, back(ws.formal.wizard)))
    ELSE LET cancelled == Leave(FormalApply(ws, {cancel(ws.formal.wizard)}))
         IN  IF cancelled = {} THEN ws
             ELSE [ShowIfOk(ws, cancelled) EXCEPT !.screen = "Landing"]

-----------------------------------------------------------------------------
(* The runtime applies a completed draft at once; every error ends it.       *)

(* The draft of the completed values against the catalogs of the projection: *)
(* both, or neither (the development fixture).                               *)
CompletionDrafts(values, p) ==
    IF p.agents /\ p.providers # WizNone THEN from_wizard_values(values, p.providers)
    ELSE IF p.agents \/ p.providers # WizNone THEN {}
    ELSE {from_selection_for_development(s) : s \in wizard_configuration_selection(values)}

CurrentGeneration(p) == IF p.providers = WizNone THEN 1 ELSE p.providers

(* AtomicProviderSetup::apply and apply_configuration. *)
GateAdmits(ws, d, p) == ~ws.gate /\ d.generation = CurrentGeneration(p)

WizardCompletion(ws) ==
    LET p == setWorld.projection
        drafts == {d \in CompletionDrafts(ws.shown.values, p) : GateAdmits(ws, d, p)}
    IN  \/ /\ drafts # {} /\ setWorld.version = "full"
           /\ setWorld' = [setWorld EXCEPT !.projection.configured = TRUE, !.configured = TRUE]
           /\ set' = apply_live_snapshot([ws EXCEPT !.gate = TRUE], [p EXCEPT !.configured = TRUE])
        \/ /\ drafts = {} \/ setWorld.version # "full"
           /\ set' = ws /\ setWorld' = [setWorld EXCEPT !.ended = "rejected"]
        \/ \* the runner refuses, or its answer is lost
           /\ drafts # {}
           /\ set' = ws /\ setWorld' = [setWorld EXCEPT !.ended = "failed"]

-----------------------------------------------------------------------------
(* Keys of the wizard screen.                                                *)

SetAlive == setWorld.ended = "no"
AtWizard == SetAlive /\ set.screen = "Wizard"
AtPicker == set.shown.picker # WizNone /\ set.shown.step \in WizCatalogSteps
Formal == set.formal.wizard

KeyAuth ==
    /\ AtWizard /\ set.shown.step = WizAuthentication
    /\ \E e \in {"Enroll", "Test", "Rotate", "Reset", "SelectFixture", "SelectNone", "Restart"} :
          set' = ShowAlways(set, FormalApply(set, DevelopmentAuth(Formal, e)))
    /\ UNCHANGED setWorld

(* Enter: complete at the review, take the focused option and go on, or go   *)
(* on.                                                                       *)
KeyEnter ==
    /\ AtWizard
    /\ LET agentSelected == /\ set.shown.picker # WizNone
                            /\ set.shown.picker.kind = WizAgent /\ set.shown.picker.agents # {}
           selects == ~agentSelected /\ AtPicker
           first == FormalApply(set, IF selects THEN select_catalog_cursor(Formal) ELSE advance(Formal))
           chosen == ShowIfOk(set, first)
           after == IF selects /\ first # {}
                    THEN ShowIfOk(chosen, FormalApply(chosen, advance(chosen.formal.wizard)))
                    ELSE chosen
           completed == Leave(FormalApply(set, complete(Formal)))
       IN  IF set.shown.step = WizReview
           THEN IF completed = {} THEN UNCHANGED setVars
                ELSE WizardCompletion([ShowIfOk(set, completed) EXCEPT !.screen = "Landing"])
           ELSE set' = after /\ UNCHANGED setWorld

(* The focused pane is left to the help of the wizard (Help). *)
KeyTab == AtWizard /\ set' = ShowIfOk(set, FormalApply(set, {Formal})) /\ UNCHANGED setWorld

KeyMove ==
    /\ AtWizard
    /\ \/ /\ AtPicker
          /\ \E down \in BOOLEAN :
                set' = ShowAlways(set, FormalApply(set,
                          IF Formal.picker = WizNone THEN {}
                          ELSE {[Formal EXCEPT !.picker = move_cursor(@, down)]}))
       \/ /\ ~AtPicker /\ set.shown.step \in WizBoundedSteps
          /\ set' = ShowAlways(set, FormalApply(set, move_bounded_choice(Formal)))
    /\ UNCHANGED setWorld

KeyToggle ==
    /\ AtWizard /\ AtPicker /\ set.shown.step = WizAgent
    /\ \/ set' = ShowIfOk(set, FormalApply(set, select_catalog_cursor(Formal)))
       \/ set' = ShowIfOk(set, FormalApply(set, WizToggleVisible(Formal)))
    /\ UNCHANGED setWorld

(* Esc and Left; q cancels from any step. *)
KeyBack == AtWizard /\ set' = wizard_back_or_cancel(set) /\ UNCHANGED setWorld

KeyCancel ==
    /\ AtWizard
    /\ LET cancelled == Leave(FormalApply(set, {cancel(Formal)}))
       IN  set' = IF cancelled = {} THEN set
                  ELSE [ShowIfOk(set, cancelled) EXCEPT !.screen = "Landing"]
    /\ UNCHANGED setWorld

SetQuery(q) ==
    ShowIfOk(set, FormalApply(set, IF Formal.picker = WizNone THEN {}
                                   ELSE {[Formal EXCEPT !.picker = set_query(@, q)]}))

(* A character narrows the picker's query, or changes the text of a step     *)
(* without a catalog; Backspace undoes one, or goes back.                    *)
KeyChar ==
    /\ AtWizard /\ set.shown.step \notin WizBoundedSteps
    /\ \/ /\ AtPicker /\ Len(set.shown.picker.query) < SetQueryMax
          /\ \E m \in SetMatches :
                set' = SetQuery(Append(set.shown.picker.query,
                                       {o \in m : WizMatches(set.shown.picker, o)}))
       \/ /\ ~AtPicker
          /\ \E v \in SetTexts[set.shown.step] \ {{}} :
                set' = ShowIfOk(set, FormalApply(set, set_value(Formal, v)))
    /\ UNCHANGED setWorld

KeyBackspace ==
    /\ AtWizard
    /\ \/ /\ \/ set.shown.step \in WizBoundedSteps
             \/ AtPicker /\ set.shown.picker.query = <<>>
             \/ ~AtPicker /\ current_value(set.shown) = {}
          /\ set' = wizard_back_or_cancel(set)
       \/ /\ AtPicker /\ set.shown.picker.query # <<>>
          /\ set' = SetQuery(SubSeq(set.shown.picker.query, 1, Len(set.shown.picker.query) - 1))
       \/ /\ ~AtPicker /\ set.shown.step \notin WizBoundedSteps /\ current_value(set.shown) # {}
          /\ \E v \in SetTexts[set.shown.step] :
                set' = ShowIfOk(set, FormalApply(set, set_value(Formal, v)))
    /\ UNCHANGED setWorld

-----------------------------------------------------------------------------
(* The other screens, the runner and the refreshes.                          *)

KeyOpenWizard ==
    SetAlive /\ set.screen # "Wizard" /\ set' = open_wizard(set) /\ UNCHANGED setWorld

KeyLanding ==
    SetAlive /\ set.screen = "Other" /\ set' = [set EXCEPT !.screen = "Landing"] /\ UNCHANGED setWorld

PreparePreflight ==
    /\ SetAlive /\ set.screen # "Wizard"
    /\ \E b \in build_preflight_bundle(set) : set' = [set EXCEPT !.bundle = b]
    /\ UNCHANGED setWorld

Projected(w, providers) ==
    [agents |-> w.version # "old",
     providers |-> IF w.version = "full" THEN providers ELSE WizNone,
     configured |-> IF w.version = "full" THEN w.configured ELSE WizNone]

(* The refresh key of the other screens (a poll needs a launch). *)
Refresh ==
    /\ SetAlive /\ set.screen # "Wizard" /\ setWorld.version = "full"
    /\ LET p == Projected(setWorld, setWorld.generation)
       IN  /\ setWorld' = [setWorld EXCEPT !.projection = p]
           /\ set' = apply_live_snapshot(set, p)

RefreshFails ==
    /\ SetAlive /\ set.screen # "Wizard"
    /\ setWorld' = [setWorld EXCEPT !.ended = "failed"] /\ UNCHANGED set

(* The runner publishes a newer provider catalog. *)
RunnerRefreshes ==
    /\ SetAlive /\ setWorld.generation + 1 \in SetGenerations
    /\ setWorld' = [setWorld EXCEPT !.generation = @ + 1] /\ UNCHANGED set

-----------------------------------------------------------------------------
(* The first snapshot is applied to the workspace the durable bundle was     *)
(* restored into; a development frontend then takes the fixtures, and its    *)
(* live route the live execution mode.                                       *)
SetInit ==
    \E version \in SetVersions, durable \in SetDurable, configured \in BOOLEAN,
       g \in SetGenerations, route \in {"production", "development", "live"} :
        LET p == Projected([version |-> version, configured |-> configured], g)
            restored == IF durable = WizNone THEN WorkspaceDefault
                        ELSE restore_materialized_bundle(WorkspaceDefault, durable)
            first == apply_live_snapshot(restored, p)
            context == IF route = "production" THEN first ELSE use_development_context(first)
        IN  /\ setWorld = [version |-> version, configured |-> configured, generation |-> g,
                           ended |-> "no", projection |-> p]
            /\ route = "live" => version = "full"
            /\ set = IF route = "live" THEN use_live_provider_context(context) ELSE context

SetNext ==
    \/ KeyAuth \/ KeyEnter \/ KeyTab \/ KeyMove \/ KeyToggle \/ KeyBack \/ KeyCancel
    \/ KeyChar \/ KeyBackspace \/ KeyOpenWizard \/ KeyLanding \/ PreparePreflight
    \/ Refresh \/ RefreshFails \/ RunnerRefreshes

SetSpec == SetInit /\ [][SetNext]_setVars

-----------------------------------------------------------------------------
(* Types of the workspace, both wizards, the review and the projection. *)
SetTypeOK ==
    /\ SetWizardOK(set.formal.wizard) /\ SetWizardOK(set.shown)
    /\ set.formal.route \in {"Landing", "Wizard"}
    /\ set.screen \in {"Landing", "Wizard", "Other"}
    /\ set.bundle = WizNone \/ set.bundle \in SetValues
    /\ set.reviewed = WizNone \/ set.reviewed \in SetDraft
    /\ {set.seen, set.fallback, set.gate} \subseteq BOOLEAN
    /\ setWorld.projection \in SetProjection
    /\ setWorld.ended \in {"no", "rejected", "failed"}

(* The keys' guards read the shown wizard and the events change the formal   *)
(* one: whatever refreshes, restores and rejected events come between, both  *)
(* are at the same step with the same picker and credential, and what is     *)
(* shown is the draft that the next event changes (ui.rs, handle_key).  The  *)
(* one exception is a bundle just restored, which is shown over a checked    *)
(* wizard that has no value yet (SetRestoredKept).                           *)
SetSameStep ==
    LET w == set.formal.wizard
    IN  /\ set.shown.step = w.step /\ set.shown.picker = w.picker /\ set.shown.auth = w.auth
        /\ set.shown.values = w.values \/ (w.step = WizAgent /\ w.values = WizNoValues)

(* The header calls a stage complete only if the draft has its value,        *)
(* however the operator goes back and clears what an earlier step had set    *)
(* (wizard_stepper.rs, "truthful progress projection"; wizard.rs, advance    *)
(* and the credential keys): a review has every value.                       *)
SetNoHoles ==
    LET progress == wizard_progress(set.shown.step)
    IN  \A i \in DOMAIN JOURNEY_STAGES :
           progress[i] = "Complete" => set.formal.wizard.values[JOURNEY_STAGES[i]] # {}

(* What the draft holds for the steps already passed is what the picker has  *)
(* selected, and each choice is compatible with the ones before it, also     *)
(* after the operator went back and changed the agents or the provider       *)
(* (wizard_catalog.rs, visible_options; ui.rs, Enter).                       *)
SetSelectionAgrees ==
    LET w == set.formal.wizard
    IN  w.picker # WizNone =>
          /\ \A s \in WizCatalogSteps : s < w.step => w.values[s] = selected_ids(w.picker, s)
          /\ w.step > WizProvider => w.picker.agents \subseteq w.picker.catalog.compatible[w.picker.provider]
          /\ w.step > WizModel => w.picker.provider \in w.picker.catalog.compatible[w.picker.model]

(* The draft is whole: shown and formal wizard hold the same one unless a    *)
(* bundle was restored and nothing chosen since, no step is passed without a *)
(* value, and values, picker and catalog agree, whatever keys, refreshes and *)
(* restored bundles come in between (ui.rs, handle_key and                   *)
(* apply_live_snapshot).                                                     *)
SetDraftWhole == SetSameStep /\ SetNoHoles /\ SetSelectionAgrees

(* The runner is given the draft that is shown, and only as a tuple of the   *)
(* catalogs the frontend last saw: an available provider and model of it, a  *)
(* method it supports, available agents (provider_setup.rs,                  *)
(* from_wizard_values; the gate closes when a draft is applied).             *)
SetAppliedSupported ==
    [][set'.gate /\ ~set.gate =>
          \E s \in wizard_configuration_selection(set'.shown.values) :
             into_selection(s, WizLive[setWorld.projection.providers])]_setVars

(* A key that only moves the focus loses nothing of the draft shown: a       *)
(* prepared bundle is restored "so a frontend restart cannot silently lose   *)
(* the selected provider, model, execution mode, or replay policy"           *)
(* (wizard.rs, Wizard::restore_values; ui.rs, restore_materialized_bundle).  *)
SetRestoredKept == [][KeyTab => set'.shown.values = set.shown.values]_setVars
=============================================================================
