------------------------------- MODULE Wizard -------------------------------
(* The setup wizard: wizard.rs, its picker (wizard_catalog.rs), the          *)
(* development credential (development_auth.rs) and the adapter check        *)
(* (adapter_catalog.rs), as operators on records.                            *)
(*                                                                           *)
(* An operation that can fail returns the set of its results: {} is Err, and *)
(* {w} is Ok with the changed wizard (every caller works on a clone, so an   *)
(* error changes nothing).  A value of the draft is the set of identifiers   *)
(* its text names: {} is the empty text, and only the agents' value has more *)
(* than one.  A search query is the sequence of the identifiers still        *)
(* matched after each character of it.                                       *)
EXTENDS Naturals, Sequences, FiniteSets

CONSTANTS
    WizNone,          \* Option::None
    WizOrder,         \* every identifier, in the order catalogs list them
    WizLive,          \* the runner's catalogs by provider generation
    WizDevelopment,   \* WizardCatalog::development()
    WizOpenRouter,    \* the provider "openrouter"
    WizFixtureModels, \* openrouter's models in AdapterCatalog::development()
    WizAdapterMax,    \* MAX_ITEMS of adapter_catalog.rs
    WizOptionMax,     \* MAX_OPTIONS of wizard_catalog.rs
    WizJoinedMax      \* how many agents fit a value of 256 characters

WizId == {WizOrder[i] : i \in 1..Len(WizOrder)}
ASSUME WizAssumption == WizOrder \in Seq(WizId) /\ WizNone \notin WizId

-----------------------------------------------------------------------------
(* Steps and values.                                                         *)

WizAgent == 1
WizProvider == 2
WizModel == 3
WizConfiguration == 4
WizAuthentication == 5
WizRecording == 6
WizReplay == 7
WizReview == 8
WizStep == WizAgent..WizReview
WizCatalogSteps == {WizAgent, WizProvider, WizModel}
WizBoundedSteps == {WizConfiguration, WizAuthentication, WizRecording, WizReplay}

(* An authentication value, and the wire method it stands for. *)
WizAuthValue == {"none", "local_daemon", "environment", "fixture"}
WizAuthMethod(a) == IF a \in {"environment", "fixture"} THEN "credential_reference" ELSE a

(* The closed preset lists; the value of the one authentication preset is    *)
(* the digest of the environment reference.                                  *)
bounded_choices ==
    [s \in WizBoundedSteps |->
        CASE s = WizConfiguration -> <<"all defaults">>
          [] s = WizAuthentication -> <<"environment">>
          [] s = WizRecording -> <<"live", "local-mock">>
          [] s = WizReplay -> <<"strict offline replay">>]

WizChoices(s) == {bounded_choices[s][i] : i \in 1..Len(bounded_choices[s])}

(* The header of the wizard: the stages of the whole journey, of which the   *)
(* runner owns some; the others are the wizard's own steps.                  *)
JOURNEY_STAGES ==
    <<WizAgent, WizProvider, WizModel, WizConfiguration, WizAuthentication, "Workload", "Measures",
      WizRecording, WizReplay, WizReview, "Execution", "Results", "Comparison">>
runner_owned_reason(i) == i \in {6, 7, 11, 12, 13}
wizard_progress(step) ==
    LET current == CHOOSE i \in DOMAIN JOURNEY_STAGES : ~runner_owned_reason(i) /\ JOURNEY_STAGES[i] = step
    IN  [i \in DOMAIN JOURNEY_STAGES |->
            CASE runner_owned_reason(i) -> "Unavailable"
              [] ~runner_owned_reason(i) /\ i < current -> "Complete"
              [] i = current -> "Current"
              [] OTHER -> "Future"]

WizNoValues == [s \in WizStep \ {WizReview} |-> {}]

-----------------------------------------------------------------------------
(* The picker.                                                               *)

(* Every provider is offered for every agent, and a model offered by several *)
(* providers is one option, available when any of them has it available.     *)
wizard_catalog_from_snapshot(live) ==
    LET models == UNION {DOMAIN live.providers[p].models : p \in DOMAIN live.providers}
        offers(m) == {p \in DOMAIN live.providers : m \in DOMAIN live.providers[p].models}
    IN  IF Cardinality(models) > WizOptionMax
        THEN {}
        ELSE {[agents |-> DOMAIN live.agents,
               providers |-> DOMAIN live.providers,
               models |-> models,
               available |->
                   {a \in DOMAIN live.agents : live.agents[a]}
                     \cup {p \in DOMAIN live.providers : live.providers[p].available}
                     \cup {m \in models : \E p \in offers(m) :
                              live.providers[p].available /\ live.providers[p].models[m]},
               compatible |->
                   [o \in DOMAIN live.providers \cup models |->
                       IF o \in models THEN offers(o) ELSE DOMAIN live.agents]]}

NewPicker(catalog) ==
    [catalog |-> catalog, kind |-> WizAgent, cursor |-> 1, query |-> <<>>,
     agents |-> {}, provider |-> WizNone, model |-> WizNone]

set_kind(c, kind) == [c EXCEPT !.kind = kind, !.query = <<>>, !.cursor = 1]

reset_draft(c) == NewPicker(c.catalog)

WizMatches(c, o) == c.query = <<>> \/ o \in c.query[Len(c.query)]

(* The places of what is visible, in the order of the catalogs. *)
visible_options(c) ==
    LET shown(o) ==
            /\ WizMatches(c, o)
            /\ \/ c.kind = WizAgent /\ o \in c.catalog.agents
               \/ /\ c.kind = WizProvider /\ o \in c.catalog.providers
                  /\ c.agents # {} /\ c.agents \subseteq c.catalog.compatible[o]
               \/ /\ c.kind = WizModel /\ o \in c.catalog.models
                  /\ c.provider # WizNone /\ c.provider \in c.catalog.compatible[o]
    IN  {i \in DOMAIN WizOrder : shown(WizOrder[i])}

set_query(c, q) == [c EXCEPT !.query = q, !.cursor = 1]

(* A careless variant: a cursor that is not kept above the list's start. *)
move_cursor_unclamped(c, down) ==
    [c EXCEPT !.cursor = IF down THEN @ + 1 ELSE @ - 1]

(* The cursor counts from one; it stays within what is visible. *)
move_cursor(c, down) ==
    LET n == Cardinality(visible_options(c))
    IN  [c EXCEPT !.cursor = IF n = 0 THEN 1
                             ELSE IF down THEN (IF @ < n THEN @ + 1 ELSE n)
                             ELSE (IF @ > 1 THEN @ - 1 ELSE 1)]

(* The option under the cursor, when there is one and it is available. *)
WizFocused(c) ==
    LET visible == visible_options(c)
        focused == {i \in visible : Cardinality({j \in visible : j <= i}) = c.cursor}
    IN  {WizOrder[i] : i \in focused} \cap c.catalog.available

select_cursor(c) ==
    {IF c.kind = WizProvider THEN [c EXCEPT !.provider = o, !.model = WizNone]
     ELSE [c EXCEPT !.model = o] : o \in WizFocused(c)}

WithAgents(c, agents) ==
    [c EXCEPT !.agents = agents, !.provider = WizNone, !.model = WizNone]

toggle_agent_cursor(c) ==
    {WithAgents(c, IF o \in c.agents THEN c.agents \ {o} ELSE c.agents \cup {o}) :
        o \in IF c.kind = WizAgent THEN WizFocused(c) ELSE {}}

(* Every visible available agent: cleared when all are selected, selected    *)
(* otherwise; the hidden ones keep their selection.                          *)
toggle_visible_agents(c) ==
    LET visible == {WizOrder[i] : i \in visible_options(c)} \cap c.catalog.available
    IN  IF c.kind # WizAgent \/ visible = {} THEN {}
        ELSE {WithAgents(c, IF visible \subseteq c.agents THEN c.agents \ visible
                            ELSE c.agents \cup visible)}

(* What the picker has selected at a catalog step. *)
selected_ids(c, s) ==
    CASE s = WizAgent -> c.agents
      [] s = WizProvider -> {c.provider} \ {WizNone}
      [] s = WizModel -> {c.model} \ {WizNone}

-----------------------------------------------------------------------------
(* The adapter check of an openrouter draft.                                 *)

(* The adapter view of a provider catalog.  Both adapters take the same      *)
(* tuples; a provider without a model, or with too many, makes it invalid.   *)
from_provider_catalog(live) ==
    IF \A p \in DOMAIN live.providers :
          Cardinality(DOMAIN live.providers[p].models) \in 1..WizAdapterMax
    THEN {[models |-> [p \in DOMAIN live.providers |-> DOMAIN live.providers[p].models],
           usable |-> UNION {{<<p, m>> : m \in {m \in DOMAIN live.providers[p].models :
                                                     live.providers[p].available /\ live.providers[p].models[m]}} :
                                p \in DOMAIN live.providers},
           auth |-> UNION {live.providers[p].auth : p \in DOMAIN live.providers}]}
    ELSE {}

DevelopmentAdapters ==
    [models |-> [p \in {WizOpenRouter} |-> WizFixtureModels],
     usable |-> {WizOpenRouter} \X WizFixtureModels,
     auth |-> {"credential_reference", "none"}]

(* SelectionSession::validate. *)
AdapterAccepts(adapters, provider, model, auth) ==
    /\ provider \in DOMAIN adapters.models /\ model \in adapters.models[provider]
    /\ <<provider, model>> \in adapters.usable
    /\ auth \in adapters.auth

-----------------------------------------------------------------------------
(* The wizard.                                                               *)

NewAuth == [method |-> "fixture", enrolled |-> FALSE]

NewWizard(picker, mode, adapters) ==
    [step |-> WizAgent, values |-> WizNoValues, picker |-> picker,
     auth |-> NewAuth, mode |-> mode, adapters |-> adapters]

WizardDefault == NewWizard(WizNone, "Development", DevelopmentAdapters)
WizardStable == NewWizard(WizNone, "Stable", WizNone)
with_catalog(catalog) == NewWizard(NewPicker(catalog), "Development", DevelopmentAdapters)
stable_with_catalog_and_adapter(catalog, adapters) ==
    NewWizard(NewPicker(catalog), "Stable", adapters)

set_value(w, v) ==
    IF w.step = WizReview \/ Cardinality(v) > WizJoinedMax THEN {}
    ELSE {[w EXCEPT !.values[w.step] = v]}

current_value(w) == IF w.step = WizReview THEN {} ELSE w.values[w.step]

restore_values(w, values) == [w EXCEPT !.values = values]

(* The chosen identifier becomes the value; choosing a provider starts its   *)
(* credential flow anew.                                                     *)
select_catalog_cursor(w) ==
    IF w.picker = WizNone THEN {}
    ELSE UNION {set_value([w EXCEPT !.picker = c,
                             !.auth = IF c.kind = WizProvider THEN NewAuth ELSE @],
                          selected_ids(c, c.kind)) :
                   c \in IF w.picker.kind = WizAgent THEN toggle_agent_cursor(w.picker)
                         ELSE select_cursor(w.picker)}

WizToggleVisible(w) ==
    IF w.picker = WizNone THEN {}
    ELSE UNION {set_value([w EXCEPT !.picker = c], c.agents) :
                   c \in toggle_visible_agents(w.picker)}

(* The picker follows the step; at the other steps it keeps its kind. *)
select_kind_for_step(w) ==
    IF w.picker # WizNone /\ w.step \in WizCatalogSteps
    THEN [w EXCEPT !.picker = set_kind(@, w.step)] ELSE w

ensure_bounded_default(w) ==
    IF w.step \in WizBoundedSteps /\ current_value(w) = {}
    THEN [w EXCEPT !.values[w.step] = {bounded_choices[w.step][1]}] ELSE w

(* A careless variant: an empty value is passed. *)
advance_unchecked(w) ==
    IF w.step = WizReview THEN {}
    ELSE {ensure_bounded_default(select_kind_for_step([w EXCEPT !.step = @ + 1]))}

advance(w) ==
    IF w.step = WizReview \/ current_value(w) = {} THEN {}
    ELSE {ensure_bounded_default(select_kind_for_step([w EXCEPT !.step = @ + 1]))}

(* A careless variant: the picker does not follow. *)
back_keeping_kind(w) == IF w.step = WizAgent THEN {} ELSE {[w EXCEPT !.step = @ - 1]}

back(w) == IF w.step = WizAgent THEN {} ELSE {select_kind_for_step([w EXCEPT !.step = @ - 1])}

(* The next preset, around the list, from the one that is set or the first. *)
move_bounded_choice(w) ==
    IF w.step \notin WizBoundedSteps THEN {}
    ELSE LET n == Len(bounded_choices[w.step])
             set == {i \in 1..n : {bounded_choices[w.step][i]} = current_value(w)}
             from == IF set = {} THEN 1 ELSE CHOOSE i \in set : TRUE
         IN  {[w EXCEPT !.values[w.step] = {bounded_choices[w.step][(from % n) + 1]}]}

(* The development credential: its method, and whether its digests exist     *)
(* (Enrolled, Tested and Rotated; not Unconfigured and Reset).               *)
DevelopmentAuth(w, event) ==
    LET auth(enrolled, value) == {[w EXCEPT !.auth.enrolled = enrolled,
                                            !.values[WizAuthentication] = value]}
    IN  CASE event = "Enroll" -> IF w.auth.method = "fixture" THEN auth(TRUE, {"fixture"}) ELSE {}
          [] event = "Test" -> IF w.auth.enrolled THEN {w} ELSE {}
          [] event = "Rotate" -> IF w.auth.enrolled THEN auth(TRUE, {"fixture"}) ELSE {}
          [] event \in {"Reset", "Restart"} -> auth(FALSE, {})
          [] event = "SelectFixture" -> {[w EXCEPT !.auth.method = "fixture",
                                                   !.values[WizAuthentication] = {}]}
          [] event = "SelectNone" -> {[w EXCEPT !.auth = [method |-> "none", enrolled |-> FALSE],
                                                !.values[WizAuthentication] = {"none"}]}

cancel(w) ==
    [w EXCEPT !.step = WizAgent, !.values = WizNoValues, !.auth.enrolled = FALSE,
              !.picker = IF @ = WizNone THEN WizNone ELSE reset_draft(@)]

validate_bounded_values(w) ==
    \A s \in WizBoundedSteps :
        IF s = WizAuthentication THEN w.values[s] # {}
        ELSE \E v \in WizChoices(s) : w.values[s] = {v}

(* A stable wizard takes openrouter only with a credential, and with the     *)
(* tuple its adapter catalog accepts.                                        *)
select_openrouter_adapter(w) ==
    \E m \in w.values[WizModel], a \in w.values[WizAuthentication] :
        /\ w.mode = "Stable" => a # "none"
        /\ w.adapters # WizNone
        /\ AdapterAccepts(w.adapters, WizOpenRouter, m, WizAuthMethod(a))

complete(w) ==
    IF /\ validate_bounded_values(w)
       /\ w.values[WizProvider] = {WizOpenRouter} => select_openrouter_adapter(w)
       /\ w.step = WizReview
    THEN {w} ELSE {}
=============================================================================
