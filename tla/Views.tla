------------------------------- MODULE Views -------------------------------
(* The views and gates that have no input or output of their own: the shell  *)
(* over the runner's events (app.rs, shell.rs), the landing screen           *)
(* (landing.rs), the decision at the start (startup.rs), the interpreter of  *)
(* the documented screens and the offline fence (formal_state.rs), the       *)
(* revisions of a handoff (revision.rs) and the list of the help (actions.rs,*)
(* help.rs).  They share nothing: a behaviour is one of a single view, whose *)
(* kind its first state fixes.                                               *)
EXTENDS FormalUi, Sequences, FiniteSetsExt

CONSTANTS
    ViewCaps,        \* capability sets a runner negotiates
    ViewEvents,      \* kinds of a runner's events
    ViewLogMax,      \* revisions of the runner's log
    ViewSizes,       \* terminal sizes <<columns, lines>>
    ViewRecords,     \* activity records [run, label, at, cursor] of a snapshot
    ViewRecordMax,   \* records of a snapshot that are explored
    ViewRecent,      \* MAX_RECENT_ACTIVITY
    ViewAskMax,      \* refreshes of the landing screen that are explored
    ViewClock,       \* the clock's readings, in refresh intervals
    ViewIdentities,  \* identities of a campaign or of a revision
    ViewEdits,       \* edits of a ledger that are explored
    ViewQueries      \* sets of the actions a query matches

ASSUME ViewAssumption ==
    /\ UiNone \notin Nat /\ UiNone \notin {"MutationPending", "CatalogPending", "Complete"}
    /\ ViewRecent \in Nat
    /\ \A r \in ViewRecords : r.run \in Nat /\ r.at \in Nat /\ r.cursor \in Nat

VARIABLE view
viewVars == <<view>>

In(kind) == view.kind = kind

-----------------------------------------------------------------------------
(* The shell over the runner's events.                                       *)

MAX_TERMINAL_DIMENSION == 4096
MAX_TERMINAL_CELLS == 262144
frame_dimensions_are_safe(size) ==
    /\ size[1] \in 1..MAX_TERMINAL_DIMENSION
    /\ size[2] \in 1..MAX_TERMINAL_DIMENSION
    /\ size[1] * size[2] <= MAX_TERMINAL_CELLS

from_dimensions(size) ==
    IF size[1] < 40 \/ size[2] < 8 THEN "compact"
    ELSE IF size[1] < 100 \/ size[2] < 20 THEN "standard" ELSE "wide"

ShellInit ==
    \E size \in ViewSizes :
       /\ frame_dimensions_are_safe(size)
       /\ view = [kind |-> "shell", layout |-> from_dimensions(size), connected |-> FALSE,
                  quit |-> FALSE, revision |-> UiNone, event |-> UiNone, route |-> "landing",
                  connection |-> "Disconnected", caps |-> UiNone, log |-> <<>>]

(* The runner goes on, watched or not. *)
RunnerEvent ==
    /\ In("shell") /\ Len(view.log) < ViewLogMax
    /\ \E e \in ViewEvents : view' = [view EXCEPT !.log = Append(@, e)]

(* An event of the log may arrive twice, late or before its turn; only the   *)
(* next one is applied.                                                      *)
ShellControl ==
    /\ In("shell") /\ view.connected
    /\ \E r \in DOMAIN view.log :
          /\ r = (IF view.revision = UiNone THEN 1 ELSE view.revision + 1)
          /\ view' = [view EXCEPT !.revision = r, !.event = view.log[r]]

(* A careless variant: the event of before the connection is still shown. *)
ShellConnectedKeepingEvent ==
    /\ In("shell")
    /\ \E baseline \in 0..Len(view.log) :
          /\ view.revision # UiNone => baseline >= view.revision
          /\ view' = [view EXCEPT !.revision = baseline, !.connected = TRUE,
                                  !.connection = "Connected"]

ShellConnected ==
    /\ In("shell")
    /\ \E baseline \in 0..Len(view.log) :
          /\ view.revision # UiNone => baseline >= view.revision
          /\ view' = [view EXCEPT !.event = IF view.revision # UiNone /\ baseline > view.revision
                                            THEN UiNone ELSE @,
                                  !.revision = baseline, !.connected = TRUE,
                                  !.connection = "Connected"]

ShellDisconnected ==
    /\ In("shell")
    /\ \E c \in {"Disconnected", "Reconnecting"} :
          view' = [view EXCEPT !.connected = FALSE, !.connection = c]

ShellNavigate ==
    /\ In("shell")
    /\ \E r \in UiRoutes :
          /\ availability(r, view.caps)
          /\ view' = [view EXCEPT !.route = r]

(* A careless variant: the screen stays whatever the runner can do now. *)
ShellCapabilitiesKeepingRoute ==
    /\ In("shell")
    /\ \E caps \in ViewCaps : view' = [view EXCEPT !.caps = caps]

ShellCapabilities ==
    /\ In("shell")
    /\ \E caps \in ViewCaps :
          view' = [view EXCEPT !.caps = caps,
                               !.route = IF availability(@, caps) THEN @ ELSE "landing"]

ShellResize ==
    /\ In("shell")
    /\ \E size \in ViewSizes :
          /\ frame_dimensions_are_safe(size)
          /\ view' = [view EXCEPT !.layout = from_dimensions(size)]

ShellQuit == In("shell") /\ view' = [view EXCEPT !.quit = TRUE]

-----------------------------------------------------------------------------
(* The landing screen: what it shows of a snapshot, and the gate of its      *)
(* refreshes.                                                                *)

LandingStatus == [connection : {"Unavailable", "Disconnected", "Negotiating", "Connected"},
                  trust : {"Unknown", "Untrusted", "Trusted"},
                  freshness : {"Unknown", "Stale", "Fresh"},
                  run : {"None", "Active", "ResumableDraft"}]
LandingWell == [connection |-> "Connected", trust |-> "Trusted", freshness |-> "Fresh", run |-> "None"]
LandingInit == view = [kind |-> "landing", status |-> LandingWell, activity |-> <<>>]

(* A snapshot: the state of the connection, and the runs the runner lists,   *)
(* record by record.  The one has no effect on the other, so that the runs   *)
(* are explored in a single state of the connection.                         *)
LandingSnapshot ==
    /\ In("landing")
    /\ \E s \in LandingStatus : view' = [view EXCEPT !.status = s, !.activity = <<>>]
LandingRecord ==
    /\ In("landing") /\ Len(view.activity) < ViewRecordMax /\ view.status = LandingWell
    /\ \E r \in ViewRecords : view' = [view EXCEPT !.activity = Append(@, r)]

choose_primary(v) ==
    IF v.connection = "Unavailable" \/ v.trust # "Trusted" THEN "InstallOrConnect"
    ELSE IF v.connection = "Disconnected" \/ v.freshness # "Fresh" THEN "Reconnect"
    ELSE [None |-> "Configure", Active |-> "Monitor", ResumableDraft |-> "ContinueReview"][v.run]

(* A careless variant: runs of the same time stay in the order of the input. *)
NewerByTime(a, b) == a.at > b.at

(* Newest first: by time, then by cursor, then by the name of the run. *)
Newer(a, b) ==
    \/ a.at > b.at
    \/ a.at = b.at /\ a.cursor > b.cursor
    \/ a.at = b.at /\ a.cursor = b.cursor /\ a.run > b.run

(* The sort, which keeps the order of the input between those that are alike. *)
Before(activity, i, j) ==
    \/ Newer(activity[i], activity[j])
    \/ ~Newer(activity[j], activity[i]) /\ i < j
Place(activity, i) == 1 + Cardinality({j \in DOMAIN activity : Before(activity, j, i)})
newest_first(activity) ==
    [k \in DOMAIN activity |-> activity[CHOOSE i \in DOMAIN activity : Place(activity, i) = k]]

(* The projection in a set, which is empty where the snapshot is refused. *)
project(activity, v) ==
    LET distinct == \A i, j \in DOMAIN activity : activity[i].run = activity[j].run => i = j
        valid    == \A i \in DOMAIN activity :
                       activity[i].run > 0 /\ activity[i].cursor > 0 /\ activity[i].label # "control"
        ordered  == \A i, j \in DOMAIN activity :
                       activity[i].at > activity[j].at => activity[i].cursor >= activity[j].cursor
        newest   == newest_first(activity)
    IN  IF distinct /\ valid /\ ordered
        THEN {[recent |-> [k \in 1..Min({ViewRecent, Len(activity)}) |-> newest[k]],
               primary |-> choose_primary(v)]}
        ELSE {}

GateInit == view = [kind |-> "gate", last_refresh |-> UiNone, last_response |-> UiNone,
                    asked |-> 0, underway |-> {}, shown |-> 0, received |-> {}]

(* A refresh is asked for when the interval has passed; the clock may stand  *)
(* still or go back.                                                         *)
GateRefresh ==
    /\ In("gate") /\ view.asked < ViewAskMax
    /\ \E now \in ViewClock :
          /\ view.last_refresh # UiNone => now >= view.last_refresh + 1
          /\ view' = [view EXCEPT !.last_refresh = now, !.asked = @ + 1,
                                  !.underway = @ \cup {view.asked + 1}]

(* A careless variant: every answer is shown. *)
accept_any_response(id) == TRUE

accept_response(id) == view.last_response # UiNone => id > view.last_response

(* The answers arrive in any order, and may arrive again. *)
GateResponse ==
    /\ In("gate")
    /\ \E id \in view.underway :
          view' = IF accept_response(id)
                  THEN [view EXCEPT !.last_response = id, !.shown = id, !.received = @ \cup {id}]
                  ELSE [view EXCEPT !.received = @ \cup {id}]

-----------------------------------------------------------------------------
(* The decision at the start.                                                *)

StartupFacts == [present : BOOLEAN, complete : BOOLEAN, available : BOOLEAN, malformed : BOOLEAN,
                 stale : BOOLEAN, authorized : BOOLEAN]

classify_startup(f) ==
    CASE f.malformed -> "Malformed"
      [] ~f.malformed /\ ~f.available -> "Unavailable"
      [] ~f.malformed /\ f.available /\ ~f.present -> "Unconfigured"
      [] ~f.malformed /\ f.available /\ f.present /\ ~f.complete -> "Incomplete"
      [] ~f.malformed /\ f.available /\ f.present /\ f.complete /\ f.stale -> "Stale"
      [] OTHER -> IF f.authorized THEN "Configured" ELSE "Unauthorized"

StartupRoute(readiness) ==
    CASE readiness = "Configured" -> "Landing"
      [] readiness \in {"Unconfigured", "Incomplete"} -> "Configuration"
      [] readiness \in {"Unavailable", "Stale"} -> "Retry"
      [] readiness \in {"Malformed", "Unauthorized"} -> "Error"

(* A careless variant: everything that is not ready opens the wizard. *)
auto_opens_unless_configured(readiness) == readiness # "Configured"

auto_opens_wizard(readiness) == readiness \in {"Unconfigured", "Incomplete"}

StartupNew == [kind |-> "startup", wizard_opened |-> FALSE, opens |-> 0, facts |-> UiNone,
               auto_open |-> FALSE]
StartupInit == view = StartupNew

(* Whether the wizard is opened, with the facts that were read. *)
StartupObserve ==
    /\ In("startup")
    /\ \E f \in StartupFacts :
          LET opens == auto_opens_wizard(classify_startup(f)) /\ ~view.wizard_opened
          IN  view' = [view EXCEPT !.wizard_opened = @ \/ opens, !.auto_open = opens, !.facts = f,
                                   !.opens = IF opens THEN @ + 1 ELSE @]

(* A new process has a new controller. *)
StartupAgain == In("startup") /\ view' = StartupNew

-----------------------------------------------------------------------------
(* The interpreter of the documented screens.                                *)

ScreensInit == \E s \in UiNew : view = [kind |-> "screens", ui |-> s]
ScreensFocus ==
    /\ In("screens")
    /\ \E e \in UiElements : \E s \in UiFocus(view.ui, e) : view' = [view EXCEPT !.ui = s]
ScreensResize ==
    /\ In("screens")
    /\ \E size \in ViewSizes : \E s \in UiSize(view.ui, frame_dimensions_are_safe(size)) :
          view' = [view EXCEPT !.ui = s]
ScreensEvent ==
    /\ In("screens")
    /\ \E t \in UiTransitions, all \in BOOLEAN, caps \in ViewCaps \cup {UiNone} :
          \E s \in UiEvent(view.ui, t.event, all, caps) : view' = [view EXCEPT !.ui = s]

-----------------------------------------------------------------------------
(* The fence of the offline default: which request reaches the backend.  The *)
(* backend applies what it was sent, and its answers arrive when they do.    *)

FenceInit == view = [kind |-> "fence", identity |-> UiNone, phase |-> UiNone, sent |-> {},
                     applied |-> {}, listed |-> {}, answers |-> {}]

(* A request that is not ready is refused without input or output. *)
FenceRequest ==
    /\ In("fence")
    /\ \E ready \in BOOLEAN, id \in ViewIdentities :
          view' = CASE ready /\ view.identity # id ->
                        [view EXCEPT !.identity = id, !.phase = "MutationPending",
                                     !.sent = @ \cup {<<"mutation", id>>}]
                    [] ready /\ view.identity = id /\ view.phase = "CatalogPending" ->
                        [view EXCEPT !.sent = @ \cup {<<"catalog", id>>}]
                    [] OTHER -> view

(* The backend: it may not get a request at all. *)
FenceBackend ==
    /\ In("fence")
    /\ \E m \in view.sent :
          view' = [view EXCEPT !.sent = @ \ {m}, !.answers = @ \cup {m},
                               !.applied = IF m[1] = "mutation" THEN @ \cup {m[2]} ELSE @,
                               !.listed = IF m[1] = "catalog" THEN @ \cup {m[2]} ELSE @]
FenceLost == In("fence") /\ \E m \in view.sent : view' = [view EXCEPT !.sent = @ \ {m}]

(* A careless variant: an acknowledgement is taken for the present request. *)
fence_takes_any(phase, id) == view.phase = phase

fence_is(phase, id) == view.identity = id /\ view.phase = phase

(* The acknowledgement is followed by the read of the catalog. *)
FenceAcknowledged ==
    /\ In("fence")
    /\ \E id \in ViewIdentities :
          /\ <<"mutation", id>> \in view.answers
          /\ view' = IF fence_is("MutationPending", id)
                     THEN [view EXCEPT !.answers = @ \ {<<"mutation", id>>}, !.phase = "CatalogPending",
                                       !.sent = @ \cup {<<"catalog", id>>}]
                     ELSE [view EXCEPT !.answers = @ \ {<<"mutation", id>>}]

(* A read that failed leaves the phase, so that the next request reads again. *)
FenceCatalog ==
    /\ In("fence")
    /\ \E id \in ViewIdentities, failed \in BOOLEAN :
          /\ <<"catalog", id>> \in view.answers
          /\ view' = [view EXCEPT !.answers = @ \ {<<"catalog", id>>},
                                  !.phase = IF fence_is("CatalogPending", id) /\ ~failed
                                            THEN "Complete" ELSE @]

-----------------------------------------------------------------------------
(* The revisions of a handoff: one writer, numbered edits.                   *)

LedgerInit == view = [kind |-> "ledger", records |-> <<>>, provisional |-> UiNone,
                      committed |-> UiNone]

set_status(records, id, status) ==
    IF id = UiNone THEN records ELSE [records EXCEPT ![id].status = status]

(* An incomplete identity is refused. *)
begin_edit ==
    /\ In("ledger") /\ Len(view.records) < ViewEdits
    /\ \E i \in ViewIdentities :
          view' = [view EXCEPT
                      !.records = Append(set_status(@, view.provisional, "Superseded"),
                                         [identity |-> i, status |-> "Provisional"]),
                      !.provisional = Len(view.records) + 1]

(* A careless variant: the commit of before stays one. *)
commit_beside_the_last ==
    /\ In("ledger") /\ view.provisional # UiNone
    /\ view' = [view EXCEPT !.records = set_status(@, view.provisional, "Committed"),
                            !.provisional = UiNone, !.committed = view.provisional]

(* Only the provisional revision; any other number is refused. *)
commit ==
    /\ In("ledger") /\ view.provisional # UiNone
    /\ view' = [view EXCEPT
                   !.records = set_status(set_status(@, view.committed, "Superseded"),
                                          view.provisional, "Committed"),
                   !.provisional = UiNone, !.committed = view.provisional]

(* The operator gives the edit up, or the process is started again. *)
cancel_edit ==
    /\ In("ledger") /\ view.provisional # UiNone
    /\ view' = [view EXCEPT !.records = set_status(@, view.provisional, "Superseded"),
                            !.provisional = UiNone]
restart == In("ledger") /\ IF view.provisional = UiNone THEN UNCHANGED view ELSE cancel_edit

admit(id, expected) ==
    /\ id \in DOMAIN view.records
    /\ view.records[id].status = "Committed" /\ view.records[id].identity = expected

(* The FIRST revision of an identity decides, so that one committed again is *)
(* still called superseded.                                                  *)
classify_identity(identity) ==
    LET found == {r \in DOMAIN view.records : view.records[r].identity = identity}
    IN  IF found # {} THEN view.records[Min(found)].status
        ELSE IF view.committed # UiNone THEN "Stale" ELSE "Unavailable"

-----------------------------------------------------------------------------
(* The actions and the list of the help.                                     *)

Act(ids, context) == [i \in DOMAIN ids |-> [id |-> ids[i], context |-> context]]
GlobalList ==
    Act(<<"Quit", "GoBack", "OpenLanding", "OpenConfiguration", "OpenMeasurementSelection",
          "OpenRunControl", "OpenRecentRuns", "OpenReports", "OpenHelp", "Reconnect">>, "global")
MeasuresList ==
    Act(<<"ToggleAllMeasures", "ToggleMeasure", "ToggleGroup", "FocusBenchmarkSearch",
          "SelectBenchmarkPool", "ToggleBenchmark">>, "measurement_selection")
RunList == Act(<<"StartRun", "CancelRun", "AdmitFanout", "CancelFanout">>, "run_control")
RecordingList ==
    Act(<<"EstimateRecording", "PlanRecording", "ConfirmRecordingCapture", "ProgressRecording",
          "CancelRecording", "ReconcileRecording", "ActivateOfflineDefault", "SealRecording",
          "ReopenRecording", "RemoveRecordingCassette">>, "run_control")
ReplayList == Act(<<"ReplaySelected", "SelectOfflineCassette">>, "run_control")
ConfigurationList ==
    Act(<<"WizardDevelopmentEnroll", "WizardDevelopmentTest", "WizardDevelopmentRotate",
          "WizardDevelopmentReset", "WizardDevelopmentSelectFixture", "WizardDevelopmentSelectNone",
          "WizardDevelopmentRestart", "OpenPreflight", "ApplyPreflight">>, "configuration")
HandoffList ==
    Act(<<"OpenDevelopmentHandoff", "MaterializeDevelopment", "CancelDevelopment",
          "RetryDevelopment">>, "landing")

(* All of them, in the order of the help. *)
UiActions ==
    GlobalList \o Act(<<"FocusSearch">>, "help") \o MeasuresList \o RunList
    \o Act(<<"RefreshRuns">>, "recent_runs") \o Act(<<"CompareRuns">>, "reports")
    \o Act(<<"RefreshProviderCatalog">>, "configuration") \o RecordingList
    \o Act(<<"RetryRun", "CompareLiveOffline">>, "reports")
    \o ReplayList \o ConfigurationList \o HandoffList

ActionTarget == [OpenLanding |-> "landing", OpenConfiguration |-> "configuration",
                 OpenMeasurementSelection |-> "measurement_selection",
                 OpenRunControl |-> "run_control", OpenRecentRuns |-> "recent_runs",
                 OpenReports |-> "reports", OpenHelp |-> "help"]

WithoutRunner ==
    {"Reconnect", "Quit", "GoBack", "WizardDevelopmentEnroll", "WizardDevelopmentTest",
     "WizardDevelopmentRotate", "WizardDevelopmentReset", "WizardDevelopmentSelectFixture",
     "WizardDevelopmentSelectNone", "WizardDevelopmentRestart", "OpenPreflight", "ApplyPreflight",
     "OpenDevelopmentHandoff", "MaterializeDevelopment", "CancelDevelopment", "RetryDevelopment",
     "FocusBenchmarkSearch", "SelectBenchmarkPool", "ToggleGroup", "ToggleBenchmark"}

ActionNeeds(id) ==
    CASE id \in {"StartRun", "AdmitFanout"} -> {"launch"}
      [] id \in {"CancelRun", "CancelFanout"} -> {"cancel", "events"}
      [] id = "RefreshRuns" -> {"history"}
      [] id = "CompareRuns" -> {"history", "analysis"}
      [] id \in {"RefreshProviderCatalog", "EstimateRecording", "PlanRecording",
                 "ConfirmRecordingCapture", "ProgressRecording", "CancelRecording",
                 "ReconcileRecording", "ActivateOfflineDefault", "SealRecording",
                 "ReopenRecording", "RemoveRecordingCassette", "ToggleAllMeasures",
                 "ToggleMeasure", "ToggleGroup", "FocusBenchmarkSearch", "SelectBenchmarkPool",
                 "ToggleBenchmark"} -> {"planning"}
      [] OTHER -> {}

action_backend_status(id, caps) ==
    IF caps = UiNone THEN id \in WithoutRunner ELSE ActionNeeds(id) \subseteq caps

action_enabled(id, caps) ==
    /\ id \in DOMAIN ActionTarget => availability(ActionTarget[id], caps)
    /\ action_backend_status(id, caps)

(* The places of the actions of a screen; a search looks through those of    *)
(* every screen, as if no runner were connected.                             *)
for_context(route) == {i \in DOMAIN UiActions : UiActions[i].context \in {"global", route}}
search_actions(query) == {i \in DOMAIN UiActions : UiActions[i].id \in query}

HelpInit == view = [kind |-> "help", query |-> UiNone, selected |-> 0, route |-> "landing",
                    caps |-> UiNone]

(* The first of them are shown. *)
MAX_VISIBLE_ACTIONS == 32
help_entries(v) ==
    LET all == IF v.query = UiNone THEN for_context(v.route) ELSE search_actions(v.query)
    IN  {i \in all : Cardinality({j \in all : j < i}) < MAX_VISIBLE_ACTIONS}

HelpQuery ==
    /\ In("help")
    /\ \E q \in ViewQueries \cup {UiNone} : view' = [view EXCEPT !.query = q, !.selected = 0]

HelpMove ==
    /\ In("help")
    /\ \E down \in BOOLEAN :
          LET count == Cardinality(help_entries(view))
          IN  view' = [view EXCEPT !.selected =
                          IF count = 0 THEN 0
                          ELSE (@ + (IF down THEN 1 ELSE count - 1)) % count]

(* The screen below the help and the runner change; the selection stays. *)
HelpContext ==
    /\ In("help")
    /\ \E r \in UiRoutes, caps \in ViewCaps \cup {UiNone} :
          view' = [view EXCEPT !.route = r, !.caps = caps]

(* A careless variant: the selection as it was made. *)
selected_as_moved(count) == view.selected

selected(count) == IF count = 0 THEN 0 ELSE Min({view.selected, count - 1})

-----------------------------------------------------------------------------
ViewInit ==
    \/ ShellInit \/ LandingInit \/ GateInit \/ StartupInit \/ ScreensInit
    \/ FenceInit \/ LedgerInit \/ HelpInit

ViewNext ==
    \/ RunnerEvent \/ ShellControl \/ ShellConnected \/ ShellDisconnected \/ ShellNavigate
    \/ ShellCapabilities \/ ShellResize \/ ShellQuit
    \/ LandingSnapshot \/ LandingRecord \/ GateRefresh \/ GateResponse
    \/ StartupObserve \/ StartupAgain
    \/ ScreensFocus \/ ScreensResize \/ ScreensEvent
    \/ FenceRequest \/ FenceBackend \/ FenceLost \/ FenceAcknowledged \/ FenceCatalog
    \/ begin_edit \/ commit \/ cancel_edit \/ restart
    \/ HelpQuery \/ HelpMove \/ HelpContext

ViewSpec == ViewInit /\ [][ViewNext]_viewVars

-----------------------------------------------------------------------------
(* The values of every view. *)
ViewTypeOK ==
    /\ In("shell") => view.revision \in (0..Len(view.log)) \cup {UiNone} /\ view.route \in UiRoutes
    /\ In("gate") => view.underway \subseteq 1..view.asked
    /\ In("screens") => view.ui.route \in UiRoutes
    /\ In("ledger") => {view.provisional, view.committed} \subseteq DOMAIN view.records \cup {UiNone}

(* AppState::apply and set_capabilities: the event that is shown is the one  *)
(* of the revision the shell has got to, across duplicates, gaps and a       *)
(* connection that finds the runner further on; and the screen is one the    *)
(* negotiated runner supports.                                               *)
ShellFollowsRunner ==
    In("shell") =>
       /\ view.event # UiNone => view.revision \in DOMAIN view.log /\ view.event = view.log[view.revision]
       /\ view.connected <=> view.connection = "Connected"
       /\ availability(view.route, view.caps)

Reversed(activity) == [i \in DOMAIN activity |-> activity[Len(activity) + 1 - i]]

(* project: the runs shown are the newest of the snapshot, each once, and    *)
(* the order in which the runner listed them makes no difference.            *)
LandingByTime ==
    In("landing") =>
       \A p \in project(view.activity, view.status) :
          /\ \A i, j \in DOMAIN p.recent :
                i < j => p.recent[i].run # p.recent[j].run /\ p.recent[i].at >= p.recent[j].at
          /\ \A r \in Range(view.activity) \ Range(p.recent) :
                /\ Len(p.recent) = ViewRecent
                /\ \A i \in DOMAIN p.recent : p.recent[i].at >= r.at
          /\ project(Reversed(view.activity), view.status) = {p}
          /\ p.primary \in {"Configure", "Monitor", "ContinueReview"} =>
                view.status.trust = "Trusted" /\ view.status.freshness = "Fresh"

(* ActivityRefreshGate: what is shown is the answer to the latest of the     *)
(* refreshes that were answered, in whatever order they were.                *)
GateShowsNewest == In("gate") => view.shown = Max(view.received \cup {0})

(* StartupController: the wizard opens by itself at most once in a process,  *)
(* and only on a readable answer that says the configuration is absent or    *)
(* not complete.                                                             *)
StartupOpensOnce ==
    In("startup") =>
       /\ view.opens <= 1
       /\ view.auto_open =>
             /\ view.facts.available /\ ~view.facts.malformed
             /\ ~(view.facts.present /\ view.facts.complete)
             /\ StartupRoute(classify_startup(view.facts)) = "Configuration"

(* FormalUiState: what has the focus can have it and is on the screen. *)
FocusOnScreen ==
    In("screens") /\ view.ui.focus # UiNone =>
       view.ui.focus.focusable /\ view.ui.focus.route \in {view.ui.route, "global"}

(* OfflineDefaultFormalState: a campaign is called activated only if the     *)
(* backend applied its activation, and complete only if its own catalog was  *)
(* read; a late answer for another campaign changes nothing.                 *)
FenceHonest ==
    In("fence") =>
       /\ view.phase \in {"CatalogPending", "Complete"} => view.identity \in view.applied
       /\ view.phase = "Complete" => view.identity \in view.listed

(* RevisionLedger: one revision is admitted, the last that was committed,    *)
(* under its own identity; an edit that was given up never is.               *)
LedgerAdmitsLast ==
    In("ledger") =>
       /\ \A id \in DOMAIN view.records, e \in ViewIdentities :
             /\ admit(id, e) => id = view.committed /\ classify_identity(e) # "Unavailable"
             /\ classify_identity(e) = "Committed" => admit(view.committed, e)
       /\ \A id \in DOMAIN view.records :
             view.records[id].status = "Provisional" <=> id = view.provisional
       /\ view.committed # UiNone => view.records[view.committed].status = "Committed"

(* HelpModel and ActionRegistry: the selection points at an entry of the     *)
(* list whatever list it was moved in; no action of a screen is cut off; and *)
(* beside a runner the list offers exactly the screens the shell goes to,    *)
(* each of which has something to do.                                        *)
HelpPoints ==
    In("help") =>
       LET entries == help_entries(view)
           count   == Cardinality(entries)
           offered == {UiActions[i] : i \in {k \in entries : action_enabled(UiActions[k].id, view.caps)}}
       IN  /\ entries # {} => selected(count) < count
           /\ view.query = UiNone => entries = for_context(view.route)
           /\ view.query = UiNone /\ view.caps # UiNone =>
                 /\ {ActionTarget[id] : id \in DOMAIN ActionTarget \cap {a.id : a \in offered}}
                       = {r \in UiRoutes : availability(r, view.caps)}
                 /\ availability(view.route, view.caps) => \E a \in offered : a.context = view.route

ViewsSound ==
    /\ ShellFollowsRunner /\ LandingByTime /\ GateShowsNewest /\ StartupOpensOnce /\ FocusOnScreen
    /\ FenceHonest /\ LedgerAdmitsLast /\ HelpPoints
=============================================================================
