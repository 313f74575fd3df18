---------------------------- MODULE LaunchState ----------------------------
(***************************************************************************)
(* LaunchState (src/launch_statistics.rs): what the run-control screen     *)
(* knows about the run it launched.  Every method is an operator from a    *)
(* launch record (and an event) to the next launch record; a method that   *)
(* refuses returns what it leaves behind, which for apply_event is not     *)
(* always the record it was given.                                         *)
(*                                                                         *)
(* Identifiers are opaque.  Throughput, latency and the text of the reason *)
(* are left out: nothing is decided on them.                               *)
(***************************************************************************)
EXTENDS Integers

CONSTANTS
    Run, Attempt,   \* RunId, AttemptId
    None            \* an Option that is empty

PublicRunStates == {"Planned", "Prepared", "Running", "Collecting",
                    "Completed", "Failed", "Cancelled", "NeedsReconciliation"}
RunStates == {"Idle", "Launching", "Running", "Cancelling",
              "Completed", "Failed", "Cancelled", "Unavailable"}
Provenances == {"DevelopmentMock", "Replayed", "Live", "Unavailable"}

(* A careless variant: the runner's state is shown as it comes. *)
StateAsReported == [s \in PublicRunStates |-> s]

state_for_public ==
    [Planned |-> "Launching", Prepared |-> "Launching",
     Running |-> "Running", Collecting |-> "Running",
     Completed |-> "Completed", Failed |-> "Failed", Cancelled |-> "Cancelled",
     NeedsReconciliation |-> "Unavailable"]

Terminal == {"Completed", "Failed", "Cancelled", "Unavailable"}
is_terminal(l) == l.state \in Terminal

LiveRunEvent ==
    [revision : Nat, run : Run, attempt : Attempt, generation : Nat,
     state : PublicRunStates, completed : Nat, total : Nat, failed : Nat,
     provenance : Provenances, reason : BOOLEAN]

LiveStatistics ==
    [run : Run, attempt : Attempt, generation : Nat, state : PublicRunStates,
     completed : Nat, total : Nat, failed : Nat, provenance : Provenances, reason : BOOLEAN]

ASSUME LaunchStateAssumption ==
    None \notin Run \cup Attempt \cup Nat \cup LiveStatistics

LaunchStates ==
    [run : Run \cup {None}, attempt : Attempt \cup {None}, generation : Nat,
     connection : {"Connected", "Reconnecting", "Disconnected"},
     state : RunStates, last : Nat \cup {None}, statistics : LiveStatistics \cup {None}]

(* LaunchState::new: bound to the benchmark catalog generation that was reviewed. *)
NewLaunch(generation) ==
    [run |-> None, attempt |-> None, generation |-> generation, connection |-> "Connected",
     state |-> "Idle", last |-> None, statistics |-> None]

-----------------------------------------------------------------------------
(* Requests of the operator and of the runtime *)

CanBeginLaunch(l) == l.connection = "Connected" /\ l.state = "Idle"
begin_launch(l) == IF CanBeginLaunch(l) THEN [l EXCEPT !.state = "Launching"] ELSE l

(* A careless variant: a cancel is shown as done when it is asked for. *)
RequestCancelDone(l) ==
    IF l.state \in {"Launching", "Running"} THEN [l EXCEPT !.state = "Cancelled"] ELSE l

request_cancel(l) ==
    IF l.state \in {"Launching", "Running"} THEN [l EXCEPT !.state = "Cancelling"] ELSE l

(* A careless variant: a late failure of a control call overrides how the run ended. *)
MarkFailedAlways(l) == [l EXCEPT !.state = "Failed"]

mark_failed(l) == IF is_terminal(l) THEN l ELSE [l EXCEPT !.state = "Failed"]

reconnect_started(l) == [l EXCEPT !.connection = "Reconnecting"]

disconnected(l) == [l EXCEPT !.connection = "Disconnected"]

(* A careless variant: the revision the reconnect reports is taken as it is. *)
ReconnectToLatest(l, latest) == [l EXCEPT !.connection = "Connected", !.last = latest]

reconnect_complete(l, latest) ==
    [l EXCEPT !.connection = "Connected",
              !.last = IF latest # None /\ (@ = None \/ latest > @) THEN latest ELSE @]

-----------------------------------------------------------------------------
(* Events of the runner *)

(* A careless variant: an event of the known revision is not outdated. *)
OutdatedStrictly(l, e) ==
    \/ l.connection = "Disconnected"
    \/ l.last # None /\ e.revision < l.last
    \/ e.generation # l.generation
    \/ is_terminal(l) /\ l.state # state_for_public[e.state]

(* The checks apply_event makes before it touches anything. *)
Outdated(l, e) ==
    \/ l.connection = "Disconnected"
    \/ l.last # None /\ e.revision <= l.last
    \/ e.generation # l.generation
    \/ is_terminal(l) /\ l.state # state_for_public[e.state]

(* A careless variant: only the completed measures are checked. *)
PlausiblyCompleted(e) ==
    /\ e.completed <= e.total
    /\ e.provenance = "Unavailable" => e.reason

(* The checks it makes after it bound the run and the attempt. *)
Plausible(e) ==
    /\ e.completed <= e.total
    /\ e.failed <= e.total
    /\ e.provenance = "Unavailable" => e.reason

StatisticsOf(e) ==
    [run |-> e.run, attempt |-> e.attempt, generation |-> e.generation, state |-> e.state,
     completed |-> e.completed, total |-> e.total, failed |-> e.failed,
     provenance |-> e.provenance, reason |-> e.reason]

(* A careless variant: an event of any run is taken. *)
AnyRun(l, e) == FALSE

WrongRun(l, e) == l.run # None /\ l.run # e.run
WrongAttempt(l, e) == l.attempt # None /\ l.attempt # e.attempt

BindRun(l, e) == [l EXCEPT !.run = e.run]
BindAttempt(l, e) == [l EXCEPT !.run = e.run, !.attempt = e.attempt]

Accepts(l, e) ==
    ~Outdated(l, e) /\ ~WrongRun(l, e) /\ ~WrongAttempt(l, e) /\ Plausible(e)

apply_event(l, e) ==
    IF Outdated(l, e) \/ WrongRun(l, e) THEN l
    ELSE IF WrongAttempt(l, e) THEN BindRun(l, e)
    ELSE IF ~Plausible(e) THEN BindAttempt(l, e)
    ELSE [BindAttempt(l, e) EXCEPT !.last = e.revision,
                                   !.state = state_for_public[e.state],
                                   !.statistics = StatisticsOf(e)]

(* observe_summary: a RunSummary of the projection as an event.  The summary  *)
(* has no catalog generation; the launch's own is used.  measures is the      *)
(* number of measures of the launch binding.                                  *)
SummaryEvent(l, s, measures) ==
    [revision |-> s.revision, run |-> s.run, attempt |-> s.attempt, generation |-> l.generation,
     state |-> s.state,
     completed |-> IF s.state \in {"Completed", "Failed", "Cancelled"} THEN measures ELSE 0,
     total |-> measures,
     failed |-> IF s.state = "Failed" THEN 1 ELSE 0,
     provenance |-> "Unavailable", reason |-> TRUE]

observe_summary(l, s, measures) == apply_event(l, SummaryEvent(l, s, measures))
=============================================================================
