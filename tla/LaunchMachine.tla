--------------------------- MODULE LaunchMachine ---------------------------
(***************************************************************************)
(* A LaunchState (module LaunchState) under its callers and an event       *)
(* stream that may lose, repeat, reorder and corrupt what it delivers.     *)
(***************************************************************************)
EXTENDS LaunchState

CONSTANTS
    Event,          \* the events the stream may deliver
    Generation,     \* the benchmark catalog generation of the launch
    Revision        \* revisions a reconnect may report

ASSUME LaunchMachineAssumption ==
    /\ Event \subseteq LiveRunEvent
    /\ Generation \in Nat
    /\ Revision \subseteq Nat

VARIABLES
    launch,         \* the state
    heard           \* the events that were accepted

vars == <<launch, heard>>

TypeOK ==
    /\ launch \in LaunchStates
    /\ heard \subseteq LiveRunEvent

Init == launch = NewLaunch(Generation) /\ heard = {}

BeginLaunch == launch' = begin_launch(launch) /\ UNCHANGED heard

RequestCancel == launch' = request_cancel(launch) /\ UNCHANGED heard

MarkFailed == launch' = mark_failed(launch) /\ UNCHANGED heard

ReconnectStarted == launch' = reconnect_started(launch) /\ UNCHANGED heard

ReconnectComplete(r) == launch' = reconnect_complete(launch, r) /\ UNCHANGED heard

Disconnected == launch' = disconnected(launch) /\ UNCHANGED heard

ApplyEvent(e) ==
    /\ launch' = apply_event(launch, e)
    /\ heard' = IF Accepts(launch, e) THEN heard \cup {e} ELSE heard

ObserveSummary(e, measures) ==
    LET s == [revision |-> e.revision, run |-> e.run, attempt |-> e.attempt, state |-> e.state]
    IN  ApplyEvent(SummaryEvent(launch, s, measures))

Next ==
    \/ BeginLaunch
    \/ RequestCancel
    \/ MarkFailed
    \/ ReconnectStarted
    \/ \E r \in Revision \cup {None} : ReconnectComplete(r)
    \/ Disconnected
    \/ \E e \in Event : ApplyEvent(e) \/ ObserveSummary(e, e.total)

Spec == Init /\ [][Next]_vars

-----------------------------------------------------------------------------
(* Properties *)

(* What the screen shows is what the last accepted event said, unless the    *)
(* operator asked for a cancel or a control call failed since; a run that    *)
(* ended is shown as the runner said it ended, whatever is asked afterwards. *)
ShownAsReported ==
    launch.statistics # None =>
        LET reported == state_for_public[launch.statistics.state]
        IN  /\ launch.state \in {reported, "Cancelling", "Failed"}
            /\ reported \in Terminal => launch.state = reported

(* One launch shows one run: whatever is delivered, the statistics are those *)
(* of the bound run and attempt, and no second run is ever accepted.         *)
OneRunShown ==
    /\ \A e \in heard : e.run = launch.run /\ e.attempt = launch.attempt
    /\ launch.statistics # None =>
          launch.statistics.run = launch.run /\ launch.statistics.attempt = launch.attempt

(* Progress is bounded: no event, however wrong its counts, puts more         *)
(* completed or failed measures on the screen than there are.                 *)
ProgressBounded ==
    launch.statistics # None =>
        /\ launch.statistics.completed <= launch.statistics.total
        /\ launch.statistics.failed <= launch.statistics.total

(* An event that was accepted is never accepted again, however late it is     *)
(* repeated and whatever happened in between: a repeated Running cannot undo  *)
(* a cancel that was asked for after it.                                      *)
NoEventTwice == \A e \in heard : ~Accepts(launch, e)

(* What a launch shows is its own run as the runner reported it, each event   *)
(* once and no count beyond its total (launch_statistics.rs, apply_event).    *)
LaunchAsReported == ShownAsReported /\ OneRunShown /\ ProgressBounded /\ NoEventTwice

(* A step never turns an ended run into another state, never lowers the      *)
(* revision that is known, and never drops statistics that were shown.       *)
NothingIsForgotten ==
    [][/\ is_terminal(launch) => launch'.state = launch.state
       /\ launch.last # None => launch'.last # None /\ launch'.last >= launch.last
       /\ launch.run # None => launch'.run = launch.run
       /\ launch.statistics # None => launch'.statistics # None]_vars
=============================================================================
