---------------------------- MODULE RunControl ----------------------------
(***************************************************************************)
(* Run control, end to end: the interactive loop (src/runtime.rs), the     *)
(* workspace's preflight and launch state (src/ui.rs), the projection      *)
(* (src/live_projection.rs), the framed control stream                     *)
(* (src/control_transport.rs), and the runner at its other end, which is   *)
(* external.                                                               *)
(*                                                                         *)
(* The frontend is one thread: it makes one control operation at a time,   *)
(* as a sequence of round trips.  A round trip whose read times out is     *)
(* given up, but its request is still served and its reply still arrives.  *)
(* Request identifiers are fixed per call, so a call stands for its        *)
(* identifier and for the kind of its result.                              *)
(*                                                                         *)
(* A catalog generation stands for the provider catalog, the benchmark     *)
(* catalog and the configuration together, and a materialized bundle for   *)
(* the generation it was reviewed against.                                 *)
(*                                                                         *)
(* The keys that start, cancel and reconnect ask the interpreter of the    *)
(* documented state graph first, and ask it in a way that it always        *)
(* refuses (FormalUi, run_control_formal; the run start_key shows it).     *)
(* Admits is its answer: with TRUE the module shows the arms of the        *)
(* runtime that lie behind the keys, with FALSE no run is ever started.    *)
(***************************************************************************)
EXTENDS LaunchState, Sequences, FiniteSets

CONSTANTS
    MaxRevision,     \* bound on the runner's revisions
    MaxGeneration,   \* bound on catalog generations
    MaxOthers,       \* bound on runs that other frontends launch
    MaxTimeouts,     \* bound on reads that time out
    MaxProjected,    \* MAX_PROJECTED_RUNS
    Measures,        \* number of measures of a bundle
    Admits           \* whether run_control_formal lets the keys of a run through

Summary == [run : Run, attempt : Attempt, state : PublicRunStates, revision : 0..MaxRevision]
RunRecord == [state : PublicRunStates, revision : 0..MaxRevision, created : 0..MaxRevision]
Generations == 1..MaxGeneration
Keys == 0..MaxGeneration

ASSUME RunControlAssumption ==
    /\ Attempt = Run
    /\ {MaxRevision, MaxGeneration, MaxOthers, MaxTimeouts, MaxProjected, Measures} \subseteq Nat
    /\ MaxGeneration > 0 /\ Measures > 0 /\ Admits \in BOOLEAN
    /\ None \notin Summary \cup RunRecord \cup LaunchStates

VARIABLES
    \* the runner (external)
    runs,            \* its run records
    revision,        \* its last revision
    generation,      \* its current catalogs
    planned,         \* the bundle it planned under an idempotency key
    launched,        \* the run it launched under an idempotency key
    others,          \* how many runs other frontends launched
    \* the stream
    up,              \* the peer has not closed it
    inbox, outbox,   \* requests not served, replies not read
    \* the frontend
    projection,      \* ControlProjection
    next,            \* the copy a control operation works on
    op, todo, sent,  \* the operation, the calls it has left, and whether the first was written
    wizard,          \* the wizard's values are a valid draft for the catalogs
    reviewed,        \* reviewed_provider_setup: the generation of the draft
    preflight,       \* preflight_bundle
    launch,          \* launch_state
    timeouts         \* reads that timed out

runner == <<runs, revision, generation, planned, launched, others>>
stream == <<up, inbox, outbox>>
control == <<projection, next, op, todo, sent>>
workspace == <<wizard, reviewed, preflight, launch>>
vars == <<runner, stream, control, workspace, timeouts>>

(* The revision negotiate() reported; the session keeps it for good. *)
NegotiatedRevision == 0

(* A careless variant: the history is read when the frontend starts, and not again. *)
PollingCatalogs == <<"capabilities", "catalogs">>

(* The calls of poll_projection, in order. *)
Polling == <<"capabilities", "history", "catalogs">>
Calls == {"capabilities", "history", "catalogs", "create_plan", "launch", "cancel"}
Ended == {"Completed", "Failed", "Cancelled", "NeedsReconciliation"}

TypeOK ==
    /\ runs \in [Run -> RunRecord \cup {None}]
    /\ revision \in 0..MaxRevision
    /\ generation \in Generations
    /\ planned \in [Keys -> Generations \cup {None}]
    /\ launched \in [Keys -> Run \cup {None}]
    /\ others \in 0..MaxOthers
    /\ up \in BOOLEAN
    /\ \A i \in DOMAIN inbox : inbox[i].call \in Calls
    /\ \A i \in DOMAIN outbox : outbox[i].call \in Calls
    /\ {projection, next} \subseteq [runs : [Run -> Summary \cup {None}], generation : Generations]
    /\ op \in {"none", "poll", "reconnect", "start", "cancel"}
    /\ todo \in Seq(Calls)
    /\ sent \in BOOLEAN
    /\ wizard \in BOOLEAN
    /\ reviewed \in Generations \cup {None}
    /\ preflight \in Generations \cup {None}
    /\ launch = None \/ launch \in LaunchStates
    /\ timeouts \in 0..MaxTimeouts

(* The frontend has made its first, successful poll. *)
Init ==
    /\ runs = [r \in Run |-> None]
    /\ revision = 0 /\ generation = 1
    /\ planned = [k \in Keys |-> None] /\ launched = [k \in Keys |-> None] /\ others = 0
    /\ up = TRUE /\ inbox = <<>> /\ outbox = <<>>
    /\ projection = [runs |-> [r \in Run |-> None], generation |-> 1]
    /\ next = projection
    /\ op = "none" /\ todo = <<>> /\ sent = FALSE
    /\ wizard \in BOOLEAN
    /\ reviewed = IF wizard THEN 1 ELSE None
    /\ preflight = None /\ launch = None
    /\ timeouts = 0

-----------------------------------------------------------------------------
(* The runner *)

SummaryOf(r, rec) == [run |-> r, attempt |-> r, state |-> rec.state, revision |-> rec.revision]

NewRun(r) ==
    /\ runs[r] = None
    /\ revision < MaxRevision
    /\ revision' = revision + 1
    /\ runs' = [runs EXCEPT ![r] = [state |-> "Planned", revision |-> revision + 1,
                                    created |-> revision + 1]]

(* A run moves on, or another frontend launches one. *)
RunnerStep(r) ==
    \/ /\ runs[r] # None /\ runs[r].state \notin Ended /\ revision < MaxRevision
       /\ revision' = revision + 1
       /\ \E s \in (IF runs[r].state = "Planned" THEN {"Running"}
                    ELSE {"Completed", "Failed", "NeedsReconciliation"}) :
             runs' = [runs EXCEPT ![r].state = s, ![r].revision = revision + 1]
       /\ UNCHANGED <<generation, planned, launched, others, stream, control, workspace, timeouts>>
    \/ /\ others < MaxOthers /\ others' = others + 1
       /\ NewRun(r)
       /\ UNCHANGED <<generation, planned, launched, stream, control, workspace, timeouts>>

CatalogsChange ==
    /\ generation < MaxGeneration
    /\ generation' = generation + 1
    /\ UNCHANGED <<runs, revision, planned, launched, others, stream, control, workspace, timeouts>>

Reply(q, ok, body) ==
    /\ inbox' = Tail(inbox)
    /\ outbox' = Append(outbox, [call |-> q.call, ok |-> ok, body |-> body])
    /\ UNCHANGED <<up, control, workspace, timeouts>>

(* The runner serves its requests in order.  It plans and launches once per    *)
(* idempotency key: a repeated launch is answered with the run as it was       *)
(* launched or as it is now, a plan for another bundle is refused.             *)
Serve ==
    /\ up /\ inbox # <<>>
    /\ LET q == Head(inbox)
       IN  \/ /\ q.call = "capabilities"
              /\ Reply(q, TRUE, None) /\ UNCHANGED runner
           \/ /\ q.call = "history"
              /\ Reply(q, TRUE, [r \in Run |-> IF runs[r] = None THEN None ELSE SummaryOf(r, runs[r])])
              /\ UNCHANGED runner
           \/ /\ q.call = "catalogs"
              /\ Reply(q, TRUE, generation) /\ UNCHANGED runner
           \/ /\ q.call = "create_plan"
              /\ planned' = IF planned[q.key] = None THEN [planned EXCEPT ![q.key] = q.arg] ELSE planned
              /\ Reply(q, planned'[q.key] = q.arg, None)
              /\ UNCHANGED <<runs, revision, generation, launched, others>>
           \/ /\ q.call = "launch" /\ launched[q.key] = None
              /\ \E r \in Run : /\ NewRun(r) /\ launched' = [launched EXCEPT ![q.key] = r]
                                /\ Reply(q, TRUE, SummaryOf(r, runs'[r]))
              /\ UNCHANGED <<generation, planned, others>>
           \/ /\ q.call = "launch" /\ launched[q.key] # None
              /\ LET r == launched[q.key]
                 IN  \/ Reply(q, TRUE, SummaryOf(r, runs[r]))
                     \/ Reply(q, TRUE, [run |-> r, attempt |-> r, state |-> "Planned",
                                        revision |-> runs[r].created])
              /\ UNCHANGED runner
           \/ /\ q.call = "launch"
              /\ Reply(q, FALSE, None) /\ UNCHANGED runner
           \/ /\ q.call = "cancel"
              /\ IF runs[q.arg].state \in Ended \/ revision = MaxRevision
                 THEN UNCHANGED runner
                 ELSE /\ revision' = revision + 1
                      /\ runs' = [runs EXCEPT ![q.arg].state = "Cancelled", ![q.arg].revision = revision + 1]
                      /\ UNCHANGED <<generation, planned, launched, others>>
              /\ Reply(q, TRUE, None)

PeerCloses ==
    /\ up /\ up' = FALSE
    /\ inbox' = <<>>
    /\ UNCHANGED <<runner, outbox, control, workspace, timeouts>>

-----------------------------------------------------------------------------
(* The projection *)

(* snapshot().runs.first(): the highest revision first. *)
Known(p) == {r \in Run : p.runs[r] # None}
First(p) == p.runs[CHOOSE r \in Known(p) : \A s \in Known(p) : p.runs[s].revision <= p.runs[r].revision]

(* A careless variant: an older record replaces a newer one. *)
NeverStale(p, s) == FALSE

(* insert_run refuses a revision below the one that is known. *)
StaleRun(p, s) == p.runs[s.run] # None /\ s.revision < p.runs[s.run].revision

Listed(page) == {r \in Run : page[r] # None}

(* ControlProjection::apply, for the results this model has. *)
Refuses(p, reply) ==
    CASE reply.call = "history" ->
            \/ Cardinality(Known(p)) + Cardinality(Listed(reply.body)) > MaxProjected
            \/ \E r \in Listed(reply.body) : StaleRun(p, reply.body[r])
      [] reply.call = "catalogs" -> reply.body < p.generation
      [] reply.call = "launch" ->
            \/ StaleRun(p, reply.body)
            \/ reply.body.run \notin Known(p) /\ Cardinality(Known(p)) >= MaxProjected
      [] OTHER -> FALSE

apply(p, reply) ==
    CASE reply.call = "history" ->
            [p EXCEPT !.runs = [r \in Run |-> IF reply.body[r] = None THEN p.runs[r] ELSE reply.body[r]]]
      [] reply.call = "catalogs" -> [p EXCEPT !.generation = reply.body]
      [] reply.call = "launch" -> [p EXCEPT !.runs[reply.body.run] = reply.body]
      [] OTHER -> p

-----------------------------------------------------------------------------
(* The workspace *)

(* apply_live_snapshot: when the wizard's values are a valid draft for the      *)
(* catalogs, the draft becomes the review, and set_reviewed_provider_setup      *)
(* clears the preflight, its bundle and the launch state.                      *)
apply_live_snapshot(p, l) ==
    /\ reviewed' = IF wizard THEN p.generation ELSE None
    /\ preflight' = IF wizard THEN None ELSE preflight
    /\ launch' = IF wizard THEN None ELSE l
    /\ UNCHANGED wizard

(* The runtime shows the most recent run of the snapshot. *)
Observed(p, l) ==
    IF l = None \/ Known(p) = {} THEN l ELSE observe_summary(l, First(p), Measures)

Failed(l) == IF l = None THEN l ELSE mark_failed(l)

Idle == op = "none"

EditWizard ==
    /\ Idle
    /\ wizard' = ~wizard
    /\ UNCHANGED <<runner, stream, control, reviewed, preflight, launch, timeouts>>

(* prepare_preflight: only from a review that matches the wizard. *)
OpenPreflight ==
    /\ Idle /\ wizard /\ reviewed # None
    /\ preflight' = reviewed
    /\ UNCHANGED <<runner, stream, control, wizard, reviewed, launch, timeouts>>

-----------------------------------------------------------------------------
(* Control operations *)

Begin(o, calls) ==
    /\ op' = o /\ todo' = calls /\ sent' = FALSE
    /\ next' = projection
    /\ UNCHANGED <<runner, stream, projection, timeouts>>

(* The operation failed: how the runtime's arm for it goes on. *)
FailOperation ==
    /\ op' = "none" /\ todo' = <<>> /\ sent' = FALSE
    /\ UNCHANGED <<projection, next>>
    /\ IF op \in {"poll", "reconnect"}
       THEN /\ launch' = reconnect_started(disconnected(launch))
            /\ UNCHANGED <<wizard, reviewed, preflight>>
       ELSE apply_live_snapshot(projection, Failed(launch))

(* The operation succeeded with the projection p. *)
FinishOperation(p) ==
    /\ op' = "none" /\ todo' = <<>> /\ sent' = FALSE
    /\ projection' = p /\ next' = p
    /\ IF op = "reconnect"
       THEN apply_live_snapshot(p, reconnect_complete(launch, NegotiatedRevision))
       ELSE apply_live_snapshot(p, Observed(p, launch))

(* A refresh is made only while a reviewed launch exists. *)
Poll ==
    /\ Idle /\ launch # None
    /\ Begin("poll", Polling)
    /\ UNCHANGED workspace

Reconnect ==
    /\ Idle /\ Admits /\ launch # None
    /\ launch' = reconnect_started(launch)
    /\ Begin("reconnect", Polling)
    /\ UNCHANGED <<wizard, reviewed, preflight>>

(* Enter: a new launch state replaces an idle one; a bundle that does not bind *)
(* to the projected catalogs fails before the first write.                     *)
StartRun ==
    /\ Idle /\ Admits /\ preflight # None
    /\ launch # None => launch.state = "Idle"
    /\ \/ /\ preflight = projection.generation
          /\ launch' = begin_launch(NewLaunch(preflight))
          /\ Begin("start", <<"create_plan", "launch">>)
          /\ UNCHANGED <<wizard, reviewed, preflight>>
       \/ /\ preflight # projection.generation
          /\ apply_live_snapshot(projection, mark_failed(begin_launch(NewLaunch(preflight))))
          /\ UNCHANGED <<runner, stream, control, timeouts>>

(* Ctrl-C: cancels the run that is bound, if the projection knows it. *)
CancelRun ==
    /\ Idle /\ Admits /\ launch # None
    /\ launch.state \in {"Launching", "Running", "Cancelling"}
    /\ \/ /\ launch.run # None /\ projection.runs[launch.run] # None
          /\ launch' = request_cancel(launch)
          /\ Begin("cancel", <<"cancel">> \o Polling)
          /\ UNCHANGED <<wizard, reviewed, preflight>>
       \/ /\ launch.run # None => projection.runs[launch.run] = None
          /\ apply_live_snapshot(projection, mark_failed(request_cancel(launch)))
          /\ UNCHANGED <<runner, stream, control, timeouts>>

(* What a request carries: the reviewed bundle, or the run to cancel. *)
Argument(c) == CASE c = "create_plan" -> launch.generation
                 [] c = "cancel" -> launch.run
                 [] OTHER -> None

(* A careless variant: the key follows the reviewed catalogs. *)
KeyPerReview(g) == g

(* The idempotency key of a launch: asb-tui-launch, whatever is launched. *)
LaunchKey(g) == 0

write_request ==
    /\ op # "none" /\ ~sent /\ up
    /\ inbox' = Append(inbox, [call |-> Head(todo), arg |-> Argument(Head(todo)),
                                key |-> LaunchKey(projection.generation)])
    /\ sent' = TRUE
    /\ UNCHANGED <<runner, up, outbox, projection, next, op, todo, workspace, timeouts>>

(* validate_for: the identifier and the kind of the result. *)
validate_for(reply) == reply.call = Head(todo)

(* read_response, the check for success, and the projection. *)
read_response ==
    /\ sent /\ outbox # <<>>
    /\ LET reply == Head(outbox)
           good == validate_for(reply) /\ reply.ok /\ ~Refuses(next, reply)
           p == apply(next, reply)
       IN  \/ /\ good /\ Len(todo) > 1
              /\ next' = p
              /\ todo' = Tail(todo) /\ sent' = FALSE
              /\ outbox' = Tail(outbox)
              /\ UNCHANGED <<projection, op, workspace>>
           \/ /\ good /\ Len(todo) = 1
              /\ FinishOperation(p)
              /\ outbox' = Tail(outbox)
           \/ /\ ~good
              /\ FailOperation
              /\ outbox' = Tail(outbox)
    /\ UNCHANGED <<runner, up, inbox, timeouts>>

Timeout ==
    /\ sent /\ up /\ outbox = <<>>
    /\ timeouts < MaxTimeouts /\ timeouts' = timeouts + 1
    /\ FailOperation
    /\ UNCHANGED <<runner, stream>>

(* A write to, or a read from, a stream the peer has closed. *)
Closed ==
    /\ op # "none" /\ ~up
    /\ sent => outbox = <<>>
    /\ FailOperation
    /\ UNCHANGED <<runner, stream, timeouts>>

Next ==
    \/ \E r \in Run : RunnerStep(r)
    \/ CatalogsChange
    \/ Serve
    \/ PeerCloses
    \/ EditWizard
    \/ OpenPreflight
    \/ Poll
    \/ Reconnect
    \/ StartRun
    \/ CancelRun
    \/ write_request
    \/ read_response
    \/ Timeout
    \/ Closed

Spec == Init /\ [][Next]_vars

(* An operation under way goes on, the runner serves its requests, and the      *)
(* loop, which polls before it looks at the keyboard, polls again and again.    *)
FairSpec ==
    /\ Spec
    /\ WF_vars(write_request) /\ WF_vars(read_response) /\ WF_vars(Closed) /\ WF_vars(Serve)
    /\ SF_vars(Poll)

-----------------------------------------------------------------------------
(* Properties *)

(* However often the operator starts, whichever replies are late and whatever  *)
(* state the screen lost in between, one session launches at most one run      *)
(* beside those of other frontends.                                            *)
NoSecondRun == Cardinality({r \in Run : runs[r] # None}) <= others + 1

(* How the screen says a run ended is how the runner ended it, although the    *)
(* screen may be fed from replies that are late (a local failure apart).       *)
EndShownIsTrue ==
    launch # None /\ launch.statistics # None /\ launch.state \in Terminal \ {"Failed"} =>
        state_for_public[runs[launch.run].state] = launch.state

(* The projection never goes back: late replies cannot replace a run record    *)
(* or the catalogs by older ones.                                              *)
ProjectionNeverGoesBack ==
    [][/\ projection'.generation >= projection.generation
       /\ \A r \in Run : projection.runs[r] # None =>
             /\ projection'.runs[r] # None
             /\ projection'.runs[r].revision >= projection.runs[r].revision]_vars

(* A run that ended is eventually shown as ended, or the screen has let it go.  *)
(* (After a late reply the stream stays out of step; beside a run of another   *)
(* frontend the loop may look at that one.  Both are cases of their own.)      *)
EndIsShown ==
    (launched[0] # None /\ runs[launched[0]].state \in Ended)
        ~> (~up \/ launch = None \/ is_terminal(launch) \/ timeouts > 0 \/ others > 0)
=============================================================================
