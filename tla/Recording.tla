----------------------------- MODULE Recording -----------------------------
(***************************************************************************)
(* Recording campaigns: the dispatcher (src/recording_dispatch.rs) with    *)
(* its gates (src/recording_campaign.rs, src/ui.rs), its control calls     *)
(* (src/control_transport.rs), what the projection keeps of their replies  *)
(* (src/live_projection.rs), and the runner, which is external.            *)
(*                                                                         *)
(* The runner numbers the states of its campaign: hist[g] is what it was   *)
(* at generation g, and a mutation is carried out only when it names the   *)
(* current generation.  A repeated request may get the reply of the first. *)
(* A round trip is one step: it may be refused, served, or served with its *)
(* reply lost.  Polls may deliver the status of an earlier generation,     *)
(* since a stream that went out of step delivers the replies of earlier    *)
(* polls.  The loop makes them beside a launch, and the key that launches  *)
(* is held back at present (FormalUi): the module keeps them, since what   *)
(* it states then holds with and without them.                             *)
(*                                                                         *)
(* A complete campaign whose tuples are not all covered is "Incomplete".   *)
(* Scope, provider, model and agents of a campaign are its identity.       *)
(***************************************************************************)
EXTENDS Integers, Sequences

CONSTANTS
    Campaign,        \* campaigns the runner may plan
    None,            \* no campaign, no reply
    Cassettes,       \* cassettes of a complete campaign
    MaxProgress,     \* MAX_PROGRESS_REQUESTS
    MaxGeneration,   \* bound on the runner's generations
    MaxOthers        \* bound on changes made by other frontends

VARIABLES
    hist,            \* the runner: its campaign at each generation
    answered,        \* the runner: its replies to the mutations it carried out
    others,          \* changes made by other frontends
    projection,      \* plan, estimate and lifecycle of the ControlProjection
    live,            \* the snapshot the workspace shows
    rec,             \* RecordingDispatchState
    request,         \* the mutation or replay this step sent, and what the runner was then
    acknowledged,    \* activations this dispatcher has seen acknowledged
    confirmed        \* campaigns on which the operator has asked for the capture

vars == <<hist, answered, others, projection, live, rec, request, acknowledged, confirmed>>
runner == <<hist, answered, others>>
ghosts == <<acknowledged, confirmed>>

Phases == {"Planned", "Recording", "NeedsReconciliation", "Complete", "Incomplete",
           "Cancelled", "Failed", "Removed"}
Mutations == {"plan", "execute", "cancel", "reconcile", "offline", "seal", "reopen", "remove"}
Generations == 1..MaxGeneration
Status == [campaign : Campaign, phase : Phases, gen : Generations]
Requests == [act : Mutations, campaign : Campaign \cup {None}, gen : Generations]
Catalog == [campaign : Campaign, gen : Generations]

ASSUME RecordingAssumption ==
    /\ None \notin Campaign \cup Status \cup (Campaign \X Generations)
    /\ {Cassettes, MaxProgress, MaxGeneration} \subseteq Nat \ {0}
    /\ MaxOthers \in Nat

(* RecordingDispatchState::new, and how a discarded state is rebuilt. *)
NewDispatch == [armed |-> FALSE, catalog |-> None, selected |-> None, progress |-> 0,
                progressOf |-> None, requested |-> None, removing |-> FALSE]

Dispatch == [armed : BOOLEAN, catalog : Catalog \cup {None},
             selected : (Campaign \X (1..Cassettes)) \cup {None},
             progress : 0..MaxProgress, progressOf : Campaign \cup {None},
             requested : (Campaign \X Generations) \cup {None}, removing : BOOLEAN]

Projection == [plan : Status \cup {None}, estimate : Generations \cup {None},
               lifecycle : Status \cup {None}]

TypeOK ==
    /\ hist \in Seq([campaign : Campaign \cup {None}, phase : Phases \cup {"None"}])
    /\ Len(hist) \in Generations
    /\ answered \subseteq [request : Requests, reply : Status]
    /\ others \in 0..MaxOthers
    /\ projection \in Projection
    /\ live \in Projection
    /\ rec \in Dispatch
    /\ request = None \/ request \in [act : Mutations \cup {"replay"}, campaign : Campaign, gen : Generations,
                                      at : Campaign \cup {None}, phase : Phases \cup {"None"}, served : BOOLEAN]
    /\ acknowledged \subseteq Campaign \X Generations
    /\ confirmed \subseteq Campaign

(* Nothing is recorded, and nothing but the generation is known. *)
Init ==
    /\ hist = <<[campaign |-> None, phase |-> "None"]>>
    /\ answered = {} /\ others = 0
    /\ projection = [plan |-> None, estimate |-> None, lifecycle |-> None]
    /\ live = projection
    /\ rec = NewDispatch
    /\ request = None /\ acknowledged = {} /\ confirmed = {}

-----------------------------------------------------------------------------
(* The runner *)

Gen == Len(hist)
StatusAt(g) == [campaign |-> hist[g].campaign, phase |-> hist[g].phase, gen |-> g]
Becomes(c, p) == /\ Gen < MaxGeneration
                 /\ hist' = Append(hist, [campaign |-> c, phase |-> p])

Unplanned == {c \in Campaign : \A g \in 1..Gen : hist[g].campaign # c}

(* What a mutation may lead to; activating and sealing change no generation. *)
Silent == {"offline", "seal"}
Effects(act) == CASE act = "plan" -> {"Planned"}
                  [] act \in {"execute", "reopen"} -> {"Recording"}
                  [] act = "cancel" -> {"Cancelled"}
                  [] act = "reconcile" -> {"Recording", "Complete", "Incomplete", "Failed"}
                  [] act = "remove" -> {"Complete", "Incomplete", "Removed"}
                  [] OTHER -> {hist[Gen].phase}

(* A round trip is refused, served, served with its reply lost, or answered   *)
(* as an earlier one was: every request of an action has the same key         *)
(* ("asb-tui-" and the action), so the runner may take it for a repetition.   *)
Outcomes == [kind : {"refused", "served", "lost"}, of : {None}] \cup [kind : {"repeated"}, of : answered]
Happened(o) == o.kind \in {"served", "lost"}

(* One round trip of the mutation q, in which campaign c comes to phase p. *)
Exchange(o, q, c, p) ==
    \/ /\ o.kind = "refused" \/ (o.kind = "repeated" /\ o.of.request.act = q.act)
       /\ UNCHANGED <<hist, answered>>
    \/ /\ Happened(o)
       /\ \A a \in answered : a.request # q
       /\ q.act # "plan" => q.gen = Gen
       /\ IF q.act \in Silent THEN UNCHANGED hist ELSE Becomes(c, p)
       /\ answered' = answered \cup {[request |-> q, reply |-> [campaign |-> c, phase |-> p, gen |-> Len(hist')]]}

(* The reply that reaches the frontend; the refusal of a request is None. *)
ReplyTo(o, c, p) ==
    CASE o.kind = "served" -> [campaign |-> c, phase |-> p, gen |-> Len(hist')]
      [] o.kind = "repeated" -> o.of.reply
      [] OTHER -> None

(* Capture goes on, and other frontends plan, start and cancel as well. *)
RunnerStep ==
    /\ \/ /\ hist[Gen].phase = "Recording"
          /\ \E p \in {"Complete", "Incomplete", "Failed", "NeedsReconciliation"} :
                Becomes(hist[Gen].campaign, p)
          /\ UNCHANGED others
       \/ /\ others < MaxOthers /\ others' = others + 1
          /\ \/ \E c \in Unplanned : Becomes(c, "Planned")
             \/ \E p \in {"Recording", "Cancelled"} : hist[Gen].campaign # None /\ Becomes(hist[Gen].campaign, p)
    /\ request' = None
    /\ UNCHANGED <<answered, projection, live, rec, ghosts>>

-----------------------------------------------------------------------------
(* The projection *)

(* A careless variant: any generation is accepted. *)
AnyGeneration(p, g) == TRUE

(* require_monotonic_generation: against the lifecycle, or else the estimate, *)
(* or else the plan.                                                          *)
MonotonicGeneration(p, g) ==
    CASE p.lifecycle # None -> g >= p.lifecycle.gen
      [] p.lifecycle = None /\ p.estimate # None -> g >= p.estimate
      [] OTHER -> p.plan # None => g >= p.plan.gen

(* The lifecycle shadows the plan, here and in the gates of the workspace. *)
Shown(p) == IF p.lifecycle # None THEN p.lifecycle ELSE p.plan
PhaseShown(p) == IF Shown(p) = None THEN "None" ELSE Shown(p).phase

(* A lifecycle reply is taken when it is about the campaign of the request. *)
Accepts(s, reply) ==
    /\ reply # None
    /\ reply.campaign = s.campaign
    /\ reply.gen >= s.gen
    /\ MonotonicGeneration(projection, reply.gen)

-----------------------------------------------------------------------------
(* The gates *)

Allowed(act) ==
    CASE act \in {"estimate", "plan"} -> {"None", "Cancelled", "Failed"}
      [] act = "execute" -> {"Planned"}
      [] act = "progress" -> {"Recording", "NeedsReconciliation"}
      [] act = "cancel" -> {"Planned", "Recording", "NeedsReconciliation"}
      [] act = "reconcile" -> {"NeedsReconciliation"}
      [] act \in {"offline", "seal"} -> {"Complete"}
      [] act = "reopen" -> {"Complete", "Incomplete", "Failed", "Cancelled", "NeedsReconciliation"}
      [] act = "remove" -> {"Complete", "Incomplete"}

(* The key is legal for what the workspace shows, and the dispatcher's model  *)
(* of the projection agrees.                                                  *)
Legal(act) == PhaseShown(live) \in Allowed(act)
Requestable(act) == PhaseShown(projection) \in Allowed(act)

-----------------------------------------------------------------------------
(* The dispatcher *)

(* A careless variant: the fence is the runner's generation of the moment. *)
CurrentGeneration(s) == Gen

(* The generation a mutation expects: the one of what the projection shows. *)
ExpectedGeneration(s) == s.gen

Sent(act, c, g, served) ==
    request' = [act |-> act, campaign |-> c, gen |-> g, at |-> hist[Gen].campaign,
                phase |-> hist[Gen].phase, served |-> served]

(* The reply goes through the projection to the workspace. *)
Project(p) == projection' = p /\ live' = p

Estimate ==
    /\ Legal("estimate") /\ Requestable("estimate")
    /\ MonotonicGeneration(projection, Gen)
    /\ Project([projection EXCEPT !.estimate = Gen])
    /\ request' = None
    /\ UNCHANGED <<runner, rec, ghosts>>

(* The plan is asked for with the generation of the plan before it, or with 1. *)
Plan ==
    /\ Legal("plan") /\ Requestable("plan")
    /\ LET q == [act |-> "plan", campaign |-> None,
                 gen |-> IF projection.plan = None THEN 1 ELSE projection.plan.gen]
       IN  \E o \in Outcomes, c \in Unplanned :
              /\ Exchange(o, q, c, "Planned")
              /\ LET reply == ReplyTo(o, c, "Planned")
                 IN  IF reply # None /\ MonotonicGeneration(projection, reply.gen)
                     THEN Project([projection EXCEPT !.plan = reply])
                     ELSE UNCHANGED <<projection, live>>
    /\ request' = None
    /\ UNCHANGED <<others, rec, ghosts>>

(* One mutation of the campaign shown; next is the dispatcher's state when it *)
(* is acknowledged.                                                           *)
Mutate(act, next) ==
    /\ Requestable(act) /\ Shown(projection) # None
    /\ LET s == Shown(projection)
           q == [act |-> act, campaign |-> s.campaign, gen |-> ExpectedGeneration(s)]
       IN  \E o \in Outcomes, p \in Effects(act) :
              /\ Exchange(o, q, s.campaign, p)
              /\ Sent(act, s.campaign, q.gen, Happened(o))
              /\ LET reply == ReplyTo(o, s.campaign, p)
                 IN  IF Accepts(s, reply)
                     THEN /\ Project([projection EXCEPT !.lifecycle = reply])
                          /\ rec' = next
                     ELSE UNCHANGED <<projection, live, rec>>
    /\ UNCHANGED <<others, ghosts>>

(* The first press arms, the second one captures. *)
ConfirmCapture ==
    /\ Legal("execute")
    /\ \/ /\ ~rec.armed /\ Requestable("execute")
          /\ rec' = [rec EXCEPT !.armed = TRUE]
          /\ confirmed' = confirmed \cup {Shown(projection).campaign}
          /\ Project(projection)
          /\ request' = None
          /\ UNCHANGED <<runner, acknowledged>>
       \/ /\ rec.armed
          /\ Mutate("execute", [rec EXCEPT !.armed = FALSE])

Progress ==
    /\ Legal("progress") /\ Requestable("progress")
    /\ rec.progress < MaxProgress
    /\ LET s == Shown(projection)
       IN  /\ hist[Gen].campaign = s.campaign
           /\ MonotonicGeneration(projection, Gen)
           /\ Project([projection EXCEPT !.lifecycle = StatusAt(Gen)])
           /\ rec' = [rec EXCEPT !.progress = IF rec.progressOf = s.campaign THEN @ + 1 ELSE 1,
                                 !.progressOf = s.campaign]
    /\ request' = None
    /\ UNCHANGED <<runner, ghosts>>

Cancel == Legal("cancel") /\ Mutate("cancel", rec)
Reconcile == Legal("reconcile") /\ Mutate("reconcile", rec)
Seal == Legal("seal") /\ Mutate("seal", rec)
Reopen == Legal("reopen") /\ Mutate("reopen", rec)

(* The first press asks, the second one removes; the question is forgotten    *)
(* before the request is sent.                                                *)
Remove ==
    /\ Legal("remove") /\ Requestable("remove")
    /\ rec.selected # None /\ rec.catalog # None
    /\ rec.selected[1] = rec.catalog.campaign
    /\ \/ /\ ~rec.removing
          /\ rec' = [rec EXCEPT !.removing = TRUE]
          /\ Project(projection)
          /\ request' = None
          /\ UNCHANGED <<runner, ghosts>>
       \/ /\ rec.removing
          /\ LET s == Shown(projection)
                 q == [act |-> "remove", campaign |-> s.campaign, gen |-> ExpectedGeneration(s)]
             IN  \E o \in Outcomes, p \in Effects("remove") :
                    /\ Exchange(o, q, s.campaign, p)
                    /\ Sent("remove", s.campaign, q.gen, Happened(o))
                    /\ IF Accepts(s, ReplyTo(o, s.campaign, p))
                       THEN Project([projection EXCEPT !.lifecycle = ReplyTo(o, s.campaign, p)])
                       ELSE UNCHANGED <<projection, live>>
          /\ rec' = [rec EXCEPT !.removing = FALSE]
          /\ UNCHANGED <<others, ghosts>>

(* The catalog the runner gives for a campaign and a generation; a catalog    *)
(* for anything else is refused.                                              *)
CatalogOf(h, s) == IF s.gen = Len(h) /\ h[s.gen].campaign = s.campaign
                   THEN {[campaign |-> s.campaign, gen |-> s.gen]} ELSE {}

Pair(s) == <<s.campaign, s.gen>>

(* The cassette catalog is read, or the read fails. *)
ReadCatalog(s, d, p) ==
    \/ \E c \in CatalogOf(hist, s) : rec' = [d EXCEPT !.catalog = c] /\ Project(p)
    \/ rec' = d /\ projection' = p /\ UNCHANGED live

(* A careless variant: the acknowledgement is kept only once the catalog has  *)
(* been read.                                                                 *)
AcknowledgedWithCatalog(s, p) ==
    \/ \E c \in CatalogOf(hist, s) :
          rec' = [rec EXCEPT !.catalog = c, !.requested = Pair(s)] /\ Project(p)
    \/ rec' = rec /\ projection' = p /\ UNCHANGED live

(* An acknowledged activation is kept before the catalog is read. *)
Acknowledged(s, p) == ReadCatalog(s, [rec EXCEPT !.requested = Pair(s)], p)

ActivateOfflineDefault ==
    /\ Legal("offline") /\ Shown(projection) # None
    /\ UNCHANGED <<others, confirmed>>
    /\ LET s == Shown(projection)
           q == [act |-> "offline", campaign |-> s.campaign, gen |-> ExpectedGeneration(s)]
       IN  \/ /\ rec.requested = Pair(s)
              /\ IF rec.catalog # None THEN rec' = rec /\ Project(projection)
                                       ELSE ReadCatalog(s, rec, projection)
              /\ request' = None
              /\ UNCHANGED <<hist, answered, acknowledged>>
           \/ /\ rec.requested # Pair(s) /\ Requestable("offline")
              /\ \E o \in Outcomes, p \in Effects("offline") :
                    /\ Exchange(o, q, s.campaign, p)
                    /\ Sent("offline", s.campaign, q.gen, Happened(o))
                    /\ LET reply == ReplyTo(o, s.campaign, p)
                       IN  IF Accepts(s, reply)
                           THEN /\ Acknowledged(s, [projection EXCEPT !.lifecycle = reply])
                                /\ acknowledged' = acknowledged \cup {Pair(s)}
                           ELSE UNCHANGED <<projection, live, rec, acknowledged>>

(* A careless variant: the selection runs past the last cassette. *)
CassetteAfter(c, sel) == <<c.campaign, IF sel # None /\ sel[1] = c.campaign THEN sel[2] + 1 ELSE 1>>

(* select_next_authenticated_cassette: the one after the selected one, or the *)
(* first one.                                                                 *)
NextCassette(c, sel) ==
    <<c.campaign, IF sel # None /\ sel[1] = c.campaign THEN (sel[2] % Cassettes) + 1 ELSE 1>>

SelectOfflineCassette ==
    /\ rec.catalog # None
    /\ rec' = [rec EXCEPT !.selected = NextCassette(rec.catalog, @)]
    /\ Project(projection)
    /\ request' = None
    /\ UNCHANGED <<runner, ghosts>>

(* The generation a replay names: the one its catalog was read at. *)
ReplayGeneration(c) == c.gen

ReplaySelected ==
    /\ rec.catalog # None /\ rec.selected # None
    /\ rec.selected[1] = rec.catalog.campaign
    /\ \E o \in {"refused", "served", "lost"} :
          /\ o # "refused" => ReplayGeneration(rec.catalog) = Gen
          /\ Sent("replay", rec.catalog.campaign, ReplayGeneration(rec.catalog), o # "refused")
          /\ IF o = "served" THEN Project(projection) ELSE UNCHANGED <<projection, live>>
    /\ UNCHANGED <<runner, rec, ghosts>>

(* The status a poll reads, which may be that of an earlier generation. *)
Poll ==
    /\ \E g \in 1..Gen :
          /\ MonotonicGeneration(projection, g)
          /\ Project(IF hist[g].campaign = None THEN projection
                     ELSE [projection EXCEPT !.lifecycle = StatusAt(g)])
    /\ request' = None
    /\ UNCHANGED <<runner, rec, ghosts>>

(* A completed wizard discards the dispatcher. *)
WizardCompletes ==
    /\ rec' = NewDispatch
    /\ acknowledged' = {}
    /\ Project(projection)
    /\ request' = None
    /\ UNCHANGED <<runner, confirmed>>

Next ==
    \/ RunnerStep
    \/ Estimate
    \/ Plan
    \/ ConfirmCapture
    \/ Progress
    \/ Cancel
    \/ Reconcile
    \/ Seal
    \/ Reopen
    \/ Remove
    \/ ActivateOfflineDefault
    \/ SelectOfflineCassette
    \/ ReplaySelected
    \/ Poll
    \/ WizardCompletes

Spec == Init /\ [][Next]_vars

-----------------------------------------------------------------------------
(* Properties *)

(* What a request finds at the runner is what its action is meant for: a      *)
(* capture starts only a planned campaign, only a complete one goes offline   *)
(* or is replayed, and all of that for the very campaign the request names,   *)
(* however far the screen is behind the runner.                               *)
MeantFor(act) ==
    CASE act = "execute" -> {"Planned"}
      [] act \in {"offline", "seal", "replay"} -> {"Complete"}
      [] act = "remove" -> {"Complete", "Incomplete"}
      [] act = "reconcile" -> {"NeedsReconciliation"}
      [] act = "cancel" -> {"Planned", "Recording", "NeedsReconciliation"}
      [] act = "reopen" -> {"Complete", "Incomplete", "Failed", "Cancelled", "NeedsReconciliation"}

ActsAsShown ==
    request # None /\ request.served =>
        request.at = request.campaign /\ request.phase \in MeantFor(request.act)

(* A campaign's lifecycle, once shown, never goes back to an earlier          *)
(* generation, although polls may deliver old ones.                           *)
LifecycleNeverGoesBack ==
    [][projection.lifecycle # None =>
          /\ projection'.lifecycle # None
          /\ projection'.lifecycle.gen >= projection.lifecycle.gen]_vars

(* `repeated input cannot duplicate the mutation': once acknowledged, an      *)
(* activation is not sent again for the same campaign and generation, even    *)
(* when the catalog after it could not be read.                               *)
ActivatedOnce ==
    [][(request' # None /\ request'.act = "offline")
          => <<request'.campaign, request'.gen>> \notin acknowledged]_vars

(* `a separate explicit confirmation before provider capture': no campaign is *)
(* captured unless the operator asked for that campaign before.               *)
CaptureConfirmed ==
    [][(request' # None /\ request'.act = "execute") => request'.campaign \in confirmed]_vars
=============================================================================
