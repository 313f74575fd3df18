-------------------------- MODULE Recording_proofs --------------------------
(***************************************************************************)
(* Proofs about Recording for any campaigns, generations and progress      *)
(* budgets.  The invariant says that everything the frontend keeps of the  *)
(* runner was true at the generation it is kept with; the runner's         *)
(* generation fence then makes it true when a request is carried out.      *)
(***************************************************************************)
EXTENDS Recording, TLAPS

HistType == [campaign : Campaign \cup {None}, phase : Phases \cup {"None"}]

(* In the history h, campaign c was in phase p at generation g. *)
Was(h, c, g, p) == /\ g \in 1..Len(h)
                   /\ h[g].campaign = c
                   /\ h[g].phase = p

WasTrue(h, s) == Was(h, s.campaign, s.gen, s.phase)

HistInv == \A g \in 1..Len(hist) : hist[g].campaign \in Campaign <=> hist[g].phase \in Phases

ShownInv == /\ projection.plan # None => WasTrue(hist, projection.plan)
            /\ projection.lifecycle # None => WasTrue(hist, projection.lifecycle)

AnsweredInv == \A a \in answered : WasTrue(hist, a.reply)

CatalogInv ==
    /\ rec.catalog # None => Was(hist, rec.catalog.campaign, rec.catalog.gen, "Complete")
    /\ rec.requested # None => Was(hist, rec.requested[1], rec.requested[2], "Complete")

(* An acknowledged activation is remembered until the lifecycle has moved on. *)
AckInv == \A a \in acknowledged :
             /\ projection.lifecycle # None
             /\ Was(hist, a[1], a[2], "Complete")
             /\ projection.lifecycle.gen >= a[2]
             /\ projection.lifecycle.gen = a[2] => rec.requested = a

Inv == /\ TypeOK
       /\ HistInv
       /\ ShownInv
       /\ AnsweredInv
       /\ CatalogInv
       /\ AckInv
       /\ ActsAsShown

(* The history only grows. *)
Grew == /\ hist' \in Seq(HistType)
        /\ Len(hist') \in Generations
        /\ Len(hist') >= Len(hist)
        /\ \A g \in 1..Len(hist) : hist'[g] = hist[g]

-----------------------------------------------------------------------------
(* What was true at a generation stays true of it. *)
LEMMA WasStays ==
    ASSUME TypeOK, Grew, NEW c, NEW g, NEW p, Was(hist, c, g, p)
    PROVE  Was(hist', c, g, p)
BY DEF TypeOK, Grew, Was, Generations

(* A history that does not change has grown. *)
LEMMA UnchangedGrew ==
    ASSUME TypeOK, hist' = hist
    PROVE  Grew
BY DEF TypeOK, Grew, HistType, Generations

LEMMA GenType == ASSUME TypeOK PROVE Gen \in Generations /\ Gen \in 1..Len(hist) /\ hist[Gen] \in HistType
<1>1. Len(hist) \in Generations /\ hist \in Seq(HistType)
  BY DEF TypeOK, HistType
<1>2. Len(hist) \in 1..Len(hist)
  BY <1>1, RecordingAssumption DEF Generations
<1>3. hist[Len(hist)] \in HistType
  BY <1>1, <1>2
<1> QED BY <1>1, <1>2, <1>3 DEF Gen

(* A new state of the runner is added at a new generation. *)
LEMMA BecomesGrew ==
    ASSUME TypeOK, HistInv, NEW c \in Campaign, NEW p \in Phases, Becomes(c, p)
    PROVE  /\ Grew /\ HistInv'
           /\ Len(hist') = Len(hist) + 1
           /\ Was(hist', c, Len(hist'), p)
<1> DEFINE e == [campaign |-> c, phase |-> p]
<1>1. hist \in Seq(HistType) /\ Len(hist) \in Generations /\ e \in HistType
  BY DEF TypeOK, HistType
<1>2. hist' = Append(hist, e) /\ Len(hist) < MaxGeneration
  BY DEF Becomes, Gen
<1>3. /\ Len(hist') = Len(hist) + 1
      /\ \A g \in 1..Len(hist) : hist'[g] = hist[g]
      /\ hist'[Len(hist) + 1] = e
      /\ hist' \in Seq(HistType)
  BY <1>1, <1>2
<1>4. Len(hist') \in Generations
  BY <1>1, <1>2, <1>3, RecordingAssumption DEF Generations
<1>5. HistInv'
  <2> SUFFICES ASSUME NEW g \in 1..Len(hist')
               PROVE  hist'[g].campaign \in Campaign <=> hist'[g].phase \in Phases
    BY DEF HistInv
  <2>1. CASE g \in 1..Len(hist) BY <2>1, <1>3 DEF HistInv
  <2>2. CASE g = Len(hist) + 1 BY <2>2, <1>3
  <2> QED BY <2>1, <2>2, <1>1, <1>3 DEF Generations
<1> QED BY <1>1, <1>3, <1>4, <1>5 DEF Grew, Was, Generations

(* A round trip keeps the history true, and so is the reply it gives. *)
LEMMA ExchangeKeeps ==
    ASSUME TypeOK, HistInv, AnsweredInv,
           NEW o \in Outcomes, NEW q \in Requests, NEW c \in Campaign, NEW p,
           q.act \notin Silent => p \in Phases,
           q.act \in Silent /\ q.gen = Gen => Was(hist, c, Gen, p),
           Exchange(o, q, c, p)
    PROVE  /\ Grew /\ HistInv' /\ AnsweredInv'
           /\ answered' \subseteq [request : Requests, reply : Status]
           /\ Happened(o) /\ q.act # "plan" => q.gen = Gen
           /\ \/ ReplyTo(o, c, p) = None
              \/ /\ ReplyTo(o, c, p) \in Status
                 /\ WasTrue(hist', ReplyTo(o, c, p))
<1> DEFINE r == [campaign |-> c, phase |-> p, gen |-> Len(hist')]
<1>1. CASE /\ o.kind = "refused" \/ (o.kind = "repeated" /\ o.of.request.act = q.act)
           /\ UNCHANGED <<hist, answered>>
  <2>1. Grew /\ HistInv' /\ AnsweredInv'
    BY <1>1, UnchangedGrew DEF HistInv, AnsweredInv, WasTrue, Was
  <2>2. answered' \subseteq [request : Requests, reply : Status]
    BY <1>1 DEF TypeOK
  <2>3. CASE o.kind = "refused" BY <2>1, <2>2, <2>3 DEF ReplyTo, Happened
  <2>4. CASE o.kind = "repeated"
    <3>1. o.of \in answered BY <2>4 DEF Outcomes
    <3>2. o.of.reply \in Status BY <3>1 DEF TypeOK
    <3>3. WasTrue(hist', o.of.reply)
      BY <3>1, <1>1 DEF AnsweredInv, WasTrue, Was
    <3>4. ReplyTo(o, c, p) = o.of.reply /\ ~Happened(o) BY <2>4 DEF ReplyTo, Happened
    <3> QED BY <2>1, <2>2, <3>2, <3>3, <3>4
  <2> QED BY <1>1, <2>3, <2>4
<1>2. CASE /\ Happened(o) /\ \A a \in answered : a.request # q
           /\ q.act # "plan" => q.gen = Gen
           /\ IF q.act \in Silent THEN UNCHANGED hist ELSE Becomes(c, p)
           /\ answered' = answered \cup {[request |-> q, reply |-> r]}
  <2>1. Grew /\ HistInv' /\ Was(hist', c, Len(hist'), p)
    <3>1. CASE q.act \in Silent
      <4>1. q.act # "plan" BY <3>1 DEF Silent
      <4>2. Was(hist, c, Gen, p) BY <4>1, <1>2, <3>1
      <4> QED BY <4>2, <3>1, <1>2, UnchangedGrew DEF HistInv, Was, Gen
    <3>2. CASE q.act \notin Silent BY <3>2, <1>2, BecomesGrew
    <3> QED BY <3>1, <3>2
  <2>2. r \in Status /\ WasTrue(hist', r)
    BY <2>1 DEF Status, Grew, HistInv, Was, WasTrue
  <2>3. answered' \subseteq [request : Requests, reply : Status]
    BY <2>2, <1>2 DEF TypeOK
  <2>4. AnsweredInv'
    <3> SUFFICES ASSUME NEW a \in answered' PROVE WasTrue(hist', a.reply)
      BY DEF AnsweredInv
    <3>1. CASE a \in answered
      BY <3>1, <2>1, WasStays DEF AnsweredInv, WasTrue
    <3>2. CASE a = [request |-> q, reply |-> r] BY <3>2, <2>2
    <3> QED BY <3>1, <3>2, <1>2
  <2>5. ReplyTo(o, c, p) = r \/ ReplyTo(o, c, p) = None
    BY <1>2 DEF ReplyTo, Happened
  <2> QED BY <1>2, <2>1, <2>2, <2>3, <2>4, <2>5
<1> QED BY <1>1, <1>2 DEF Exchange

(* What is shown was true at its generation. *)
LEMMA ShownWasTrue ==
    ASSUME Inv, Shown(projection) # None
    PROVE  /\ Shown(projection) \in Status
           /\ WasTrue(hist, Shown(projection))
           /\ PhaseShown(projection) = Shown(projection).phase
<1>1. projection \in Projection BY DEF Inv, TypeOK
<1>2. Shown(projection) \in Status BY <1>1 DEF Shown, Projection
<1>3. WasTrue(hist, Shown(projection)) BY DEF Inv, ShownInv, Shown
<1> QED BY <1>2, <1>3 DEF PhaseShown

(* A lifecycle that replaces another one is no older. *)
LEMMA MonotonicKeeps ==
    ASSUME TypeOK, NEW g \in Generations, MonotonicGeneration(projection, g), projection.lifecycle # None
    PROVE  g >= projection.lifecycle.gen
BY DEF MonotonicGeneration

(* The projection stays, or takes a lifecycle that was true. *)
LifecycleTaken ==
    \E r \in Status : /\ WasTrue(hist', r)
                      /\ MonotonicGeneration(projection, r.gen)
                      /\ projection' = [projection EXCEPT !.lifecycle = r]

LEMMA ProjectionKeeps ==
    ASSUME Inv, Grew, projection' = projection \/ LifecycleTaken,
           rec'.catalog = rec.catalog, rec'.requested = rec.requested,
           acknowledged' = acknowledged
    PROVE  projection' \in Projection /\ ShownInv' /\ CatalogInv' /\ AckInv'
<1> USE DEF Inv
<1>1. projection \in Projection /\ acknowledged \subseteq Campaign \X Generations
  BY DEF TypeOK
<1>2. CatalogInv'
  BY WasStays DEF CatalogInv
<1>3. CASE projection' = projection
  <2>1. ShownInv' BY <1>3, WasStays DEF ShownInv, WasTrue
  <2>2. AckInv' BY <1>3, WasStays DEF AckInv
  <2> QED BY <1>1, <1>2, <1>3, <2>1, <2>2
<1>4. CASE LifecycleTaken
  <2>1. PICK r \in Status : /\ WasTrue(hist', r)
                            /\ MonotonicGeneration(projection, r.gen)
                            /\ projection' = [projection EXCEPT !.lifecycle = r]
    BY <1>4 DEF LifecycleTaken
  <2>2. projection' \in Projection /\ projection'.lifecycle = r /\ projection'.plan = projection.plan
    BY <2>1, <1>1 DEF Projection
  <2>3. ShownInv'
    BY <2>1, <2>2, WasStays DEF ShownInv, WasTrue
  <2>4. AckInv'
    <3> SUFFICES ASSUME NEW a \in acknowledged
                 PROVE  /\ projection'.lifecycle # None
                        /\ Was(hist', a[1], a[2], "Complete")
                        /\ projection'.lifecycle.gen >= a[2]
                        /\ projection'.lifecycle.gen = a[2] => rec'.requested = a
      BY DEF AckInv
    <3>1. r # None /\ r.gen \in Generations BY <2>1, RecordingAssumption DEF Status
    <3>2. /\ projection.lifecycle # None /\ projection.lifecycle.gen >= a[2]
          /\ projection.lifecycle.gen = a[2] => rec.requested = a
          /\ Was(hist, a[1], a[2], "Complete")
      BY DEF AckInv
    <3>3. r.gen >= projection.lifecycle.gen BY <2>1, <3>1, <3>2, MonotonicKeeps
    <3>4. projection.lifecycle.gen \in Int /\ a[2] \in Int /\ r.gen \in Int
      BY <1>1, <3>1, <3>2 DEF Projection, Status, Generations
    <3>5. Was(hist', a[1], a[2], "Complete") BY <3>2, WasStays
    <3> QED BY <2>2, <3>1, <3>2, <3>3, <3>4, <3>5
  <2> QED BY <1>2, <2>2, <2>3, <2>4
<1> QED BY <1>3, <1>4

(* The steps that send nothing and leave the runner alone, but for polls. *)
LEMMA QuietKeeps ==
    ASSUME Inv, UNCHANGED runner, projection' = projection \/ LifecycleTaken, live' \in {live, projection'},
           rec' \in Dispatch, rec'.catalog = rec.catalog, rec'.requested = rec.requested,
           acknowledged' = acknowledged, confirmed' \subseteq Campaign, request' = None
    PROVE  Inv'
<1>1. Grew /\ HistInv' /\ AnsweredInv'
  BY UnchangedGrew DEF Inv, runner, HistInv, AnsweredInv, WasTrue, Was
<1>2. projection' \in Projection /\ ShownInv' /\ CatalogInv' /\ AckInv'
  BY <1>1, ProjectionKeeps
<1>3. TypeOK'
  BY <1>2 DEF Inv, TypeOK, runner
<1>4. ActsAsShown' BY DEF ActsAsShown
<1> QED BY <1>1, <1>2, <1>3, <1>4 DEF Inv

RequestType == [act : Mutations \cup {"replay"}, campaign : Campaign, gen : Generations,
                at : Campaign \cup {None}, phase : Phases \cup {"None"}, served : BOOLEAN]

(* A request that is carried out finds what was shown. *)
LEMMA SentAsShown ==
    ASSUME Inv, NEW s \in Status, WasTrue(hist, s), NEW o,
           NEW act \in Mutations \cup {"replay"}, s.phase \in MeantFor(act),
           o \in BOOLEAN, o => s.gen = Gen,
           Sent(act, s.campaign, s.gen, o)
    PROVE  ActsAsShown' /\ request' \in RequestType
<1>1. hist[Gen] \in HistType BY GenType DEF Inv
<1>2. request' \in RequestType
  BY <1>1 DEF Sent, RequestType, HistType, Status
<1>3. ASSUME request'.served PROVE request'.at = request'.campaign /\ request'.phase \in MeantFor(request'.act)
  <2>1. s.gen = Gen BY <1>3 DEF Sent
  <2> QED BY <2>1 DEF Sent, WasTrue, Was
<1> QED BY <1>2, <1>3 DEF ActsAsShown

(* The gates let a mutation through in the phases it is meant for. *)
LEMMA GatesMean ==
    ASSUME NEW act \in Mutations \ {"plan"}
    PROVE  Allowed(act) \subseteq MeantFor(act)
BY DEF Mutations, Allowed, MeantFor

LEMMA EffectsArePhases ==
    ASSUME NEW act \in Mutations, act \notin Silent, NEW p \in Effects(act)
    PROVE  p \in Phases
BY DEF Mutations, Silent, Effects, Phases

LEMMA SilentEffects ==
    ASSUME NEW act \in Silent, NEW p \in Effects(act)
    PROVE  p = hist[Gen].phase
BY DEF Silent, Effects

(* A mutation of what is shown: its round trip, and what it sent. *)
LEMMA MutationKeeps ==
    ASSUME Inv, Shown(projection) # None,
           NEW act \in Mutations \ {"plan"}, Requestable(act),
           NEW q, q = [act |-> act, campaign |-> Shown(projection).campaign,
                       gen |-> ExpectedGeneration(Shown(projection))],
           NEW o \in Outcomes, NEW p \in Effects(act),
           Exchange(o, q, Shown(projection).campaign, p),
           Sent(act, Shown(projection).campaign, q.gen, Happened(o))
    PROVE  /\ Grew /\ HistInv' /\ AnsweredInv'
           /\ answered' \subseteq [request : Requests, reply : Status]
           /\ ActsAsShown' /\ request' \in RequestType
           /\ LET reply == ReplyTo(o, Shown(projection).campaign, p)
              IN  Accepts(Shown(projection), reply) =>
                    reply \in Status /\ WasTrue(hist', reply) /\ MonotonicGeneration(projection, reply.gen)
<1> DEFINE s == Shown(projection)
<1>1. s \in Status /\ WasTrue(hist, s) /\ PhaseShown(projection) = s.phase
  BY ShownWasTrue
<1>2. q \in Requests /\ q.gen = s.gen /\ q.act = act /\ s.campaign \in Campaign
  BY <1>1 DEF Requests, Status, ExpectedGeneration
<1>3. act \in Silent /\ s.gen = Gen => Was(hist, s.campaign, Gen, p)
  BY <1>1, SilentEffects DEF WasTrue, Was
<1>4. act \notin Silent => p \in Phases
  BY EffectsArePhases
<1>5. /\ Grew /\ HistInv' /\ AnsweredInv'
      /\ answered' \subseteq [request : Requests, reply : Status]
      /\ Happened(o) /\ q.act # "plan" => q.gen = Gen
      /\ \/ ReplyTo(o, s.campaign, p) = None
         \/ /\ ReplyTo(o, s.campaign, p) \in Status
            /\ WasTrue(hist', ReplyTo(o, s.campaign, p))
  <2> HIDE DEF s
  <2>1. TypeOK /\ HistInv /\ AnsweredInv BY DEF Inv
  <2>2. Exchange(o, q, s.campaign, p) BY DEF s
  <2> QED BY <1>2, <1>3, <1>4, <2>1, <2>2, ExchangeKeeps
<1>6. s.phase \in MeantFor(act)
  BY <1>1, GatesMean DEF Requestable
<1>7. ActsAsShown' /\ request' \in RequestType
  <2>1. Sent(act, s.campaign, s.gen, Happened(o)) BY <1>2
  <2>2. Happened(o) => s.gen = Gen BY <1>2, <1>5
  <2>3. Happened(o) \in BOOLEAN BY DEF Happened
  <2> QED BY <1>1, <1>6, <2>1, <2>2, <2>3, SentAsShown
<1> QED BY <1>5, <1>7 DEF Accepts

(* cancel, reconcile, seal, reopen and the second press of confirm. *)
LEMMA MutateKeeps ==
    ASSUME Inv, NEW act \in Mutations \ {"plan"},
           NEW next \in Dispatch, next.catalog = rec.catalog, next.requested = rec.requested,
           Mutate(act, next)
    PROVE  Inv'
<1> DEFINE s == Shown(projection)
           q == [act |-> act, campaign |-> s.campaign, gen |-> ExpectedGeneration(s)]
<1>1. PICK o \in Outcomes, p \in Effects(act) :
         /\ Exchange(o, q, s.campaign, p)
         /\ Sent(act, s.campaign, q.gen, Happened(o))
         /\ LET reply == ReplyTo(o, s.campaign, p)
            IN  IF Accepts(s, reply)
                THEN /\ Project([projection EXCEPT !.lifecycle = reply])
                     /\ rec' = next
                ELSE UNCHANGED <<projection, live, rec>>
  BY DEF Mutate
<1>2. Requestable(act) /\ s # None /\ UNCHANGED <<others, ghosts>>
  BY DEF Mutate
<1>3. /\ Grew /\ HistInv' /\ AnsweredInv'
      /\ answered' \subseteq [request : Requests, reply : Status]
      /\ ActsAsShown' /\ request' \in RequestType
      /\ LET reply == ReplyTo(o, s.campaign, p)
         IN  Accepts(s, reply) =>
               reply \in Status /\ WasTrue(hist', reply) /\ MonotonicGeneration(projection, reply.gen)
  BY <1>1, <1>2, MutationKeeps
<1>4. /\ projection' = projection \/ LifecycleTaken
      /\ live' \in {live, projection'}
      /\ rec' \in Dispatch /\ rec'.catalog = rec.catalog /\ rec'.requested = rec.requested
  BY <1>1, <1>3 DEF Project, LifecycleTaken, Inv, TypeOK
<1>5. projection' \in Projection /\ ShownInv' /\ CatalogInv' /\ AckInv'
  BY <1>2, <1>3, <1>4, ProjectionKeeps DEF ghosts
<1>6. TypeOK'
  BY <1>2, <1>3, <1>4, <1>5 DEF Inv, TypeOK, ghosts, Grew, HistType, RequestType
<1> QED BY <1>3, <1>5, <1>6 DEF Inv

-----------------------------------------------------------------------------
LEMMA RunnerStepKeeps == ASSUME Inv, RunnerStep PROVE Inv'
<1>1. PICK c \in Campaign, p \in Phases : Becomes(c, p)
  <2>1. hist[Gen] \in HistType /\ Gen \in 1..Len(hist) BY GenType DEF Inv
  <2>2. hist[Gen].phase = "Recording" => hist[Gen].campaign \in Campaign
    BY <2>1 DEF Inv, HistInv, Phases
  <2>3. "Recording" \in Phases /\ "Cancelled" \in Phases /\ "Planned" \in Phases
        /\ {"Complete", "Incomplete", "Failed", "NeedsReconciliation"} \subseteq Phases
    BY DEF Phases
  <2> QED BY <2>1, <2>2, <2>3 DEF RunnerStep, Unplanned, HistType
<1>2. Grew /\ HistInv' BY <1>1, BecomesGrew DEF Inv
<1>3. UNCHANGED <<answered, projection, live, rec, ghosts>> /\ request' = None /\ others' \in 0..MaxOthers
  BY RecordingAssumption DEF RunnerStep, Inv, TypeOK
<1>4. AnsweredInv'
  BY <1>2, <1>3, WasStays DEF Inv, AnsweredInv, WasTrue
<1>5. projection' \in Projection /\ ShownInv' /\ CatalogInv' /\ AckInv'
  BY <1>2, <1>3, ProjectionKeeps DEF ghosts
<1>6. TypeOK' /\ ActsAsShown'
  BY <1>2, <1>3 DEF Inv, TypeOK, ghosts, Grew, HistType, ActsAsShown
<1> QED BY <1>2, <1>4, <1>5, <1>6 DEF Inv

LEMMA EstimateKeeps == ASSUME Inv, Estimate PROVE Inv'
<1>1. /\ projection' = [projection EXCEPT !.estimate = Gen] /\ live' = projection'
      /\ request' = None /\ UNCHANGED <<runner, rec, ghosts>>
  BY DEF Estimate, Project
<1>2. projection \in Projection /\ Gen \in Generations BY GenType DEF Inv, TypeOK
<1>3. /\ projection' \in Projection
      /\ projection'.lifecycle = projection.lifecycle /\ projection'.plan = projection.plan
  BY <1>1, <1>2 DEF Projection
<1>4. TypeOK' /\ ActsAsShown' BY <1>1, <1>3 DEF Inv, TypeOK, runner, ghosts, ActsAsShown
<1>5. HistInv' /\ AnsweredInv' /\ ShownInv'
  BY <1>1, <1>3 DEF Inv, HistInv, AnsweredInv, ShownInv, WasTrue, Was, runner
<1>6. CatalogInv' /\ AckInv'
  BY <1>1, <1>3 DEF Inv, CatalogInv, AckInv, Was, runner, ghosts
<1> QED BY <1>4, <1>5, <1>6 DEF Inv

LEMMA PlanKeeps == ASSUME Inv, Plan PROVE Inv'
<1> DEFINE q == [act |-> "plan", campaign |-> None,
                 gen |-> IF projection.plan = None THEN 1 ELSE projection.plan.gen]
<1>1. PICK o \in Outcomes, c \in Unplanned :
         /\ Exchange(o, q, c, "Planned")
         /\ LET reply == ReplyTo(o, c, "Planned")
            IN  IF reply # None /\ MonotonicGeneration(projection, reply.gen)
                THEN Project([projection EXCEPT !.plan = reply])
                ELSE UNCHANGED <<projection, live>>
  BY DEF Plan
<1>2. request' = None /\ UNCHANGED <<others, rec, ghosts>> BY DEF Plan
<1>3. projection \in Projection BY DEF Inv, TypeOK
<1>4. q \in Requests /\ q.act \notin Silent /\ "Planned" \in Phases /\ c \in Campaign
  BY <1>3, RecordingAssumption DEF Requests, Mutations, Silent, Phases, Unplanned, Projection, Status, Generations
<1> HIDE DEF q
<1>5. /\ Grew /\ HistInv' /\ AnsweredInv'
      /\ answered' \subseteq [request : Requests, reply : Status]
      /\ \/ ReplyTo(o, c, "Planned") = None
         \/ /\ ReplyTo(o, c, "Planned") \in Status
            /\ WasTrue(hist', ReplyTo(o, c, "Planned"))
  BY <1>1, <1>4, ExchangeKeeps DEF Inv
<1>6. /\ projection' \in Projection /\ live' \in Projection
      /\ projection'.lifecycle = projection.lifecycle
      /\ projection'.plan # None => WasTrue(hist', projection'.plan)
  <2>1. CASE projection' = projection /\ live' = live
    BY <2>1, <1>3, <1>5, WasStays DEF Inv, ShownInv, TypeOK, WasTrue
  <2>2. CASE /\ ReplyTo(o, c, "Planned") # None
             /\ projection' = [projection EXCEPT !.plan = ReplyTo(o, c, "Planned")] /\ live' = projection'
    BY <2>2, <1>3, <1>5 DEF Projection
  <2> QED BY <1>1, <2>1, <2>2 DEF Project
<1>7. ShownInv' /\ CatalogInv' /\ AckInv'
  <2>1. ShownInv' BY <1>5, <1>6, WasStays DEF Inv, ShownInv, WasTrue
  <2>2. CatalogInv' BY <1>2, <1>5, WasStays DEF Inv, CatalogInv
  <2>3. AckInv' BY <1>2, <1>5, <1>6, WasStays DEF Inv, AckInv, ghosts
  <2> QED BY <2>1, <2>2, <2>3
<1>8. TypeOK' /\ ActsAsShown'
  BY <1>2, <1>5, <1>6 DEF Inv, TypeOK, ghosts, Grew, HistType, ActsAsShown
<1> QED BY <1>5, <1>7, <1>8 DEF Inv

LEMMA ConfirmCaptureKeeps == ASSUME Inv, ConfirmCapture PROVE Inv'
<1>1. CASE /\ ~rec.armed /\ Requestable("execute")
           /\ rec' = [rec EXCEPT !.armed = TRUE]
           /\ confirmed' = confirmed \cup {Shown(projection).campaign}
           /\ Project(projection)
           /\ request' = None
           /\ UNCHANGED <<runner, acknowledged>>
  <2>1. Shown(projection) # None
    BY <1>1 DEF Requestable, PhaseShown, Allowed
  <2>2. Shown(projection).campaign \in Campaign BY <2>1, ShownWasTrue DEF Status
  <2>3. rec' \in Dispatch /\ rec'.catalog = rec.catalog /\ rec'.requested = rec.requested
    BY <1>1 DEF Inv, TypeOK, Dispatch
  <2>4. confirmed' \subseteq Campaign BY <1>1, <2>2 DEF Inv, TypeOK
  <2> QED BY <1>1, <2>3, <2>4, QuietKeeps DEF Project
<1>2. CASE rec.armed /\ Mutate("execute", [rec EXCEPT !.armed = FALSE])
  <2>1. /\ [rec EXCEPT !.armed = FALSE] \in Dispatch
        /\ [rec EXCEPT !.armed = FALSE].catalog = rec.catalog
        /\ [rec EXCEPT !.armed = FALSE].requested = rec.requested
    BY DEF Inv, TypeOK, Dispatch
  <2> QED BY <1>2, <2>1, MutateKeeps DEF Mutations
<1> QED BY <1>1, <1>2 DEF ConfirmCapture

LEMMA SimpleMutationsKeep ==
    ASSUME Inv, Cancel \/ Reconcile \/ Seal \/ Reopen
    PROVE  Inv'
<1>1. rec \in Dispatch BY DEF Inv, TypeOK
<1>2. \E act \in Mutations \ {"plan"} : Mutate(act, rec)
  BY DEF Cancel, Reconcile, Seal, Reopen, Mutations
<1> QED BY <1>1, <1>2, MutateKeeps

LEMMA ProgressKeeps == ASSUME Inv, Progress PROVE Inv'
<1> DEFINE s == Shown(projection)
<1>1. /\ Requestable("progress") /\ rec.progress < MaxProgress
      /\ hist[Gen].campaign = s.campaign
      /\ MonotonicGeneration(projection, Gen)
      /\ projection' = [projection EXCEPT !.lifecycle = StatusAt(Gen)] /\ live' = projection'
      /\ rec' = [rec EXCEPT !.progress = IF rec.progressOf = s.campaign THEN @ + 1 ELSE 1,
                            !.progressOf = s.campaign]
      /\ request' = None /\ UNCHANGED <<runner, ghosts>>
  BY DEF Progress, Project
<1>2. s # None BY <1>1 DEF Requestable, PhaseShown, Allowed
<1>3. s.campaign \in Campaign BY <1>2, ShownWasTrue DEF Status
<1>4. /\ Gen \in Generations /\ Gen \in 1..Len(hist)
      /\ hist[Gen].phase \in Phases
  BY <1>1, <1>3, GenType DEF Inv, HistInv
<1>5. StatusAt(Gen) \in Status /\ WasTrue(hist', StatusAt(Gen)) /\ StatusAt(Gen).gen = Gen
  BY <1>1, <1>3, <1>4 DEF StatusAt, Status, WasTrue, Was, runner
<1>6. LifecycleTaken BY <1>1, <1>5 DEF LifecycleTaken
<1>7. rec' \in Dispatch /\ rec'.catalog = rec.catalog /\ rec'.requested = rec.requested
  <2> DEFINE n == IF rec.progressOf = s.campaign THEN rec.progress + 1 ELSE 1
  <2>1. rec \in Dispatch BY DEF Inv, TypeOK
  <2>2. rec.progress \in 0..MaxProgress BY <2>1 DEF Dispatch
  <2>3. n \in 0..MaxProgress BY <2>2, <1>1, RecordingAssumption
  <2>4. rec' = [rec EXCEPT !.progress = n, !.progressOf = s.campaign] BY <1>1
  <2> HIDE DEF n, s
  <2> QED BY <2>1, <2>3, <2>4, <1>3 DEF Dispatch
<1>8. confirmed' \subseteq Campaign BY <1>1 DEF Inv, TypeOK, ghosts
<1> QED BY <1>1, <1>6, <1>7, <1>8, QuietKeeps DEF ghosts

LEMMA RemoveKeeps == ASSUME Inv, Remove PROVE Inv'
<1> DEFINE s == Shown(projection)
           q == [act |-> "remove", campaign |-> s.campaign, gen |-> ExpectedGeneration(s)]
<1>1. rec \in Dispatch BY DEF Inv, TypeOK
<1>2. CASE /\ ~rec.removing
           /\ rec' = [rec EXCEPT !.removing = TRUE]
           /\ Project(projection)
           /\ request' = None
           /\ UNCHANGED <<runner, ghosts>>
  <2>1. rec' \in Dispatch /\ rec'.catalog = rec.catalog /\ rec'.requested = rec.requested
    BY <1>1, <1>2 DEF Dispatch
  <2>2. confirmed' \subseteq Campaign BY <1>2 DEF Inv, TypeOK, ghosts
  <2> QED BY <1>2, <2>1, <2>2, QuietKeeps DEF Project, ghosts
<1>3. CASE /\ \E o \in Outcomes, p \in Effects("remove") :
                 /\ Exchange(o, q, s.campaign, p)
                 /\ Sent("remove", s.campaign, q.gen, Happened(o))
                 /\ IF Accepts(s, ReplyTo(o, s.campaign, p))
                    THEN Project([projection EXCEPT !.lifecycle = ReplyTo(o, s.campaign, p)])
                    ELSE UNCHANGED <<projection, live>>
           /\ rec' = [rec EXCEPT !.removing = FALSE]
           /\ UNCHANGED <<others, ghosts>>
  <2>1. PICK o \in Outcomes, p \in Effects("remove") :
                 /\ Exchange(o, q, s.campaign, p)
                 /\ Sent("remove", s.campaign, q.gen, Happened(o))
                 /\ IF Accepts(s, ReplyTo(o, s.campaign, p))
                    THEN Project([projection EXCEPT !.lifecycle = ReplyTo(o, s.campaign, p)])
                    ELSE UNCHANGED <<projection, live>>
    BY <1>3
  <2>2. Requestable("remove") /\ s # None
    BY DEF Remove, Requestable, PhaseShown, Allowed
  <2>3. /\ Grew /\ HistInv' /\ AnsweredInv'
        /\ answered' \subseteq [request : Requests, reply : Status]
        /\ ActsAsShown' /\ request' \in RequestType
        /\ LET reply == ReplyTo(o, s.campaign, p)
           IN  Accepts(s, reply) =>
                 reply \in Status /\ WasTrue(hist', reply) /\ MonotonicGeneration(projection, reply.gen)
    BY <2>1, <2>2, MutationKeeps DEF Mutations
  <2>4. rec' \in Dispatch /\ rec'.catalog = rec.catalog /\ rec'.requested = rec.requested
    BY <1>1, <1>3 DEF Dispatch
  <2>5. (projection' = projection \/ LifecycleTaken) /\ live' \in {live, projection'}
    BY <2>1, <2>3 DEF Project, LifecycleTaken
  <2>6. projection' \in Projection /\ ShownInv' /\ CatalogInv' /\ AckInv'
    BY <1>3, <2>3, <2>4, <2>5, ProjectionKeeps DEF ghosts
  <2>7. TypeOK'
    BY <1>3, <2>3, <2>4, <2>5, <2>6 DEF Inv, TypeOK, ghosts, Grew, HistType, RequestType
  <2> QED BY <2>3, <2>6, <2>7 DEF Inv
<1> QED BY <1>2, <1>3 DEF Remove

(* What a catalog read leaves in the dispatcher. *)
LEMMA ReadCatalogKeeps ==
    ASSUME TypeOK, NEW s \in Status, NEW d \in Dispatch, NEW p, ReadCatalog(s, d, p),
           Was(hist, s.campaign, s.gen, "Complete"),
           d.catalog # None => Was(hist, d.catalog.campaign, d.catalog.gen, "Complete")
    PROVE  /\ rec' \in Dispatch /\ rec'.requested = d.requested
           /\ rec'.catalog # None => Was(hist, rec'.catalog.campaign, rec'.catalog.gen, "Complete")
           /\ projection' = p /\ live' \in {live, p}
<1>1. CASE \E c \in CatalogOf(hist, s) : rec' = [d EXCEPT !.catalog = c] /\ Project(p)
  <2>1. PICK c \in CatalogOf(hist, s) : rec' = [d EXCEPT !.catalog = c] /\ Project(p)
    BY <1>1
  <2>2. c = [campaign |-> s.campaign, gen |-> s.gen] BY <2>1 DEF CatalogOf
  <2>3. c \in Catalog BY <2>2 DEF Catalog, Status
  <2>4. rec' \in Dispatch /\ rec'.requested = d.requested /\ rec'.catalog = c
    BY <2>1, <2>3 DEF Dispatch
  <2> QED BY <2>1, <2>2, <2>4 DEF Project
<1>2. CASE rec' = d /\ projection' = p /\ UNCHANGED live BY <1>2
<1> QED BY <1>1, <1>2 DEF ReadCatalog

LEMMA ActivateKeeps == ASSUME Inv, ActivateOfflineDefault PROVE Inv'
<1> DEFINE s == Shown(projection)
           q == [act |-> "offline", campaign |-> s.campaign, gen |-> ExpectedGeneration(s)]
<1>1. s # None /\ UNCHANGED <<others, confirmed>> BY DEF ActivateOfflineDefault
<1>2. s \in Status /\ WasTrue(hist, s) /\ PhaseShown(projection) = s.phase
  BY <1>1, ShownWasTrue
<1>3. rec \in Dispatch /\ TypeOK /\ CatalogInv BY DEF Inv, TypeOK
<1>4. CASE /\ rec.requested = Pair(s)
           /\ IF rec.catalog # None THEN rec' = rec /\ Project(projection)
                                    ELSE ReadCatalog(s, rec, projection)
           /\ request' = None
           /\ UNCHANGED <<hist, answered, acknowledged>>
  <2>1. Pair(s) # None /\ Pair(s)[1] = s.campaign /\ Pair(s)[2] = s.gen
    BY <1>2, RecordingAssumption DEF Pair, Status
  <2>2. Was(hist, s.campaign, s.gen, "Complete")
    BY <1>3, <1>4, <2>1 DEF CatalogInv
  <2>3. /\ rec' \in Dispatch /\ rec'.requested = rec.requested
        /\ rec'.catalog # None => Was(hist, rec'.catalog.campaign, rec'.catalog.gen, "Complete")
        /\ projection' = projection /\ live' \in {live, projection}
    <3>1. CASE rec.catalog # None BY <3>1, <1>3, <1>4 DEF Project, CatalogInv
    <3>2. CASE rec.catalog = None
      <4>1. ReadCatalog(s, rec, projection) BY <3>2, <1>4
      <4> HIDE DEF s
      <4> QED BY <3>2, <4>1, <1>2, <1>3, <2>2, ReadCatalogKeeps
    <3> QED BY <3>1, <3>2
  <2>4. HistInv' /\ AnsweredInv' /\ ShownInv' /\ CatalogInv' /\ AckInv'
    BY <1>4, <2>3 DEF Inv, HistInv, AnsweredInv, ShownInv, CatalogInv, AckInv, WasTrue, Was
  <2>5. TypeOK' /\ ActsAsShown'
    BY <1>1, <1>4, <2>3 DEF Inv, TypeOK, ActsAsShown
  <2> QED BY <2>4, <2>5 DEF Inv
<1>5. CASE /\ rec.requested # Pair(s) /\ Requestable("offline")
           /\ \E o \in Outcomes, p \in Effects("offline") :
                 /\ Exchange(o, q, s.campaign, p)
                 /\ Sent("offline", s.campaign, q.gen, Happened(o))
                 /\ LET reply == ReplyTo(o, s.campaign, p)
                    IN  IF Accepts(s, reply)
                        THEN /\ Acknowledged(s, [projection EXCEPT !.lifecycle = reply])
                             /\ acknowledged' = acknowledged \cup {Pair(s)}
                        ELSE UNCHANGED <<projection, live, rec, acknowledged>>
  <2>1. PICK o \in Outcomes, p \in Effects("offline") :
                 /\ Exchange(o, q, s.campaign, p)
                 /\ Sent("offline", s.campaign, q.gen, Happened(o))
                 /\ LET reply == ReplyTo(o, s.campaign, p)
                    IN  IF Accepts(s, reply)
                        THEN /\ Acknowledged(s, [projection EXCEPT !.lifecycle = reply])
                             /\ acknowledged' = acknowledged \cup {Pair(s)}
                        ELSE UNCHANGED <<projection, live, rec, acknowledged>>
    BY <1>5
  <2> DEFINE r == ReplyTo(o, s.campaign, p)
  <2>2. /\ Grew /\ HistInv' /\ AnsweredInv'
        /\ answered' \subseteq [request : Requests, reply : Status]
        /\ ActsAsShown' /\ request' \in RequestType
        /\ Accepts(s, r) => r \in Status /\ WasTrue(hist', r) /\ MonotonicGeneration(projection, r.gen)
    BY <1>1, <1>5, <2>1, MutationKeeps DEF Mutations
  <2>3. CASE ~Accepts(s, r)
    <3>1. UNCHANGED <<projection, live, rec, acknowledged>> BY <2>1, <2>3
    <3>2. projection' \in Projection /\ ShownInv' /\ CatalogInv' /\ AckInv'
      BY <3>1, <2>2, ProjectionKeeps
    <3>3. TypeOK'
      BY <1>1, <2>2, <3>1, <3>2 DEF Inv, TypeOK, Grew, HistType, RequestType
    <3> QED BY <2>2, <3>2, <3>3 DEF Inv
  <2>4. CASE Accepts(s, r)
    <3> DEFINE d == [rec EXCEPT !.requested = Pair(s)]
               np == [projection EXCEPT !.lifecycle = r]
    <3>1. ReadCatalog(s, d, np) /\ acknowledged' = acknowledged \cup {Pair(s)}
      BY <2>1, <2>4 DEF Acknowledged
    <3>2. /\ Pair(s) \in Campaign \X Generations
          /\ Pair(s)[1] = s.campaign /\ Pair(s)[2] = s.gen
          /\ Pair(s) = <<s.campaign, s.gen>>
      BY <1>2 DEF Pair, Status
    <3>3. d \in Dispatch /\ d.requested = Pair(s) /\ d.catalog = rec.catalog
      BY <1>3, <3>2 DEF Dispatch
    <3>4. Was(hist, s.campaign, s.gen, "Complete")
      BY <1>2, <1>5 DEF Requestable, Allowed, WasTrue
    <3>5. r \in Status /\ WasTrue(hist', r) /\ MonotonicGeneration(projection, r.gen) /\ r.gen >= s.gen
      BY <2>2, <2>4 DEF Accepts
    <3>6. np \in Projection /\ np.lifecycle = r /\ np.plan = projection.plan
      BY <1>3, <3>5 DEF TypeOK, Projection
    <3>7. /\ rec' \in Dispatch /\ rec'.requested = Pair(s)
          /\ rec'.catalog # None => Was(hist, rec'.catalog.campaign, rec'.catalog.gen, "Complete")
          /\ projection' = np /\ live' \in {live, np}
      <4>1. d.catalog # None => Was(hist, d.catalog.campaign, d.catalog.gen, "Complete")
        BY <1>3, <3>3 DEF CatalogInv
      <4> HIDE DEF d, np, s
      <4> QED BY <1>2, <1>3, <3>1, <3>3, <3>4, <4>1, ReadCatalogKeeps
    <3> HIDE DEF d, np, r
    <3>8. CatalogInv'
      BY <1>3, <2>2, <3>2, <3>4, <3>7, WasStays DEF CatalogInv
    <3>9. ShownInv'
      BY <1>3, <2>2, <3>5, <3>6, <3>7, WasStays DEF Inv, ShownInv, WasTrue
    <3>10. AckInv'
      <4> SUFFICES ASSUME NEW a \in acknowledged \cup {Pair(s)}
                   PROVE  /\ projection'.lifecycle # None
                          /\ Was(hist', a[1], a[2], "Complete")
                          /\ projection'.lifecycle.gen >= a[2]
                          /\ projection'.lifecycle.gen = a[2] => rec'.requested = a
        BY <3>1 DEF AckInv
      <4>1. r # None /\ r.gen \in Int /\ s.gen \in Int
        BY <1>2, <3>5, RecordingAssumption DEF Status, Generations
      <4>2. CASE a = Pair(s)
        BY <4>1, <4>2, <1>3, <2>2, <3>2, <3>4, <3>5, <3>6, <3>7, WasStays
      <4>3. CASE a \in acknowledged
        <5>1. /\ projection.lifecycle # None /\ projection.lifecycle.gen >= a[2]
              /\ Was(hist, a[1], a[2], "Complete") /\ a \in Campaign \X Generations
          BY <4>3 DEF Inv, AckInv, TypeOK
        <5>2. s = projection.lifecycle BY <5>1 DEF Shown
        <5>3. a[2] \in Int /\ a = <<a[1], a[2]>> BY <5>1 DEF Generations
        <5>4. r.gen >= a[2] BY <4>1, <5>1, <5>2, <5>3, <3>5
        <5>5. r.gen = a[2] => s.gen = a[2] BY <4>1, <5>1, <5>2, <5>3, <3>5
        <5>6. s.gen = a[2] => a = Pair(s)
          BY <5>1, <5>3, <3>2, <3>4 DEF Was
        <5>7. Was(hist', a[1], a[2], "Complete") BY <1>3, <2>2, <5>1, WasStays
        <5> HIDE DEF s
        <5> QED BY <4>1, <5>4, <5>5, <5>6, <5>7, <3>6, <3>7
      <4> QED BY <4>2, <4>3
    <3>11. TypeOK'
      <4>1. acknowledged' \subseteq Campaign \X Generations
        BY <1>3, <3>1, <3>2 DEF TypeOK
      <4> QED BY <4>1, <1>1, <2>2, <3>6, <3>7 DEF Inv, TypeOK, Grew, HistType, RequestType
    <3> QED BY <2>2, <3>8, <3>9, <3>10, <3>11 DEF Inv
  <2> QED BY <2>3, <2>4
<1> QED BY <1>4, <1>5 DEF ActivateOfflineDefault

LEMMA SelectKeeps == ASSUME Inv, SelectOfflineCassette PROVE Inv'
<1> DEFINE n == NextCassette(rec.catalog, rec.selected)
<1>1. rec \in Dispatch /\ rec.catalog \in Catalog BY DEF Inv, TypeOK, SelectOfflineCassette, Dispatch
<1>2. n \in Campaign \X (1..Cassettes)
  <2>1. rec.selected # None => rec.selected \in Campaign \X (1..Cassettes) BY <1>1 DEF Dispatch
  <2>2. \A k \in 1..Cassettes : (k % Cassettes) + 1 \in 1..Cassettes
    BY RecordingAssumption
  <2>3. rec.selected # None => (rec.selected[2] % Cassettes) + 1 \in 1..Cassettes BY <2>1, <2>2
  <2>4. 1 \in 1..Cassettes BY RecordingAssumption
  <2>5. rec.catalog.campaign \in Campaign BY <1>1 DEF Catalog
  <2> QED BY <2>3, <2>4, <2>5 DEF NextCassette
<1>3. rec' = [rec EXCEPT !.selected = n] BY DEF SelectOfflineCassette
<1> HIDE DEF n
<1>4. rec' \in Dispatch /\ rec'.catalog = rec.catalog /\ rec'.requested = rec.requested
  BY <1>1, <1>2, <1>3 DEF Dispatch
<1> QED BY <1>4, QuietKeeps DEF SelectOfflineCassette, Project, ghosts, Inv, TypeOK

LEMMA ReplayKeeps == ASSUME Inv, ReplaySelected PROVE Inv'
<1> DEFINE s == [campaign |-> rec.catalog.campaign, phase |-> "Complete", gen |-> rec.catalog.gen]
<1>1. PICK o \in {"refused", "served", "lost"} :
         /\ o # "refused" => ReplayGeneration(rec.catalog) = Gen
         /\ Sent("replay", rec.catalog.campaign, ReplayGeneration(rec.catalog), o # "refused")
         /\ IF o = "served" THEN Project(projection) ELSE UNCHANGED <<projection, live>>
  BY DEF ReplaySelected
<1>2. rec.catalog # None /\ UNCHANGED <<runner, rec, ghosts>> BY DEF ReplaySelected
<1>3. s \in Status /\ WasTrue(hist, s)
  BY <1>2 DEF Inv, TypeOK, Dispatch, Catalog, CatalogInv, Status, WasTrue, Phases
<1>4. ActsAsShown' /\ request' \in RequestType
  <2>1. Sent("replay", s.campaign, s.gen, o # "refused") BY <1>1 DEF ReplayGeneration
  <2>2. o # "refused" => s.gen = Gen BY <1>1 DEF ReplayGeneration
  <2>3. s.phase \in MeantFor("replay") BY DEF MeantFor
  <2> HIDE DEF s
  <2> QED BY <1>3, <2>1, <2>2, <2>3, SentAsShown
<1>5. projection' = projection /\ live' \in {live, projection} BY <1>1 DEF Project
<1>6. Grew /\ HistInv' /\ AnsweredInv'
  BY <1>2, UnchangedGrew DEF Inv, runner, HistInv, AnsweredInv, WasTrue, Was
<1>7. projection' \in Projection /\ ShownInv' /\ CatalogInv' /\ AckInv'
  BY <1>2, <1>5, <1>6, ProjectionKeeps DEF ghosts
<1>8. TypeOK' BY <1>2, <1>4, <1>5, <1>7 DEF Inv, TypeOK, runner, ghosts, RequestType
<1> QED BY <1>4, <1>6, <1>7, <1>8 DEF Inv

LEMMA PollKeeps == ASSUME Inv, Poll PROVE Inv'
<1>1. PICK g \in 1..Gen :
         /\ MonotonicGeneration(projection, g)
         /\ Project(IF hist[g].campaign = None THEN projection
                    ELSE [projection EXCEPT !.lifecycle = StatusAt(g)])
  BY DEF Poll
<1>2. request' = None /\ UNCHANGED <<runner, rec, ghosts>> BY DEF Poll
<1>3. g \in 1..Len(hist) /\ g \in Generations /\ hist[g] \in HistType
  <2>1. Len(hist) \in Generations /\ hist \in Seq(HistType) BY DEF Inv, TypeOK, HistType
  <2>2. g \in 1..Len(hist) BY DEF Gen
  <2>3. g \in Generations BY <2>1, <2>2, RecordingAssumption DEF Generations
  <2> QED BY <2>1, <2>2, <2>3
<1>4. projection' = projection \/ LifecycleTaken
  <2>1. CASE hist[g].campaign = None BY <2>1, <1>1 DEF Project
  <2>2. CASE hist[g].campaign # None
    <3>1. hist[g].campaign \in Campaign /\ hist[g].phase \in Phases
      BY <2>2, <1>3 DEF Inv, HistInv, HistType
    <3>2. StatusAt(g) \in Status /\ StatusAt(g).gen = g /\ WasTrue(hist', StatusAt(g))
      BY <3>1, <1>2, <1>3 DEF StatusAt, Status, WasTrue, Was, runner
    <3> QED BY <1>1, <2>2, <3>2 DEF LifecycleTaken, Project
  <2> QED BY <2>1, <2>2
<1>5. live' = projection' BY <1>1 DEF Project
<1> QED BY <1>2, <1>4, <1>5, QuietKeeps DEF ghosts, Inv, TypeOK

LEMMA WizardKeeps == ASSUME Inv, WizardCompletes PROVE Inv'
<1>1. /\ rec' = NewDispatch /\ acknowledged' = {} /\ projection' = projection /\ live' = projection
      /\ request' = None /\ UNCHANGED <<runner, confirmed>>
  BY DEF WizardCompletes, Project
<1>2. NewDispatch \in Dispatch /\ NewDispatch.catalog = None /\ NewDispatch.requested = None
  BY RecordingAssumption DEF NewDispatch, Dispatch
<1>3. TypeOK' /\ ActsAsShown' BY <1>1, <1>2 DEF Inv, TypeOK, runner, ActsAsShown
<1>4. HistInv' /\ AnsweredInv' /\ ShownInv' /\ CatalogInv' /\ AckInv'
  BY <1>1, <1>2 DEF Inv, HistInv, AnsweredInv, ShownInv, CatalogInv, AckInv, WasTrue, Was, runner
<1> QED BY <1>3, <1>4 DEF Inv

LEMMA InitInv == ASSUME Init PROVE Inv
<1>1. Len(hist) = 1 /\ hist \in Seq(HistType) /\ hist[1].campaign = None /\ hist[1].phase = "None"
  BY DEF Init, HistType
<1>2. 1 \in Generations BY RecordingAssumption DEF Generations
<1>3. rec \in Dispatch /\ rec.catalog = None /\ rec.requested = None
  BY RecordingAssumption DEF Init, NewDispatch, Dispatch
<1>4. projection \in Projection /\ projection.plan = None /\ projection.lifecycle = None /\ live = projection
  BY DEF Init, Projection
<1>5. TypeOK BY <1>1, <1>2, <1>3, <1>4, RecordingAssumption DEF Init, TypeOK, HistType
<1>6. HistInv
  BY <1>1, RecordingAssumption DEF HistInv, Phases
<1> QED BY <1>3, <1>4, <1>5, <1>6 DEF Init, Inv, ShownInv, AnsweredInv, CatalogInv, AckInv, ActsAsShown

LEMMA NextInv == ASSUME Inv, [Next]_vars PROVE Inv'
<1>1. CASE UNCHANGED vars
  BY <1>1 DEF vars, ghosts, Inv, TypeOK, HistInv, ShownInv, AnsweredInv, CatalogInv, AckInv, ActsAsShown, WasTrue, Was
<1>2. CASE Next
  BY <1>2, RunnerStepKeeps, EstimateKeeps, PlanKeeps, ConfirmCaptureKeeps, ProgressKeeps,
     SimpleMutationsKeep, RemoveKeeps, ActivateKeeps, SelectKeeps, ReplayKeeps, PollKeeps, WizardKeeps DEF Next
<1> QED BY <1>1, <1>2

-----------------------------------------------------------------------------
(* No step replaces a lifecycle by an older one. *)
LEMMA LifecycleStep ==
    ASSUME Inv, [Next]_vars, projection.lifecycle # None
    PROVE  projection'.lifecycle # None /\ projection'.lifecycle.gen >= projection.lifecycle.gen
<1>1. projection \in Projection /\ projection.lifecycle \in Status /\ projection.lifecycle.gen \in Int
  BY DEF Inv, TypeOK, Projection, Status, Generations
<1>2. projection.lifecycle.gen >= projection.lifecycle.gen BY <1>1
<1>3. ASSUME projection'.lifecycle = projection.lifecycle
      PROVE  projection'.lifecycle # None /\ projection'.lifecycle.gen >= projection.lifecycle.gen
  BY <1>2, <1>3
<1>4. ASSUME NEW r \in Status, projection' = [projection EXCEPT !.lifecycle = r],
             MonotonicGeneration(projection, r.gen)
      PROVE  projection'.lifecycle # None /\ projection'.lifecycle.gen >= projection.lifecycle.gen
  <2>1. projection'.lifecycle = r BY <1>1, <1>4 DEF Projection
  <2>2. r # None /\ r.gen \in Generations BY RecordingAssumption DEF Status
  <2> QED BY <1>4, <2>1, <2>2, MonotonicKeeps DEF Inv
<1>5. CASE UNCHANGED projection BY <1>3, <1>5
<1>6. CASE Estimate
  BY <1>1, <1>3, <1>6 DEF Estimate, Project, Projection
<1>7. CASE Plan
  BY <1>1, <1>3, <1>7 DEF Plan, Project, Projection
<1>8. ASSUME NEW act \in Mutations \ {"plan"}, NEW next, Mutate(act, next)
      PROVE  projection'.lifecycle # None /\ projection'.lifecycle.gen >= projection.lifecycle.gen
  <2> DEFINE s == Shown(projection)
             q == [act |-> act, campaign |-> s.campaign, gen |-> ExpectedGeneration(s)]
  <2>1. PICK o \in Outcomes, p \in Effects(act) :
           /\ Exchange(o, q, s.campaign, p)
           /\ Sent(act, s.campaign, q.gen, Happened(o))
           /\ LET reply == ReplyTo(o, s.campaign, p)
              IN  IF Accepts(s, reply)
                  THEN Project([projection EXCEPT !.lifecycle = reply])
                  ELSE UNCHANGED projection
    BY <1>8 DEF Mutate
  <2>2. Requestable(act) /\ s # None BY <1>8 DEF Mutate
  <2>3. Accepts(s, ReplyTo(o, s.campaign, p)) => ReplyTo(o, s.campaign, p) \in Status
    BY <2>1, <2>2, MutationKeeps
  <2> QED BY <2>1, <2>3, <1>3, <1>4 DEF Project, Accepts
<1>9. CASE Remove
  <2> DEFINE s == Shown(projection)
             q == [act |-> "remove", campaign |-> s.campaign, gen |-> ExpectedGeneration(s)]
  <2>1. CASE projection' = projection BY <1>3, <2>1
  <2>2. CASE \E o \in Outcomes, p \in Effects("remove") :
                /\ Exchange(o, q, s.campaign, p)
                /\ Sent("remove", s.campaign, q.gen, Happened(o))
                /\ Accepts(s, ReplyTo(o, s.campaign, p))
                /\ projection' = [projection EXCEPT !.lifecycle = ReplyTo(o, s.campaign, p)]
    <3>1. PICK o \in Outcomes, p \in Effects("remove") :
                /\ Exchange(o, q, s.campaign, p)
                /\ Sent("remove", s.campaign, q.gen, Happened(o))
                /\ Accepts(s, ReplyTo(o, s.campaign, p))
                /\ projection' = [projection EXCEPT !.lifecycle = ReplyTo(o, s.campaign, p)]
      BY <2>2
    <3>2. Requestable("remove") /\ s # None
      BY <1>9 DEF Remove, Requestable, PhaseShown, Allowed
    <3>3. ReplyTo(o, s.campaign, p) \in Status
      BY <3>1, <3>2, MutationKeeps DEF Mutations
    <3> QED BY <3>1, <3>3, <1>4 DEF Accepts
  <2> QED BY <1>9, <2>1, <2>2 DEF Remove, Project
<1>10. CASE ActivateOfflineDefault
  <2> DEFINE s == Shown(projection)
             q == [act |-> "offline", campaign |-> s.campaign, gen |-> ExpectedGeneration(s)]
  <2>1. CASE projection' = projection BY <1>3, <2>1
  <2>2. CASE /\ Requestable("offline")
             /\ \E o \in Outcomes, p \in Effects("offline") :
                   /\ Exchange(o, q, s.campaign, p)
                   /\ Sent("offline", s.campaign, q.gen, Happened(o))
                   /\ Accepts(s, ReplyTo(o, s.campaign, p))
                   /\ projection' = [projection EXCEPT !.lifecycle = ReplyTo(o, s.campaign, p)]
    <3>1. PICK o \in Outcomes, p \in Effects("offline") :
                /\ Exchange(o, q, s.campaign, p)
                /\ Sent("offline", s.campaign, q.gen, Happened(o))
                /\ Accepts(s, ReplyTo(o, s.campaign, p))
                /\ projection' = [projection EXCEPT !.lifecycle = ReplyTo(o, s.campaign, p)]
      BY <2>2
    <3>2. s # None BY <1>10 DEF ActivateOfflineDefault
    <3>3. ReplyTo(o, s.campaign, p) \in Status
      BY <2>2, <3>1, <3>2, MutationKeeps DEF Mutations
    <3> QED BY <3>1, <3>3, <1>4 DEF Accepts
  <2> QED BY <1>10, <2>1, <2>2 DEF ActivateOfflineDefault, Project, Acknowledged, ReadCatalog
<1>11. CASE ConfirmCapture
  BY <1>3, <1>8, <1>11 DEF ConfirmCapture, Project, Mutations
<1>12. CASE Cancel \/ Reconcile \/ Seal \/ Reopen
  BY <1>8, <1>12 DEF Cancel, Reconcile, Seal, Reopen, Mutations
<1>13. CASE Progress \/ Poll
  <2>1. Inv' BY <1>13, ProgressKeeps, PollKeeps
  <2>2. CASE projection' = projection BY <2>2, <1>3
  <2>3. CASE \E g \in 1..Gen : /\ hist[g].campaign # None
                               /\ projection' = [projection EXCEPT !.lifecycle = StatusAt(g)]
                               /\ MonotonicGeneration(projection, g)
    <3>1. PICK g \in 1..Gen : /\ hist[g].campaign # None
                              /\ projection' = [projection EXCEPT !.lifecycle = StatusAt(g)]
                              /\ MonotonicGeneration(projection, g)
      BY <2>3
    <3>2. Len(hist) \in Generations /\ hist \in Seq(HistType) /\ g \in 1..Len(hist)
      BY DEF Inv, TypeOK, HistType, Gen
    <3>3. g \in Generations /\ hist[g] \in HistType BY <3>2, RecordingAssumption DEF Generations
    <3>4. hist[g].campaign \in Campaign /\ hist[g].phase \in Phases
      BY <3>1, <3>2, <3>3 DEF HistType, Inv, HistInv
    <3>5. StatusAt(g) \in Status /\ StatusAt(g).gen = g BY <3>3, <3>4 DEF StatusAt, Status
    <3> QED BY <3>1, <3>5, <1>4
  <2>4. CASE Progress
    <3>1. Shown(projection) # None BY <2>4 DEF Progress, Requestable, PhaseShown, Allowed
    <3>2. Shown(projection).campaign # None
      BY <3>1, ShownWasTrue, RecordingAssumption DEF Status
    <3>3. Gen \in 1..Gen BY GenType DEF Inv, Gen
    <3> QED BY <2>3, <2>4, <3>2, <3>3 DEF Progress, Project
  <2>5. CASE Poll BY <2>2, <2>3, <2>5 DEF Poll, Project
  <2> QED BY <1>13, <2>4, <2>5
<1>14. CASE RunnerStep \/ SelectOfflineCassette \/ ReplaySelected \/ WizardCompletes
  BY <1>3, <1>14 DEF RunnerStep, SelectOfflineCassette, ReplaySelected, WizardCompletes, Project
<1> QED BY <1>5, <1>6, <1>7, <1>9, <1>10, <1>11, <1>12, <1>13, <1>14 DEF Next, vars

(* No step sends an activation that has been acknowledged. *)
LEMMA ActivationStep ==
    ASSUME Inv, Next, request' # None, request'.act = "offline"
    PROVE  <<request'.campaign, request'.gen>> \notin acknowledged
<1> DEFINE s == Shown(projection)
<1>0. ASSUME NEW act, NEW c, NEW g, NEW o, Sent(act, c, g, o)
      PROVE  request'.act = act /\ request'.campaign = c /\ request'.gen = g
  BY <1>0 DEF Sent
<1>1. ActivateOfflineDefault
  <2>1. ASSUME NEW act, NEW next, Mutate(act, next) PROVE request'.act = act
    BY <2>1 DEF Mutate, Sent
  <2>2. ~(ConfirmCapture \/ Cancel \/ Reconcile \/ Seal \/ Reopen)
    BY <2>1 DEF ConfirmCapture, Cancel, Reconcile, Seal, Reopen
  <2>3. ~(Remove \/ ReplaySelected) BY <1>0 DEF Remove, ReplaySelected
  <2>4. ~(RunnerStep \/ Estimate \/ Plan \/ Progress \/ SelectOfflineCassette \/ Poll \/ WizardCompletes)
    BY DEF RunnerStep, Estimate, Plan, Progress, SelectOfflineCassette, Poll, WizardCompletes
  <2> QED BY <2>2, <2>3, <2>4 DEF Next
<1>2. /\ s # None /\ rec.requested # Pair(s)
      /\ request'.campaign = s.campaign /\ request'.gen = s.gen
  <2> DEFINE q == [act |-> "offline", campaign |-> s.campaign, gen |-> ExpectedGeneration(s)]
  <2>1. /\ s # None /\ rec.requested # Pair(s)
        /\ \E o \in Outcomes : Sent("offline", s.campaign, q.gen, Happened(o))
    BY <1>1 DEF ActivateOfflineDefault
  <2>2. q.gen = s.gen BY DEF ExpectedGeneration
  <2> HIDE DEF s, q
  <2> QED BY <1>0, <2>1, <2>2
<1>3. s \in Status BY <1>2, ShownWasTrue
<1> SUFFICES ASSUME Pair(s) \in acknowledged PROVE FALSE BY <1>2 DEF Pair
<1>4. Pair(s)[2] = s.gen BY DEF Pair
<1>5. /\ projection.lifecycle # None
      /\ projection.lifecycle.gen = s.gen => rec.requested = Pair(s)
  BY <1>4 DEF Inv, AckInv
<1> QED BY <1>2, <1>5 DEF Shown

-----------------------------------------------------------------------------
LEMMA Invariance == Spec => []Inv
BY InitInv, NextInv, PTL DEF Spec

(* Every variable keeps its type: the frontend never holds a status of a      *)
(* campaign or generation the runner cannot have, and the progress budget and *)
(* the cassette selection stay within their limits.                           *)
THEOREM RecordingTypes == Spec => []TypeOK
<1>1. Inv => TypeOK BY DEF Inv
<1> QED BY <1>1, Invariance, PTL

(* Whatever was lost, repeated or late, a mutation or a replay that the       *)
(* runner carries out finds the campaign it names in a phase it is meant for, *)
(* for any number of campaigns and generations (recording_mutation's          *)
(* expected_generation, replay_dispatch's catalog generation).                *)
THEOREM RequestsActAsShown == Spec => []ActsAsShown
<1>1. Inv => ActsAsShown BY DEF Inv
<1> QED BY <1>1, Invariance, PTL

(* require_monotonic_generation keeps the lifecycle that is shown from going  *)
(* back, whatever a poll or a repeated reply delivers.                        *)
THEOREM LifecycleIsMonotonic == Spec => LifecycleNeverGoesBack
<1>1. Inv /\ [Next]_vars => [projection.lifecycle # None =>
          /\ projection'.lifecycle # None
          /\ projection'.lifecycle.gen >= projection.lifecycle.gen]_vars
  BY LifecycleStep
<1> QED BY <1>1, Invariance, PTL DEF Spec, LifecycleNeverGoesBack

(* An acknowledged activation of a campaign at a generation is not sent       *)
(* again, even when the catalog read after it failed (offline_activation_     *)
(* requested is set before the read).                                         *)
THEOREM ActivationIsSentOnce == Spec => ActivatedOnce
<1>1. Inv /\ [Next]_vars => [(request' # None /\ request'.act = "offline")
          => <<request'.campaign, request'.gen>> \notin acknowledged]_vars
  BY ActivationStep
<1> QED BY <1>1, Invariance, PTL DEF Spec, ActivatedOnce
=============================================================================
