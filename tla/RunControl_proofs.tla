-------------------------- MODULE RunControl_proofs --------------------------
(***************************************************************************)
(* Proofs about RunControl, for any runs, revisions, catalogs, runs of     *)
(* other frontends and timeouts.  Whatever is under way on the stream, was *)
(* read from it or is shown of it was said by the runner, and what the     *)
(* runner says of a run that has ended stays true: so a reply may be late, *)
(* repeated or taken for another one's without becoming wrong.             *)
(***************************************************************************)
EXTENDS RunControl, FiniteSetTheorems, WellFoundedInduction, TLAPS

Pages == [Run -> Summary \cup {None}]
Requests == [call : Calls, arg : Run \cup Generations \cup {None}, key : {0}]
Replies == [call : Calls, ok : BOOLEAN, body : Pages \cup Generations \cup Summary \cup {None}]

Projections == [runs : Pages, generation : Generations]

Exists(rs, r) == r \in Run /\ rs[r] # None

(* A summary is of a run that exists, and an end it tells of is its end. *)
TrueSummary(rs, s) ==
    /\ s.attempt = s.run /\ Exists(rs, s.run)
    /\ s.state \in Ended => rs[s.run].state = s.state

TruePage(rs, page) == \A r \in Run : page[r] # None => page[r].run = r /\ TrueSummary(rs, page[r])

GoodRequest(rs, q) ==
    /\ q.call = "cancel" => Exists(rs, q.arg)
    /\ q.call = "create_plan" => q.arg \in Generations

GoodReply(rs, a) ==
    /\ a.call = "history" => a.body \in Pages /\ TruePage(rs, a.body)
    /\ a.call = "catalogs" => a.body \in Generations
    /\ a.call = "launch" /\ a.ok => a.body \in Summary /\ TrueSummary(rs, a.body)

StreamInv ==
    /\ inbox \in Seq(Requests) /\ \A i \in 1..Len(inbox) : GoodRequest(runs, inbox[i])
    /\ outbox \in Seq(Replies) /\ \A i \in 1..Len(outbox) : GoodReply(runs, outbox[i])

ProjectionInv == TruePage(runs, projection.runs) /\ TruePage(runs, next.runs)

(* The projection q is not behind p. *)
Ahead(p, q) ==
    /\ q.generation >= p.generation
    /\ \A r \in Run : p.runs[r] # None => q.runs[r] # None /\ q.runs[r].revision >= p.runs[r].revision

(* An operation has calls left and a launch it is about. *)
OperationInv ==
    /\ op = "none" => todo = <<>> /\ ~sent
    /\ op # "none" => todo # <<>> /\ launch # None
    /\ \A i \in 1..Len(todo) : todo[i] = "cancel" => Exists(runs, launch.run)

(* What the screen says of the end of the run is true. *)
LaunchTrue(rs, l) ==
    /\ l.generation \in Generations
    /\ l.state \in Terminal \ {"Failed"} =>
          Exists(rs, l.run) /\ state_for_public[rs[l.run].state] = l.state
LaunchInv == launch # None => LaunchTrue(runs, launch)

(* The runs are those of other frontends and the one launched under the key  *)
(* every launch of this frontend is sent with.                               *)
Started(rs) == {r \in Run : rs[r] # None}
CountInv ==
    /\ launched[0] # None => Exists(runs, launched[0])
    /\ IsFiniteSet(Started(runs))
    /\ Cardinality(Started(runs)) = others + (IF launched[0] = None THEN 0 ELSE 1)

Inv == /\ TypeOK
       /\ StreamInv
       /\ ProjectionInv
       /\ Ahead(projection, next)
       /\ OperationInv
       /\ LaunchInv
       /\ CountInv

-----------------------------------------------------------------------------
(* What stays true *)

(* Runs do not vanish, and an end is an end. *)
Grew(rs, rt) ==
    /\ rt \in [Run -> RunRecord \cup {None}]
    /\ \A r \in Run : rs[r] # None =>
          rt[r] # None /\ (rs[r].state \in Ended => rt[r].state = rs[r].state)

(* The public states whose screen states are terminal are those of an end. *)
LEMMA EndedStates ==
    \A s \in PublicRunStates :
        /\ state_for_public[s] \in RunStates
        /\ state_for_public[s] \in Terminal <=> s \in Ended
BY DEF PublicRunStates, state_for_public, Terminal, Ended, RunStates

LEMMA SummaryStays ==
    ASSUME NEW rs, NEW rt, Grew(rs, rt), NEW s, TrueSummary(rs, s)
    PROVE  TrueSummary(rt, s)
BY DEF Grew, TrueSummary, Exists

LEMMA PageStays ==
    ASSUME NEW rs, NEW rt, Grew(rs, rt), NEW page, TruePage(rs, page)
    PROVE  TruePage(rt, page)
BY SummaryStays DEF TruePage

LEMMA RequestStays ==
    ASSUME NEW rs, NEW rt, Grew(rs, rt), NEW q, GoodRequest(rs, q)
    PROVE  GoodRequest(rt, q)
BY DEF GoodRequest, Exists, Grew

LEMMA ReplyStays ==
    ASSUME NEW rs, NEW rt, Grew(rs, rt), NEW a, GoodReply(rs, a)
    PROVE  GoodReply(rt, a)
BY SummaryStays, PageStays DEF GoodReply

LEMMA LaunchStays ==
    ASSUME NEW rs \in [Run -> RunRecord \cup {None}], NEW rt, Grew(rs, rt),
           NEW l \in LaunchStates, LaunchTrue(rs, l)
    PROVE  LaunchTrue(rt, l)
<1>1. CASE l.state \in Terminal \ {"Failed"}
  <2>1. rs[l.run] \in RunRecord /\ rs[l.run].state \in PublicRunStates
    BY <1>1 DEF LaunchTrue, Exists, RunRecord
  <2>2. rs[l.run].state \in Ended
    BY <1>1, <2>1, EndedStates DEF LaunchTrue
  <2> QED BY <1>1, <2>1, <2>2 DEF LaunchTrue, Exists, Grew
<1> QED BY <1>1 DEF LaunchTrue

(* A runner that does not change has grown. *)
LEMMA SameGrew ==
    ASSUME TypeOK, runs' = runs
    PROVE  Grew(runs, runs')
BY DEF TypeOK, Grew

-----------------------------------------------------------------------------
(* The launch state *)

LEMMA RequestsKeepLaunch ==
    ASSUME NEW rs, NEW l \in LaunchStates, LaunchTrue(rs, l),
           NEW k \in {begin_launch(l), request_cancel(l), mark_failed(l), reconnect_started(l),
                      reconnect_started(disconnected(l)), reconnect_complete(l, NegotiatedRevision)}
    PROVE  k \in LaunchStates /\ LaunchTrue(rs, k) /\ k.run = l.run /\ k # None
<1> USE LaunchStateAssumption, RunControlAssumption
<1>1. k \in LaunchStates /\ k.run = l.run /\ k.generation = l.generation
  <2>1. CASE k = reconnect_complete(l, NegotiatedRevision)
    BY <2>1 DEF reconnect_complete, NegotiatedRevision, LaunchStates
  <2>2. CASE k \in {begin_launch(l), request_cancel(l), mark_failed(l)}
    BY <2>2 DEF begin_launch, request_cancel, mark_failed, LaunchStates, RunStates
  <2>3. CASE k \in {reconnect_started(l), reconnect_started(disconnected(l))}
    BY <2>3 DEF reconnect_started, disconnected, LaunchStates
  <2> QED BY <2>1, <2>2, <2>3
<1>2. k.state = l.state \/ k.state \notin Terminal \ {"Failed"}
  BY DEF begin_launch, request_cancel, mark_failed, reconnect_started, disconnected,
     reconnect_complete, LaunchStates, Terminal
<1> QED BY <1>1, <1>2 DEF LaunchTrue

(* A summary that the runner gave keeps the screen right, whichever of the   *)
(* checks of apply_event it fails.                                           *)
LEMMA ObserveKeepsLaunch ==
    ASSUME NEW rs, NEW l \in LaunchStates, LaunchTrue(rs, l), NEW s \in Summary, TrueSummary(rs, s)
    PROVE  LET k == observe_summary(l, s, Measures)
           IN  k \in LaunchStates /\ LaunchTrue(rs, k)
<1> DEFINE e == SummaryEvent(l, s, Measures)
           k == apply_event(l, e)
<1> USE LaunchStateAssumption, RunControlAssumption
<1>1. /\ e \in LiveRunEvent
      /\ e.run = s.run /\ e.attempt = s.attempt /\ e.state = s.state /\ e.generation = l.generation
  BY DEF SummaryEvent, LiveRunEvent, LaunchStates, Provenances, Summary
<1>2. observe_summary(l, s, Measures) = k
  BY DEF observe_summary
<1> HIDE DEF e, k
<1>3. CASE k = l
  BY <1>3, <1>2
<1>4. CASE ~Outdated(l, e) /\ ~WrongRun(l, e) /\ k \in {BindRun(l, e), BindAttempt(l, e)}
  <2>1. /\ k \in LaunchStates /\ k.run = e.run
        /\ k.generation = l.generation /\ k.state = l.state
    <3>1. CASE k = BindRun(l, e)
      BY <1>1, <3>1 DEF BindRun, LaunchStates, LiveRunEvent
    <3>2. CASE k = BindAttempt(l, e)
      BY <1>1, <3>2 DEF BindAttempt, LaunchStates, LiveRunEvent
    <3> QED BY <1>4, <3>1, <3>2
  <2>2. l.run \in {None, e.run} /\ None \notin Run
    BY <1>4 DEF WrongRun
  <2> QED BY <1>2, <2>1, <2>2 DEF LaunchTrue, Exists
<1>5. CASE k = [BindAttempt(l, e) EXCEPT !.last = e.revision,
                                         !.state = state_for_public[e.state],
                                         !.statistics = StatisticsOf(e)]
  <2>1. /\ k \in LaunchStates /\ k.run = e.run
        /\ k.generation = l.generation /\ k.state = state_for_public[s.state]
    BY <1>1, <1>5, EndedStates DEF BindAttempt, LaunchStates, LiveRunEvent, StatisticsOf, LiveStatistics
  <2>2. k.state \in Terminal => rs[k.run].state = s.state
    BY <1>1, <2>1, EndedStates DEF TrueSummary, Summary
  <2> QED BY <1>1, <1>2, <2>1, <2>2 DEF LaunchTrue, TrueSummary
<1> QED BY <1>3, <1>4, <1>5 DEF k, apply_event

-----------------------------------------------------------------------------
(* The projection *)

(* Numbers below a bound have a greatest one. *)
LEMMA GreatestExists ==
    ASSUME NEW m \in Nat, NEW S, NEW f \in [S -> 0..m], S # {}
    PROVE  \E x \in S : \A y \in S : f[y] <= f[x]
<1> DEFINE T == {m - f[x] : x \in S}
           R == OpToRel(<, Nat)
<1>1. T \subseteq Nat /\ T # {}
  OBVIOUS
<1>2. IsWellFoundedOn(R, Nat)
  BY NatLessThanWellFounded
<1>3. \E t \in T : \A u \in T : ~(<<u, t>> \in R)
  <2> HIDE DEF T, R
  <2> QED BY <1>1, <1>2, WFMin
<1>4. PICK t \in T : \A u \in T : ~(<<u, t>> \in R)
  BY <1>3
<1>5. \A u \in T : ~(u < t)
  BY <1>4, <1>1 DEF OpToRel
<1>6. PICK x \in S : t = m - f[x]
  BY <1>4
<1>7. ASSUME NEW y \in S
      PROVE  f[y] <= f[x]
  <2>1. m - f[y] \in T /\ f[y] \in 0..m /\ f[x] \in 0..m
    OBVIOUS
  <2> HIDE DEF T, R
  <2>2. ~(m - f[y] < t)
    BY <2>1, <1>5
  <2> QED BY <2>1, <2>2, <1>6
<1> QED BY <1>7

(* The run the screen looks at is one of the projection. *)
LEMMA FirstIsKnown ==
    ASSUME NEW p \in Projections, Known(p) # {}
    PROVE  \E r \in Run : p.runs[r] # None /\ First(p) = p.runs[r]
<1> DEFINE f == [r \in Known(p) |-> p.runs[r].revision]
<1>1. f \in [Known(p) -> 0..MaxRevision]
  BY DEF Known, Projections, Pages, Summary
<1>2. \E r \in Known(p) : \A s \in Known(p) : f[s] <= f[r]
  <2> HIDE DEF f
  <2> QED BY <1>1, GreatestExists, RunControlAssumption
<1>3. \E r \in Known(p) : \A s \in Known(p) : p.runs[s].revision <= p.runs[r].revision
  BY <1>2
<1> HIDE DEF f
<1> DEFINE c == CHOOSE r \in Known(p) : \A s \in Known(p) : p.runs[s].revision <= p.runs[r].revision
<1>4. c \in Known(p)
  BY <1>3
<1>5. First(p) = p.runs[c]
  BY DEF First
<1> QED BY <1>4, <1>5 DEF Known

LEMMA ObservedKeepsLaunch ==
    ASSUME NEW rs, NEW p \in Projections, TruePage(rs, p.runs),
           NEW l \in LaunchStates, LaunchTrue(rs, l)
    PROVE  Observed(p, l) \in LaunchStates /\ LaunchTrue(rs, Observed(p, l))
<1>1. CASE Known(p) = {}
  BY <1>1 DEF Observed
<1>2. CASE Known(p) # {}
  <2>1. PICK r \in Run : p.runs[r] # None /\ First(p) = p.runs[r]
    BY <1>2, FirstIsKnown
  <2>2. First(p) \in Summary /\ TrueSummary(rs, First(p))
    BY <2>1 DEF TruePage, Projections, Pages
  <2>3. Observed(p, l) = observe_summary(l, First(p), Measures)
    BY <1>2, RunControlAssumption DEF Observed
  <2> QED BY <2>2, <2>3, ObserveKeepsLaunch
<1> QED BY <1>1, <1>2

(* A reply that apply takes brings the projection forward, and nothing into  *)
(* it that is not true.                                                      *)
LEMMA ApplyGoesForward ==
    ASSUME NEW rs, NEW p \in Projections, TruePage(rs, p.runs),
           NEW a \in Replies, GoodReply(rs, a), a.ok, ~Refuses(p, a)
    PROVE  /\ apply(p, a) \in Projections
           /\ TruePage(rs, apply(p, a).runs)
           /\ Ahead(p, apply(p, a))
<1> DEFINE q == apply(p, a)
<1> SUFFICES q \in Projections /\ TruePage(rs, q.runs) /\ Ahead(p, q)
  OBVIOUS
<1>a. /\ p.generation \in Nat
      /\ \A r \in Run : p.runs[r] # None => p.runs[r] \in Summary /\ p.runs[r].revision \in Nat
  BY DEF Projections, Pages, Summary, Generations
<1>1. CASE a.call = "history"
  <2>1. /\ q \in Projections
        /\ q.generation = p.generation
        /\ \A r \in Run : q.runs[r] = IF a.body[r] = None THEN p.runs[r] ELSE a.body[r]
    BY <1>1 DEF apply, GoodReply, Projections, Pages
  <2>2. TruePage(rs, q.runs)
    <3> HIDE DEF q
    <3> QED BY <1>1, <2>1 DEF TruePage, GoodReply
  <2>3. \A r \in Run : a.body[r] # None /\ p.runs[r] # None => a.body[r].revision >= p.runs[r].revision
    <3>1. \A r \in Run : a.body[r] # None => ~StaleRun(p, a.body[r]) /\ a.body[r].run = r
                                             /\ a.body[r].revision \in Nat
      BY <1>1 DEF Refuses, Listed, GoodReply, TruePage, Pages, Summary
    <3> QED BY <3>1, <1>a DEF StaleRun
  <2>4. Ahead(p, q)
    <3> HIDE DEF q
    <3> QED BY <1>a, <2>1, <2>3 DEF Ahead
  <2> QED BY <2>1, <2>2, <2>4
<1>2. CASE a.call = "catalogs"
  <2>1. q = [p EXCEPT !.generation = a.body] /\ a.body \in Generations /\ ~(a.body < p.generation)
    BY <1>2 DEF apply, GoodReply, Refuses
  <2> HIDE DEF q
  <2> QED BY <1>a, <2>1 DEF Ahead, Projections, Generations
<1>3. CASE a.call = "launch"
  <2>1. /\ q = [p EXCEPT !.runs[a.body.run] = a.body]
        /\ a.body \in Summary /\ TrueSummary(rs, a.body) /\ ~StaleRun(p, a.body)
    BY <1>3 DEF apply, GoodReply, Refuses
  <2> HIDE DEF q
  <2>2. /\ q \in Projections /\ q.generation = p.generation
        /\ \A r \in Run : q.runs[r] = IF r = a.body.run THEN a.body ELSE p.runs[r]
    BY <2>1 DEF Projections, Pages, Summary
  <2>3. TruePage(rs, q.runs)
    BY <2>1, <2>2 DEF TruePage
  <2>4. Ahead(p, q)
    BY <1>a, <2>1, <2>2, RunControlAssumption DEF Ahead, StaleRun, Summary
  <2> QED BY <2>2, <2>3, <2>4
<1>4. CASE a.call \notin {"history", "catalogs", "launch"}
  <2>1. q = p
    BY <1>4 DEF apply
  <2> HIDE DEF q
  <2> QED BY <1>a, <2>1 DEF Ahead
<1> QED BY <1>1, <1>2, <1>3, <1>4

-----------------------------------------------------------------------------
(* The runner *)

LEMMA RunMoves ==
    ASSUME Inv, NEW r \in Run, runs[r] # None, runs[r].state \notin Ended, revision < MaxRevision,
           NEW s \in PublicRunStates,
           runs' = [runs EXCEPT ![r].state = s, ![r].revision = revision + 1]
    PROVE  Grew(runs, runs') /\ Started(runs') = Started(runs) /\ revision + 1 \in 0..MaxRevision
<1> USE RunControlAssumption
<1>1. revision + 1 \in 0..MaxRevision
  BY DEF Inv, TypeOK
<1>2. runs[r] \in RunRecord /\ runs \in [Run -> RunRecord \cup {None}]
  BY DEF Inv, TypeOK
<1>3. runs' = [runs EXCEPT ![r] = [runs[r] EXCEPT !.state = s, !.revision = revision + 1]]
  BY <1>2
<1> DEFINE n == [runs[r] EXCEPT !.state = s, !.revision = revision + 1]
<1>4. n \in RunRecord
  BY <1>1, <1>2 DEF RunRecord
<1> HIDE DEF n
<1>5. \A q \in Run : runs'[q] = IF q = r THEN n ELSE runs[q]
  BY <1>2, <1>3 DEF n
<1>6. runs' \in [Run -> RunRecord \cup {None}]
  BY <1>2, <1>3, <1>4 DEF n
<1> QED BY <1>1, <1>4, <1>5, <1>6 DEF Grew, Started

LEMMA RunBegins ==
    ASSUME Inv, NEW r \in Run, NewRun(r)
    PROVE  /\ Grew(runs, runs') /\ runs'[r] \in RunRecord /\ runs'[r].state = "Planned"
           /\ revision' \in 0..MaxRevision
           /\ Exists(runs', r)
           /\ IsFiniteSet(Started(runs'))
           /\ Cardinality(Started(runs')) = Cardinality(Started(runs)) + 1
<1> USE RunControlAssumption
<1>1. revision' \in 0..MaxRevision /\ runs \in [Run -> RunRecord \cup {None}] /\ runs[r] = None
  BY DEF Inv, TypeOK, NewRun
<1> DEFINE n == [state |-> "Planned", revision |-> revision + 1, created |-> revision + 1]
<1>2. n \in RunRecord /\ n.state = "Planned"
  BY <1>1 DEF RunRecord, PublicRunStates, NewRun
<1>3. runs' = [runs EXCEPT ![r] = n]
  BY DEF NewRun
<1> HIDE DEF n
<1>4. /\ runs' \in [Run -> RunRecord \cup {None}]
      /\ \A q \in Run : runs'[q] = IF q = r THEN n ELSE runs[q]
  BY <1>1, <1>2, <1>3
<1>5. Started(runs') = Started(runs) \cup {r} /\ r \notin Started(runs)
  BY <1>1, <1>2, <1>4 DEF Started
<1>6. IsFiniteSet(Started(runs)) /\ Cardinality(Started(runs)) \in Nat
  BY FS_CardinalityType DEF Inv, CountInv
<1>7. /\ IsFiniteSet(Started(runs'))
      /\ Cardinality(Started(runs')) = Cardinality(Started(runs)) + 1
  BY <1>5, <1>6, FS_AddElement
<1> QED BY <1>1, <1>2, <1>4, <1>7 DEF Grew, Exists

(* Whatever the runner does, what the frontend knows stays true. *)
LEMMA GrowthKeepsFrontend ==
    ASSUME Inv, Grew(runs, runs'), UNCHANGED <<control, workspace>>
    PROVE  ProjectionInv' /\ Ahead(projection, next)' /\ OperationInv' /\ LaunchInv'
<1>1. ProjectionInv'
  BY PageStays DEF Inv, ProjectionInv, control
<1>2. Ahead(projection, next)'
  BY DEF Inv, Ahead, control
<1>3. OperationInv'
  BY DEF Inv, OperationInv, control, workspace, Grew, Exists
<1>4. LaunchInv'
  BY LaunchStays DEF Inv, LaunchInv, TypeOK, workspace
<1> QED BY <1>1, <1>2, <1>3, <1>4

LEMMA GrowthKeepsStream ==
    ASSUME Inv, Grew(runs, runs'), inbox' = inbox, outbox' = outbox
    PROVE  StreamInv'
BY RequestStays, ReplyStays DEF Inv, StreamInv

LEMMA RunnerKeepsInv ==
    ASSUME Inv, NEW r \in Run, RunnerStep(r)
    PROVE  Inv' /\ UNCHANGED projection
<1> USE RunControlAssumption
<1>0. UNCHANGED <<generation, planned, launched, stream, control, workspace, timeouts>>
  BY DEF RunnerStep
<1>1. CASE others' = others /\ \E s \in PublicRunStates :
              /\ runs[r] # None /\ runs[r].state \notin Ended /\ revision < MaxRevision
              /\ runs' = [runs EXCEPT ![r].state = s, ![r].revision = revision + 1]
              /\ revision' = revision + 1
  <2>1. Grew(runs, runs') /\ Started(runs') = Started(runs) /\ revision' \in 0..MaxRevision
    BY <1>1, RunMoves
  <2>2. TypeOK'
    BY <1>0, <1>1, <2>1 DEF Inv, TypeOK, Grew, stream, control, workspace
  <2>3. CountInv'
    BY <1>0, <1>1, <2>1 DEF Inv, CountInv, Grew, Exists
  <2> QED BY <1>0, <2>1, <2>2, <2>3, GrowthKeepsFrontend, GrowthKeepsStream DEF Inv, stream, control
<1>2. CASE others < MaxOthers /\ others' = others + 1 /\ NewRun(r)
  <2>1. /\ Grew(runs, runs') /\ revision' \in 0..MaxRevision
        /\ IsFiniteSet(Started(runs'))
        /\ Cardinality(Started(runs')) = Cardinality(Started(runs)) + 1
    BY <1>2, RunBegins
  <2>2. TypeOK'
    BY <1>0, <1>2, <2>1 DEF Inv, TypeOK, Grew, stream, control, workspace
  <2>3. CountInv'
    <3>1. launched' = launched /\ others \in Nat /\ others' = others + 1
      BY <1>0, <1>2 DEF Inv, TypeOK
    <3> QED BY <3>1, <2>1 DEF Inv, CountInv, Grew, Exists
  <2> QED BY <1>0, <2>1, <2>2, <2>3, GrowthKeepsFrontend, GrowthKeepsStream DEF Inv, stream, control
<1>3. \/ others' = others /\ \E s \in PublicRunStates :
              /\ runs[r] # None /\ runs[r].state \notin Ended /\ revision < MaxRevision
              /\ runs' = [runs EXCEPT ![r].state = s, ![r].revision = revision + 1]
              /\ revision' = revision + 1
      \/ others < MaxOthers /\ others' = others + 1 /\ NewRun(r)
  BY DEF RunnerStep, PublicRunStates
<1> QED BY <1>1, <1>2, <1>3

LEMMA CatalogsKeepInv ==
    ASSUME Inv, CatalogsChange
    PROVE  Inv' /\ UNCHANGED projection
<1>0. /\ UNCHANGED <<runs, revision, planned, launched, others, stream, control, workspace, timeouts>>
      /\ generation' \in Generations
  BY RunControlAssumption DEF Inv, TypeOK, CatalogsChange, Generations
<1>1. Grew(runs, runs')
  BY <1>0, SameGrew DEF Inv
<1>2. TypeOK'
  BY <1>0 DEF Inv, TypeOK, stream, control, workspace
<1>3. CountInv'
  BY <1>0 DEF Inv, CountInv
<1> QED BY <1>0, <1>1, <1>2, <1>3, GrowthKeepsFrontend, GrowthKeepsStream DEF Inv, stream, control

LEMMA TailShifts ==
    ASSUME NEW S, NEW s \in Seq(S), s # <<>>
    PROVE  /\ Tail(s) \in Seq(S) /\ Head(s) \in S
           /\ \A i \in 1..Len(Tail(s)) : i + 1 \in 1..Len(s) /\ Tail(s)[i] = s[i + 1]
OBVIOUS

(* A request that is served leaves the inbox, and its reply is true when it  *)
(* is made.                                                                  *)
LEMMA ReplyKeepsStream ==
    ASSUME Inv, Grew(runs, runs'), inbox # <<>>, NEW ok \in BOOLEAN, NEW body,
           Reply(Head(inbox), ok, body),
           body \in Pages \cup Generations \cup Summary \cup {None},
           GoodReply(runs', [call |-> Head(inbox).call, ok |-> ok, body |-> body])
    PROVE  /\ StreamInv'
           /\ UNCHANGED <<up, control, workspace, timeouts>>
           /\ \A i \in DOMAIN inbox' : inbox'[i].call \in Calls
           /\ \A i \in DOMAIN outbox' : outbox'[i].call \in Calls
<1> DEFINE a == [call |-> Head(inbox).call, ok |-> ok, body |-> body]
<1>1. /\ inbox \in Seq(Requests) /\ \A i \in 1..Len(inbox) : GoodRequest(runs', inbox[i])
      /\ outbox \in Seq(Replies) /\ \A i \in 1..Len(outbox) : GoodReply(runs', outbox[i])
  BY RequestStays, ReplyStays DEF Inv, StreamInv
<1>2. inbox' = Tail(inbox) /\ outbox' = Append(outbox, a) /\ UNCHANGED <<up, control, workspace, timeouts>>
  BY DEF Reply
<1>3. Head(inbox) \in Requests /\ a \in Replies
  <2>1. Head(inbox) \in Requests
    BY <1>1
  <2> QED BY <2>1 DEF Requests, Replies
<1>4. GoodReply(runs', a)
  OBVIOUS
<1> HIDE DEF a
<1>5. inbox' \in Seq(Requests) /\ \A i \in 1..Len(inbox') : GoodRequest(runs', inbox'[i])
  BY <1>1, <1>2, TailShifts
<1>6. outbox' \in Seq(Replies) /\ \A i \in 1..Len(outbox') : GoodReply(runs', outbox'[i])
  BY <1>1, <1>2, <1>3, <1>4
<1>7. /\ \A i \in DOMAIN inbox' : inbox'[i].call \in Calls
      /\ \A i \in DOMAIN outbox' : outbox'[i].call \in Calls
  <2>1. \A i \in 1..Len(inbox') : inbox'[i] \in Requests
    BY <1>5
  <2>2. \A i \in 1..Len(outbox') : outbox'[i] \in Replies
    BY <1>6
  <2>3. DOMAIN inbox' = 1..Len(inbox') /\ DOMAIN outbox' = 1..Len(outbox')
    BY <1>5, <1>6
  <2> QED BY <2>1, <2>2, <2>3 DEF Requests, Replies
<1> QED BY <1>2, <1>5, <1>6, <1>7 DEF StreamInv

LEMMA ServeKeepsInv ==
    ASSUME Inv, Serve
    PROVE  Inv' /\ UNCHANGED projection
<1> USE RunControlAssumption, LaunchStateAssumption
<1> DEFINE q == Head(inbox)
<1>1. inbox # <<>> /\ q \in Requests /\ GoodRequest(runs, q) /\ q.key = 0
  <2>1. inbox # <<>> /\ q \in Requests /\ GoodRequest(runs, q)
    BY TailShifts DEF Serve, Inv, StreamInv
  <2> QED BY <2>1 DEF Requests
<1>2. SUFFICES ASSUME NEW ok \in BOOLEAN, NEW body,
                      Reply(q, ok, body), Grew(runs, runs'),
                      body \in Pages \cup Generations \cup Summary \cup {None},
                      GoodReply(runs', [call |-> q.call, ok |-> ok, body |-> body]),
                      revision' \in 0..MaxRevision, generation' = generation, others' = others,
                      planned' \in [Keys -> Generations \cup {None}],
                      launched' \in [Keys -> Run \cup {None}], CountInv'
               PROVE  Inv' /\ UNCHANGED projection
  <2>1. ASSUME NEW ok \in BOOLEAN, NEW body,
               Reply(q, ok, body), Grew(runs, runs'),
               body \in Pages \cup Generations \cup Summary \cup {None},
               GoodReply(runs', [call |-> q.call, ok |-> ok, body |-> body]),
               revision' \in 0..MaxRevision, generation' = generation, others' = others,
               planned' \in [Keys -> Generations \cup {None}],
               launched' \in [Keys -> Run \cup {None}], CountInv'
        PROVE  Inv' /\ UNCHANGED projection
    BY <1>2, <2>1
  <2>2. CASE UNCHANGED runner
    <3>0. /\ Grew(runs, runs') /\ revision' \in 0..MaxRevision
          /\ UNCHANGED <<runs, generation, others, planned, launched>>
          /\ planned' \in [Keys -> Generations \cup {None}] /\ launched' \in [Keys -> Run \cup {None}]
      BY <2>2, SameGrew DEF Inv, TypeOK, runner
    <3>1. CountInv'
      BY <3>0, <2>2 DEF Inv, CountInv, runner
    <3>2. CASE q.call = "capabilities" /\ Reply(q, TRUE, None)
      BY <3>0, <3>1, <3>2, <2>1 DEF GoodReply
    <3>3. CASE q.call = "history"
               /\ Reply(q, TRUE, [r \in Run |-> IF runs[r] = None THEN None ELSE SummaryOf(r, runs[r])])
      <4> DEFINE page == [r \in Run |-> IF runs[r] = None THEN None ELSE SummaryOf(r, runs[r])]
      <4>1. \A r \in Run : runs[r] # None =>
               /\ SummaryOf(r, runs[r]) \in Summary
               /\ SummaryOf(r, runs[r]).run = r /\ TrueSummary(runs, SummaryOf(r, runs[r]))
        BY DEF Inv, TypeOK, SummaryOf, Summary, RunRecord, TrueSummary, Exists
      <4>2. page \in Pages /\ TruePage(runs', page)
        BY <4>1, <3>0 DEF Pages, TruePage
      <4> HIDE DEF page
      <4>3. GoodReply(runs', [call |-> q.call, ok |-> TRUE, body |-> page])
        BY <3>3, <4>2 DEF GoodReply
      <4>4. Reply(q, TRUE, page)
        BY <3>3 DEF page
      <4> QED BY <3>0, <3>1, <4>2, <4>3, <4>4, <2>1
    <3>4. CASE q.call = "catalogs" /\ Reply(q, TRUE, generation)
      <4>1. generation \in Generations
        BY DEF Inv, TypeOK
      <4> QED BY <3>0, <3>1, <3>4, <4>1, <2>1 DEF GoodReply
    <3>5. CASE q.call = "launch" /\ Reply(q, FALSE, None)
      BY <3>0, <3>1, <3>5, <2>1 DEF GoodReply
    <3>6. ASSUME q.call = "launch", launched[q.key] # None,
                 NEW r, r = launched[q.key],
                 NEW body, body \in {SummaryOf(r, runs[r]),
                                     [run |-> r, attempt |-> r, state |-> "Planned",
                                      revision |-> runs[r].created]},
                 Reply(q, TRUE, body)
          PROVE  Inv' /\ UNCHANGED projection
      <4>1. r \in Run /\ runs[r] # None /\ runs[r] \in RunRecord
        BY <1>1, <3>6 DEF Inv, CountInv, Exists, TypeOK
      <4>2. body \in Summary /\ TrueSummary(runs', body)
        BY <3>0, <3>6, <4>1 DEF SummaryOf, Summary, RunRecord, TrueSummary, Exists, Ended, PublicRunStates
      <4> QED BY <3>0, <3>1, <3>6, <4>2, <2>1 DEF GoodReply
    <3>7. CASE q.call = "cancel" /\ Reply(q, TRUE, None)
      BY <3>0, <3>1, <3>7, <2>1 DEF GoodReply
    <3>8. CASE q.call = "create_plan"
      <4>1. \E ok \in BOOLEAN : Reply(q, ok, None)
        BY <3>8 DEF Serve
      <4> QED BY <3>0, <3>1, <3>8, <4>1, <2>1 DEF GoodReply
    <3>9. q.call = "launch" /\ launched[q.key] = None => Reply(q, FALSE, None)
      <4>1. ASSUME NEW r \in Run, NewRun(r) PROVE FALSE
        BY <4>1, <2>2 DEF NewRun, runner, Inv, TypeOK
      <4> QED BY <4>1 DEF Serve
    <3> QED BY <1>1, <3>2, <3>3, <3>4, <3>5, <3>6, <3>7, <3>8, <3>9 DEF Serve
  <2>3. CASE q.call = "create_plan"
    <3>1. /\ q.arg \in Generations
          /\ planned' = IF planned[q.key] = None THEN [planned EXCEPT ![q.key] = q.arg] ELSE planned
          /\ Reply(q, planned'[q.key] = q.arg, None)
          /\ UNCHANGED <<runs, revision, generation, launched, others>>
      BY <1>1, <2>3 DEF GoodRequest, Serve
    <3>2. planned' \in [Keys -> Generations \cup {None}]
      BY <1>1, <3>1 DEF Inv, TypeOK, Keys
    <3>3. Grew(runs, runs') /\ CountInv' /\ revision' \in 0..MaxRevision /\ launched' \in [Keys -> Run \cup {None}]
      BY <3>1, SameGrew DEF Inv, CountInv, TypeOK
    <3> QED BY <2>1, <2>3, <3>1, <3>2, <3>3 DEF GoodReply
  <2>4. ASSUME q.call = "launch", launched[q.key] = None, NEW r \in Run, NewRun(r),
               launched' = [launched EXCEPT ![q.key] = r],
               Reply(q, TRUE, SummaryOf(r, runs'[r])), UNCHANGED <<generation, planned, others>>
        PROVE  Inv' /\ UNCHANGED projection
    <3>1. /\ Grew(runs, runs') /\ runs'[r] \in RunRecord /\ runs'[r].state = "Planned"
          /\ revision' \in 0..MaxRevision /\ Exists(runs', r) /\ IsFiniteSet(Started(runs'))
          /\ Cardinality(Started(runs')) = Cardinality(Started(runs)) + 1
      BY <2>4, RunBegins
    <3>2. SummaryOf(r, runs'[r]) \in Summary /\ TrueSummary(runs', SummaryOf(r, runs'[r]))
      BY <3>1 DEF SummaryOf, Summary, RunRecord, TrueSummary, Ended
    <3>3. /\ launched' \in [Keys -> Run \cup {None}] /\ launched'[0] = r /\ r # None
          /\ planned' \in [Keys -> Generations \cup {None}]
      BY <1>1, <2>4 DEF Inv, TypeOK, Keys
    <3>4. CountInv'
      <4>1. Cardinality(Started(runs)) = others /\ others \in Nat
        BY <1>1, <2>4 DEF Inv, CountInv, TypeOK
      <4> QED BY <2>4, <3>1, <3>3, <4>1 DEF CountInv
    <3> QED BY <2>1, <2>4, <3>1, <3>2, <3>3, <3>4 DEF GoodReply
  <2>5. ASSUME q.call = "cancel", ~UNCHANGED runner
        PROVE  Inv' /\ UNCHANGED projection
    <3>1. /\ runs[q.arg].state \notin Ended /\ revision # MaxRevision
          /\ revision' = revision + 1
          /\ runs' = [runs EXCEPT ![q.arg].state = "Cancelled", ![q.arg].revision = revision + 1]
          /\ UNCHANGED <<generation, planned, launched, others>>
          /\ Reply(q, TRUE, None)
      BY <2>5 DEF Serve
    <3>2. q.arg \in Run /\ runs[q.arg] # None /\ revision < MaxRevision /\ "Cancelled" \in PublicRunStates
      BY <1>1, <2>5, <3>1 DEF GoodRequest, Exists, Inv, TypeOK, PublicRunStates
    <3>3. Grew(runs, runs') /\ Started(runs') = Started(runs) /\ revision' \in 0..MaxRevision
      BY <3>1, <3>2, RunMoves
    <3>4. /\ CountInv'
          /\ launched' \in [Keys -> Run \cup {None}] /\ planned' \in [Keys -> Generations \cup {None}]
      BY <3>1, <3>3 DEF Inv, CountInv, TypeOK, Grew, Exists
    <3> QED BY <2>1, <2>5, <3>1, <3>3, <3>4 DEF GoodReply
  <2> QED BY <1>1, <2>2, <2>3, <2>4, <2>5 DEF Serve
<1>3. /\ StreamInv'
      /\ UNCHANGED <<up, control, workspace, timeouts>>
      /\ \A i \in DOMAIN inbox' : inbox'[i].call \in Calls
      /\ \A i \in DOMAIN outbox' : outbox'[i].call \in Calls
  BY <1>1, <1>2, ReplyKeepsStream
<1>4. TypeOK'
  BY <1>2, <1>3 DEF Inv, TypeOK, Grew, control, workspace
<1> QED BY <1>2, <1>3, <1>4, GrowthKeepsFrontend DEF Inv, control

LEMMA PeerKeepsInv ==
    ASSUME Inv, PeerCloses
    PROVE  Inv' /\ UNCHANGED projection
<1>0. /\ UNCHANGED <<runner, outbox, control, workspace, timeouts>>
      /\ inbox' = <<>> /\ up' = FALSE
  BY DEF PeerCloses
<1>1. Grew(runs, runs')
  BY <1>0, SameGrew DEF Inv, runner
<1>2. TypeOK'
  <2>1. \A i \in DOMAIN inbox' : FALSE
    BY <1>0
  <2> QED BY <1>0, <2>1 DEF Inv, TypeOK, runner, control, workspace
<1>3. CountInv'
  BY <1>0 DEF Inv, CountInv, runner
<1>4. StreamInv'
  BY <1>0 DEF Inv, StreamInv, runner
<1> QED BY <1>0, <1>1, <1>2, <1>3, <1>4, GrowthKeepsFrontend DEF Inv, control

-----------------------------------------------------------------------------
(* The frontend.  While it moves, the runner and what was said stay as they  *)
(* are.                                                                      *)

LEMMA RunnerUntouched ==
    ASSUME Inv, UNCHANGED runner
    PROVE  /\ CountInv'
           /\ runs' \in [Run -> RunRecord \cup {None}] /\ revision' \in 0..MaxRevision
           /\ generation' \in Generations /\ planned' \in [Keys -> Generations \cup {None}]
           /\ launched' \in [Keys -> Run \cup {None}] /\ others' \in 0..MaxOthers
BY DEF Inv, CountInv, TypeOK, runner

LEMMA StreamUntouched ==
    ASSUME Inv, UNCHANGED <<runner, stream>>
    PROVE  /\ StreamInv' /\ up' \in BOOLEAN
           /\ \A i \in DOMAIN inbox' : inbox'[i].call \in Calls
           /\ \A i \in DOMAIN outbox' : outbox'[i].call \in Calls
BY DEF Inv, StreamInv, TypeOK, runner, stream

WorkspaceTypes ==
    /\ wizard \in BOOLEAN
    /\ reviewed \in Generations \cup {None}
    /\ preflight \in Generations \cup {None}
    /\ launch = None \/ launch \in LaunchStates

(* apply_live_snapshot, with a launch state that is true. *)
LEMMA SnapshotKeepsWorkspace ==
    ASSUME Inv, runs' = runs, NEW p \in Projections, NEW l, apply_live_snapshot(p, l),
           l # None => l \in LaunchStates /\ LaunchTrue(runs, l)
    PROVE  WorkspaceTypes' /\ LaunchInv'
BY DEF Inv, TypeOK, apply_live_snapshot, WorkspaceTypes, LaunchInv, Projections

LEMMA ProjectionTypes == TypeOK => projection \in Projections /\ next \in Projections
BY DEF TypeOK, Projections, Pages

(* An operation that fails leaves a true screen and an idle frontend. *)
LEMMA FailureKeepsInv ==
    ASSUME Inv, FailOperation, op # "none", UNCHANGED runner,
           StreamInv', up' \in BOOLEAN, timeouts' \in 0..MaxTimeouts,
           \A i \in DOMAIN inbox' : inbox'[i].call \in Calls,
           \A i \in DOMAIN outbox' : outbox'[i].call \in Calls
    PROVE  Inv' /\ UNCHANGED projection
<1>0. runs' = runs /\ op' = "none" /\ todo' = <<>> /\ sent' = FALSE /\ UNCHANGED <<projection, next>>
  BY DEF FailOperation, runner
<1>1. launch \in LaunchStates /\ LaunchTrue(runs, launch)
  BY DEF Inv, OperationInv, TypeOK, LaunchInv
<1>2. WorkspaceTypes' /\ LaunchInv'
  <2>1. CASE op \in {"poll", "reconnect"}
    <3>1. launch' = reconnect_started(disconnected(launch)) /\ UNCHANGED <<wizard, reviewed, preflight>>
      BY <2>1 DEF FailOperation
    <3>2. launch' \in LaunchStates /\ LaunchTrue(runs, launch')
      BY <1>1, <3>1, RequestsKeepLaunch
    <3> QED BY <1>0, <3>1, <3>2 DEF WorkspaceTypes, LaunchInv, Inv, TypeOK
  <2>2. CASE op \notin {"poll", "reconnect"}
    <3>1. apply_live_snapshot(projection, Failed(launch))
      BY <2>2 DEF FailOperation
    <3>2. Failed(launch) = mark_failed(launch)
      BY <1>1, RunControlAssumption DEF Failed
    <3>3. Failed(launch) \in LaunchStates /\ LaunchTrue(runs, Failed(launch))
      BY <1>1, <3>2, RequestsKeepLaunch
    <3> QED BY <1>0, <3>1, <3>3, SnapshotKeepsWorkspace, ProjectionTypes DEF Inv
  <2> QED BY <2>1, <2>2
<1>3. ProjectionInv' /\ Ahead(projection, next)' /\ OperationInv'
  BY <1>0 DEF Inv, ProjectionInv, Ahead, OperationInv
<1>4. TypeOK'
  <2>1. todo' \in Seq(Calls)
    BY <1>0
  <2>3. op' \in {"none", "poll", "reconnect", "start", "cancel"} /\ sent' \in BOOLEAN
    BY <1>0
  <2>2. {projection', next'} \subseteq [runs : [Run -> Summary \cup {None}], generation : Generations]
    BY <1>0 DEF Inv, TypeOK
  <2> QED BY <1>2, <2>1, <2>2, <2>3, RunnerUntouched DEF TypeOK, WorkspaceTypes
<1> QED BY <1>0, <1>2, <1>3, <1>4, RunnerUntouched DEF Inv

(* An operation begins: the launch it is about is there and true. *)
LEMMA BeginKeepsInv ==
    ASSUME Inv, NEW o \in {"poll", "reconnect", "start", "cancel"}, NEW calls \in Seq(Calls),
           Begin(o, calls), calls # <<>>, WorkspaceTypes', LaunchInv', launch' # None,
           \A i \in 1..Len(calls) : calls[i] = "cancel" => Exists(runs, launch'.run)
    PROVE  Inv' /\ UNCHANGED projection
<1>0. /\ op' = o /\ todo' = calls /\ sent' = FALSE /\ next' = projection
      /\ UNCHANGED <<runner, stream, projection, timeouts>> /\ runs' = runs
  BY DEF Begin, runner
<1>1. ProjectionInv'
  BY <1>0 DEF Inv, ProjectionInv
<1>2. Ahead(projection, next)'
  <2>1. projection.generation \in Nat
        /\ \A r \in Run : projection.runs[r] # None => projection.runs[r].revision \in Nat
    BY ProjectionTypes DEF Inv, Projections, Pages, Summary, Generations
  <2> QED BY <1>0, <2>1 DEF Ahead
<1>3. OperationInv'
  BY <1>0 DEF OperationInv
<1>4. TypeOK'
  BY <1>0, RunnerUntouched, StreamUntouched DEF Inv, TypeOK, WorkspaceTypes
<1> QED BY <1>0, <1>1, <1>2, <1>3, <1>4, RunnerUntouched, StreamUntouched DEF Inv

LEMMA WorkspaceKeepsInv ==
    ASSUME Inv, EditWizard \/ OpenPreflight
    PROVE  Inv' /\ UNCHANGED projection
<1>0. UNCHANGED <<runner, stream, control, launch, timeouts>> /\ runs' = runs
  BY DEF EditWizard, OpenPreflight, runner
<1>1. WorkspaceTypes'
  BY DEF EditWizard, OpenPreflight, WorkspaceTypes, Inv, TypeOK
<1>2. TypeOK'
  BY <1>0, <1>1, RunnerUntouched, StreamUntouched DEF Inv, TypeOK, WorkspaceTypes, control
<1>3. ProjectionInv' /\ Ahead(projection, next)' /\ OperationInv' /\ LaunchInv'
  BY <1>0 DEF Inv, ProjectionInv, Ahead, OperationInv, LaunchInv, control
<1> QED BY <1>0, <1>2, <1>3, RunnerUntouched, StreamUntouched DEF Inv, control

(* A local failure: the snapshot is shown with a launch state that failed. *)
LEMMA LocalFailureKeepsInv ==
    ASSUME Inv, Idle, UNCHANGED <<runner, stream, control, timeouts>>,
           NEW l \in LaunchStates, LaunchTrue(runs, l), apply_live_snapshot(projection, l)
    PROVE  Inv' /\ UNCHANGED projection
<1>0. runs' = runs
  BY DEF runner
<1>1. WorkspaceTypes' /\ LaunchInv'
  BY <1>0, SnapshotKeepsWorkspace, ProjectionTypes DEF Inv
<1>2. TypeOK'
  BY <1>0, <1>1, RunnerUntouched, StreamUntouched DEF Inv, TypeOK, WorkspaceTypes, control
<1>3. ProjectionInv' /\ Ahead(projection, next)'
  BY <1>0 DEF Inv, ProjectionInv, Ahead, control
<1>4. OperationInv'
  BY <1>0 DEF Inv, OperationInv, control, Idle
<1> QED BY <1>0, <1>1, <1>2, <1>3, <1>4, RunnerUntouched, StreamUntouched DEF Inv, control

LEMMA KeysKeepInv ==
    ASSUME Inv, Poll \/ Reconnect \/ StartRun \/ CancelRun
    PROVE  Inv' /\ UNCHANGED projection
<1> USE RunControlAssumption, LaunchStateAssumption
<1>0. /\ Polling \in Seq(Calls) /\ Polling # <<>> /\ \A i \in 1..Len(Polling) : Polling[i] # "cancel"
  BY DEF Polling, Calls
<1>1. CASE Poll
  <2>1. /\ Begin("poll", Polling) /\ UNCHANGED workspace /\ launch # None
        /\ runs' = runs
    BY <1>1 DEF Poll, Begin, runner
  <2>2. WorkspaceTypes' /\ LaunchInv' /\ launch' # None
    BY <2>1 DEF Inv, TypeOK, WorkspaceTypes, LaunchInv, workspace
  <2> QED BY <1>0, <2>1, <2>2, BeginKeepsInv
<1>2. CASE Reconnect
  <2>1. /\ Begin("reconnect", Polling) /\ UNCHANGED <<wizard, reviewed, preflight>>
        /\ launch # None /\ launch' = reconnect_started(launch)
        /\ runs' = runs
    BY <1>2 DEF Reconnect, Begin, runner
  <2>2. launch \in LaunchStates /\ LaunchTrue(runs, launch)
    BY <2>1 DEF Inv, TypeOK, LaunchInv
  <2>3. launch' \in LaunchStates /\ LaunchTrue(runs, launch') /\ launch' # None
    BY <2>1, <2>2, RequestsKeepLaunch
  <2>4. WorkspaceTypes' /\ LaunchInv'
    BY <2>1, <2>3 DEF Inv, TypeOK, WorkspaceTypes, LaunchInv
  <2> QED BY <1>0, <2>1, <2>3, <2>4, BeginKeepsInv
<1>3. CASE StartRun
  <2>1. preflight \in Generations /\ Idle
    BY <1>3 DEF StartRun, Inv, TypeOK
  <2>2. NewLaunch(preflight) \in LaunchStates /\ LaunchTrue(runs, NewLaunch(preflight))
    BY <2>1 DEF NewLaunch, LaunchStates, RunStates, LaunchTrue, Terminal, Generations
  <2>3. LET l == begin_launch(NewLaunch(preflight)) IN l \in LaunchStates /\ LaunchTrue(runs, l) /\ l # None
    BY <2>2, RequestsKeepLaunch
  <2>4. CASE /\ launch' = begin_launch(NewLaunch(preflight))
             /\ Begin("start", <<"create_plan", "launch">>)
             /\ UNCHANGED <<wizard, reviewed, preflight>>
    <3>1. runs' = runs
      BY <2>4 DEF Begin, runner
    <3>2. WorkspaceTypes' /\ LaunchInv' /\ launch' # None
      BY <2>3, <2>4, <3>1 DEF Inv, TypeOK, WorkspaceTypes, LaunchInv
    <3> DEFINE calls == <<"create_plan", "launch">>
    <3>3. calls \in Seq(Calls) /\ calls # <<>> /\ \A i \in 1..Len(calls) : calls[i] # "cancel"
      BY DEF Calls
    <3>4. Begin("start", calls)
      BY <2>4
    <3> HIDE DEF calls
    <3> QED BY <3>2, <3>3, <3>4, BeginKeepsInv
  <2>5. CASE /\ apply_live_snapshot(projection, mark_failed(begin_launch(NewLaunch(preflight))))
             /\ UNCHANGED <<runner, stream, control, timeouts>>
    <3>1. LET l == mark_failed(begin_launch(NewLaunch(preflight))) IN l \in LaunchStates /\ LaunchTrue(runs, l)
      BY <2>3, RequestsKeepLaunch
    <3> QED BY <2>1, <2>5, <3>1, LocalFailureKeepsInv
  <2> QED BY <1>3, <2>4, <2>5 DEF StartRun
<1>4. CASE CancelRun
  <2>1. /\ launch \in LaunchStates /\ LaunchTrue(runs, launch) /\ Idle
    BY <1>4 DEF CancelRun, Inv, TypeOK, LaunchInv
  <2>2. LET l == request_cancel(launch)
        IN  l \in LaunchStates /\ LaunchTrue(runs, l) /\ l # None /\ l.run = launch.run
    BY <2>1, RequestsKeepLaunch
  <2>3. CASE /\ launch.run # None /\ projection.runs[launch.run] # None
             /\ launch' = request_cancel(launch)
             /\ Begin("cancel", <<"cancel">> \o Polling)
             /\ UNCHANGED <<wizard, reviewed, preflight>>
    <3>1. runs' = runs
      BY <2>3 DEF Begin, runner
    <3>2. WorkspaceTypes' /\ LaunchInv' /\ launch' # None
      BY <2>2, <2>3, <3>1 DEF Inv, TypeOK, WorkspaceTypes, LaunchInv
    <3>3. launch.run \in Run
      BY <2>1, <2>3 DEF LaunchStates
    <3>4. Exists(runs, launch'.run)
      BY <2>2, <2>3, <3>3 DEF Inv, ProjectionInv, TruePage, TrueSummary
    <3>5. <<"cancel">> \o Polling \in Seq(Calls) /\ <<"cancel">> \o Polling # <<>>
      BY DEF Polling, Calls
    <3> QED BY <2>3, <3>2, <3>4, <3>5, BeginKeepsInv
  <2>4. CASE /\ apply_live_snapshot(projection, mark_failed(request_cancel(launch)))
             /\ UNCHANGED <<runner, stream, control, timeouts>>
    <3>1. LET l == mark_failed(request_cancel(launch)) IN l \in LaunchStates /\ LaunchTrue(runs, l)
      BY <2>2, RequestsKeepLaunch
    <3> QED BY <2>1, <2>4, <3>1, LocalFailureKeepsInv
  <2> QED BY <1>4, <2>3, <2>4 DEF CancelRun
<1> QED BY <1>1, <1>2, <1>3, <1>4

LEMMA WriteKeepsInv ==
    ASSUME Inv, write_request
    PROVE  Inv' /\ UNCHANGED projection
<1> DEFINE c == Head(todo)
           q == [call |-> c, arg |-> Argument(c), key |-> LaunchKey(projection.generation)]
<1>0. /\ UNCHANGED <<runner, up, outbox, projection, next, op, todo, workspace, timeouts>>
      /\ op # "none" /\ inbox' = Append(inbox, q) /\ sent' = TRUE /\ runs' = runs
  BY DEF write_request, runner
<1>1. /\ todo \in Seq(Calls) /\ todo # <<>> /\ launch \in LaunchStates /\ LaunchTrue(runs, launch)
      /\ c \in Calls
  BY <1>0 DEF Inv, OperationInv, TypeOK, LaunchInv
<1>2. q \in Requests /\ GoodRequest(runs, q)
  <2>1. c = "cancel" => Exists(runs, launch.run)
    <3>1. todo[1] = c /\ 1 \in 1..Len(todo)
      BY <1>1
    <3> QED BY <3>1 DEF Inv, OperationInv
  <2>2. q.call = c /\ q.arg = Argument(c) /\ q.key = 0
    BY DEF LaunchKey
  <2>3. /\ Argument(c) \in Run \cup Generations \cup {None}
        /\ c = "cancel" => Argument(c) = launch.run
        /\ c = "create_plan" => Argument(c) = launch.generation
    BY <1>1, <2>1 DEF Argument, LaunchTrue, Exists
  <2>4. q \in Requests
    BY <1>1, <2>3 DEF Requests, LaunchKey
  <2> QED BY <1>1, <2>1, <2>2, <2>3, <2>4 DEF GoodRequest, LaunchTrue
<1> HIDE DEF q, c
<1>3. StreamInv'
  BY <1>0, <1>2 DEF Inv, StreamInv
<1>4. \A i \in DOMAIN inbox' : inbox'[i].call \in Calls
  <2>1. DOMAIN inbox' = 1..Len(inbox') /\ \A i \in 1..Len(inbox') : inbox'[i] \in Requests
    BY <1>3 DEF StreamInv
  <2> QED BY <2>1 DEF Requests
<1>5. TypeOK'
  BY <1>0, <1>4, RunnerUntouched DEF Inv, TypeOK, workspace
<1>6. ProjectionInv' /\ Ahead(projection, next)' /\ OperationInv' /\ LaunchInv'
  BY <1>0 DEF Inv, ProjectionInv, Ahead, OperationInv, LaunchInv, workspace
<1> QED BY <1>0, <1>3, <1>5, <1>6, RunnerUntouched DEF Inv

(* The reply that is read was true when it was made and still is: whichever  *)
(* request it answers, what is taken of it is true.                          *)
LEMMA ReadKeepsInv ==
    ASSUME Inv, read_response
    PROVE  Inv' /\ Ahead(projection, projection')
<1> DEFINE a == Head(outbox)
           p == apply(next, a)
           good == validate_for(a) /\ a.ok /\ ~Refuses(next, a)
<1>0. /\ UNCHANGED <<runner, up, inbox, timeouts>> /\ outbox # <<>> /\ outbox' = Tail(outbox)
      /\ sent /\ runs' = runs
  BY DEF read_response, runner
<1>1. a \in Replies /\ GoodReply(runs, a)
  BY <1>0, TailShifts DEF Inv, StreamInv
<1>2. /\ op # "none" /\ todo \in Seq(Calls) /\ todo # <<>>
      /\ launch \in LaunchStates /\ LaunchTrue(runs, launch)
      /\ projection \in Projections /\ next \in Projections
  BY <1>0, ProjectionTypes DEF Inv, OperationInv, TypeOK, LaunchInv
<1>3. /\ StreamInv'
      /\ \A i \in DOMAIN inbox' : inbox'[i].call \in Calls
      /\ \A i \in DOMAIN outbox' : outbox'[i].call \in Calls
  <2>1. outbox' \in Seq(Replies) /\ \A i \in 1..Len(outbox') : GoodReply(runs, outbox'[i])
    BY <1>0, TailShifts DEF Inv, StreamInv
  <2>2. DOMAIN outbox' = 1..Len(outbox') /\ \A i \in 1..Len(outbox') : outbox'[i] \in Replies
    BY <2>1
  <2>3. \A i \in DOMAIN outbox' : outbox'[i].call \in Calls
    BY <2>2 DEF Replies
  <2>4. \A i \in DOMAIN inbox' : inbox'[i].call \in Calls
    BY <1>0 DEF Inv, TypeOK
  <2> QED BY <1>0, <2>1, <2>3, <2>4 DEF Inv, StreamInv
<1>4. Ahead(projection, projection)
  BY <1>2 DEF Ahead, Projections, Pages, Summary, Generations
<1>5. CASE good
  <2>1. p \in Projections /\ TruePage(runs, p.runs) /\ Ahead(next, p)
    BY <1>1, <1>2, <1>5, ApplyGoesForward DEF Inv, ProjectionInv
  <2>2. Ahead(projection, p)
    <3>1. ASSUME NEW r \in Run, projection.runs[r] # None
          PROVE  p.runs[r] # None /\ p.runs[r].revision >= projection.runs[r].revision
      <4> HIDE DEF p
      <4>1. /\ next.runs[r] # None /\ next.runs[r].revision >= projection.runs[r].revision
            /\ p.runs[r] # None /\ p.runs[r].revision >= next.runs[r].revision
        BY <2>1, <3>1 DEF Inv, Ahead
      <4>2. {projection.runs[r].revision, next.runs[r].revision, p.runs[r].revision} \subseteq Int
        BY <1>2, <2>1, <3>1, <4>1 DEF Projections, Pages, Summary
      <4> QED BY <4>1, <4>2
    <3>2. p.generation >= projection.generation
      <4> HIDE DEF p
      <4> QED BY <1>2, <2>1 DEF Inv, Ahead, Projections, Generations
    <3> QED BY <3>1, <3>2 DEF Ahead
  <2>a. \/ /\ Len(todo) > 1 /\ next' = p /\ todo' = Tail(todo) /\ sent' = FALSE
           /\ UNCHANGED <<projection, op, workspace>>
        \/ Len(todo) = 1 /\ FinishOperation(p)
    BY <1>5 DEF read_response
  <2> HIDE DEF p
  <2>3. CASE /\ Len(todo) > 1 /\ next' = p /\ todo' = Tail(todo) /\ sent' = FALSE
             /\ UNCHANGED <<projection, op, workspace>>
    <3>1. /\ next' = p /\ todo' = Tail(todo) /\ sent' = FALSE
          /\ UNCHANGED <<projection, op, workspace>>
      BY <2>3
    <3>2. todo' \in Seq(Calls) /\ todo' # <<>>
      <4>1. todo' \in Seq(Calls) /\ Len(todo') = Len(todo) - 1 /\ Len(todo) \in Nat
        BY <1>2, <3>1
      <4>2. Len(todo) > 1
        BY <2>3
      <4>3. Len(todo') # 0
        BY <4>1, <4>2
      <4>4. todo' = <<>> => Len(todo') = 0
        OBVIOUS
      <4> QED BY <4>1, <4>3, <4>4
    <3>3. OperationInv'
      <4>1. \A i \in 1..Len(todo') : todo'[i] = "cancel" => Exists(runs, launch.run)
        BY <1>2, <3>1, TailShifts DEF Inv, OperationInv
      <4> QED BY <1>0, <1>2, <3>1, <3>2, <4>1 DEF Inv, OperationInv, workspace
    <3>4. TypeOK'
      <4>1. {projection', next'} \subseteq [runs : [Run -> Summary \cup {None}], generation : Generations]
        BY <1>2, <2>1, <3>1 DEF Projections, Pages
      <4>2. sent' \in BOOLEAN /\ op' = op
        BY <3>1
      <4> QED BY <1>0, <1>3, <3>1, <3>2, <4>1, <4>2, RunnerUntouched DEF Inv, TypeOK, workspace
    <3>5. ProjectionInv' /\ Ahead(projection, next)' /\ LaunchInv'
      BY <1>0, <2>1, <2>2, <3>1 DEF Inv, ProjectionInv, Ahead, LaunchInv, workspace
    <3> QED BY <1>0, <1>3, <1>4, <3>1, <3>3, <3>4, <3>5, RunnerUntouched DEF Inv
  <2>4. CASE FinishOperation(p)
    <3>1. FinishOperation(p)
      BY <2>4
    <3>2. op' = "none" /\ todo' = <<>> /\ sent' = FALSE /\ projection' = p /\ next' = p
      BY <3>1 DEF FinishOperation
    <3>3. WorkspaceTypes' /\ LaunchInv'
      <4> DEFINE l == IF op = "reconnect" THEN reconnect_complete(launch, NegotiatedRevision)
                      ELSE Observed(p, launch)
      <4>1. apply_live_snapshot(p, l)
        BY <3>1 DEF FinishOperation
      <4>2. l \in LaunchStates /\ LaunchTrue(runs, l)
        BY <1>2, <2>1, RequestsKeepLaunch, ObservedKeepsLaunch
      <4> HIDE DEF l
      <4> QED BY <1>0, <2>1, <4>1, <4>2, SnapshotKeepsWorkspace
    <3>4. TypeOK'
      <4>1. {projection', next'} \subseteq [runs : [Run -> Summary \cup {None}], generation : Generations]
        BY <2>1, <3>2 DEF Projections, Pages
      <4>2. todo' \in Seq(Calls)
        BY <3>2
      <4>3. sent' \in BOOLEAN
        BY <3>2
      <4>4. up' \in BOOLEAN /\ timeouts' \in 0..MaxTimeouts
        BY <1>0 DEF Inv, TypeOK
      <4> QED BY <1>3, <3>2, <3>3, <4>1, <4>2, <4>3, <4>4, <1>0, RunnerUntouched DEF TypeOK, WorkspaceTypes
    <3>5. ProjectionInv' /\ Ahead(projection, next)' /\ OperationInv'
      <4>1. Ahead(p, p)
        BY <2>1 DEF Ahead, Projections, Pages, Summary, Generations
      <4> QED BY <1>0, <2>1, <3>2, <4>1 DEF ProjectionInv, Ahead, OperationInv
    <3> QED BY <1>0, <1>3, <2>2, <3>2, <3>3, <3>4, <3>5, RunnerUntouched DEF Inv
  <2> QED BY <2>a, <2>3, <2>4
<1>6. CASE ~good
  <2>1. FailOperation
    BY <1>6 DEF read_response
  <2>2. up' \in BOOLEAN /\ timeouts' \in 0..MaxTimeouts
    BY <1>0 DEF Inv, TypeOK
  <2> QED BY <1>0, <1>2, <1>3, <1>4, <2>1, <2>2, FailureKeepsInv
<1> QED BY <1>5, <1>6

LEMMA LostKeepsInv ==
    ASSUME Inv, Timeout \/ Closed
    PROVE  Inv' /\ UNCHANGED projection
<1>1. /\ FailOperation /\ UNCHANGED <<runner, stream>> /\ op # "none"
      /\ timeouts' \in 0..MaxTimeouts
  BY RunControlAssumption DEF Timeout, Closed, Inv, OperationInv, TypeOK
<1> QED BY <1>1, StreamUntouched, FailureKeepsInv

-----------------------------------------------------------------------------

LEMMA InitInv == Init => Inv
<1> SUFFICES ASSUME Init PROVE Inv
  OBVIOUS
<1> USE RunControlAssumption, LaunchStateAssumption
<1>1. TypeOK
  <2>1. 1 \in Generations /\ 0 \in Keys
    BY DEF Generations, Keys
  <2>2. inbox = <<>> /\ outbox = <<>> /\ todo = <<>> /\ next = projection
    BY DEF Init
  <2>3. projection \in [runs : [Run -> Summary \cup {None}], generation : Generations]
    BY <2>1 DEF Init
  <2>4. up \in BOOLEAN /\ sent \in BOOLEAN /\ wizard \in BOOLEAN
    BY DEF Init
  <2>5. /\ runs \in [Run -> RunRecord \cup {None}] /\ revision \in 0..MaxRevision
        /\ generation \in Generations /\ planned \in [Keys -> Generations \cup {None}]
        /\ launched \in [Keys -> Run \cup {None}] /\ others \in 0..MaxOthers
        /\ timeouts \in 0..MaxTimeouts /\ op = "none" /\ launch = None
        /\ reviewed \in Generations \cup {None} /\ preflight = None
    BY <2>1 DEF Init
  <2> QED BY <2>2, <2>3, <2>4, <2>5 DEF TypeOK
<1>2. StreamInv /\ OperationInv /\ LaunchInv
  BY DEF Init, StreamInv, OperationInv, LaunchInv
<1>3. ProjectionInv /\ Ahead(projection, next)
  BY DEF Init, ProjectionInv, TruePage, Ahead
<1>4. CountInv
  <2>1. Started(runs) = {} /\ launched[0] = None /\ others = 0
    BY DEF Init, Started, Keys
  <2> QED BY <2>1, FS_EmptySet DEF CountInv
<1> QED BY <1>1, <1>2, <1>3, <1>4 DEF Inv

LEMMA StepInv ==
    ASSUME Inv, [Next]_vars
    PROVE  Inv' /\ Ahead(projection, projection')
<1>1. ASSUME UNCHANGED projection
      PROVE  Ahead(projection, projection')
  <2>1. projection.generation \in Nat
        /\ \A r \in Run : projection.runs[r] # None => projection.runs[r].revision \in Nat
    BY ProjectionTypes DEF Inv, Projections, Pages, Summary, Generations
  <2> QED BY <1>1, <2>1 DEF Ahead
<1>2. CASE UNCHANGED vars
  <2>1. UNCHANGED <<runner, stream, control, workspace, timeouts>> /\ runs' = runs
    BY <1>2 DEF vars, runner
  <2>2. TypeOK'
    BY <2>1, RunnerUntouched, StreamUntouched DEF Inv, TypeOK, control, workspace
  <2>3. ProjectionInv' /\ Ahead(projection, next)' /\ OperationInv' /\ LaunchInv' /\ UNCHANGED projection
    BY <2>1 DEF Inv, ProjectionInv, Ahead, OperationInv, LaunchInv, control, workspace
  <2> QED BY <1>1, <2>1, <2>2, <2>3, RunnerUntouched, StreamUntouched DEF Inv
<1>3. CASE Next
  BY <1>1, <1>3, RunnerKeepsInv, CatalogsKeepInv, ServeKeepsInv, PeerKeepsInv, WorkspaceKeepsInv,
     KeysKeepInv, WriteKeepsInv, ReadKeepsInv, LostKeepsInv DEF Next
<1> QED BY <1>2, <1>3

LEMMA Invariance == Spec => []Inv
BY InitInv, StepInv, PTL DEF Spec

(* Types of the runner, the stream, the projection and the workspace, and    *)
(* that every call under way is one of the wire.                             *)
THEOREM RunControlTypes == Spec => []TypeOK
<1>1. Inv => TypeOK
  BY DEF Inv
<1> QED BY <1>1, Invariance, PTL

(* One session launches at most one run beside those of other frontends,     *)
(* however often the operator starts and whichever replies are late: every   *)
(* launch carries the one idempotency key, and the runner starts one run for *)
(* it (control_transport.rs, launch_materialized).                           *)
THEOREM OneRunPerSession == Spec => []NoSecondRun
<1>1. Inv => NoSecondRun
  <2> SUFFICES ASSUME Inv PROVE NoSecondRun
    OBVIOUS
  <2>1. Started(runs) = {r \in Run : runs[r] # None}
    BY DEF Started
  <2>2. others \in Nat /\ Cardinality(Started(runs)) \in {others, others + 1}
    BY RunControlAssumption DEF Inv, TypeOK, CountInv
  <2> QED BY <2>1, <2>2 DEF NoSecondRun
<1> QED BY <1>1, Invariance, PTL

(* How the screen says a run ended is how the runner ended it, although      *)
(* replies are read late or for another request, and the launch is bound to  *)
(* the most recent run of the projection (launch_statistics.rs, apply_event; *)
(* live_projection.rs).                                                      *)
THEOREM EndShownTrue == Spec => []EndShownIsTrue
<1>1. Inv => EndShownIsTrue
  BY DEF Inv, LaunchInv, LaunchTrue, EndShownIsTrue
<1> QED BY <1>1, Invariance, PTL

(* No reply, however late, takes the projection back: neither a run record   *)
(* nor the catalogs are replaced by older ones (live_projection.rs,          *)
(* insert_run and apply).                                                    *)
THEOREM ProjectionForward == Spec => ProjectionNeverGoesBack
<1>1. Inv /\ [Next]_vars =>
        [/\ projection'.generation >= projection.generation
         /\ \A r \in Run : projection.runs[r] # None =>
               /\ projection'.runs[r] # None
               /\ projection'.runs[r].revision >= projection.runs[r].revision]_vars
  BY StepInv DEF Ahead
<1> QED BY <1>1, Invariance, PTL DEF Spec, ProjectionNeverGoesBack

=============================================================================
