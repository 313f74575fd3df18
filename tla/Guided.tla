------------------------------- MODULE Guided -------------------------------
(* The guided campaign (benchmark_route.rs): what is selected, reviewed and  *)
(* turned into the intent of a launch or of a replay; and the replay key of  *)
(* runtime.rs, which makes such a campaign from one cassette and sends it.   *)
EXTENDS Naturals, FiniteSets, Sequences

CONSTANTS
    GuNone,          \* Option::None
    GuOrder,         \* the names, in their order; "" and "control" are texts that are no names
    GuWorkloads, GuAgents, GuMeasures, GuProfiles, GuAdapters, GuShas,  \* the texts that callers give
    GuItemMax,       \* MAX_ITEMS
    GuCatalogs,      \* GuidedCatalogs that callers attach
    GuHandoffs,      \* handoffs of the picker, by generation
    GuOffers,        \* by agent and profile: ReplayCatalogs
    GuCassettes      \* by generation: the entries the runner has

GuModes == {"Live", "Record", "OfflineReplay"}
GuAllMeasures == GuMeasures \cup UNION {h.measures : h \in GuHandoffs}
GuIntents ==
    [kind : {"launch"}, workload : GuWorkloads, agents : SUBSET GuAgents, measures : SUBSET GuAllMeasures,
     replay : GuModes, generation : {h.generation : h \in GuHandoffs} \cup {GuNone},
     adapter : GuAdapters \cup {GuNone}]
    \cup [kind : {"replay"}, workload : GuWorkloads, agents : SUBSET GuAgents, measures : SUBSET GuAllMeasures,
          cassette : GuShas, profile : GuProfiles \cup {GuNone}, generation : DOMAIN GuCassettes \cup {GuNone},
          adapter : GuAdapters \cup {GuNone}]

(* None is neither a number nor anything that is kept; generations are       *)
(* numbers, the entries of the runner name their four parts.                 *)
ASSUME GuAssumption ==
    /\ GuNone \notin Nat /\ GuNone \notin GuIntents /\ GuNone \notin GuCatalogs
    /\ \A h \in GuHandoffs : h.generation \in Nat
    /\ DOMAIN GuCassettes \subseteq Nat /\ 1 \in DOMAIN GuCassettes /\ "w" \in GuWorkloads
    /\ \A n \in DOMAIN GuCassettes : \A i \in DOMAIN GuCassettes[n] :
          LET e == GuCassettes[n][i]
          IN  e = [agent |-> e.agent, workload |-> e.workload, cassette |-> e.cassette, profile |-> e.profile]

VARIABLES
    guide,           \* GuidedCampaign
    guideIntent,     \* the last LaunchIntent or ReplayIntent it gave
    route            \* the replay keys: runner's generation, catalog, choice, what was sent
guideVars == <<guide, guideIntent>>

-----------------------------------------------------------------------------
bounded(t) == t # "control"
valid_identifier(t) == t \in {GuOrder[i] : i \in DOMAIN GuOrder}
Given(t) == bounded(t) /\ t # ""

(* Every call gives the campaigns it may lead to: none, if it is refused. *)
new(workload) ==
    IF ~Given(workload) THEN {}
    ELSE {[workload |-> workload, agents |-> {}, measures |-> {}, replay |-> "Live",
           stage |-> "Selection", catalog |-> GuNone, profile |-> GuNone, adapter |-> GuNone,
           handed |-> {}, starts |-> 0, under |-> GuNone]}

GuidedCatalogNew(c) ==
    \A part \in {c.workloads, c.agents, c.measures} :
        /\ part # {} /\ Cardinality(part) <= GuItemMax
        /\ \A t \in part : Given(t)

with_catalog(workload, c) ==
    {[g EXCEPT !.catalog = c] : g \in IF workload \in c.workloads THEN new(workload) ELSE {}}

ensure_selection(g) == g.stage = "Selection"

(* push_unique: an item twice is one, and no more than the limit. *)
Pushes(values, t) == t \in values \/ Cardinality(values) < GuItemMax

add_agent(g, t) ==
    IF /\ ensure_selection(g) /\ Given(t) /\ Pushes(g.agents, t)
       /\ g.catalog # GuNone => t \in g.catalog.agents
    THEN {[g EXCEPT !.agents = @ \cup {t}]} ELSE {}
add_measure(g, t) ==
    IF /\ ensure_selection(g) /\ Given(t) /\ Pushes(g.measures, t)
       /\ g.catalog # GuNone => t \in g.catalog.measures
    THEN {[g EXCEPT !.measures = @ \cup {t}]} ELSE {}
bind_provider_profile_sha256(g, t) == IF valid_identifier(t) THEN {[g EXCEPT !.profile = t]} ELSE {}
bind_adapter_id(g, t) == IF t = "adapter" THEN {[g EXCEPT !.adapter = t]} ELSE {}

(* A careless variant: the mode can be changed at any time. *)
set_replay_mode_anytime(g, mode) == {[g EXCEPT !.replay = mode]}

set_replay_mode(g, mode) == IF ensure_selection(g) THEN {[g EXCEPT !.replay = mode]} ELSE {}

review(g) ==
    IF ensure_selection(g) /\ g.agents # {} /\ g.measures # {}
    THEN {[g EXCEPT !.stage = "Review"]} ELSE {}

(* What a call that starts the campaign gives; it is started under the       *)
(* profile of that moment.                                                   *)
Started(g, intent) ==
    [campaign |-> [g EXCEPT !.stage = "Running", !.starts = @ + 1,
                              !.under = g.profile], intent |-> intent]
LaunchIntent(g, generation) ==
    [kind |-> "launch", workload |-> g.workload, agents |-> g.agents, measures |-> g.measures,
     replay |-> g.replay, generation |-> generation, adapter |-> g.adapter]
ReplayIntent(g, workload, cassette, profile, generation) ==
    [kind |-> "replay", workload |-> workload, agents |-> g.agents, measures |-> g.measures,
     cassette |-> cassette, profile |-> profile, generation |-> generation, adapter |-> g.adapter]

start(g) ==
    IF g.stage = "Review" /\ g.replay # "OfflineReplay" THEN {Started(g, LaunchIntent(g, GuNone))} ELSE {}

(* The picker's handoff replaces the measures, and does so before it is      *)
(* known whether the review accepts the campaign.                            *)
Handed(g, h) == [g EXCEPT !.measures = h.measures, !.handed = h.measures]
HandoffFits(g, h, expected) == ensure_selection(g) /\ h.generation = expected /\ h.measures # {}
start_with_handoff(g, h) ==
    {Started(r, LaunchIntent(r, h.generation)) : r \in review(Handed(g, h))}

start_offline_replay_selected(g, workload, cassette, profile, generation) ==
    IF g.stage = "Review" /\ g.replay = "OfflineReplay"
    THEN {Started(g, ReplayIntent(g, workload, cassette, profile, generation))} ELSE {}

(* A ReplayCatalog is that of one agent and one profile. *)
start_offline_replay_from_catalog(g, offer, cassette) ==
    IF /\ g.agents = {offer.agent} /\ g.profile = offer.profile
       /\ cassette \in offer.cassettes
    THEN start_offline_replay_selected(g, g.workload, cassette, offer.profile, GuNone) ELSE {}

(* AuthenticatedCassetteCatalog::try_from: entries that are valid and in     *)
(* strict order.                                                             *)
Rank(t) == CHOOSE i \in DOMAIN GuOrder : GuOrder[i] = t
Precedes(d, e) ==
    \/ Rank(d.agent) < Rank(e.agent)
    \/ d.agent = e.agent /\ Rank(d.workload) < Rank(e.workload)
    \/ d.agent = e.agent /\ d.workload = e.workload /\ Rank(d.cassette) < Rank(e.cassette)
try_from(catalog) ==
    LET entries == catalog.entries
    IN  IF /\ catalog.generation # 0 /\ entries # <<>> /\ Len(entries) <= 4 * GuItemMax
           /\ \A i \in DOMAIN entries :
                 \A t \in {entries[i].agent, entries[i].workload, entries[i].cassette, entries[i].profile} :
                    valid_identifier(t)
           /\ \A i \in DOMAIN entries : i > 1 => Precedes(entries[i - 1], entries[i])
        THEN {catalog} ELSE {}
FirstEntry(entries, Fits(_)) ==
    {entries[i] : i \in {j \in DOMAIN entries : Fits(entries[j]) /\ \A k \in 1..(j - 1) : ~Fits(entries[k])}}

(* A careless variant: a cassette of another profile will do. *)
start_replay_of_any_profile(g, catalog, workload, cassette) ==
    LET Fits(e) == {e.agent} = g.agents /\ e.workload = workload /\ e.cassette = cassette
    IN  IF g.profile = GuNone THEN {}
        ELSE UNION {start_offline_replay_selected(g, workload, e.cassette, e.profile, catalog.generation)
                       : e \in FirstEntry(catalog.entries, Fits)}

start_offline_replay_from_authenticated_catalog(g, catalog, workload, cassette) ==
    LET Fits(e) == /\ {e.agent} = g.agents /\ e.workload = workload
                   /\ e.cassette = cassette /\ e.profile = g.profile
    IN  UNION {start_offline_replay_selected(g, workload, e.cassette, e.profile, catalog.generation)
                  : e \in FirstEntry(catalog.entries, Fits)}

finish(g, success) ==
    IF g.stage = "Running" THEN {[g EXCEPT !.stage = IF success THEN "Complete" ELSE "Failed"]} ELSE {}

-----------------------------------------------------------------------------
(* The campaign in the hands of a caller. *)
GuideInit == guide \in new("w") /\ guideIntent = GuNone

GuideNew ==
    /\ \/ \E t \in GuWorkloads : guide' \in new(t)
       \/ \E t \in GuWorkloads, c \in GuCatalogs : GuidedCatalogNew(c) /\ guide' \in with_catalog(t, c)
    /\ guideIntent' = GuNone
GuideEdit ==
    /\ \/ \E t \in GuAgents : guide' \in add_agent(guide, t)
       \/ \E t \in GuMeasures : guide' \in add_measure(guide, t)
       \/ \E t \in GuProfiles : guide' \in bind_provider_profile_sha256(guide, t)
       \/ \E t \in GuAdapters : guide' \in bind_adapter_id(guide, t)
       \/ \E mode \in GuModes : guide' \in set_replay_mode(guide, mode)
       \/ guide' \in review(guide)
       \/ \E success \in BOOLEAN : guide' \in finish(guide, success)
    /\ UNCHANGED guideIntent
GuideGives(results) ==
    \E r \in results : guide' = r.campaign /\ guideIntent' = r.intent
GuideStart == GuideGives(start(guide))
GuideHandoff ==
    \E h \in GuHandoffs, expected \in {x.generation : x \in GuHandoffs} :
        /\ HandoffFits(guide, h, expected)
        /\ \/ GuideGives(start_with_handoff(guide, h))
           \/ /\ start_with_handoff(guide, h) = {}
              /\ guide' = Handed(guide, h) /\ UNCHANGED guideIntent
GuideReplay ==
    \E cassette \in GuShas :
        \/ \E offer \in GuOffers : GuideGives(start_offline_replay_from_catalog(guide, offer, cassette))
        \/ \E n \in DOMAIN GuCassettes, workload \in GuWorkloads :
              \E catalog \in try_from([generation |-> n, entries |-> GuCassettes[n]]) :
                 GuideGives(start_offline_replay_from_authenticated_catalog(guide, catalog, workload, cassette))

GuideNext == GuideNew \/ GuideEdit \/ GuideStart \/ GuideHandoff \/ GuideReplay
GuideSpec == GuideInit /\ [][GuideNext]_guideVars

-----------------------------------------------------------------------------
(* The replay keys: a catalog that was read, a choice that goes round, and a *)
(* campaign made for each press, from the chosen cassette.                   *)
RouteInit == route = [generation |-> 1, catalog |-> GuNone, chosen |-> GuNone, sent |-> {}]

(* The runner goes on: cassettes are recorded and removed. *)
RouteRunner ==
    /\ route.generation + 1 \in DOMAIN GuCassettes
    /\ route' = [route EXCEPT !.generation = @ + 1]

(* What is not accepted leaves the catalog of before. *)
fetch_authenticated_cassette_catalog ==
    \E c \in try_from([generation |-> route.generation, entries |-> GuCassettes[route.generation]]) :
        route' = [route EXCEPT !.catalog = c]

select_next_authenticated_cassette ==
    /\ route.catalog # GuNone
    /\ LET entries == route.catalog.entries
           at == {i \in DOMAIN entries : entries[i].cassette = route.chosen}
           next == IF at = {} THEN 1
                   ELSE ((CHOOSE i \in at : \A j \in at : i <= j) % Len(entries)) + 1
       IN  route' = [route EXCEPT !.chosen = entries[next].cassette]

(* One and_then after the other. *)
Then(campaigns, Op(_)) == UNION {Op(g) : g \in campaigns}
prepare_authenticated_replay_campaign(e) ==
    LET made == with_catalog(e.workload, [workloads |-> {e.workload}, agents |-> {e.agent},
                                          measures |-> {"scorer"}])
        Agent(g) == add_agent(g, e.agent)
        Measure(g) == add_measure(g, "scorer")
        Profile(g) == bind_provider_profile_sha256(g, e.profile)
        Mode(g) == set_replay_mode(g, "OfflineReplay")
        Review(g) == review(g)
    IN  Then(Then(Then(Then(Then(made, Agent), Measure), Profile), Mode), Review)

(* The generation of the request is that of the intent: the runner refuses   *)
(* one that is not its own.                                                  *)
SentGenerationOfRunner(intent) == route.generation
SentGeneration(intent) == intent.generation
SentReplay(intent) ==
    [generation |-> SentGeneration(intent),
     entry |-> [agent |-> CHOOSE a \in intent.agents : TRUE, workload |-> intent.workload,
                cassette |-> intent.cassette, profile |-> intent.profile]]

run_authenticated_replay_selection ==
    /\ route.catalog # GuNone /\ route.chosen # GuNone
    /\ LET Chosen(e) == e.cassette = route.chosen
           entry == FirstEntry(route.catalog.entries, Chosen)
           results == UNION {UNION {start_offline_replay_from_authenticated_catalog(g, route.catalog,
                                       e.workload, route.chosen)
                                       : g \in prepare_authenticated_replay_campaign(e)} : e \in entry}
       IN  \E r \in results :
              /\ SentGeneration(r.intent) = route.generation
              /\ route' = [route EXCEPT !.sent = @ \cup {SentReplay(r.intent)}]

RouteNext ==
    \/ RouteRunner \/ fetch_authenticated_cassette_catalog
    \/ select_next_authenticated_cassette \/ run_authenticated_replay_selection
RouteSpec == RouteInit /\ [][RouteNext]_route

-----------------------------------------------------------------------------
(* What a campaign promises whoever dispatches its intent                    *)
(* (benchmark_route.rs).  It starts once, with agents and measures.  A       *)
(* replay is given only in the replay mode, under the profile bound then,    *)
(* for a cassette offered for its one agent.  A launch names the mode it was *)
(* chosen in, so one of a replay campaign says so; start() never gives one.  *)
(* Everything selected is of the attached catalog.  A picker's handoff is    *)
(* the exception to both: start_with_handoff looks neither at the mode nor   *)
(* at the catalog (against lines 5-7 and 44-45, which promise more), and all *)
(* that is kept is that the launch names the generation its measures are of. *)
GuideSound ==
    /\ guide.starts = (IF guideIntent = GuNone THEN 0 ELSE 1)
    /\ guide.catalog # GuNone =>
          /\ guide.agents \subseteq guide.catalog.agents
          /\ guide.measures \subseteq guide.catalog.measures \cup guide.handed
    /\ guideIntent # GuNone =>
          /\ guideIntent.agents # {} /\ guideIntent.measures # {}
          /\ guideIntent.kind = "replay" =>
                /\ guide.replay = "OfflineReplay" /\ guideIntent.profile = guide.under
                /\ \/ \E o \in GuOffers : /\ guideIntent.agents = {o.agent} /\ guideIntent.profile = o.profile
                                          /\ guideIntent.cassette \in o.cassettes
                   \/ /\ guideIntent.generation # GuNone
                      /\ \E i \in DOMAIN GuCassettes[guideIntent.generation] :
                            LET e == GuCassettes[guideIntent.generation][i]
                            IN  /\ guideIntent.agents = {e.agent} /\ guideIntent.workload = e.workload
                                /\ guideIntent.cassette = e.cassette /\ guideIntent.profile = e.profile
          /\ guideIntent.kind = "launch" =>
                /\ guideIntent.replay = guide.replay
                /\ guide.replay = "OfflineReplay" => guideIntent.generation # GuNone
                /\ guideIntent.generation # GuNone =>
                      \E h \in GuHandoffs : h.generation = guideIntent.generation
                                            /\ h.measures = guideIntent.measures

(* Every replay the runner was asked for is of a cassette it had in that     *)
(* generation, for the agent, the workload and the profile it was recorded   *)
(* with, whatever catalog the frontend still shows (runtime.rs, "a catalog,  *)
(* generation, or identity mismatch fails").                                 *)
RouteSound ==
    \A s \in route.sent : s.entry \in {GuCassettes[s.generation][i] : i \in DOMAIN GuCassettes[s.generation]}

(* The guided campaign and its replay key. *)
GuidedSound == GuideSound /\ RouteSound
=============================================================================
