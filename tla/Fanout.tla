------------------------------- MODULE Fanout -------------------------------
(* The fan-out of the chosen workloads over the chosen agents                *)
(* (fanout_dispatch.rs, the two fan-out keys of runtime.rs), and the states  *)
(* of an agent's installation (agent_lifecycle.rs).                          *)
EXTENDS Naturals, FiniteSets, Sequences

CONSTANTS
    FanNone,         \* Option::None
    FanChoices,      \* what the operator may have chosen when the key is pressed
    FanItemMax,      \* MAX_SELECTION_ITEMS
    FanRequestMax,   \* the codec's limit on the requests of a fan-out
    FanInFlight,     \* the negotiated limit on the members of an admission
    FanProcesses,    \* processes of the frontend that are told apart
    AgentOffers,     \* by generation of the catalog: the agents that are available
    AgentTotal,      \* units of progress of an installation
    AgentWireMax,    \* answers of the runner that are under way
    AgentRequests    \* installations that are explored

(* A catalog, as it is kept, is there. *)
ASSUME FanAssumption ==
    /\ FanProcesses \in Nat \ {0} /\ AgentTotal \in Nat
    /\ DOMAIN AgentOffers \subseteq Nat /\ 1 \in DOMAIN AgentOffers
    /\ \A g \in DOMAIN AgentOffers : [generation |-> g, agents |-> AgentOffers[g]] # FanNone

VARIABLES
    fan,             \* the frontend's side of the fan-out
    fanRunner,       \* the runner's: admissions by key, and the members it stopped
    agent,           \* LifecycleState
    agentRunner,     \* the runner's side of the installations
    agentWire        \* its answers, in the order of the stream
fanVars == <<fan, fanRunner>>
agentVars == <<agent, agentRunner, agentWire>>

-----------------------------------------------------------------------------
(* The fan-out.                                                              *)

FanFresh(n, choice) ==
    [alive |-> TRUE, process |-> n, chosen |-> choice, status |-> "Unavailable",
     admission |-> FanNone, selection |-> FanNone, projected |-> FanNone]

FanInit ==
    /\ \E c \in FanChoices : fan = FanFresh(1, c)
    /\ fanRunner = [admitted |-> {}, cancelled |-> {}]

(* The configuration, the picker and the wizard are used in between. *)
FanChoose ==
    /\ fan.alive
    /\ \E c \in FanChoices : fan' = [fan EXCEPT !.chosen = c]
    /\ UNCHANGED fanRunner

(* An applied configuration with a provider and a model, and a campaign. *)
fanout_selection(choice) ==
    IF choice.applied THEN {[agents |-> choice.agents, workloads |-> choice.workloads]} ELSE {}

(* A live fan-out needs the digest of a credential; a local one sends none. *)
FanMode(choice) == choice.mode = "live" => choice.credential = "digest"

canonicalize(s) ==
    IF /\ s.agents # {} /\ Cardinality(s.agents) <= FanItemMax
       /\ s.workloads # {} /\ Cardinality(s.workloads) <= FanItemMax
    THEN {s} ELSE {}

(* One request of each agent for each workload. *)
FanRequests(s, mode) == [agent : s.agents, workload : s.workloads, mode : {mode}]

(* A careless variant: a key of the process's own. *)
FanKeyOfProcess == <<"asb-tui-fanout", fan.process>>

FanKey == <<"asb-tui-fanout", 0>>

(* The runner: a key it knows gives the admission of before, if it was for   *)
(* the same requests; a new one starts a run for every request.              *)
FanAdmits(key, requests) ==
    LET known == {a \in fanRunner.admitted : a.key = key}
        started == {[request |-> r, key |-> key] : r \in requests}
    IN  IF known = {} THEN {[key |-> key, requests |-> requests, members |-> started]}
        ELSE {a \in known : a.requests = requests}

(* An error of the fan-out is one of the event loop, which ends with it. *)
FanEnds(status) == fan' = [fan EXCEPT !.alive = FALSE, !.status = status]

(* The keys are offered by what is projected, which nothing clears. *)
AdmitLegal == fan.alive /\ fan.projected = FanNone
CancelLegal == fan.alive /\ fan.projected # FanNone

(* The codec refuses too many requests before they are sent, and too many    *)
(* members when they arrive.                                                 *)
FanSendable(requests) == Cardinality(requests) <= FanRequestMax
FanReadable(members) == Cardinality(members) <= FanInFlight

admit_fanout(requests) == IF FanSendable(requests) THEN FanAdmits(FanKey, requests) ELSE {}

(* The key A.  The request or its answer may not arrive. *)
admit_selected_with_mode ==
    /\ AdmitLegal
    /\ \E arrives, answered \in BOOLEAN :
          LET chosen == IF FanMode(fan.chosen)
                        THEN UNION {canonicalize(s) : s \in fanout_selection(fan.chosen)} ELSE {}
              admissions(s) == IF arrives THEN admit_fanout(FanRequests(s, fan.chosen.mode)) ELSE {}
          IN  \/ /\ chosen = {}
                 /\ FanEnds(fan.status) /\ UNCHANGED fanRunner
              \/ /\ \E s \in chosen : admissions(s) = {}
                 /\ FanEnds("Unavailable") /\ UNCHANGED fanRunner
              \/ \E s \in chosen : \E a \in admissions(s) :
                    /\ fanRunner' = [fanRunner EXCEPT !.admitted = @ \cup {a}]
                    /\ IF answered /\ FanReadable(a.members)
                       THEN fan' = [fan EXCEPT !.status = "Admitted", !.admission = a.members,
                                               !.projected = a.members, !.selection = s]
                       ELSE FanEnds("Unavailable")

cancel_fanout(arrives) ==
    fanRunner' = IF arrives THEN [fanRunner EXCEPT !.cancelled = @ \cup fan.admission] ELSE fanRunner

(* A careless variant: what was asked for is taken for done. *)
FanCancelsUnheard ==
    /\ CancelLegal
    /\ \E arrives \in BOOLEAN : cancel_fanout(arrives)
    /\ fan' = [fan EXCEPT !.status = "Cancelled"]

(* The key Ctrl-Z: the members of the admission, as the runner named them. *)
FanCancel ==
    /\ CancelLegal
    /\ \E arrives, answered \in BOOLEAN :
          /\ cancel_fanout(arrives)
          /\ IF arrives /\ answered THEN fan' = [fan EXCEPT !.status = "Cancelled"]
             ELSE FanEnds("Admitted")

FanRestart ==
    /\ ~fan.alive
    /\ \E c \in FanChoices :
          fan' = FanFresh(IF fan.process < FanProcesses THEN fan.process + 1 ELSE fan.process, c)
    /\ UNCHANGED fanRunner

FanNext == FanChoose \/ admit_selected_with_mode \/ FanCancel \/ FanRestart
FanSpec == FanInit /\ [][FanNext]_fanVars

-----------------------------------------------------------------------------
(* The installation of an agent.  The frontend's state, by phase; what a     *)
(* phase does not have is None.                                              *)

AgentState(phase, generation) ==
    [phase |-> phase, generation |-> generation, id |-> FanNone, completed |-> 0, catalog |-> FanNone]
AgentOf(s, phase) == [AgentState(phase, s.generation) EXCEPT !.id = s.id]
Ready(catalog) == [AgentState("Ready", catalog.generation) EXCEPT !.catalog = catalog]

AgentInit ==
    /\ agent = AgentState("Disconnected", 0)
    /\ agentRunner = [generation |-> 1, installed |-> {}, busy |-> FanNone, cancel |-> FALSE,
                      asked |-> FALSE, requests |-> 0]
    /\ agentWire = <<>>

AgentAnswer(type, generation, extra) == [type |-> type, generation |-> generation, extra |-> extra]
AgentCatalog == [generation |-> agentRunner.generation, agents |-> AgentOffers[agentRunner.generation]]

(* The operator's events, which the control client turns into requests. *)
RefreshRequested ==
    /\ agent.phase \in {"Disconnected", "Ready", "Installed"} /\ ~agentRunner.asked
    /\ agent' = AgentState("Refreshing", agent.generation)
    /\ agentRunner' = [agentRunner EXCEPT !.asked = TRUE]
    /\ UNCHANGED agentWire

ReconnectRequested ==
    /\ agent.phase \in {"Ready", "Installed"} /\ ~agentRunner.asked
    /\ agent' = AgentState("Reconnecting", agent.generation)
    /\ agentRunner' = [agentRunner EXCEPT !.asked = TRUE]
    /\ UNCHANGED agentWire

RetryRequested ==
    /\ agent.phase = "Failed" /\ ~agentRunner.asked
    /\ agent' = AgentState("Refreshing", agent.generation)
    /\ agentRunner' = [agentRunner EXCEPT !.asked = TRUE]
    /\ UNCHANGED agentWire

(* An agent of the catalog that is available. *)
find_available(catalog) == catalog.agents

InstallRequested ==
    /\ agent.phase = "Ready" /\ agentRunner.requests < AgentRequests
    /\ \E id \in find_available(agent.catalog) :
          /\ agent' = [AgentState("Installing", agent.generation) EXCEPT !.id = id]
          /\ agentRunner' = [agentRunner EXCEPT !.requests = @ + 1, !.cancel = FALSE,
                            !.busy = [id |-> id, generation |-> agent.generation, done |-> 0]]
          /\ UNCHANGED agentWire

(* A careless variant: a request to stop is taken for the end. *)
CancelsAtOnce ==
    /\ agent.phase = "Installing"
    /\ agent' = AgentState("Disconnected", 0)
    /\ agentRunner' = [agentRunner EXCEPT !.cancel = TRUE]
    /\ UNCHANGED agentWire

CancelRequested ==
    /\ agent.phase = "Installing"
    /\ agent' = AgentOf(agent, "Cancelling")
    /\ agentRunner' = [agentRunner EXCEPT !.cancel = TRUE]
    /\ UNCHANGED agentWire

RemoveRequested ==
    /\ agent.phase = "Installed" /\ agentRunner.busy = FanNone
    /\ agent' = AgentOf(agent, "Removing")
    /\ agentRunner' = [agentRunner EXCEPT !.installed = @ \ {agent.id}]
    /\ agentWire' = Append(agentWire, AgentAnswer("RemoveSucceeded", agent.generation, 0))

(* No event leads out of Stale: the owner of the state makes a new one, on a *)
(* stream of its own.                                                        *)
AgentAgain ==
    /\ agent.phase = "Stale"
    /\ agent' = AgentState("Disconnected", 0)
    /\ agentRunner' = [agentRunner EXCEPT !.asked = FALSE, !.cancel = FALSE]
    /\ agentWire' = <<>>

(* What the answers do; any other pair of state and answer is refused. *)
AgentApply(s, e) ==
    CASE s.phase = "Refreshing" /\ e.type = "Catalog" ->
           {IF s.generation \in {0, e.generation} THEN Ready([generation |-> e.generation, agents |-> e.extra])
            ELSE AgentState("Stale", e.generation)}
      [] s.phase = "Reconnecting" /\ e.type = "Catalog" ->
           {IF s.generation = e.generation THEN Ready([generation |-> e.generation, agents |-> e.extra])
            ELSE AgentState("Stale", e.generation)}
      [] s.phase = "Installing" /\ e.type = "Progress" /\ s.generation = e.generation
            /\ e.extra \in s.completed..AgentTotal -> {[s EXCEPT !.completed = e.extra]}
      [] s.phase = "Installing" /\ e.type = "InstallSucceeded" /\ s.generation = e.generation
            /\ s.completed = AgentTotal -> {AgentOf(s, "Installed")}
      [] s.phase = "Installing" /\ e.type = "InstallFailed" /\ s.generation = e.generation ->
           {AgentState("Failed", s.generation)}
      [] s.phase = "Cancelling" /\ e.type = "Cancelled" /\ s.generation = e.generation ->
           {AgentState("Disconnected", 0)}
      [] s.phase = "Removing" /\ e.type = "RemoveSucceeded" /\ s.generation = e.generation ->
           {AgentState("Reconnecting", s.generation)}
      [] OTHER -> {}

AgentReceives ==
    /\ agentWire # <<>>
    /\ LET next == AgentApply(agent, Head(agentWire))
       IN  /\ agent' = IF next = {} THEN agent ELSE CHOOSE s \in next : TRUE
           /\ agentRunner' = [agentRunner EXCEPT
                 !.asked = @ \/ (next # {} /\ Head(agentWire).type = "RemoveSucceeded")]
    /\ agentWire' = Tail(agentWire)

(* The runner: it answers with its catalog, works at one installation at a   *)
(* time, stops one it is asked to stop, and publishes new catalogs.          *)
AgentSays(answer) ==
    /\ Len(agentWire) < AgentWireMax
    /\ agentWire' = Append(agentWire, answer) /\ UNCHANGED agent
AgentLists ==
    /\ agentRunner.asked
    /\ AgentSays(AgentAnswer("Catalog", agentRunner.generation, AgentCatalog.agents))
    /\ agentRunner' = [agentRunner EXCEPT !.asked = FALSE]
AgentWorks ==
    /\ agentRunner.busy # FanNone /\ agentRunner.busy.done < AgentTotal
    /\ AgentSays(AgentAnswer("Progress", agentRunner.busy.generation, agentRunner.busy.done + 1))
    /\ agentRunner' = [agentRunner EXCEPT !.busy.done = @ + 1]
AgentEnds ==
    /\ agentRunner.busy # FanNone
    /\ \/ /\ agentRunner.busy.done = AgentTotal
          /\ AgentSays(AgentAnswer("InstallSucceeded", agentRunner.busy.generation, 0))
          /\ agentRunner' = [agentRunner EXCEPT !.installed = @ \cup {agentRunner.busy.id},
                                                !.busy = FanNone]
       \/ /\ AgentSays(AgentAnswer("InstallFailed", agentRunner.busy.generation, 0))
          /\ agentRunner' = [agentRunner EXCEPT !.busy = FanNone]
AgentStops ==
    /\ agentRunner.cancel
    /\ AgentSays(AgentAnswer("Cancelled", agent.generation, 0))
    /\ agentRunner' = [agentRunner EXCEPT !.cancel = FALSE, !.busy = FanNone]
AgentPublishes ==
    /\ agentRunner.generation + 1 \in DOMAIN AgentOffers
    /\ agentRunner' = [agentRunner EXCEPT !.generation = @ + 1]
    /\ UNCHANGED <<agent, agentWire>>

AgentNext ==
    \/ RefreshRequested \/ ReconnectRequested \/ RetryRequested \/ InstallRequested
    \/ CancelRequested \/ RemoveRequested \/ AgentAgain \/ AgentReceives
    \/ AgentLists \/ AgentWorks \/ AgentEnds \/ AgentStops \/ AgentPublishes
AgentSpec == AgentInit /\ [][AgentNext]_agentVars

-----------------------------------------------------------------------------
(* The values of both parts. *)
FanTypeOK ==
    /\ fan.status \in {"Unavailable", "Admitted", "Cancelled"} /\ fan.process \in 1..FanProcesses
    /\ agent.completed \in 0..AgentTotal
    /\ agent.phase = "Ready" <=> agent.catalog # FanNone

(* FanoutDispatchState: what is called admitted is what the runner admitted, *)
(* a run of each chosen agent for each chosen workload; what is called       *)
(* cancelled the runner has stopped; and no workload is started twice for an *)
(* agent, whatever was lost and however often the frontend was started.      *)
FanoutSound ==
    /\ fan.alive /\ fan.status \in {"Admitted", "Cancelled"} =>
          /\ fan.projected = fan.admission
          /\ \E a \in fanRunner.admitted : a.members = fan.admission
          /\ {<<m.request.agent, m.request.workload>> : m \in fan.admission}
                = fan.selection.agents \X fan.selection.workloads
    /\ fan.status = "Cancelled" => fan.admission \subseteq fanRunner.cancelled
    /\ \A a, b \in UNION {x.members : x \in fanRunner.admitted} : a.request = b.request => a = b

(* LifecycleState::apply: an agent is shown as installed only if the runner  *)
(* installed that one, and is installed only from a catalog that offers it;  *)
(* the end of an earlier installation is never taken for that of a later one.*)
AgentsHonest ==
    /\ agent.phase = "Installed" => agent.id \in agentRunner.installed
    /\ agent.phase \in {"Installing", "Installed", "Cancelling", "Removing"} =>
          agent.id \in AgentOffers[agent.generation]

(* What the frontend calls admitted, cancelled or installed is so at the     *)
(* runner, and nothing runs twice.                                           *)
FanoutHonest == FanoutSound /\ AgentsHonest
=============================================================================
