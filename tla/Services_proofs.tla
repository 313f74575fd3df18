--------------------------- MODULE Services_proofs ---------------------------
(***************************************************************************)
(* Proofs about the services of the runner that the frontend drives: the   *)
(* fan-out and the agents (Fanout), the guided campaign and its replay key *)
(* (Guided), about the keyboard they are driven with (Keys), and about the *)
(* views and gates beside them (Views); and about the suite that explores  *)
(* them side by side (MCServices).                                         *)
(***************************************************************************)
EXTENDS Integers, MCServices, Recording_proofs, FiniteSetTheorems, NaturalsInduction,
        WellFoundedInduction, TLAPS

-----------------------------------------------------------------------------
(* The fan-out.  The runner knows at most one admission, since the key of    *)
(* every process is the same; what the frontend shows was read from it.      *)

FanMembers(requests) == {[request |-> r, key |-> FanKey] : r \in requests}

FanTyped ==
    /\ fan = [alive |-> fan.alive, process |-> fan.process, chosen |-> fan.chosen, status |-> fan.status,
              admission |-> fan.admission, selection |-> fan.selection, projected |-> fan.projected]
    /\ fan.status \in {"Unavailable", "Admitted", "Cancelled"} /\ fan.process \in 1..FanProcesses
    /\ fan.chosen \in FanChoices
    /\ fanRunner = [admitted |-> fanRunner.admitted, cancelled |-> fanRunner.cancelled]

FanAdmittedOnce ==
    /\ \A a \in fanRunner.admitted : a.key = FanKey /\ a.members = FanMembers(a.requests)
    /\ \A a, b \in fanRunner.admitted : a = b

FanShown ==
    /\ fan.alive /\ fan.status = "Unavailable" => fan.projected = FanNone
    /\ fan.status \in {"Admitted", "Cancelled"} =>
          /\ fan.projected = fan.admission
          /\ \E a \in fanRunner.admitted, c \in FanChoices :
                a.members = fan.admission /\ a.requests = FanRequests(fan.selection, c.mode)
    /\ fan.status = "Cancelled" => fan.admission \subseteq fanRunner.cancelled

FanInv == FanTyped /\ FanAdmittedOnce /\ FanShown

LEMMA FanInitInv == FanInit => FanInv
BY FanAssumption DEF FanInit, FanFresh, FanInv, FanTyped, FanAdmittedOnce, FanShown

(* The runner's answer to a fan-out, whether it knows the key or not. *)
LEMMA FanAdmission ==
    ASSUME FanAdmittedOnce, NEW requests, NEW a \in FanAdmits(FanKey, requests)
    PROVE  /\ a.key = FanKey /\ a.requests = requests /\ a.members = FanMembers(requests)
           /\ \A b \in fanRunner.admitted : b = a
<1> DEFINE known == {x \in fanRunner.admitted : x.key = FanKey}
           started == {[request |-> r, key |-> FanKey] : r \in requests}
<1>1. started = FanMembers(requests)
  BY DEF FanMembers
<1>2. known = fanRunner.admitted
  BY DEF FanAdmittedOnce
<1>3. a \in IF known = {} THEN {[key |-> FanKey, requests |-> requests, members |-> started]}
            ELSE {x \in known : x.requests = requests}
  BY DEF FanAdmits
<1> HIDE DEF known, started
<1>4. CASE known = {}
  BY <1>1, <1>2, <1>3, <1>4
<1>5. CASE known # {}
  BY <1>2, <1>3, <1>5 DEF FanAdmittedOnce
<1> QED BY <1>4, <1>5

LEMMA FanEndsInv ==
    ASSUME FanInv, NEW status \in {fan.status, "Unavailable"}, FanEnds(status), UNCHANGED fanRunner
    PROVE  FanInv'
<1>1. /\ fan' = [fan EXCEPT !.alive = FALSE, !.status = status]
  BY DEF FanEnds
<1>2. /\ ~fan'.alive /\ fan'.status = status /\ fan'.chosen = fan.chosen /\ fan'.process = fan.process
      /\ fan'.admission = fan.admission /\ fan'.selection = fan.selection /\ fan'.projected = fan.projected
      /\ fan' = [alive |-> FALSE, process |-> fan.process, chosen |-> fan.chosen, status |-> status,
              admission |-> fan.admission, selection |-> fan.selection, projected |-> fan.projected]
  BY <1>1 DEF FanInv, FanTyped
<1>3. FanTyped'
  BY <1>2 DEF FanInv, FanTyped
<1>4. FanAdmittedOnce'
  BY DEF FanInv, FanAdmittedOnce
<1>5. FanShown'
  BY <1>2 DEF FanInv, FanShown
<1> QED BY <1>3, <1>4, <1>5 DEF FanInv

LEMMA FanAdmitInv ==
    ASSUME FanInv, admit_selected_with_mode
    PROVE  FanInv'
<1>1. PICK arrives \in BOOLEAN, replied \in BOOLEAN :
          LET chosen == IF FanMode(fan.chosen)
                        THEN UNION {canonicalize(s) : s \in fanout_selection(fan.chosen)} ELSE {}
              admissions(s) == IF arrives THEN admit_fanout(FanRequests(s, fan.chosen.mode)) ELSE {}
          IN  \/ /\ chosen = {}
                 /\ FanEnds(fan.status) /\ UNCHANGED fanRunner
              \/ /\ \E s \in chosen : admissions(s) = {}
                 /\ FanEnds("Unavailable") /\ UNCHANGED fanRunner
              \/ \E s \in chosen : \E a \in admissions(s) :
                    /\ fanRunner' = [fanRunner EXCEPT !.admitted = @ \cup {a}]
                    /\ IF replied /\ FanReadable(a.members)
                       THEN fan' = [fan EXCEPT !.status = "Admitted", !.admission = a.members,
                                               !.projected = a.members, !.selection = s]
                       ELSE FanEnds("Unavailable")
  BY DEF admit_selected_with_mode
<1>2. CASE FanEnds(fan.status) /\ UNCHANGED fanRunner
  BY <1>2, FanEndsInv
<1>3. CASE FanEnds("Unavailable") /\ UNCHANGED fanRunner
  BY <1>3, FanEndsInv
<1>4. CASE \E s : \E a \in FanAdmits(FanKey, FanRequests(s, fan.chosen.mode)) :
              /\ fanRunner' = [fanRunner EXCEPT !.admitted = @ \cup {a}]
              /\ \/ fan' = [fan EXCEPT !.status = "Admitted", !.admission = a.members,
                                       !.projected = a.members, !.selection = s]
                 \/ FanEnds("Unavailable")
  <2>1. PICK s : \E a \in FanAdmits(FanKey, FanRequests(s, fan.chosen.mode)) :
              /\ fanRunner' = [fanRunner EXCEPT !.admitted = @ \cup {a}]
              /\ \/ fan' = [fan EXCEPT !.status = "Admitted", !.admission = a.members,
                                       !.projected = a.members, !.selection = s]
                 \/ FanEnds("Unavailable")
    BY <1>4
  <2>2. PICK a \in FanAdmits(FanKey, FanRequests(s, fan.chosen.mode)) :
              /\ fanRunner' = [fanRunner EXCEPT !.admitted = @ \cup {a}]
              /\ \/ fan' = [fan EXCEPT !.status = "Admitted", !.admission = a.members,
                                       !.projected = a.members, !.selection = s]
                 \/ FanEnds("Unavailable")
    BY <2>1
  <2>3. /\ a.key = FanKey /\ a.requests = FanRequests(s, fan.chosen.mode)
        /\ a.members = FanMembers(a.requests) /\ \A b \in fanRunner.admitted : b = a
    BY FanAdmission DEF FanInv
  <2>4. /\ fanRunner'.admitted = fanRunner.admitted \cup {a} /\ fanRunner'.cancelled = fanRunner.cancelled
        /\ fanRunner' = [admitted |-> fanRunner'.admitted, cancelled |-> fanRunner'.cancelled]
    BY <2>2 DEF FanInv, FanTyped
  <2>5. FanAdmittedOnce'
    BY <2>3, <2>4 DEF FanInv, FanAdmittedOnce
  <2>6. CASE fan' = [fan EXCEPT !.status = "Admitted", !.admission = a.members,
                                !.projected = a.members, !.selection = s]
    <3>1. /\ fan'.status = "Admitted" /\ fan'.chosen = fan.chosen /\ fan'.process = fan.process
          /\ fan'.admission = a.members /\ fan'.selection = s /\ fan'.projected = a.members
          /\ fan' = [alive |-> fan'.alive, process |-> fan'.process, chosen |-> fan'.chosen,
                     status |-> fan'.status, admission |-> fan'.admission, selection |-> fan'.selection,
                     projected |-> fan'.projected]
      BY <2>6 DEF FanInv, FanTyped
    <3>2. FanTyped'
      BY <2>4, <3>1 DEF FanInv, FanTyped
    <3>3. FanShown'
      BY <2>3, <2>4, <3>1 DEF FanInv, FanTyped, FanShown
    <3> QED BY <2>5, <3>2, <3>3 DEF FanInv
  <2>7. CASE FanEnds("Unavailable")
    <3>1. /\ ~fan'.alive /\ fan'.status = "Unavailable" /\ fan'.chosen = fan.chosen
          /\ fan'.process = fan.process
          /\ fan' = [alive |-> fan'.alive, process |-> fan'.process, chosen |-> fan'.chosen,
                     status |-> fan'.status, admission |-> fan'.admission, selection |-> fan'.selection,
                     projected |-> fan'.projected]
      BY <2>7 DEF FanEnds, FanInv, FanTyped
    <3>2. FanTyped'
      BY <2>4, <3>1 DEF FanInv, FanTyped
    <3>3. FanShown'
      BY <3>1 DEF FanShown
    <3> QED BY <2>5, <3>2, <3>3 DEF FanInv
  <2> QED BY <2>2, <2>6, <2>7
<1> QED BY <1>1, <1>2, <1>3, <1>4 DEF admit_fanout

LEMMA FanCancelInv ==
    ASSUME FanInv, FanCancel
    PROVE  FanInv'
<1>1. PICK arrives \in BOOLEAN, replied \in BOOLEAN :
          /\ cancel_fanout(arrives)
          /\ IF arrives /\ replied THEN fan' = [fan EXCEPT !.status = "Cancelled"]
             ELSE FanEnds("Admitted")
  BY DEF FanCancel
<1>2. fan.status \in {"Admitted", "Cancelled"}
  BY DEF FanCancel, CancelLegal, FanInv, FanTyped, FanShown
<1>3. /\ fanRunner'.admitted = fanRunner.admitted
      /\ fanRunner'.cancelled = IF arrives THEN fanRunner.cancelled \cup fan.admission ELSE fanRunner.cancelled
      /\ fanRunner' = [admitted |-> fanRunner'.admitted, cancelled |-> fanRunner'.cancelled]
  BY <1>1 DEF cancel_fanout, FanInv, FanTyped
<1>4. /\ fan'.chosen = fan.chosen /\ fan'.process = fan.process /\ fan'.admission = fan.admission
      /\ fan'.selection = fan.selection /\ fan'.projected = fan.projected
      /\ fan'.status = IF arrives /\ replied THEN "Cancelled" ELSE "Admitted"
      /\ fan' = [alive |-> fan'.alive, process |-> fan'.process, chosen |-> fan'.chosen,
                 status |-> fan'.status, admission |-> fan'.admission, selection |-> fan'.selection,
                 projected |-> fan'.projected]
  BY <1>1 DEF FanEnds, FanInv, FanTyped
<1>5. FanTyped'
  BY <1>3, <1>4 DEF FanInv, FanTyped
<1>6. FanAdmittedOnce'
  BY <1>3 DEF FanInv, FanAdmittedOnce
<1>7. FanShown'
  BY <1>2, <1>3, <1>4 DEF FanInv, FanShown
<1> QED BY <1>5, <1>6, <1>7 DEF FanInv

LEMMA FanNextInv == FanInv /\ [FanNext]_fanVars => FanInv'
<1> SUFFICES ASSUME FanInv, [FanNext]_fanVars PROVE FanInv'
  OBVIOUS
<1>1. CASE FanChoose
  <2>1. PICK c \in FanChoices : fan' = [fan EXCEPT !.chosen = c]
    BY <1>1 DEF FanChoose
  <2>2. /\ fan'.alive = fan.alive /\ fan'.chosen = c /\ fan'.process = fan.process
        /\ fan'.admission = fan.admission /\ fan'.status = fan.status
        /\ fan'.selection = fan.selection /\ fan'.projected = fan.projected
        /\ fan' = [alive |-> fan'.alive, process |-> fan'.process, chosen |-> fan'.chosen,
                   status |-> fan'.status, admission |-> fan'.admission, selection |-> fan'.selection,
                   projected |-> fan'.projected]
    BY <2>1 DEF FanInv, FanTyped
  <2> QED BY <1>1, <2>2 DEF FanChoose, FanInv, FanTyped, FanAdmittedOnce, FanShown
<1>2. CASE admit_selected_with_mode
  BY <1>2, FanAdmitInv
<1>3. CASE FanCancel
  BY <1>3, FanCancelInv
<1>4. CASE FanRestart
  <2>1. PICK c \in FanChoices :
           fan' = FanFresh(IF fan.process < FanProcesses THEN fan.process + 1 ELSE fan.process, c)
    BY <1>4 DEF FanRestart
  <2>2. (IF fan.process < FanProcesses THEN fan.process + 1 ELSE fan.process) \in 1..FanProcesses
    BY FanAssumption DEF FanInv, FanTyped
  <2> QED BY <1>4, <2>1, <2>2 DEF FanRestart, FanFresh, FanInv, FanTyped, FanAdmittedOnce, FanShown
<1>5. CASE UNCHANGED fanVars
  BY <1>5 DEF fanVars, FanInv, FanTyped, FanAdmittedOnce, FanShown
<1> QED BY <1>1, <1>2, <1>3, <1>4, <1>5 DEF FanNext

(* For any choices, limits and number of restarts, whatever requests and     *)
(* answers are lost: what is called admitted was admitted, one run for each  *)
(* chosen agent and workload, what is called cancelled was stopped, and no   *)
(* request was started twice (fanout_dispatch.rs).                           *)
THEOREM FanoutDispatched == FanSpec => []FanoutSound
<1>1. FanInv => FanoutSound
  <2> SUFFICES ASSUME FanInv PROVE FanoutSound
    OBVIOUS
  <2>1. ASSUME fan.status \in {"Admitted", "Cancelled"}
        PROVE  /\ fan.projected = fan.admission
               /\ \E a \in fanRunner.admitted : a.members = fan.admission
               /\ {<<m.request.agent, m.request.workload>> : m \in fan.admission}
                      = fan.selection.agents \X fan.selection.workloads
    <3>1. PICK a \in fanRunner.admitted, c \in FanChoices :
             a.members = fan.admission /\ a.requests = FanRequests(fan.selection, c.mode)
      BY <2>1 DEF FanInv, FanShown
    <3>2. fan.admission = {[request |-> r, key |-> FanKey] : r \in a.requests}
      BY <3>1 DEF FanInv, FanAdmittedOnce, FanMembers
    <3>3. a.requests = [agent : fan.selection.agents, workload : fan.selection.workloads, mode : {c.mode}]
      BY <3>1 DEF FanRequests
    <3> DEFINE pairs == {<<m.request.agent, m.request.workload>> : m \in fan.admission}
    <3>4. ASSUME NEW p \in pairs PROVE p \in fan.selection.agents \X fan.selection.workloads
      <4>1. PICK m \in fan.admission : p = <<m.request.agent, m.request.workload>>
        OBVIOUS
      <4>2. m.request \in a.requests
        BY <3>2, <4>1
      <4> QED BY <3>3, <4>1, <4>2
    <3>5. ASSUME NEW x \in fan.selection.agents, NEW y \in fan.selection.workloads PROVE <<x, y>> \in pairs
      <4> DEFINE r == [agent |-> x, workload |-> y, mode |-> c.mode]
      <4>1. r \in a.requests
        BY <3>3
      <4>2. [request |-> r, key |-> FanKey] \in fan.admission
        BY <3>2, <4>1
      <4>3. <<[request |-> r, key |-> FanKey].request.agent,
              [request |-> r, key |-> FanKey].request.workload>> = <<x, y>>
        OBVIOUS
      <4> QED BY <4>2, <4>3
    <3>6. pairs = fan.selection.agents \X fan.selection.workloads
      <4> HIDE DEF pairs
      <4> QED BY <3>4, <3>5
    <3> QED BY <2>1, <3>1, <3>6 DEF FanInv, FanShown
  <2>2. ASSUME NEW a \in UNION {x.members : x \in fanRunner.admitted},
               NEW b \in UNION {x.members : x \in fanRunner.admitted}, a.request = b.request
        PROVE  a = b
    <3>1. \A x \in fanRunner.admitted : x.members = {[request |-> r, key |-> FanKey] : r \in x.requests}
      BY DEF FanInv, FanAdmittedOnce, FanMembers
    <3>2. \E r : a = [request |-> r, key |-> FanKey]
      BY <3>1
    <3>3. \E r : b = [request |-> r, key |-> FanKey]
      BY <3>1
    <3> QED BY <2>2, <3>2, <3>3
  <2> QED BY <2>1, <2>2 DEF FanoutSound, FanInv, FanShown
<1> QED BY <1>1, FanInitInv, FanNextInv, PTL DEF FanSpec

-----------------------------------------------------------------------------
(* The agents.  What is on the wire, and what the runner does, is told by    *)
(* the phase of the frontend: an answer that ends something is the last one. *)

AgentPhases == {"Disconnected", "Refreshing", "Reconnecting", "Ready", "Installing", "Cancelling",
                "Installed", "Removing", "Failed", "Stale"}
AgentMessages == {"Catalog", "Progress", "InstallSucceeded", "InstallFailed", "Cancelled", "RemoveSucceeded"}
AgentGenerations == DOMAIN AgentOffers
AgentNames == UNION {AgentOffers[g] : g \in AgentGenerations}
AgentWords == [type : AgentMessages, generation : AgentGenerations \cup {0},
               extra : 0..AgentTotal \cup {AgentOffers[g] : g \in AgentGenerations}]
AgentCatalogs == {[generation |-> g, agents |-> AgentOffers[g]] : g \in AgentGenerations}
AgentStates ==
    [phase : AgentPhases, generation : AgentGenerations \cup {0}, id : AgentNames \cup {FanNone},
     completed : 0..AgentTotal, catalog : AgentCatalogs \cup {FanNone}]
AgentJobs == [id : AgentNames, generation : AgentGenerations \cup {0}, done : 0..AgentTotal] \cup {FanNone}
AgentRunners ==
    [generation : AgentGenerations, installed : SUBSET AgentNames, busy : AgentJobs,
     cancel : BOOLEAN, asked : BOOLEAN, requests : Nat]
AgentTyped ==
    agent \in AgentStates /\ agentRunner \in AgentRunners /\ agentWire \in Seq(AgentWords)

Asking == {"Refreshing", "Reconnecting"}
Owning == {"Installing", "Installed", "Cancelling", "Removing"}

AgentQuiet ==
    /\ agentRunner.asked => agent.phase \in Asking /\ agentWire = <<>>
    /\ agentRunner.cancel => agent.phase = "Cancelling"
    /\ agentRunner.busy # FanNone =>
          /\ agent.phase \in {"Installing", "Cancelling"} /\ agentRunner.busy.id = agent.id
          /\ agentRunner.busy.generation = agent.generation

AgentKnows ==
    /\ agent.phase = "Ready" => agent.catalog \in AgentCatalogs /\ agent.catalog.generation = agent.generation
    /\ agent.phase # "Ready" => agent.catalog = FanNone
    /\ agent.phase \in Owning => agent.generation \in AgentGenerations /\ agent.id \in AgentOffers[agent.generation]
    /\ agent.phase = "Installed" => agent.id \in agentRunner.installed

(* An answer ends what it answers. *)
AgentFits(i) ==
    LET e == agentWire[i] IN
    /\ e.type = "Catalog" => /\ agent.phase \in Asking /\ i = Len(agentWire)
                             /\ e.generation \in AgentGenerations /\ e.extra = AgentOffers[e.generation]
    /\ e.type = "Progress" => agent.phase \in {"Installing", "Cancelling"}
    /\ e.type \in {"InstallSucceeded", "InstallFailed"} =>
          /\ agent.phase \in {"Installing", "Cancelling"} /\ agentRunner.busy = FanNone
          /\ agent.phase = "Installing" => i = Len(agentWire)
    /\ e.type = "InstallSucceeded" => agent.id \in agentRunner.installed
    /\ e.type = "Cancelled" => /\ agent.phase = "Cancelling" /\ ~agentRunner.cancel
                               /\ agentRunner.busy = FanNone /\ i = Len(agentWire)
    /\ e.type = "RemoveSucceeded" => agent.phase = "Removing" /\ i = Len(agentWire)
AgentWireInv == \A i \in 1..Len(agentWire) : AgentFits(i)

AgentInv == AgentTyped /\ AgentQuiet /\ AgentKnows /\ AgentWireInv

LEMMA AgentInitInv == AgentInit => AgentInv
<1> SUFFICES ASSUME AgentInit PROVE AgentInv
  OBVIOUS
<1>1. agent = [phase |-> "Disconnected", generation |-> 0, id |-> FanNone, completed |-> 0, catalog |-> FanNone]
      /\ agentWire = <<>>
      /\ agentRunner = [generation |-> 1, installed |-> {}, busy |-> FanNone, cancel |-> FALSE,
                        asked |-> FALSE, requests |-> 0]
  BY DEF AgentInit, AgentState
<1>2. AgentTyped
  <2>1. agentWire \in Seq(AgentWords)
    BY <1>1
  <2>2. agent \in AgentStates
    BY <1>1, FanAssumption DEF AgentStates, AgentPhases
  <2>3. agentRunner \in AgentRunners
    BY <1>1, FanAssumption DEF AgentRunners, AgentJobs, AgentGenerations
  <2> QED BY <2>1, <2>2, <2>3 DEF AgentTyped
<1>3. Len(agentWire) = 0
  BY <1>1
<1> QED BY <1>1, <1>2, <1>3 DEF AgentInv, AgentQuiet, AgentKnows, AgentWireInv, Owning

(* Where nothing is awaited, nothing is under way. *)
LEMMA AgentNothing ==
    ASSUME AgentInv, agent.phase \notin {"Refreshing", "Reconnecting", "Installing", "Cancelling", "Removing"}
    PROVE  agentWire = <<>> /\ Len(agentWire) = 0 /\ ~agentRunner.asked
           /\ ~agentRunner.cancel /\ agentRunner.busy = FanNone
<1>1. ASSUME agentWire # <<>> PROVE FALSE
  <2>1. agentWire \in Seq(AgentWords) /\ 1 \in 1..Len(agentWire)
    BY <1>1 DEF AgentInv, AgentTyped, AgentStates, AgentRunners
  <2>2. agentWire[1].type \in AgentMessages
    <3>1. agentWire[1] \in AgentWords
      BY <2>1
    <3> QED BY <3>1 DEF AgentWords
  <2>3. AgentFits(1)
    BY <2>1 DEF AgentInv, AgentWireInv
  <2> QED BY <2>2, <2>3 DEF AgentFits, AgentMessages, Asking
<1> QED BY <1>1 DEF AgentInv, AgentQuiet, Asking

(* The operator asks for the catalog. *)
LEMMA AgentAsks ==
    ASSUME AgentInv, agent.phase \in {"Disconnected", "Ready", "Installed", "Failed"}, NEW p \in Asking,
           agent' = AgentState(p, agent.generation), UNCHANGED agentWire,
           agentRunner' = [agentRunner EXCEPT !.asked = TRUE]
    PROVE  AgentInv'
<1>1. /\ agentWire = <<>> /\ Len(agentWire) = 0 /\ ~agentRunner.asked
      /\ ~agentRunner.cancel /\ agentRunner.busy = FanNone
  BY AgentNothing
<1>2. agent' = [phase |-> p, generation |-> agent.generation, id |-> FanNone, completed |-> 0, catalog |-> FanNone]
  BY DEF AgentState
<1>3. AgentTyped'
  <2>1. agent' \in AgentStates
    BY <1>2, FanAssumption DEF AgentInv, AgentTyped, AgentStates, AgentPhases, Asking
  <2>2. agentRunner' \in AgentRunners
    BY DEF AgentInv, AgentTyped, AgentRunners
  <2> QED BY <2>1, <2>2 DEF AgentInv, AgentTyped
<1>4. agentRunner'.busy = FanNone /\ ~agentRunner'.cancel
  BY <1>1 DEF AgentInv, AgentTyped, AgentStates, AgentRunners
<1>5. AgentQuiet' /\ AgentKnows'
  BY <1>1, <1>2, <1>4 DEF AgentQuiet, AgentKnows, Asking, Owning
<1>6. AgentWireInv'
  BY <1>1 DEF AgentWireInv
<1> QED BY <1>3, <1>5, <1>6 DEF AgentInv

LEMMA AgentInstallInv == ASSUME AgentInv, InstallRequested PROVE AgentInv'
<1>1. /\ agentWire = <<>> /\ Len(agentWire) = 0 /\ ~agentRunner.asked
      /\ ~agentRunner.cancel /\ agentRunner.busy = FanNone
  BY AgentNothing DEF InstallRequested
<1>2. PICK id \in agent.catalog.agents :
         /\ agent' = [AgentState("Installing", agent.generation) EXCEPT !.id = id]
         /\ agentRunner' = [agentRunner EXCEPT !.requests = @ + 1, !.cancel = FALSE,
                            !.busy = [id |-> id, generation |-> agent.generation, done |-> 0]]
         /\ UNCHANGED agentWire
  BY DEF InstallRequested, find_available
<1>3. /\ agent.generation \in AgentGenerations /\ id \in AgentOffers[agent.generation]
      /\ agent.catalog.agents = AgentOffers[agent.generation]
  BY <1>2 DEF InstallRequested, AgentInv, AgentKnows, AgentCatalogs
<1>4. id \in AgentNames
  BY <1>3 DEF AgentNames
<1>5. agent' = [phase |-> "Installing", generation |-> agent.generation, id |-> id, completed |-> 0,
                catalog |-> FanNone]
  BY <1>2 DEF AgentState
<1>6. agentRunner' = [generation |-> agentRunner.generation, installed |-> agentRunner.installed,
         busy |-> [id |-> id, generation |-> agent.generation, done |-> 0], cancel |-> FALSE,
         asked |-> agentRunner.asked, requests |-> agentRunner.requests + 1]
  BY <1>2 DEF AgentInv, AgentTyped, AgentStates, AgentRunners
<1>7. AgentTyped'
  <2>1. agentRunner.requests + 1 \in Nat /\ 0 \in 0..AgentTotal
    BY FanAssumption DEF AgentInv, AgentTyped, AgentRunners
  <2>2. agent' \in AgentStates
    BY <1>3, <1>4, <1>5, <2>1 DEF AgentStates, AgentPhases
  <2>3. [id |-> id, generation |-> agent.generation, done |-> 0] \in AgentJobs
    BY <1>3, <1>4, <2>1 DEF AgentJobs
  <2>4. agentRunner' \in AgentRunners
    BY <1>6, <2>1, <2>3 DEF AgentInv, AgentTyped, AgentRunners
  <2> QED BY <1>2, <2>2, <2>4 DEF AgentInv, AgentTyped
<1>8. AgentQuiet' /\ AgentKnows'
  BY <1>1, <1>3, <1>5, <1>6 DEF AgentQuiet, AgentKnows, Asking, Owning
<1>9. AgentWireInv'
  BY <1>1, <1>2 DEF AgentWireInv
<1> QED BY <1>7, <1>8, <1>9 DEF AgentInv

LEMMA AgentCancelInv == ASSUME AgentInv, CancelRequested PROVE AgentInv'
<1>1. agent' = [phase |-> "Cancelling", generation |-> agent.generation, id |-> agent.id, completed |-> 0,
                catalog |-> FanNone]
  BY DEF CancelRequested, AgentOf, AgentState
<1>2. agentRunner' = [agentRunner EXCEPT !.cancel = TRUE] /\ UNCHANGED agentWire /\ agent.phase = "Installing"
  BY DEF CancelRequested
<1>3. /\ agentRunner'.busy = agentRunner.busy /\ agentRunner'.asked = agentRunner.asked
      /\ agentRunner'.installed = agentRunner.installed
  BY <1>2 DEF AgentInv, AgentTyped, AgentStates, AgentRunners
<1>4. AgentTyped'
  <2>1. agent' \in AgentStates
    BY <1>1, FanAssumption DEF AgentInv, AgentTyped, AgentStates, AgentPhases
  <2>2. agentRunner' \in AgentRunners
    BY <1>2 DEF AgentInv, AgentTyped, AgentRunners
  <2> QED BY <1>2, <2>1, <2>2 DEF AgentInv, AgentTyped
<1>5. AgentQuiet' /\ AgentKnows'
  BY <1>1, <1>2, <1>3 DEF AgentInv, AgentQuiet, AgentKnows, Asking, Owning
<1>6. AgentWireInv'
  <2> SUFFICES ASSUME NEW i \in 1..Len(agentWire) PROVE AgentFits(i)'
    BY <1>2 DEF AgentWireInv
  <2>1. AgentFits(i)
    BY DEF AgentInv, AgentWireInv
  <2> QED BY <1>1, <1>2, <1>3, <2>1 DEF AgentFits, Asking
<1> QED BY <1>4, <1>5, <1>6 DEF AgentInv

(* The wire with one answer more. *)
LEMMA WireAppend ==
    ASSUME AgentTyped, NEW e \in AgentWords, agentWire' = Append(agentWire, e)
    PROVE  /\ agentWire' \in Seq(AgentWords) /\ Len(agentWire') = Len(agentWire) + 1
           /\ Len(agentWire) \in Nat
           /\ \A i \in 1..Len(agentWire) : agentWire'[i] = agentWire[i]
           /\ agentWire'[Len(agentWire) + 1] = e
           /\ \A i \in 1..Len(agentWire') : i \in 1..Len(agentWire) \/ i = Len(agentWire')
BY DEF AgentTyped

LEMMA WireTail ==
    ASSUME AgentTyped, agentWire # <<>>, agentWire' = Tail(agentWire)
    PROVE  /\ agentWire' \in Seq(AgentWords) /\ Len(agentWire') = Len(agentWire) - 1
           /\ Head(agentWire) = agentWire[1] /\ 1 \in 1..Len(agentWire) /\ Len(agentWire) \in Nat
           /\ agentWire[1] \in AgentWords
           /\ \A i \in 1..Len(agentWire') : agentWire'[i] = agentWire[i + 1] /\ i + 1 \in 1..Len(agentWire)
           /\ Len(agentWire) = 1 => agentWire' = <<>>
BY DEF AgentTyped

LEMMA AgentRemoveInv == ASSUME AgentInv, RemoveRequested PROVE AgentInv'
<1>1. /\ agentWire = <<>> /\ Len(agentWire) = 0 /\ ~agentRunner.asked
      /\ ~agentRunner.cancel /\ agentRunner.busy = FanNone
  BY AgentNothing DEF RemoveRequested
<1>2. agent' = [phase |-> "Removing", generation |-> agent.generation, id |-> agent.id, completed |-> 0,
                catalog |-> FanNone]
  BY DEF RemoveRequested, AgentOf, AgentState
<1>3. agentRunner' = [agentRunner EXCEPT !.installed = @ \ {agent.id}]
  BY DEF RemoveRequested
<1> DEFINE e == AgentAnswer("RemoveSucceeded", agent.generation, 0)
<1>4. e \in AgentWords /\ e.type = "RemoveSucceeded"
  BY FanAssumption DEF AgentAnswer, AgentWords, AgentMessages, AgentInv, AgentTyped, AgentStates
<1>5. agentWire' = Append(agentWire, e)
  BY DEF RemoveRequested
<1> HIDE DEF e
<1>6. agentWire' \in Seq(AgentWords) /\ Len(agentWire') = 1 /\ agentWire'[1] = e
  BY <1>1, <1>4, <1>5, WireAppend DEF AgentInv
<1>7. AgentTyped'
  <2>1. agent' \in AgentStates
    BY <1>2, FanAssumption DEF AgentInv, AgentTyped, AgentStates, AgentPhases
  <2>2. agentRunner' \in AgentRunners
    BY <1>3 DEF AgentInv, AgentTyped, AgentRunners
  <2> QED BY <1>6, <2>1, <2>2 DEF AgentInv, AgentTyped
<1>8. /\ agentRunner'.busy = agentRunner.busy /\ agentRunner'.asked = agentRunner.asked
      /\ agentRunner'.cancel = agentRunner.cancel
  BY <1>3 DEF AgentInv, AgentTyped, AgentStates, AgentRunners
<1>9. AgentQuiet' /\ AgentKnows'
  BY <1>1, <1>2, <1>8 DEF RemoveRequested, AgentInv, AgentQuiet, AgentKnows, Asking, Owning
<1>10. AgentWireInv'
  <2> SUFFICES ASSUME NEW i \in 1..Len(agentWire') PROVE AgentFits(i)'
    BY DEF AgentWireInv
  <2>1. i = 1 /\ agentWire'[i].type = "RemoveSucceeded"
    BY <1>4, <1>6
  <2> QED BY <1>2, <1>6, <2>1 DEF AgentFits
<1> QED BY <1>7, <1>9, <1>10 DEF AgentInv

LEMMA AgentAgainInv == ASSUME AgentInv, AgentAgain PROVE AgentInv'
<1>1. /\ agentWire = <<>> /\ Len(agentWire) = 0 /\ ~agentRunner.asked
      /\ ~agentRunner.cancel /\ agentRunner.busy = FanNone
  BY AgentNothing DEF AgentAgain
<1>2. agent' = [phase |-> "Disconnected", generation |-> 0, id |-> FanNone, completed |-> 0, catalog |-> FanNone]
  BY DEF AgentAgain, AgentState
<1>3. agentRunner' = [agentRunner EXCEPT !.asked = FALSE, !.cancel = FALSE] /\ agentWire' = agentWire
  BY <1>1 DEF AgentAgain
<1>4. agentRunner'.busy = FanNone /\ ~agentRunner'.asked /\ ~agentRunner'.cancel
  BY <1>1, <1>3 DEF AgentInv, AgentTyped, AgentStates, AgentRunners
<1>5. AgentTyped'
  <2>1. agent' \in AgentStates
    BY <1>2, FanAssumption DEF AgentStates, AgentPhases
  <2>2. agentRunner' \in AgentRunners
    BY <1>3 DEF AgentInv, AgentTyped, AgentRunners
  <2> QED BY <1>3, <2>1, <2>2 DEF AgentInv, AgentTyped
<1>6. AgentQuiet' /\ AgentKnows' /\ AgentWireInv'
  BY <1>1, <1>2, <1>3, <1>4 DEF AgentQuiet, AgentKnows, AgentWireInv, Owning
<1> QED BY <1>5, <1>6 DEF AgentInv

(* The runner says one thing more: the answers that were under way fit as    *)
(* before, and the new one is the last.                                      *)
LEMMA AgentSaysInv ==
    ASSUME AgentInv, NEW e \in AgentWords, agentWire' = Append(agentWire, e), UNCHANGED agent,
           agentRunner' \in AgentRunners, AgentQuiet', AgentKnows',
           \A i \in 1..Len(agentWire) : agentWire[i].type \in {"Progress", "InstallSucceeded", "InstallFailed"},
           agent.phase = "Installing" =>
              \A i \in 1..Len(agentWire) : agentWire[i].type = "Progress",
           agentRunner'.busy # FanNone => agentRunner.busy # FanNone,
           agentRunner.installed \subseteq agentRunner'.installed,
           AgentFits(Len(agentWire))'
    PROVE  AgentInv'
<1>1. /\ agentWire' \in Seq(AgentWords) /\ Len(agentWire') = Len(agentWire) + 1
      /\ Len(agentWire) \in Nat
      /\ \A i \in 1..Len(agentWire) : agentWire'[i] = agentWire[i]
      /\ \A i \in 1..Len(agentWire') : i \in 1..Len(agentWire) \/ i = Len(agentWire')
  BY WireAppend DEF AgentInv
<1>2. AgentTyped'
  BY <1>1 DEF AgentInv, AgentTyped
<1>3. AgentWireInv'
  <2> SUFFICES ASSUME NEW i \in 1..Len(agentWire') PROVE AgentFits(i)'
    BY DEF AgentWireInv
  <2>1. CASE i \in 1..Len(agentWire)
    <3>1. AgentFits(i) /\ agentWire'[i] = agentWire[i]
      BY <1>1, <2>1 DEF AgentInv, AgentWireInv
    <3>2. agentWire[i].type \in {"Progress", "InstallSucceeded", "InstallFailed"}
      BY <2>1
    <3>3. agent.phase = "Installing" => agentWire[i].type = "Progress"
      BY <2>1
    <3> QED BY <3>1, <3>2, <3>3 DEF AgentFits
  <2>2. CASE i = Len(agentWire')
    BY <2>2 DEF AgentFits
  <2> QED BY <1>1, <2>1, <2>2
<1> QED BY <1>2, <1>3 DEF AgentInv

(* The answers under way while an installation is worked at or cancelled. *)
LEMMA AgentUnderWay ==
    ASSUME AgentInv, agentRunner.busy # FanNone \/ agentRunner.cancel
    PROVE  /\ \A i \in 1..Len(agentWire) :
                 agentWire[i].type \in {"Progress", "InstallSucceeded", "InstallFailed"}
           /\ agentRunner.busy # FanNone => \A i \in 1..Len(agentWire) : agentWire[i].type = "Progress"
           /\ agent.phase \in {"Installing", "Cancelling"} /\ agentRunner.asked = FALSE
<1>1. agent.phase \in {"Installing", "Cancelling"}
  BY DEF AgentInv, AgentQuiet
<1>2. agentRunner.asked = FALSE
  BY <1>1 DEF AgentInv, AgentQuiet, AgentTyped, AgentRunners, Asking
<1>3. ASSUME NEW i \in 1..Len(agentWire)
      PROVE  /\ agentWire[i].type \in {"Progress", "InstallSucceeded", "InstallFailed"}
             /\ agentRunner.busy # FanNone => agentWire[i].type = "Progress"
  <2>1. agentWire[i] \in AgentWords
    BY DEF AgentInv, AgentTyped
  <2>2. agentWire[i].type \in AgentMessages
    BY <2>1 DEF AgentWords
  <2>3. AgentFits(i)
    BY DEF AgentInv, AgentWireInv
  <2> QED BY <1>1, <2>2, <2>3 DEF AgentMessages, AgentFits, Asking
<1> QED BY <1>1, <1>2, <1>3

LEMMA AgentListsInv == ASSUME AgentInv, AgentLists PROVE AgentInv'
<1> DEFINE g == agentRunner.generation
           e == [type |-> "Catalog", generation |-> g, extra |-> AgentOffers[g]]
<1>1. /\ agentRunner.asked /\ agentWire' = Append(agentWire, e) /\ UNCHANGED agent
      /\ agentRunner' = [agentRunner EXCEPT !.asked = FALSE]
  BY DEF AgentLists, AgentSays, AgentAnswer, AgentCatalog
<1>2. agent.phase \in Asking /\ agentWire = <<>> /\ Len(agentWire) = 0
  BY <1>1 DEF AgentInv, AgentQuiet
<1>3. g \in AgentGenerations /\ e \in AgentWords
  BY DEF AgentInv, AgentTyped, AgentRunners, AgentWords, AgentMessages
<1> HIDE DEF e
<1>4. agentWire' \in Seq(AgentWords) /\ Len(agentWire') = 1 /\ agentWire'[1] = e
  BY <1>1, <1>2, <1>3, WireAppend DEF AgentInv
<1>5. agentRunner' \in AgentRunners /\ agentRunner'.asked = FALSE
      /\ agentRunner'.busy = agentRunner.busy /\ agentRunner'.cancel = agentRunner.cancel
      /\ agentRunner'.installed = agentRunner.installed
  BY <1>1 DEF AgentInv, AgentTyped, AgentRunners
<1>6. AgentTyped'
  BY <1>1, <1>4, <1>5 DEF AgentInv, AgentTyped
<1>7. AgentQuiet' /\ AgentKnows'
  BY <1>1, <1>5 DEF AgentInv, AgentQuiet, AgentKnows
<1>8. AgentWireInv'
  <2> SUFFICES ASSUME NEW i \in 1..Len(agentWire') PROVE AgentFits(i)'
    BY DEF AgentWireInv
  <2>1. i = 1 /\ agentWire'[i] = e
    BY <1>4
  <2>2. e.type = "Catalog" /\ e.generation = g /\ e.extra = AgentOffers[g]
    BY DEF e
  <2> QED BY <1>1, <1>2, <1>3, <1>4, <2>1, <2>2 DEF AgentFits
<1> QED BY <1>6, <1>7, <1>8 DEF AgentInv

LEMMA AgentWorksInv == ASSUME AgentInv, AgentWorks PROVE AgentInv'
<1> DEFINE job == agentRunner.busy
           n == job.done + 1
           e == [type |-> "Progress", generation |-> job.generation, extra |-> n]
<1>1. /\ job # FanNone /\ job.done < AgentTotal
      /\ agentWire' = Append(agentWire, e) /\ UNCHANGED agent
      /\ agentRunner' = [agentRunner EXCEPT !.busy.done = n]
  BY DEF AgentWorks, AgentSays, AgentAnswer
<1>2. job \in [id : AgentNames, generation : AgentGenerations \cup {0}, done : 0..AgentTotal]
  BY <1>1 DEF AgentInv, AgentTyped, AgentRunners, AgentJobs
<1>3. n \in 0..AgentTotal
  BY <1>1, <1>2, FanAssumption
<1> HIDE DEF n
<1>4. e \in AgentWords /\ e.type = "Progress"
  BY <1>2, <1>3 DEF AgentWords, AgentMessages
<1> HIDE DEF e
<1>5. agentRunner' = [agentRunner EXCEPT !.busy = [job EXCEPT !.done = n]]
  BY <1>1
<1>6. [job EXCEPT !.done = n] \in AgentJobs /\ [job EXCEPT !.done = n].id = job.id
      /\ [job EXCEPT !.done = n].generation = job.generation
  BY <1>2, <1>3 DEF AgentJobs
<1>7. /\ agentRunner' \in AgentRunners /\ agentRunner'.asked = agentRunner.asked
      /\ agentRunner'.cancel = agentRunner.cancel /\ agentRunner'.installed = agentRunner.installed
      /\ agentRunner'.busy.id = job.id /\ agentRunner'.busy.generation = job.generation
  <2> DEFINE more == [job EXCEPT !.done = n]
  <2>1. agentRunner' = [agentRunner EXCEPT !.busy = more] /\ more \in AgentJobs
        /\ more.id = job.id /\ more.generation = job.generation
    BY <1>5, <1>6
  <2> HIDE DEF more, job
  <2> QED BY <2>1 DEF AgentInv, AgentTyped, AgentRunners
<1>8. AgentQuiet' /\ AgentKnows'
  <2>1. /\ agent.phase \in {"Installing", "Cancelling"} /\ agentRunner.asked = FALSE
    BY <1>1, AgentUnderWay
  <2> QED BY <1>1, <1>7, <2>1 DEF AgentInv, AgentQuiet, AgentKnows
<1>9. AgentFits(Len(agentWire))'
  <2>1. agentWire'[Len(agentWire')] = e
    BY <1>1, <1>4, WireAppend DEF AgentInv
  <2>2. agent'.phase \in {"Installing", "Cancelling"}
    BY <1>1, AgentUnderWay
  <2> QED BY <1>4, <2>1, <2>2 DEF AgentFits
<1> QED BY <1>1, <1>4, <1>7, <1>8, <1>9, AgentSaysInv, AgentUnderWay

LEMMA AgentEndsInv == ASSUME AgentInv, AgentEnds PROVE AgentInv'
<1> DEFINE job == agentRunner.busy
<1>1. job # FanNone /\ job \in [id : AgentNames, generation : AgentGenerations \cup {0}, done : 0..AgentTotal]
  BY DEF AgentEnds, AgentInv, AgentTyped, AgentRunners, AgentJobs
<1>2. /\ \A i \in 1..Len(agentWire) : agentWire[i].type = "Progress"
      /\ agent.phase \in {"Installing", "Cancelling"} /\ agentRunner.asked = FALSE
      /\ job.id = agent.id
  BY <1>1, AgentUnderWay DEF AgentInv, AgentQuiet
<1>3. ASSUME NEW type \in {"InstallSucceeded", "InstallFailed"},
             NEW installed \in SUBSET AgentNames, agentRunner.installed \subseteq installed,
             type = "InstallSucceeded" => job.id \in installed,
             AgentSays(AgentAnswer(type, job.generation, 0)),
             agentRunner' = [agentRunner EXCEPT !.installed = installed, !.busy = FanNone]
      PROVE  AgentInv'
  <2> DEFINE e == AgentAnswer(type, job.generation, 0)
  <2>1. e \in AgentWords /\ e.type = type
    BY <1>1, FanAssumption DEF AgentAnswer, AgentWords, AgentMessages
  <2>2. agentWire' = Append(agentWire, e) /\ UNCHANGED agent
    BY <1>3 DEF AgentSays
  <2> HIDE DEF e, job
  <2>3. /\ agentRunner' \in AgentRunners /\ agentRunner'.asked = agentRunner.asked
        /\ agentRunner'.cancel = agentRunner.cancel /\ agentRunner'.installed = installed
        /\ agentRunner'.busy = FanNone
    BY <1>3 DEF AgentInv, AgentTyped, AgentRunners, AgentJobs
  <2>4. AgentQuiet' /\ AgentKnows'
    BY <1>2, <2>2, <2>3 DEF AgentInv, AgentQuiet, AgentKnows
  <2>5. AgentFits(Len(agentWire))'
    <3>1. agentWire'[Len(agentWire')] = e
      BY <2>1, <2>2, WireAppend DEF AgentInv
    <3>2. agentWire'[Len(agentWire')].type = type /\ agent' = agent
      BY <2>1, <2>2, <3>1
    <3> QED BY <1>2, <1>3, <2>3, <3>2 DEF AgentFits
  <2> QED BY <1>2, <1>3, <2>1, <2>2, <2>3, <2>4, <2>5, AgentSaysInv
<1>4. CASE /\ AgentSays(AgentAnswer("InstallSucceeded", job.generation, 0))
           /\ agentRunner' = [agentRunner EXCEPT !.installed = @ \cup {job.id}, !.busy = FanNone]
  <2>1. agentRunner.installed \cup {job.id} \in SUBSET AgentNames
    BY <1>1 DEF AgentInv, AgentTyped, AgentRunners
  <2> QED BY <1>3, <1>4, <2>1
<1>5. CASE /\ AgentSays(AgentAnswer("InstallFailed", job.generation, 0))
           /\ agentRunner' = [agentRunner EXCEPT !.busy = FanNone]
  <2>1. agentRunner.installed \in SUBSET AgentNames
        /\ agentRunner' = [agentRunner EXCEPT !.installed = agentRunner.installed, !.busy = FanNone]
    BY <1>5 DEF AgentInv, AgentTyped, AgentRunners
  <2> QED BY <1>3, <1>5, <2>1
<1> QED BY <1>4, <1>5 DEF AgentEnds

LEMMA AgentStopsInv == ASSUME AgentInv, AgentStops PROVE AgentInv'
<1> DEFINE e == AgentAnswer("Cancelled", agent.generation, 0)
<1>1. agentRunner.cancel /\ agentWire' = Append(agentWire, e) /\ UNCHANGED agent
      /\ agentRunner' = [agentRunner EXCEPT !.cancel = FALSE, !.busy = FanNone]
  BY DEF AgentStops, AgentSays
<1>2. e \in AgentWords /\ e.type = "Cancelled"
  BY FanAssumption DEF AgentAnswer, AgentWords, AgentMessages, AgentInv, AgentTyped, AgentStates
<1> HIDE DEF e
<1>3. agent.phase = "Cancelling" /\ agentRunner.asked = FALSE
  BY <1>1, AgentUnderWay DEF AgentInv, AgentQuiet
<1>4. /\ agentRunner' \in AgentRunners /\ agentRunner'.asked = agentRunner.asked
      /\ agentRunner'.cancel = FALSE /\ agentRunner'.installed = agentRunner.installed
      /\ agentRunner'.busy = FanNone
  BY <1>1 DEF AgentInv, AgentTyped, AgentRunners, AgentJobs
<1>5. AgentQuiet' /\ AgentKnows'
  BY <1>1, <1>3, <1>4 DEF AgentInv, AgentQuiet, AgentKnows
<1>6. AgentFits(Len(agentWire))'
  <2>1. agentWire'[Len(agentWire')] = e
    BY <1>1, <1>2, WireAppend DEF AgentInv
  <2>2. agentWire'[Len(agentWire')].type = "Cancelled" /\ agent' = agent
    BY <1>1, <1>2, <2>1
  <2> QED BY <1>3, <1>4, <2>2 DEF AgentFits
<1> QED BY <1>1, <1>2, <1>3, <1>4, <1>5, <1>6, AgentSaysInv, AgentUnderWay

LEMMA AgentPublishesInv == ASSUME AgentInv, AgentPublishes PROVE AgentInv'
<1> DEFINE g == agentRunner.generation + 1
<1>1. g \in AgentGenerations /\ agentRunner' = [agentRunner EXCEPT !.generation = g] /\ UNCHANGED <<agent, agentWire>>
  BY DEF AgentPublishes, AgentGenerations
<1> HIDE DEF g
<1>2. /\ agentRunner' \in AgentRunners /\ agentRunner'.asked = agentRunner.asked
      /\ agentRunner'.cancel = agentRunner.cancel /\ agentRunner'.installed = agentRunner.installed
      /\ agentRunner'.busy = agentRunner.busy
  BY <1>1 DEF AgentInv, AgentTyped, AgentRunners
<1>3. AgentTyped'
  BY <1>1, <1>2 DEF AgentInv, AgentTyped
<1>4. AgentQuiet' /\ AgentKnows'
  BY <1>1, <1>2 DEF AgentInv, AgentQuiet, AgentKnows
<1>5. AgentWireInv'
  BY <1>1, <1>2 DEF AgentInv, AgentWireInv, AgentFits
<1> QED BY <1>3, <1>4, <1>5 DEF AgentInv

LEMMA TheOnly == ASSUME NEW x PROVE (CHOOSE s \in {x} : TRUE) = x
OBVIOUS

(* What an answer does, if it is taken. *)
LEMMA AgentTakes ==
    ASSUME NEW s, NEW e
    PROVE  \/ AgentApply(s, e) = {}
           \/ /\ s.phase \in Asking /\ e.type = "Catalog"
              /\ \/ AgentApply(s, e) = {Ready([generation |-> e.generation, agents |-> e.extra])}
                 \/ AgentApply(s, e) = {AgentState("Stale", e.generation)}
           \/ /\ s.phase = "Installing" /\ e.type = "Progress" /\ e.extra \in s.completed..AgentTotal
              /\ AgentApply(s, e) = {[s EXCEPT !.completed = e.extra]}
           \/ /\ s.phase = "Installing" /\ e.type = "InstallSucceeded"
              /\ AgentApply(s, e) = {AgentOf(s, "Installed")}
           \/ /\ s.phase = "Installing" /\ e.type = "InstallFailed"
              /\ AgentApply(s, e) = {AgentState("Failed", s.generation)}
           \/ /\ s.phase = "Cancelling" /\ e.type = "Cancelled"
              /\ AgentApply(s, e) = {AgentState("Disconnected", 0)}
           \/ /\ s.phase = "Removing" /\ e.type = "RemoveSucceeded"
              /\ AgentApply(s, e) = {AgentState("Reconnecting", s.generation)}
BY DEF AgentApply, Asking

LEMMA AgentReceivesInv == ASSUME AgentInv, AgentReceives PROVE AgentInv'
<1> DEFINE e == agentWire[1]
           next == AgentApply(agent, e)
<1>1. /\ agentWire' \in Seq(AgentWords) /\ Len(agentWire') = Len(agentWire) - 1
      /\ Head(agentWire) = e /\ 1 \in 1..Len(agentWire) /\ Len(agentWire) \in Nat
      /\ e \in AgentWords
      /\ \A i \in 1..Len(agentWire') : agentWire'[i] = agentWire[i + 1] /\ i + 1 \in 1..Len(agentWire)
      /\ Len(agentWire) = 1 => agentWire' = <<>>
  BY WireTail DEF AgentReceives, AgentInv
<1>2. /\ agent' = IF next = {} THEN agent ELSE CHOOSE s \in next : TRUE
      /\ agentRunner' = [agentRunner EXCEPT !.asked = @ \/ (next # {} /\ e.type = "RemoveSucceeded")]
  BY <1>1 DEF AgentReceives
<1>3. AgentFits(1) /\ agentWire # <<>>
  BY <1>1 DEF AgentInv, AgentWireInv, AgentReceives
<1>4. /\ agentRunner' \in AgentRunners
      /\ agentRunner'.cancel = agentRunner.cancel /\ agentRunner'.installed = agentRunner.installed
      /\ agentRunner'.busy = agentRunner.busy
      /\ agentRunner'.asked = (agentRunner.asked \/ (next # {} /\ e.type = "RemoveSucceeded"))
  <2> DEFINE b == agentRunner.asked \/ (next # {} /\ e.type = "RemoveSucceeded")
  <2>1. b \in BOOLEAN /\ agentRunner' = [agentRunner EXCEPT !.asked = b]
    BY <1>2
  <2> HIDE DEF b
  <2>2. /\ agentRunner' \in AgentRunners
        /\ agentRunner'.cancel = agentRunner.cancel /\ agentRunner'.installed = agentRunner.installed
        /\ agentRunner'.busy = agentRunner.busy
        /\ agentRunner'.asked = b
    BY <2>1 DEF AgentInv, AgentTyped, AgentRunners
  <2> QED BY <2>2 DEF b
<1>5. agentRunner.asked = FALSE
  BY <1>3 DEF AgentInv, AgentQuiet, AgentTyped, AgentRunners
<1>6. e.type \in AgentMessages /\ e.generation \in AgentGenerations \cup {0}
  BY <1>1 DEF AgentWords
<1> HIDE DEF next
(* An answer that changes nothing but how far the installation is. *)
<1>7. ASSUME agent' \in AgentStates, agent'.phase = agent.phase, agent'.generation = agent.generation,
             agent'.id = agent.id, agent'.catalog = agent.catalog, agentRunner'.asked = FALSE
      PROVE  AgentInv'
  <2>1. AgentTyped'
    BY <1>1, <1>4, <1>7 DEF AgentInv, AgentTyped
  <2>2. AgentQuiet' /\ AgentKnows'
    BY <1>4, <1>7 DEF AgentInv, AgentQuiet, AgentKnows
  <2>3. AgentWireInv'
    <3> SUFFICES ASSUME NEW i \in 1..Len(agentWire') PROVE AgentFits(i)'
      BY DEF AgentWireInv
    <3>1. agentWire'[i] = agentWire[i + 1] /\ AgentFits(i + 1) /\ (i + 1 = Len(agentWire) => i = Len(agentWire'))
      BY <1>1 DEF AgentInv, AgentWireInv
    <3> QED BY <1>4, <1>7, <3>1 DEF AgentFits
  <2> QED BY <2>1, <2>2, <2>3 DEF AgentInv
(* The last answer: what follows it is asked for anew. *)
<1>8. ASSUME Len(agentWire) = 1, agent' \in AgentStates, AgentKnows',
             agentRunner.busy = FanNone, ~agentRunner.cancel,
             agentRunner'.asked => agent'.phase \in Asking
      PROVE  AgentInv'
  <2>1. AgentTyped'
    BY <1>1, <1>4, <1>8 DEF AgentInv, AgentTyped
  <2>2. agentWire' = <<>> /\ Len(agentWire') = 0
    BY <1>1, <1>8
  <2>3. AgentQuiet'
    BY <1>4, <1>8, <2>2 DEF AgentQuiet
  <2>4. AgentWireInv'
    BY <2>2 DEF AgentWireInv
  <2> QED BY <1>8, <2>1, <2>3, <2>4 DEF AgentInv
<1>9. CASE next = {}
  BY <1>2, <1>4, <1>5, <1>7, <1>9 DEF AgentInv, AgentTyped
<1>10. CASE agent.phase \in Asking /\ e.type = "Catalog"
            /\ next = {Ready([generation |-> e.generation, agents |-> e.extra])}
  <2>1. /\ Len(agentWire) = 1 /\ agentRunner.busy = FanNone /\ ~agentRunner.cancel
        /\ e.generation \in AgentGenerations /\ e.extra = AgentOffers[e.generation]
    BY <1>3, <1>10 DEF AgentFits, AgentInv, AgentQuiet, Asking
  <2> DEFINE c == [generation |-> e.generation, agents |-> e.extra]
  <2>2. c \in AgentCatalogs /\ c.generation = e.generation
    BY <2>1 DEF AgentCatalogs
  <2>3. agent' = Ready(c)
    BY <1>2, <1>10, TheOnly
  <2> HIDE DEF c
  <2>4. agent' = [phase |-> "Ready", generation |-> e.generation, id |-> FanNone, completed |-> 0, catalog |-> c]
    BY <2>2, <2>3 DEF Ready, AgentState
  <2>5. agent' \in AgentStates
    BY <2>1, <2>2, <2>4, FanAssumption DEF AgentStates, AgentPhases
  <2>6. AgentKnows'
    BY <2>2, <2>4 DEF AgentKnows, Owning
  <2> QED BY <1>4, <1>5, <1>8, <1>10, <2>1, <2>5, <2>6
<1>11. CASE agent.phase \in Asking /\ e.type = "Catalog" /\ next = {AgentState("Stale", e.generation)}
  <2>1. Len(agentWire) = 1 /\ agentRunner.busy = FanNone /\ ~agentRunner.cancel
    BY <1>3, <1>11 DEF AgentFits, AgentInv, AgentQuiet, Asking
  <2>2. agent' = [phase |-> "Stale", generation |-> e.generation, id |-> FanNone, completed |-> 0,
                  catalog |-> FanNone]
    BY <1>2, <1>11, TheOnly DEF AgentState
  <2>3. agent' \in AgentStates /\ AgentKnows'
    BY <1>6, <2>2, FanAssumption DEF AgentStates, AgentPhases, AgentKnows, Owning
  <2> QED BY <1>4, <1>5, <1>8, <1>11, <2>1, <2>3
<1>12. CASE agent.phase = "Installing" /\ e.type = "Progress" /\ e.extra \in agent.completed..AgentTotal
            /\ next = {[agent EXCEPT !.completed = e.extra]}
  <2> DEFINE n == e.extra
  <2>1. agent' = [agent EXCEPT !.completed = n]
    BY <1>2, <1>12, TheOnly
  <2>2. n \in 0..AgentTotal
    <3>1. agent.completed \in 0..AgentTotal
      BY DEF AgentInv, AgentTyped, AgentStates
    <3> QED BY <1>12, <3>1, FanAssumption
  <2> HIDE DEF n
  <2>3. /\ agent' \in AgentStates /\ agent'.phase = agent.phase /\ agent'.generation = agent.generation
        /\ agent'.id = agent.id /\ agent'.catalog = agent.catalog
    BY <2>1, <2>2 DEF AgentInv, AgentTyped, AgentStates
  <2> QED BY <1>4, <1>5, <1>7, <1>12, <2>3
<1>13. CASE agent.phase = "Installing" /\ e.type = "InstallSucceeded" /\ next = {AgentOf(agent, "Installed")}
  <2>1. /\ Len(agentWire) = 1 /\ agentRunner.busy = FanNone /\ ~agentRunner.cancel
        /\ agent.id \in agentRunner.installed
    BY <1>3, <1>13 DEF AgentFits, AgentInv, AgentQuiet
  <2>2. agent' = [phase |-> "Installed", generation |-> agent.generation, id |-> agent.id, completed |-> 0,
                  catalog |-> FanNone]
    BY <1>2, <1>13, TheOnly DEF AgentOf, AgentState
  <2>3. agent' \in AgentStates
    BY <2>2, FanAssumption DEF AgentInv, AgentTyped, AgentStates, AgentPhases
  <2>4. AgentKnows'
    BY <1>4, <1>13, <2>1, <2>2 DEF AgentInv, AgentKnows, Owning
  <2> QED BY <1>4, <1>5, <1>8, <1>13, <2>1, <2>3, <2>4
<1>14. CASE agent.phase = "Installing" /\ e.type = "InstallFailed" /\ next = {AgentState("Failed", agent.generation)}
  <2>1. Len(agentWire) = 1 /\ agentRunner.busy = FanNone /\ ~agentRunner.cancel
    BY <1>3, <1>14 DEF AgentFits, AgentInv, AgentQuiet
  <2>2. agent' = [phase |-> "Failed", generation |-> agent.generation, id |-> FanNone, completed |-> 0,
                  catalog |-> FanNone]
    BY <1>2, <1>14, TheOnly DEF AgentState
  <2>3. agent' \in AgentStates
    BY <2>2, FanAssumption DEF AgentInv, AgentTyped, AgentStates, AgentPhases
  <2>4. AgentKnows'
    BY <2>2 DEF AgentKnows, Owning
  <2> QED BY <1>4, <1>5, <1>8, <1>14, <2>1, <2>3, <2>4
<1>15. CASE agent.phase = "Cancelling" /\ e.type = "Cancelled" /\ next = {AgentState("Disconnected", 0)}
  <2>1. Len(agentWire) = 1 /\ agentRunner.busy = FanNone /\ ~agentRunner.cancel
    BY <1>3, <1>15 DEF AgentFits
  <2>2. agent' = [phase |-> "Disconnected", generation |-> 0, id |-> FanNone, completed |-> 0,
                  catalog |-> FanNone]
    BY <1>2, <1>15, TheOnly DEF AgentState
  <2>3. agent' \in AgentStates /\ AgentKnows'
    BY <2>2, FanAssumption DEF AgentStates, AgentPhases, AgentKnows, Owning
  <2> QED BY <1>4, <1>5, <1>8, <1>15, <2>1, <2>3
<1>16. CASE agent.phase = "Removing" /\ e.type = "RemoveSucceeded"
            /\ next = {AgentState("Reconnecting", agent.generation)}
  <2>1. Len(agentWire) = 1 /\ agentRunner.busy = FanNone /\ ~agentRunner.cancel
    BY <1>3, <1>16 DEF AgentFits, AgentInv, AgentQuiet
  <2>2. agent' = [phase |-> "Reconnecting", generation |-> agent.generation, id |-> FanNone, completed |-> 0,
                  catalog |-> FanNone]
    BY <1>2, <1>16, TheOnly DEF AgentState
  <2>3. agent' \in AgentStates
    BY <2>2, FanAssumption DEF AgentInv, AgentTyped, AgentStates, AgentPhases
  <2>4. AgentKnows' /\ agent'.phase \in Asking
    BY <2>2 DEF AgentKnows, Owning, Asking
  <2> QED BY <1>8, <2>1, <2>3, <2>4
<1> QED BY <1>9, <1>10, <1>11, <1>12, <1>13, <1>14, <1>15, <1>16, AgentTakes DEF next

LEMMA AgentNextInv == AgentInv /\ [AgentNext]_agentVars => AgentInv'
<1> SUFFICES ASSUME AgentInv, [AgentNext]_agentVars PROVE AgentInv'
  OBVIOUS
<1>1. CASE RefreshRequested
  BY <1>1, AgentAsks DEF RefreshRequested, Asking
<1>2. CASE ReconnectRequested
  BY <1>2, AgentAsks DEF ReconnectRequested, Asking
<1>3. CASE RetryRequested
  BY <1>3, AgentAsks DEF RetryRequested, Asking
<1>4. CASE UNCHANGED agentVars
  BY <1>4 DEF agentVars, AgentInv, AgentTyped, AgentQuiet, AgentKnows, AgentWireInv, AgentFits
<1> QED BY <1>1, <1>2, <1>3, <1>4, AgentInstallInv, AgentCancelInv, AgentRemoveInv, AgentAgainInv,
           AgentReceivesInv, AgentListsInv, AgentWorksInv, AgentEndsInv, AgentStopsInv, AgentPublishesInv
           DEF AgentNext

(* For any catalogs and any installations asked for: an agent is shown as    *)
(* installed only if the runner installed that one, out of a catalog that    *)
(* offers it; no answer to an earlier installation is taken for a later one, *)
(* since the answer that ends one is the last under way                      *)
(* (agent_lifecycle.rs, LifecycleState::apply).                              *)
THEOREM AgentsShown == AgentSpec => []AgentsHonest
<1>1. AgentInv => AgentsHonest
  BY DEF AgentInv, AgentKnows, AgentsHonest, Owning
<1> QED BY <1>1, AgentInitInv, AgentNextInv, PTL DEF AgentSpec

(* The two together are what the run of the services checks. *)
THEOREM FanoutAndAgents == FanSpec /\ AgentSpec => []FanoutHonest
BY FanoutDispatched, AgentsShown, PTL DEF FanoutHonest

(* Types of the fan-out and of the agents (fanout_dispatch.rs,               *)
(* agent_lifecycle.rs).                                                      *)
THEOREM FanoutTypes == FanSpec /\ AgentSpec => []FanTypeOK
<1>1. FanInv /\ AgentInv => FanTypeOK
  <2> SUFFICES ASSUME FanInv, AgentInv PROVE FanTypeOK
    OBVIOUS
  <2>1. \A c \in AgentCatalogs : c # FanNone
    BY FanAssumption DEF AgentCatalogs, AgentGenerations
  <2>2. agent.phase = "Ready" <=> agent.catalog # FanNone
    BY <2>1 DEF AgentInv, AgentKnows
  <2> QED BY <2>2 DEF FanInv, FanTyped, AgentInv, AgentTyped, AgentStates, FanTypeOK
<1> QED BY <1>1, FanInitInv, FanNextInv, AgentInitInv, AgentNextInv, PTL DEF FanSpec, AgentSpec

-----------------------------------------------------------------------------
(* The guided campaign.  An intent is fine if it was when it was given: what *)
(* it depends on, the mode and the profile of that moment, no later call     *)
(* changes.                                                                  *)

GuOpen == {"Selection", "Review"}
GuClosed == {"Running", "Complete", "Failed"}
GuideStates ==
    [workload : GuWorkloads, agents : SUBSET GuAgents, measures : SUBSET GuAllMeasures, replay : GuModes,
     stage : GuOpen \cup GuClosed, catalog : GuCatalogs \cup {GuNone}, profile : GuProfiles \cup {GuNone},
     adapter : GuAdapters \cup {GuNone}, handed : SUBSET GuAllMeasures, starts : {0, 1},
     under : GuProfiles \cup {GuNone}]

IntentFine(i, replay, under) ==
    /\ i.agents # {} /\ i.measures # {}
    /\ i.kind = "replay" =>
          /\ replay = "OfflineReplay" /\ i.profile = under
          /\ \/ \E o \in GuOffers : /\ i.agents = {o.agent} /\ i.profile = o.profile
                                    /\ i.cassette \in o.cassettes
             \/ /\ i.generation # GuNone
                /\ \E k \in DOMAIN GuCassettes[i.generation] :
                      LET e == GuCassettes[i.generation][k]
                      IN  /\ i.agents = {e.agent} /\ i.workload = e.workload
                          /\ i.cassette = e.cassette /\ i.profile = e.profile
    /\ i.kind = "launch" =>
          /\ i.replay = replay
          /\ replay = "OfflineReplay" => i.generation # GuNone
          /\ i.generation # GuNone =>
                \E h \in GuHandoffs : h.generation = i.generation /\ h.measures = i.measures

FromCatalog(g) ==
    g.catalog # GuNone => /\ g.agents \subseteq g.catalog.agents
                          /\ g.measures \subseteq g.catalog.measures \cup g.handed
Reviewed(g) == g.stage = "Review" => g.agents # {} /\ g.measures # {}

GuideInv ==
    /\ guide \in GuideStates /\ FromCatalog(guide) /\ Reviewed(guide)
    /\ guide.starts = (IF guide.stage \in GuOpen THEN 0 ELSE 1)
    /\ guideIntent = GuNone <=> guide.stage \in GuOpen
    /\ guideIntent # GuNone => IntentFine(guideIntent, guide.replay, guide.under)

(* A call that gives no intent. *)
LEMMA GuideEdited ==
    ASSUME GuideInv, UNCHANGED guideIntent, guide' \in GuideStates, FromCatalog(guide)', Reviewed(guide)',
           guide'.starts = guide.starts, guide'.under = guide.under,
           guide'.stage \in GuOpen <=> guide.stage \in GuOpen,
           guide.stage \notin GuOpen => guide'.replay = guide.replay
    PROVE  GuideInv'
BY DEF GuideInv

(* A call that gives one: from the review, which it ends. *)
LEMMA GuideStarted ==
    ASSUME NEW g \in GuideStates, FromCatalog(g), g.starts = 0, NEW intent \in GuIntents,
           IntentFine(intent, g.replay, g.profile),
           guide' = Started(g, intent).campaign, guideIntent' = intent
    PROVE  GuideInv'
<1> DEFINE n == g.starts + 1
<1>1. n = 1
  OBVIOUS
<1>2. guide' = [g EXCEPT !.stage = "Running", !.starts = n, !.under = g.profile]
  BY DEF Started
<1> HIDE DEF n
<1>3. /\ guide' \in GuideStates /\ guide'.stage = "Running" /\ guide'.starts = 1
      /\ guide'.under = g.profile /\ guide'.replay = g.replay /\ guide'.catalog = g.catalog
      /\ guide'.agents = g.agents /\ guide'.measures = g.measures /\ guide'.handed = g.handed
  BY <1>1, <1>2 DEF GuideStates, GuClosed
<1>4. guideIntent' # GuNone
  BY GuAssumption
<1> QED BY <1>3, <1>4 DEF GuideInv, FromCatalog, Reviewed, GuOpen

LEMMA GuideNewState ==
    ASSUME NEW t \in GuWorkloads, NEW g \in new(t)
    PROVE  /\ g \in GuideStates /\ g.stage = "Selection" /\ g.starts = 0 /\ g.catalog = GuNone
           /\ g.agents = {} /\ g.measures = {}
BY DEF new, GuideStates, GuModes, GuOpen

LEMMA GuideInitInv == GuideInit => GuideInv
<1> SUFFICES ASSUME GuideInit PROVE GuideInv
  OBVIOUS
<1>1. guide \in new("w") /\ guideIntent = GuNone
  BY DEF GuideInit
<1>2. /\ guide \in GuideStates /\ guide.stage = "Selection" /\ guide.starts = 0 /\ guide.catalog = GuNone
  BY <1>1, GuideNewState, GuAssumption
<1> QED BY <1>1, <1>2 DEF GuideInv, FromCatalog, Reviewed, GuOpen

LEMMA GuideNewInv == ASSUME GuideNew PROVE GuideInv'
<1>1. guideIntent' = GuNone
  BY DEF GuideNew
<1>2. /\ guide' \in GuideStates /\ guide'.stage = "Selection" /\ guide'.starts = 0
      /\ guide'.agents = {} /\ guide'.measures = {}
  <2>1. CASE \E t \in GuWorkloads : guide' \in new(t)
    BY <2>1, GuideNewState
  <2>2. CASE \E t \in GuWorkloads, c \in GuCatalogs : GuidedCatalogNew(c) /\ guide' \in with_catalog(t, c)
    <3>1. PICK t \in GuWorkloads, c \in GuCatalogs : guide' \in with_catalog(t, c)
      BY <2>2
    <3>2. PICK g \in new(t) : guide' = [g EXCEPT !.catalog = c]
      BY <3>1 DEF with_catalog
    <3> QED BY <3>2, GuideNewState DEF GuideStates
  <2> QED BY <2>1, <2>2 DEF GuideNew
<1> QED BY <1>1, <1>2 DEF GuideInv, FromCatalog, Reviewed, GuOpen

LEMMA GuideEditInv == ASSUME GuideInv, GuideEdit PROVE GuideInv'
<1>0. UNCHANGED guideIntent /\ guide \in GuideStates /\ FromCatalog(guide) /\ Reviewed(guide)
  BY DEF GuideEdit, GuideInv
<1>1. CASE \E t \in GuAgents : guide' \in add_agent(guide, t)
  <2>1. PICK t \in GuAgents : guide' \in add_agent(guide, t)
    BY <1>1
  <2>2. /\ guide.stage = "Selection"
        /\ guide.catalog # GuNone => t \in guide.catalog.agents
        /\ guide' = [guide EXCEPT !.agents = @ \cup {t}]
    BY <2>1 DEF add_agent, ensure_selection
  <2>3. /\ guide' \in GuideStates /\ guide'.stage = guide.stage /\ guide'.starts = guide.starts
        /\ guide'.under = guide.under /\ guide'.catalog = guide.catalog /\ guide'.handed = guide.handed
        /\ guide'.agents = guide.agents \cup {t} /\ guide'.measures = guide.measures
    BY <1>0, <2>2 DEF GuideStates
  <2> QED BY <1>0, <2>2, <2>3, GuideEdited DEF FromCatalog, Reviewed, GuOpen
<1>2. CASE \E t \in GuMeasures : guide' \in add_measure(guide, t)
  <2>1. PICK t \in GuMeasures : guide' \in add_measure(guide, t)
    BY <1>2
  <2>2. /\ guide.stage = "Selection"
        /\ guide.catalog # GuNone => t \in guide.catalog.measures
        /\ guide' = [guide EXCEPT !.measures = @ \cup {t}]
    BY <2>1 DEF add_measure, ensure_selection
  <2>3. t \in GuAllMeasures
    BY DEF GuAllMeasures
  <2>4. /\ guide' \in GuideStates /\ guide'.stage = guide.stage /\ guide'.starts = guide.starts
        /\ guide'.under = guide.under /\ guide'.catalog = guide.catalog /\ guide'.handed = guide.handed
        /\ guide'.agents = guide.agents /\ guide'.measures = guide.measures \cup {t}
    BY <1>0, <2>2, <2>3 DEF GuideStates
  <2> QED BY <1>0, <2>2, <2>4, GuideEdited DEF FromCatalog, Reviewed, GuOpen
<1>3. CASE \/ \E t \in GuProfiles : guide' \in bind_provider_profile_sha256(guide, t)
           \/ \E t \in GuAdapters : guide' \in bind_adapter_id(guide, t)
  <2>1. \/ \E t \in GuProfiles : guide' = [guide EXCEPT !.profile = t]
        \/ \E t \in GuAdapters : guide' = [guide EXCEPT !.adapter = t]
    BY <1>3 DEF bind_provider_profile_sha256, bind_adapter_id
  <2>2. /\ guide' \in GuideStates /\ guide'.stage = guide.stage /\ guide'.starts = guide.starts
        /\ guide'.under = guide.under /\ guide'.catalog = guide.catalog /\ guide'.handed = guide.handed
        /\ guide'.agents = guide.agents /\ guide'.measures = guide.measures /\ guide'.replay = guide.replay
    BY <1>0, <2>1 DEF GuideStates
  <2> QED BY <1>0, <2>2, GuideEdited DEF FromCatalog, Reviewed
<1>4. CASE \E mode \in GuModes : guide' \in set_replay_mode(guide, mode)
  <2>1. guide.stage = "Selection" /\ \E mode \in GuModes : guide' = [guide EXCEPT !.replay = mode]
    BY <1>4 DEF set_replay_mode, ensure_selection
  <2>2. /\ guide' \in GuideStates /\ guide'.stage = guide.stage /\ guide'.starts = guide.starts
        /\ guide'.under = guide.under /\ guide'.catalog = guide.catalog /\ guide'.handed = guide.handed
        /\ guide'.agents = guide.agents /\ guide'.measures = guide.measures
    BY <1>0, <2>1 DEF GuideStates
  <2> QED BY <1>0, <2>1, <2>2, GuideEdited DEF FromCatalog, Reviewed, GuOpen
<1>5. CASE guide' \in review(guide)
  <2>1. /\ guide.stage = "Selection" /\ guide.agents # {} /\ guide.measures # {}
        /\ guide' = [guide EXCEPT !.stage = "Review"]
    BY <1>5 DEF review, ensure_selection
  <2>2. /\ guide' \in GuideStates /\ guide'.stage = "Review" /\ guide'.starts = guide.starts
        /\ guide'.under = guide.under /\ guide'.catalog = guide.catalog /\ guide'.handed = guide.handed
        /\ guide'.agents = guide.agents /\ guide'.measures = guide.measures
    BY <1>0, <2>1 DEF GuideStates, GuOpen
  <2> QED BY <1>0, <2>1, <2>2, GuideEdited DEF FromCatalog, Reviewed, GuOpen
<1>6. CASE \E success \in BOOLEAN : guide' \in finish(guide, success)
  <2>1. guide.stage = "Running" /\ \E stage \in {"Complete", "Failed"} : guide' = [guide EXCEPT !.stage = stage]
    BY <1>6 DEF finish
  <2>2. /\ guide' \in GuideStates /\ guide'.stage \in {"Complete", "Failed"} /\ guide'.starts = guide.starts
        /\ guide'.under = guide.under /\ guide'.catalog = guide.catalog /\ guide'.handed = guide.handed
        /\ guide'.agents = guide.agents /\ guide'.measures = guide.measures /\ guide'.replay = guide.replay
    BY <1>0, <2>1 DEF GuideStates, GuClosed
  <2> QED BY <1>0, <2>1, <2>2, GuideEdited DEF FromCatalog, Reviewed, GuOpen
<1> QED BY <1>1, <1>2, <1>3, <1>4, <1>5, <1>6 DEF GuideEdit

LEMMA GuideStartInv == ASSUME GuideInv, GuideStart PROVE GuideInv'
<1> DEFINE intent == LaunchIntent(guide, GuNone)
<1>1. guide.stage = "Review" /\ guide.replay # "OfflineReplay"
      /\ guide' = Started(guide, intent).campaign /\ guideIntent' = intent
  BY DEF GuideStart, GuideGives, start, Started
<1>2. intent = [kind |-> "launch", workload |-> guide.workload, agents |-> guide.agents,
                measures |-> guide.measures, replay |-> guide.replay, generation |-> GuNone,
                adapter |-> guide.adapter]
  BY DEF LaunchIntent
<1> HIDE DEF intent
<1>3. guide \in GuideStates /\ FromCatalog(guide) /\ guide.starts = 0 /\ guide.agents # {} /\ guide.measures # {}
  BY <1>1 DEF GuideInv, Reviewed, GuOpen
<1>4. intent \in GuIntents
  BY <1>2, <1>3 DEF GuIntents, GuideStates
<1>5. IntentFine(intent, guide.replay, guide.profile)
  BY <1>1, <1>2, <1>3 DEF IntentFine
<1> QED BY <1>1, <1>3, <1>4, <1>5, GuideStarted

LEMMA GuideHandoffInv == ASSUME GuideInv, GuideHandoff PROVE GuideInv'
<1>1. PICK h \in GuHandoffs :
         /\ guide.stage = "Selection" /\ h.measures # {}
         /\ \/ GuideGives(start_with_handoff(guide, h))
            \/ guide' = Handed(guide, h) /\ UNCHANGED guideIntent
  BY DEF GuideHandoff, HandoffFits, ensure_selection
<1> DEFINE g == Handed(guide, h)
<1>2. h.measures \in SUBSET GuAllMeasures
  BY DEF GuAllMeasures
<1>3. /\ g \in GuideStates /\ g.stage = "Selection" /\ g.starts = guide.starts /\ g.under = guide.under
      /\ g.catalog = guide.catalog /\ g.agents = guide.agents /\ g.measures = h.measures
      /\ g.handed = h.measures
  BY <1>1, <1>2 DEF Handed, GuideInv, GuideStates
<1>4. g.starts = 0 /\ FromCatalog(g)
  BY <1>1, <1>3 DEF GuideInv, FromCatalog, GuOpen
<1> HIDE DEF g
<1>5. CASE guide' = g /\ UNCHANGED guideIntent
  BY <1>1, <1>3, <1>4, <1>5, GuideEdited DEF GuOpen, FromCatalog, Reviewed
<1>6. CASE GuideGives(start_with_handoff(guide, h))
  <2>0. PICK r \in review(g) :
          /\ guide' = Started(r, LaunchIntent(r, h.generation)).campaign
          /\ guideIntent' = Started(r, LaunchIntent(r, h.generation)).intent
    BY <1>6 DEF GuideGives, start_with_handoff, g
  <2>1. /\ guide' = Started(r, LaunchIntent(r, h.generation)).campaign
        /\ guideIntent' = LaunchIntent(r, h.generation)
    BY <2>0 DEF Started
  <2>2. g.agents # {} /\ r = [g EXCEPT !.stage = "Review"]
    BY <2>0 DEF review
  <2>3. /\ r \in GuideStates /\ r.stage = "Review" /\ r.starts = 0 /\ r.catalog = g.catalog
        /\ r.agents = g.agents /\ r.measures = h.measures /\ r.handed = g.handed /\ r.measures = g.measures
    BY <1>3, <1>4, <2>2 DEF GuideStates, GuOpen
  <2> DEFINE intent == LaunchIntent(r, h.generation)
  <2>4. intent = [kind |-> "launch", workload |-> r.workload, agents |-> r.agents,
                measures |-> r.measures, replay |-> r.replay, generation |-> h.generation,
                adapter |-> r.adapter]
    BY DEF LaunchIntent
  <2> HIDE DEF intent
  <2>5. intent \in GuIntents
    BY <2>3, <2>4 DEF GuIntents, GuideStates
  <2>6. IntentFine(intent, r.replay, r.profile)
    <3>1. h.generation # GuNone
      BY GuAssumption
    <3> QED BY <1>1, <2>2, <2>3, <2>4, <3>1 DEF IntentFine
  <2>7. FromCatalog(r)
    BY <1>4, <2>3 DEF FromCatalog
  <2> QED BY <2>1, <2>3, <2>5, <2>6, <2>7, GuideStarted DEF intent
<1> QED BY <1>1, <1>5, <1>6 DEF g

LEMMA GuideReplayInv == ASSUME GuideInv, GuideReplay PROVE GuideInv'
<1>1. ASSUME NEW workload \in GuWorkloads, NEW cassette \in GuShas, NEW profile,
             NEW generation \in DOMAIN GuCassettes \cup {GuNone}, profile = guide.profile,
             GuideGives(start_offline_replay_selected(guide, workload, cassette, profile, generation)),
             \/ \E o \in GuOffers : guide.agents = {o.agent} /\ profile = o.profile /\ cassette \in o.cassettes
             \/ /\ generation # GuNone
                /\ \E k \in DOMAIN GuCassettes[generation] :
                      LET e == GuCassettes[generation][k]
                      IN  /\ guide.agents = {e.agent} /\ workload = e.workload
                          /\ cassette = e.cassette /\ profile = e.profile
      PROVE  GuideInv'
  <2> DEFINE intent == ReplayIntent(guide, workload, cassette, profile, generation)
  <2>1. guide.stage = "Review" /\ guide.replay = "OfflineReplay"
        /\ guide' = Started(guide, intent).campaign /\ guideIntent' = intent
    BY <1>1 DEF GuideGives, start_offline_replay_selected, Started
  <2>2. intent = [kind |-> "replay", workload |-> workload, agents |-> guide.agents,
                measures |-> guide.measures, cassette |-> cassette, profile |-> profile,
                generation |-> generation, adapter |-> guide.adapter]
    BY DEF ReplayIntent
  <2> HIDE DEF intent
  <2>3. /\ guide \in GuideStates /\ FromCatalog(guide) /\ guide.starts = 0
        /\ guide.agents # {} /\ guide.measures # {}
    BY <2>1 DEF GuideInv, Reviewed, GuOpen
  <2>4. intent \in GuIntents
    BY <1>1, <2>2, <2>3 DEF GuIntents, GuideStates
  <2>5. /\ intent.agents = guide.agents /\ intent.profile = profile /\ intent.cassette = cassette
        /\ intent.workload = workload /\ intent.generation = generation /\ intent.measures = guide.measures
        /\ intent.kind = "replay"
    BY <2>2
  <2>6. IntentFine(intent, guide.replay, guide.profile)
    BY <1>1, <2>1, <2>3, <2>5 DEF IntentFine
  <2> QED BY <2>1, <2>3, <2>4, <2>6, GuideStarted
<1>2. PICK cassette \in GuShas :
        \/ \E offer \in GuOffers : GuideGives(start_offline_replay_from_catalog(guide, offer, cassette))
        \/ \E n \in DOMAIN GuCassettes, workload \in GuWorkloads :
              \E catalog \in try_from([generation |-> n, entries |-> GuCassettes[n]]) :
                 GuideGives(start_offline_replay_from_authenticated_catalog(guide, catalog, workload, cassette))
  BY DEF GuideReplay
<1>3. CASE \E offer \in GuOffers : GuideGives(start_offline_replay_from_catalog(guide, offer, cassette))
  <2>1. PICK offer \in GuOffers : GuideGives(start_offline_replay_from_catalog(guide, offer, cassette))
    BY <1>3
  <2>2. /\ guide.agents = {offer.agent} /\ guide.profile = offer.profile /\ cassette \in offer.cassettes
        /\ GuideGives(start_offline_replay_selected(guide, guide.workload, cassette, offer.profile, GuNone))
    BY <2>1 DEF GuideGives, start_offline_replay_from_catalog
  <2>3. guide.workload \in GuWorkloads
    BY DEF GuideInv, GuideStates
  <2> QED BY <1>1, <2>2, <2>3
<1>4. CASE \E n \in DOMAIN GuCassettes, workload \in GuWorkloads :
              \E catalog \in try_from([generation |-> n, entries |-> GuCassettes[n]]) :
                 GuideGives(start_offline_replay_from_authenticated_catalog(guide, catalog, workload, cassette))
  <2>1. PICK n \in DOMAIN GuCassettes, workload \in GuWorkloads :
              \E catalog \in try_from([generation |-> n, entries |-> GuCassettes[n]]) :
                 GuideGives(start_offline_replay_from_authenticated_catalog(guide, catalog, workload, cassette))
    BY <1>4
  <2> DEFINE catalog == [generation |-> n, entries |-> GuCassettes[n]]
  <2>2. GuideGives(start_offline_replay_from_authenticated_catalog(guide, catalog, workload, cassette))
    BY <2>1 DEF try_from
  <2>3. PICK k \in DOMAIN GuCassettes[n] :
          LET e == GuCassettes[n][k]
          IN  /\ {e.agent} = guide.agents /\ e.workload = workload
              /\ e.cassette = cassette /\ e.profile = guide.profile
              /\ GuideGives(start_offline_replay_selected(guide, workload, e.cassette, e.profile, n))
    BY <2>2 DEF GuideGives, start_offline_replay_from_authenticated_catalog, FirstEntry
  <2>4. n # GuNone
    BY GuAssumption
  <2> QED BY <1>1, <2>3, <2>4
<1> QED BY <1>2, <1>3, <1>4

LEMMA GuideNextInv == GuideInv /\ [GuideNext]_guideVars => GuideInv'
<1>1. ASSUME GuideInv, UNCHANGED guideVars PROVE GuideInv'
  BY <1>1 DEF guideVars, GuideInv, FromCatalog, Reviewed
<1> QED BY <1>1, GuideNewInv, GuideEditInv, GuideStartInv, GuideHandoffInv, GuideReplayInv DEF GuideNext

(* For any names, catalogs, handoffs and cassettes: a campaign starts once,  *)
(* with agents of its catalog, and with measures of it unless a handoff      *)
(* brought others; a replay is given only in the replay mode, for the one    *)
(* agent and the profile of its cassette; a launch names the mode that was   *)
(* chosen, and start() gives none in the replay mode (benchmark_route.rs).   *)
(* That a handoff never launches a replay campaign is not claimed: the code  *)
(* lets it.                                                                  *)
THEOREM GuidedOnce == GuideSpec => []GuideSound
<1>1. GuideInv => GuideSound
  BY DEF GuideInv, GuideSound, IntentFine, FromCatalog
<1> QED BY <1>1, GuideInitInv, GuideNextInv, PTL DEF GuideSpec

-----------------------------------------------------------------------------
(* The replay key.  The catalog that is kept is one the runner had; what is  *)
(* sent names its generation.                                                *)
RouteInv ==
    /\ route = [generation |-> route.generation, catalog |-> route.catalog, chosen |-> route.chosen,
                sent |-> route.sent]
    /\ route.generation \in DOMAIN GuCassettes
    /\ route.catalog # GuNone =>
          /\ route.catalog.generation \in DOMAIN GuCassettes
          /\ route.catalog.entries = GuCassettes[route.catalog.generation]
    /\ RouteSound

LEMMA RouteInitInv == RouteInit => RouteInv
BY GuAssumption DEF RouteInit, RouteInv, RouteSound

LEMMA RouteSendInv == ASSUME RouteInv, run_authenticated_replay_selection PROVE RouteInv'
<1> DEFINE catalog == route.catalog
           results(g, e) == start_offline_replay_from_authenticated_catalog(g, catalog, e.workload, route.chosen)
<1>1. /\ catalog # GuNone /\ catalog.generation \in DOMAIN GuCassettes
      /\ catalog.entries = GuCassettes[catalog.generation]
  BY DEF run_authenticated_replay_selection, RouteInv
<1>2. \E g, e : \E r \in results(g, e) :
         /\ SentGeneration(r.intent) = route.generation
         /\ route' = [route EXCEPT !.sent = @ \cup {SentReplay(r.intent)}]
  <2> DEFINE Chosen(e) == e.cassette = route.chosen
             entry == FirstEntry(route.catalog.entries, Chosen)
             all == UNION {UNION {results(g, e) : g \in prepare_authenticated_replay_campaign(e)} : e \in entry}
  <2>1. PICK r \in all : /\ SentGeneration(r.intent) = route.generation
                         /\ route' = [route EXCEPT !.sent = @ \cup {SentReplay(r.intent)}]
    BY DEF run_authenticated_replay_selection
  <2>2. \E e : r \in UNION {results(g, e) : g \in prepare_authenticated_replay_campaign(e)}
    <3> HIDE DEF entry, results
    <3> QED OBVIOUS
  <2>3. \E g, e : r \in results(g, e)
    <3> HIDE DEF entry, results
    <3> QED BY <2>2
  <2> HIDE DEF all, results
  <2> QED BY <2>1, <2>3
<1>3. PICK g, e : \E r \in results(g, e) :
         /\ SentGeneration(r.intent) = route.generation
         /\ route' = [route EXCEPT !.sent = @ \cup {SentReplay(r.intent)}]
  BY <1>2
<1>4. PICK r \in results(g, e) :
         /\ SentGeneration(r.intent) = route.generation
         /\ route' = [route EXCEPT !.sent = @ \cup {SentReplay(r.intent)}]
  BY <1>3
<1>5. PICK k \in DOMAIN catalog.entries :
         LET c == catalog.entries[k]
         IN  /\ {c.agent} = g.agents /\ c.workload = e.workload
             /\ r \in start_offline_replay_selected(g, e.workload, c.cassette, c.profile, catalog.generation)
  BY <1>4 DEF start_offline_replay_from_authenticated_catalog, FirstEntry
<1> DEFINE c == catalog.entries[k]
<1>6. r.intent = ReplayIntent(g, e.workload, c.cassette, c.profile, catalog.generation)
  BY <1>5 DEF start_offline_replay_selected, Started
<1>7. /\ r.intent.agents = {c.agent} /\ r.intent.workload = c.workload /\ r.intent.cassette = c.cassette
      /\ r.intent.profile = c.profile /\ r.intent.generation = catalog.generation
  BY <1>5, <1>6 DEF ReplayIntent
<1>8. (CHOOSE a \in r.intent.agents : TRUE) = c.agent
  BY <1>7, TheOnly
<1>9. SentReplay(r.intent) = [generation |-> catalog.generation,
                 entry |-> [agent |-> c.agent, workload |-> c.workload, cassette |-> c.cassette,
                            profile |-> c.profile]]
  BY <1>7, <1>8 DEF SentReplay, SentGeneration
<1>10. c = [agent |-> c.agent, workload |-> c.workload, cassette |-> c.cassette, profile |-> c.profile]
  BY <1>1, GuAssumption
<1> DEFINE sent == SentReplay(r.intent)
<1>11. sent.entry = GuCassettes[sent.generation][k] /\ k \in DOMAIN GuCassettes[sent.generation]
  BY <1>1, <1>9, <1>10
<1>12. route' = [route EXCEPT !.sent = @ \cup {sent}]
  BY <1>4
<1> HIDE DEF sent
<1>13. /\ route'.generation = route.generation /\ route'.catalog = catalog
       /\ route'.sent = route.sent \cup {sent}
       /\ route' = [generation |-> route'.generation, catalog |-> route'.catalog, chosen |-> route'.chosen,
                    sent |-> route'.sent]
  BY <1>12 DEF RouteInv
<1>14. RouteSound'
  BY <1>11, <1>13 DEF RouteInv, RouteSound
<1> QED BY <1>13, <1>14 DEF RouteInv

LEMMA RouteNextInv == RouteInv /\ [RouteNext]_route => RouteInv'
<1> SUFFICES ASSUME RouteInv, [RouteNext]_route PROVE RouteInv'
  OBVIOUS
<1>1. CASE RouteRunner
  <2> DEFINE n == route.generation + 1
  <2>1. route' = [route EXCEPT !.generation = n] /\ n \in DOMAIN GuCassettes
    BY <1>1 DEF RouteRunner
  <2> HIDE DEF n
  <2> QED BY <2>1 DEF RouteInv, RouteSound
<1>2. CASE fetch_authenticated_cassette_catalog
  <2> DEFINE c == [generation |-> route.generation, entries |-> GuCassettes[route.generation]]
  <2>1. route' = [route EXCEPT !.catalog = c]
    BY <1>2 DEF fetch_authenticated_cassette_catalog, try_from
  <2>2. c.generation \in DOMAIN GuCassettes /\ c.entries = GuCassettes[c.generation]
    BY DEF RouteInv
  <2> HIDE DEF c
  <2> QED BY <2>1, <2>2 DEF RouteInv, RouteSound
<1>3. CASE select_next_authenticated_cassette
  <2>1. PICK c : route' = [route EXCEPT !.chosen = c]
    BY <1>3 DEF select_next_authenticated_cassette
  <2> QED BY <2>1 DEF RouteInv, RouteSound
<1>4. CASE run_authenticated_replay_selection
  BY <1>4, RouteSendInv
<1>5. CASE UNCHANGED route
  BY <1>5 DEF RouteInv, RouteSound
<1> QED BY <1>1, <1>2, <1>3, <1>4, <1>5 DEF RouteNext

(* For any cassettes and however the runner's generations go on: every       *)
(* replay that is sent is of a cassette the runner had in the generation it  *)
(* names, for the agent, the workload and the profile it was recorded with   *)
(* (runtime.rs, run_authenticated_replay_selection).                         *)
THEOREM ReplayOfRecorded == RouteSpec => []RouteSound
<1>1. RouteInv => RouteSound
  BY DEF RouteInv
<1> QED BY <1>1, RouteInitInv, RouteNextInv, PTL DEF RouteSpec

(* The guided campaign and its replay key, as the run checks them            *)
(* (benchmark_route.rs, runtime.rs).                                         *)
THEOREM GuidedCampaigns == GuideSpec /\ RouteSpec => []GuidedSound
BY GuidedOnce, ReplayOfRecorded, PTL DEF GuidedSound

-----------------------------------------------------------------------------
(* The keyboard.  The documented graph refuses every key of a run, since its *)
(* interpreter is asked without capabilities.                                *)

LEMMA KeyMeasuresOnly ==
    \A t \in UiTransitions : t.event = "open_measurement_selection" => t.to = "measurement_selection"
<1> DEFINE ok(t) == t.event = "open_measurement_selection" => t.to = "measurement_selection"
           helps == UNION {Same(r, UiHelpEvents \cup {"resize"}) : r \in DocumentRoutes}
           lands == {To("open_landing", r, "landing") : r \in UiRoutes \ {"landing", "help"}}
           opens == {To("open_help", r, "help") : r \in UiRoutes \ {"help"}}
           moves == {To("go_back", "help", "landing"),
                     To("open_configuration", "landing", "configuration"),
                     To("open_measurement_selection", "landing", "measurement_selection"),
                     To("open_measurement_selection", "configuration", "measurement_selection"),
                     To("open_run_control", "measurement_selection", "run_control"),
                     To("open_recent_runs", "run_control", "recent_runs"),
                     To("open_reports", "recent_runs", "reports"),
                     To("open_wizard", "landing", "wizard"),
                     To("startup_auto_open_wizard", "landing", "wizard"),
                     To("cancel_wizard", "wizard", "landing"),
                     To("complete_wizard", "wizard", "landing")}
           landing == HandoffEvents \cup {"open_development_handoff"}
           editing == DraftEvents \cup {"commit_configuration_edit", "save_configuration",
                                        "open_preflight", "apply_preflight"}
<1>1. ASSUME NEW r, NEW E, "open_measurement_selection" \notin E, NEW t \in Same(r, E) PROVE ok(t)
    BY <1>1 DEF Same, To
<1>2. ASSUME NEW t \in helps PROVE ok(t)
    BY <1>1, <1>2 DEF UiHelpEvents
<1>3. ASSUME NEW t \in lands \cup opens PROVE ok(t)
    BY <1>3 DEF To
<1>4. ASSUME NEW t \in moves PROVE ok(t)
    BY <1>4 DEF To
<1>5. /\ "open_measurement_selection" \notin landing /\ "open_measurement_selection" \notin editing
      /\ "open_measurement_selection" \notin RunEvents /\ "open_measurement_selection" \notin WizardEvents
    BY DEF HandoffEvents, DraftEvents, RunEvents, WizardEvents, WizardSteps, WizardCatalog, WizardChoice, WizardAuth
<1>6. UiTransitions = helps \cup lands \cup opens \cup moves \cup Same("landing", landing)
                      \cup Same("measurement_selection", {"toggle_all_measures"})
                      \cup Same("configuration", editing) \cup Same("run_control", RunEvents)
                      \cup Same("wizard", WizardEvents)
    BY DEF UiTransitions
<1> HIDE DEF ok, helps, lands, opens, moves, landing, editing
<1>7. ASSUME NEW t \in UiTransitions PROVE ok(t)
  <2>1. CASE t \in Same("measurement_selection", {"toggle_all_measures"})
      BY <1>1, <2>1
  <2> QED BY <1>1, <1>2, <1>3, <1>4, <1>5, <1>6, <1>7, <2>1
<1> QED BY <1>7 DEF ok

LEMMA KeyGateShut == \A event : ~run_control_formal(event)
<1>1. ~availability("measurement_selection", UiNone)
    BY DEF availability, LocalRoutes
<1>2. ASSUME NEW s PROVE UiEvent(s, "open_measurement_selection", FALSE, UiNone) = {}
  <2>1. ASSUME NEW t \in UiFound(s, "open_measurement_selection")
        PROVE  ~available_or_unnegotiated(t.to, UiNone)
      BY <1>1, <2>1, KeyMeasuresOnly DEF UiFound, available_or_unnegotiated
  <2> QED BY <2>1 DEF UiEvent
<1>3. UiThen(UiNew, "open_measurement_selection") = {}
    BY <1>2 DEF UiThen
<1>4. \A event : UiThen({}, event) = {}
    BY DEF UiThen
<1> QED BY <1>3, <1>4 DEF run_control_formal

(* The order in which a key finds its handler. *)
KeyGlobals == {"q", "?", "1", "2", "3", "s", "w", "4", "Tab", "BackTab"}
KeyOpen(s) == s.help = Closed /\ s.launch = KeyNone

LEMMA KeyOrder ==
    ASSUME NEW s, KeyOpen(s), NEW k, k \notin {"Ctrl-C", "F1"}
    PROVE  /\ s.screen = "Wizard" => handle_key(s, k) = WizardKey(s, k)
           /\ s.screen = "DevelopmentHandoff" => handle_key(s, k) = HandoffKey(s, k)
           /\ s.screen \notin {"Wizard", "DevelopmentHandoff"} =>
                /\ EditsSetting(s, k) => handle_key(s, k) = EditKey(s, k)
                /\ ~EditsSetting(s, k) /\ s.screen = "Measures" /\ s.searching => handle_key(s, k) = SearchKey(s, k)
                /\ ~EditsSetting(s, k) /\ ~(s.screen = "Measures" /\ s.searching) =>
                      handle_key(s, k) = GlobalKey(s, k)
<1> DEFINE inner == CASE s.screen = "Wizard" -> WizardKey(s, k)
                      [] s.screen = "DevelopmentHandoff" -> HandoffKey(s, k)
                      [] EditsSetting(s, k) -> EditKey(s, k)
                      [] s.screen = "Measures" /\ s.searching -> SearchKey(s, k)
                      [] OTHER -> GlobalKey(s, k)
<1>1. handle_key(s, k) = inner
  <2> DEFINE in == inner
  <2>1. handle_key(s, k) = CASE k = "Ctrl-C" -> InterruptKey(s)
                             [] k # "Ctrl-C" /\ Covered(s) -> HelpKey(s, k)
                             [] ~Covered(s) /\ k = "F1" -> Done(open_context_help(s), "open_help")
                             [] ~Covered(s) /\ k \notin {"Ctrl-C", "F1"} -> in
      BY DEF handle_key
  <2>2. ~Covered(s)
      BY DEF Covered, KeyOpen
  <2> HIDE DEF in
  <2>3. handle_key(s, k) = in
      BY <2>1, <2>2
  <2> QED BY <2>3 DEF in
<1>2. EditsSetting(s, k) => s.screen = "Configuration"
    BY DEF EditsSetting
<1>3. CASE s.screen = "Wizard"
    BY <1>1, <1>2, <1>3
<1>4. CASE s.screen = "DevelopmentHandoff"
    BY <1>1, <1>2, <1>4
<1>5. CASE s.screen \notin {"Wizard", "DevelopmentHandoff"}
    BY <1>1, <1>2, <1>5
<1> QED BY <1>3, <1>4, <1>5

LEMMA KeyToScreen ==
    ASSUME NEW s, NEW k, k \notin KeyGlobals PROVE GlobalKey(s, k) = ScreenKey(s, k)
BY DEF GlobalKey, KeyGlobals

LEMMA KeyDid == \A s, t, id, sent : /\ Result(s, id, sent).did = id /\ Result(s, id, sent).sent = sent
                                    /\ Result(s, id, sent).to = s
                                    /\ Done(s, id).did = id /\ Done(s, id).sent = FALSE /\ Done(s, id).to = s
                                    /\ Send(s, id).did = id /\ Send(s, id).sent = TRUE /\ Send(s, id).to = s
                                    /\ Ignore(s).did = KeyNone /\ Ignore(s).sent = FALSE /\ Ignore(s).to = s
                                    /\ KeyGoto(s, t, id).did = id /\ KeyGoto(s, t, id).sent = FALSE
BY DEF Result, Done, Send, Ignore, KeyGoto

KeyTruth(s, id, k) ==
    \/ handle_key(s, k).did = id
    \/ EditsSetting(s, k) /\ k \in {"f", "V", "A"}
    \/ id = "start_run"

(* The keys of navigation, where no text field has the focus. *)
LEMMA KeyNavigates ==
    ASSUME NEW s, KeyOpen(s), NEW a \in NavigationHelp(s), NEW k \in a[2]
    PROVE  KeyTruth(s, a[1], k)
<1>1. /\ ~TextFocused(s) /\ s.screen \notin {"DevelopmentHandoff", "Wizard"} /\ a \in NavigationKeys
    BY DEF NavigationHelp
<1>2. k \notin {"Ctrl-C", "F1"} /\ GlobalKey(s, k).did = a[1]
  <2>1. CASE a = <<"open_landing", {"1"}>>
      BY <2>1, KeyDid DEF GlobalKey
  <2>2. CASE a = <<"open_measurement_selection", {"2"}>>
      BY <2>2, KeyDid DEF GlobalKey
  <2>3. CASE a = <<"open_configuration", {"3"}>>
      BY <2>3, KeyDid DEF GlobalKey
  <2>4. CASE a = <<"open_run_control", {"s"}>>
      BY <2>4, KeyDid DEF GlobalKey
  <2>5. CASE a = <<"open_reports", {"4"}>>
      BY <2>5, KeyDid DEF GlobalKey
  <2>6. CASE a = <<"quit", {"q"}>>
      BY <2>6, KeyDid DEF GlobalKey
  <2> QED BY <1>1, <2>1, <2>2, <2>3, <2>4, <2>5, <2>6 DEF NavigationKeys
<1>3. ~EditsSetting(s, k) /\ ~(s.screen = "Measures" /\ s.searching)
    BY <1>1 DEF EditsSetting, TextFocused
<1>4. handle_key(s, k) = GlobalKey(s, k)
    BY <1>1, <1>2, <1>3, KeyOrder
<1> QED BY <1>2, <1>4 DEF KeyTruth

LEMMA KeyHelps ==
    ASSUME NEW s, KeyOpen(s), NEW k \in IF TextFocused(s) THEN {"F1"} ELSE {"?"}
    PROVE  KeyTruth(s, "open_help", k)
<1>1. CASE k = "F1"
    BY <1>1, KeyDid DEF handle_key, Covered, KeyOpen, KeyTruth
<1>2. CASE k = "?" /\ ~TextFocused(s)
  <2>1. ~EditsSetting(s, k) /\ ~(s.screen = "Measures" /\ s.searching)
      BY <1>2 DEF EditsSetting, TextFocused
  <2>2. handle_key(s, k) \in {WizardKey(s, k), HandoffKey(s, k), GlobalKey(s, k)}
      BY <1>2, <2>1, KeyOrder
  <2>3. WizardKey(s, k).did = "open_help" /\ HandoffKey(s, k).did = "open_help" /\ GlobalKey(s, k).did = "open_help"
      BY <1>2, KeyDid, SMTT(40) DEF WizardKey, HandoffKey, GlobalKey
  <2> QED BY <2>2, <2>3 DEF KeyTruth
<1> QED BY <1>1, <1>2

(* A key of a screen: no text field, no global key. *)
LEMMA KeyPlain ==
    ASSUME NEW s, KeyOpen(s), NEW k, k \notin {"Ctrl-C", "F1"} \cup KeyGlobals,
           s.screen \notin {"Wizard", "DevelopmentHandoff"}, ~EditsSetting(s, k),
           ~(s.screen = "Measures" /\ s.searching)
    PROVE  handle_key(s, k) = ScreenKey(s, k)
BY KeyOrder, KeyToScreen

KeyOfHelp == {"move_measure_cursor", "focus_measure_search", "edit_measure_search",
              "backspace_measure_search", "move_configuration", "focus_configuration",
              "save_configuration", "edit_configuration", "commit_configuration_edit",
              "backspace_configuration", "move_report_cursor", "toggle_report_selection",
              "open_wizard"}

LEMMA KeyDocumented ==
    ASSUME NEW s, NEW id, id \notin KeyOfHelp
    PROVE  documented_action_is_legal(s, id) = action_is_legal(s, id)
BY DEF documented_action_is_legal, KeyOfHelp

LEMMA KeyLanding ==
    ASSUME NEW s, KeyOpen(s), s.screen = "Landing", NEW a \in ScreenHelp(s), NEW k \in a[2],
           documented_action_is_legal(s, a[1])
    PROVE  KeyTruth(s, a[1], k)
<1>1. ScreenHelp(s) = {<<"open_development_handoff", {"d"}>>, <<"open_wizard", {"w"}>>}
    BY DEF ScreenHelp
<1>2. ~documented_action_is_legal(s, "open_wizard")
    BY DEF documented_action_is_legal
<1>3. a[1] = "open_development_handoff" /\ k = "d"
    BY <1>1, <1>2
<1>4. handle_key(s, "d") = ScreenKey(s, "d")
    BY KeyPlain DEF EditsSetting, KeyGlobals
<1>5. ScreenKey(s, "d").did = "open_development_handoff"
    BY KeyDid DEF ScreenKey
<1> QED BY <1>3, <1>4, <1>5 DEF KeyTruth

LEMMA KeyHandoff ==
    ASSUME NEW s, KeyOpen(s), s.screen = "DevelopmentHandoff", NEW a \in ScreenHelp(s), NEW k \in a[2],
           documented_action_is_legal(s, a[1])
    PROVE  KeyTruth(s, a[1], k)
<1>1. ScreenHelp(s) = {<<"materialize_development", {"Enter", "Space"}>>, <<"cancel_development", {"x"}>>,
                       <<"retry_development", {"r"}>>, <<"go_back", {"Esc"}>>}
    BY DEF ScreenHelp
<1>2. documented_action_is_legal(s, "materialize_development") => s.handoff = "Ready"
    BY DEF documented_action_is_legal, action_is_legal, RecordingActions
<1>3. /\ HandoffKey(s, "Esc").did = "go_back" /\ HandoffKey(s, "x").did = "cancel_development"
      /\ HandoffKey(s, "r").did = "retry_development"
  <2>1. HandoffKey(s, "Esc").did = "go_back"
      BY KeyDid DEF HandoffKey
  <2>2. HandoffKey(s, "x").did = "cancel_development"
      BY KeyDid DEF HandoffKey
  <2>3. HandoffKey(s, "r").did = "retry_development"
      BY KeyDid DEF HandoffKey
  <2> QED BY <2>1, <2>2, <2>3
<1>4. s.handoff = "Ready" => \A c \in {"Enter", "Space"} : HandoffKey(s, c).did = "materialize_development"
  <2>1. s.handoff = "Ready" => HandoffKey(s, "Enter").did = "materialize_development"
      BY KeyDid DEF HandoffKey
  <2>2. s.handoff = "Ready" => HandoffKey(s, "Space").did = "materialize_development"
      BY KeyDid DEF HandoffKey
  <2> QED BY <2>1, <2>2
<1>5. \A c \in {"Esc", "x", "r", "Enter", "Space"} : handle_key(s, c) = HandoffKey(s, c)
    BY KeyOrder
<1> QED BY <1>1, <1>2, <1>3, <1>4, <1>5 DEF KeyTruth

LEMMA KeySearching ==
    ASSUME NEW s, KeyOpen(s), s.screen = "Measures", s.searching, NEW a \in ScreenHelp(s), NEW k \in a[2]
    PROVE  KeyTruth(s, a[1], k)
<1>1. ScreenHelp(s) = {<<"edit_measure_search", {"a"}>>, <<"backspace_measure_search", {"Backspace"}>>,
                       <<"focus_measure_search", {"Esc", "Enter"}>>}
    BY DEF ScreenHelp
<1>2. \A c \in {"a", "Backspace", "Esc", "Enter"} : handle_key(s, c) = SearchKey(s, c)
    BY KeyOrder DEF EditsSetting
<1>3. /\ SearchKey(s, "a").did = "edit_measure_search"
      /\ SearchKey(s, "Backspace").did = "backspace_measure_search"
      /\ SearchKey(s, "Esc").did = "focus_measure_search" /\ SearchKey(s, "Enter").did = "focus_measure_search"
    BY KeyDid DEF SearchKey, Printable, KeyCodes
<1> QED BY <1>1, <1>2, <1>3 DEF KeyTruth

LEMMA KeyMeasures ==
    ASSUME NEW s, KeyOpen(s), s.screen = "Measures", ~s.searching, NEW a \in ScreenHelp(s), NEW k \in a[2]
    PROVE  KeyTruth(s, a[1], k)
<1>1. ScreenHelp(s) = {<<"move_measure_cursor", {"Up", "Down"}>>, <<"focus_measure_search", {"/"}>>,
                       <<"toggle_measure", {"Space"}>>, <<"toggle_all_measures", {"a"}>>,
                       <<"toggle_group", {"g"}>>, <<"toggle_benchmark", {"b"}>>,
                       <<"select_benchmark_pool", {"P"}>>}
    BY DEF ScreenHelp
<1>2. \A c \in {"Up", "Down", "/", "Space", "a", "g", "b", "P"} : handle_key(s, c) = MeasuresKey(s, c)
    BY KeyPlain DEF EditsSetting, KeyGlobals, ScreenKey
<1>3. /\ MeasuresKey(s, "Up").did = "move_measure_cursor" /\ MeasuresKey(s, "Down").did = "move_measure_cursor"
      /\ MeasuresKey(s, "/").did = "focus_measure_search" /\ MeasuresKey(s, "Space").did = "toggle_measure"
      /\ MeasuresKey(s, "a").did = "toggle_all_measures" /\ MeasuresKey(s, "g").did = "toggle_group"
      /\ MeasuresKey(s, "b").did = "toggle_benchmark" /\ MeasuresKey(s, "P").did = "select_benchmark_pool"
    BY KeyDid DEF MeasuresKey
<1> QED BY <1>1, <1>2, <1>3 DEF KeyTruth

LEMMA KeyLegalDid ==
    ASSUME NEW s, NEW id
    PROVE  /\ action_is_legal(s, id) => legal_control_action(s, id).did = id
           /\ legal_control_action(s, id).sent => action_is_legal(s, id) /\ legal_control_action(s, id).did = id
           /\ legal_control_action(s, id).to = s
BY DEF legal_control_action, Send, Result, Ignore

LEMMA KeyConfiguration ==
    ASSUME NEW s, KeyOpen(s), s.screen = "Configuration", NEW a \in ScreenHelp(s), NEW k \in a[2],
           documented_action_is_legal(s, a[1])
    PROVE  KeyTruth(s, a[1], k)
<1>1. ScreenHelp(s) = {<<"move_configuration", {"Up", "Down"}>>, <<"edit_configuration", {"a"}>>,
                       <<"backspace_configuration", {"Backspace"}>>, <<"save_configuration", {"Ctrl-S"}>>,
                       <<"refresh_provider_catalog", {"f"}>>, <<"open_preflight", {"V"}>>,
                       <<"apply_preflight", {"A"}>>}
                      \cup {<<IF Editing(s) THEN "commit_configuration_edit" ELSE "focus_configuration",
                              {"Enter"}>>}
    BY DEF ScreenHelp
<1>2. /\ documented_action_is_legal(s, "move_configuration") => ~Editing(s)
      /\ documented_action_is_legal(s, "save_configuration") => ~Editing(s)
      /\ documented_action_is_legal(s, "edit_configuration") => Editing(s)
      /\ documented_action_is_legal(s, "backspace_configuration") => Editing(s)
    BY DEF documented_action_is_legal
<1>3. documented_action_is_legal(s, "refresh_provider_catalog") => action_is_legal(s, "refresh_provider_catalog")
    BY KeyDocumented DEF KeyOfHelp
<1>4. CASE Editing(s)
  <2>1. \A c \in {"a", "Backspace", "Enter", "f", "V", "A"} : EditsSetting(s, c)
      BY <1>4 DEF EditsSetting, Printable, KeyCodes
  <2>2. \A c \in {"a", "Backspace", "Enter"} : handle_key(s, c) = EditKey(s, c)
      BY <2>1, KeyOrder
  <2>3. /\ EditKey(s, "a").did = "edit_configuration" /\ EditKey(s, "Backspace").did = "backspace_configuration"
        /\ EditKey(s, "Enter").did = "commit_configuration_edit"
      BY KeyDid DEF EditKey
  <2> QED BY <1>1, <1>2, <1>4, <2>1, <2>2, <2>3 DEF KeyTruth
<1>5. CASE ~Editing(s)
  <2>1. \A c \in {"Up", "Down", "Ctrl-S", "f", "V", "A", "Enter"} : handle_key(s, c) = ConfigurationKey(s, c)
    <3>1. \A c : ~EditsSetting(s, c)
        BY <1>5 DEF EditsSetting
    <3>2. \A c \in {"Up", "Down", "Ctrl-S", "f", "V", "A", "Enter"} : handle_key(s, c) = ScreenKey(s, c)
        BY <3>1, KeyPlain DEF KeyGlobals
    <3>3. \A c : ScreenKey(s, c) = ConfigurationKey(s, c)
        BY DEF ScreenKey
    <3> QED BY <3>2, <3>3
  <2>2. /\ ConfigurationKey(s, "Up").did = "move_configuration"
        /\ ConfigurationKey(s, "Down").did = "move_configuration"
        /\ ConfigurationKey(s, "Ctrl-S").did = "save_configuration"
        /\ ConfigurationKey(s, "V").did = "open_preflight" /\ ConfigurationKey(s, "A").did = "apply_preflight"
        /\ ConfigurationKey(s, "Enter").did = "focus_configuration"
    <3>1. \A c \in {"Up", "Down"} : ConfigurationKey(s, c).did = "move_configuration"
        BY KeyDid DEF ConfigurationKey
    <3>2. ConfigurationKey(s, "Ctrl-S").did = "save_configuration"
        BY KeyDid DEF ConfigurationKey
    <3>3. ConfigurationKey(s, "V").did = "open_preflight"
        BY KeyDid DEF ConfigurationKey
    <3>4. ConfigurationKey(s, "A").did = "apply_preflight"
        BY KeyDid DEF ConfigurationKey
    <3>5. ConfigurationKey(s, "Enter").did = "focus_configuration"
        BY KeyDid DEF ConfigurationKey
    <3> QED BY <3>1, <3>2, <3>3, <3>4, <3>5
  <2>3. ConfigurationKey(s, "f") = legal_control_action(s, "refresh_provider_catalog")
      BY DEF ConfigurationKey
  <2> QED BY <1>1, <1>2, <1>3, <1>5, <2>1, <2>2, <2>3, KeyLegalDid DEF KeyTruth
<1> QED BY <1>4, <1>5

LEMMA KeyLetters ==
      /\ DOMAIN RunControlLetters = {"A", "Ctrl-Z", "S", "U", "D", "e", "P", "C", "G", "X", "Y", "o", "J", "]"}
      /\ RunControlLetters["A"] = "admit_fanout"
      /\ RunControlLetters["Ctrl-Z"] = "cancel_fanout"
      /\ RunControlLetters["e"] = "estimate_recording"
      /\ RunControlLetters["P"] = "plan_recording"
      /\ RunControlLetters["C"] = "confirm_recording_capture"
      /\ RunControlLetters["G"] = "progress_recording"
      /\ RunControlLetters["X"] = "cancel_recording"
      /\ RunControlLetters["Y"] = "reconcile_recording"
      /\ RunControlLetters["o"] = "activate_offline_default"
      /\ RunControlLetters["S"] = "seal_recording"
      /\ RunControlLetters["U"] = "reopen_recording"
      /\ RunControlLetters["D"] = "remove_recording_cassette"
      /\ RunControlLetters["]"] = "select_offline_cassette"
      /\ RunControlLetters["J"] = "replay_selected"
BY DEF RunControlLetters

LEMMA KeyRunControl ==
    ASSUME NEW s, KeyOpen(s), s.screen = "RunControl", NEW a \in ScreenHelp(s), NEW k \in a[2],
           documented_action_is_legal(s, a[1])
    PROVE  KeyTruth(s, a[1], k)
<1>1. ScreenHelp(s) = {<<"start_run", {"Enter"}>>, <<"admit_fanout", {"A"}>>, <<"cancel_run", {"Ctrl-C"}>>,
                       <<"cancel_fanout", {"Ctrl-Z"}>>, <<"reconnect", {"x"}>>,
                       <<"estimate_recording", {"e"}>>, <<"plan_recording", {"P"}>>,
                       <<"confirm_recording_capture", {"C"}>>, <<"progress_recording", {"G"}>>,
                       <<"cancel_recording", {"X"}>>, <<"reconcile_recording", {"Y"}>>,
                       <<"activate_offline_default", {"o"}>>, <<"seal_recording", {"S"}>>,
                       <<"reopen_recording", {"U"}>>, <<"remove_recording_cassette", {"D"}>>,
                       <<"select_offline_cassette", {"]"}>>, <<"replay_selected", {"J"}>>}
    BY DEF ScreenHelp
<1>2. documented_action_is_legal(s, a[1]) = action_is_legal(s, a[1])
  <2>1. a[1] \notin KeyOfHelp
      BY <1>1 DEF KeyOfHelp
  <2> QED BY <2>1, KeyDocumented
<1>3. ~action_is_legal(s, "cancel_run") /\ ~action_is_legal(s, "reconnect")
    BY KeyNoneAssumption DEF action_is_legal, RecordingActions, KeyOpen
<1>4. a[1] = "start_run" \/ (k \in DOMAIN RunControlLetters /\ RunControlLetters[k] = a[1])
    BY <1>1, <1>2, <1>3, KeyLetters
<1>5. CASE k \in DOMAIN RunControlLetters /\ RunControlLetters[k] = a[1]
  <2>1. k \notin KeyGlobals /\ k \notin {"Ctrl-C", "F1", "x", "Enter"}
      BY <1>5, KeyLetters DEF KeyGlobals
  <2>2. handle_key(s, k) = ScreenKey(s, k)
      BY <2>1, KeyPlain DEF EditsSetting
  <2>3. ScreenKey(s, k) = RunControlKey(s, k)
      BY DEF ScreenKey
  <2>4. RunControlKey(s, k) = legal_control_action(s, a[1])
      BY <1>5, <2>1 DEF RunControlKey
  <2> QED BY <1>2, <2>2, <2>3, <2>4, KeyLegalDid DEF KeyTruth
<1> QED BY <1>4, <1>5 DEF KeyTruth

KeyCounted(s) == s.row \in Int /\ (s.live # KeyNone => s.live.runs \in Int)

LEMMA KeyReports ==
    ASSUME NEW s, KeyOpen(s), KeyCounted(s), s.screen = "Reports", NEW a \in ScreenHelp(s), NEW k \in a[2],
           documented_action_is_legal(s, a[1])
    PROVE  KeyTruth(s, a[1], k)
<1>1. ScreenHelp(s) = {<<"move_report_cursor", {"Up", "Down"}>>, <<"toggle_report_selection", {"Space"}>>,
                       <<"retry_run", {"t"}>>, <<"compare_live_offline", {"v", "C"}>>}
    BY DEF ScreenHelp
<1>2. \A c \in {"Up", "Down", "Space", "t", "v", "C"} : handle_key(s, c) = ReportsKey(s, c)
  <2>1. \A c \in {"Up", "Down", "Space", "t", "v", "C"} : handle_key(s, c) = ScreenKey(s, c)
      BY KeyPlain DEF EditsSetting, KeyGlobals
  <2>2. \A c : ScreenKey(s, c) = ReportsKey(s, c)
      BY DEF ScreenKey
  <2> QED BY <2>1, <2>2
<1>3. documented_action_is_legal(s, "toggle_report_selection") => ReportsKey(s, "Space").did = "toggle_report_selection"
  <2>1. documented_action_is_legal(s, "toggle_report_selection") => s.live # KeyNone /\ s.row < s.live.runs
      BY DEF documented_action_is_legal
  <2>2. s.live # KeyNone /\ s.row < s.live.runs => ~(s.live = KeyNone \/ s.row >= s.live.runs)
      BY DEF KeyCounted
  <2>3. ~(s.live = KeyNone \/ s.row >= s.live.runs) => ReportsKey(s, "Space").did = "toggle_report_selection"
      BY KeyDid DEF ReportsKey
  <2> QED BY <2>1, <2>2, <2>3
<1>4. /\ ReportsKey(s, "Up").did = "move_report_cursor" /\ ReportsKey(s, "Down").did = "move_report_cursor"
      /\ ReportsKey(s, "t") = legal_control_action(s, "retry_run")
      /\ ReportsKey(s, "v") = legal_control_action(s, "compare_live_offline")
      /\ ReportsKey(s, "C") = legal_control_action(s, "compare_live_offline")
  <2>1. ReportsKey(s, "Up").did = "move_report_cursor"
      BY KeyDid DEF ReportsKey
  <2>2. ReportsKey(s, "Down").did = "move_report_cursor"
      BY KeyDid DEF ReportsKey
  <2>3. ReportsKey(s, "t") = legal_control_action(s, "retry_run")
      BY DEF ReportsKey
  <2>4. \A c \in {"v", "C"} : ReportsKey(s, c) = legal_control_action(s, "compare_live_offline")
      BY DEF ReportsKey
  <2> QED BY <2>1, <2>2, <2>3, <2>4
<1>5. /\ documented_action_is_legal(s, "retry_run") => action_is_legal(s, "retry_run")
      /\ documented_action_is_legal(s, "compare_live_offline") => action_is_legal(s, "compare_live_offline")
    BY KeyDocumented DEF KeyOfHelp
<1> QED BY <1>1, <1>2, <1>3, <1>4, <1>5, KeyLegalDid DEF KeyTruth

-----------------------------------------------------------------------------
(* The inductive invariant: the types, no launch (the gate of the graph is   *)
(* shut), and the overlay on the screen below it.                            *)

KeyOver(s) == s.help # Closed => s.help = context_help_route(s)
KeyGood == {s \in KeyStates : s.launch = KeyNone /\ KeyOver(s)}

LEMMA KeyCloses == \A s : close_context_help(s) = [s EXCEPT !.help = Closed]
<1>1. ASSUME NEW s PROVE close_context_help(s) = [s EXCEPT !.help = Closed]
  <2>1. ContextHelpApply(s.help, "close", context_help_route(s)) \in {{}, {Closed}}
      BY DEF ContextHelpApply
  <2>2. (CHOOSE h \in {Closed} : TRUE) = Closed
      OBVIOUS
  <2> QED BY <2>1, <2>2 DEF close_context_help
<1> QED BY <1>1

LEMMA KeyOpens == \A s : open_context_help(s) = [s EXCEPT !.help = context_help_route(s)]
<1>1. ASSUME NEW r PROVE (CHOOSE h \in ContextHelpApply(Closed, "open", r) : TRUE) = r
  <2>1. ContextHelpApply(Closed, "open", r) = {r}
      BY DEF ContextHelpApply
  <2> QED BY <2>1
<1>2. ASSUME NEW s PROVE open_context_help(s) = [s EXCEPT !.help = context_help_route(s)]
  <2> DEFINE h == CHOOSE h \in ContextHelpApply(Closed, "open", context_help_route(s)) : TRUE
  <2>1. open_context_help(s) = [s EXCEPT !.help = h]
      BY DEF open_context_help
  <2>2. h = context_help_route(s)
      BY <1>1
  <2> HIDE DEF h
  <2> QED BY <2>1, <2>2
<1> QED BY <1>2

LEMMA KeyOverlays ==
    ASSUME NEW s \in KeyGood
    PROVE  [s EXCEPT !.help = Closed] \in KeyGood /\ [s EXCEPT !.help = context_help_route(s)] \in KeyGood
<1> DEFINE c == [s EXCEPT !.help = Closed]
           o == [s EXCEPT !.help = context_help_route(s)]
<1>1. s \in KeyStates /\ s.launch = KeyNone
    BY DEF KeyGood
<1>2. context_help_route(s) \in Screens
    BY <1>1 DEF context_help_route, KeyStates, Screens
<1>3. c \in KeyStates /\ c.launch = KeyNone /\ c.help = Closed
    BY <1>1 DEF KeyStates
<1>4. o \in KeyStates /\ o.launch = KeyNone /\ o.help = context_help_route(s) /\ o.screen = s.screen
    BY <1>1, <1>2 DEF KeyStates
<1> HIDE DEF c, o
<1>5. c \in KeyGood
    BY <1>3 DEF KeyGood, KeyOver
<1>6. o \in KeyGood
    BY <1>4 DEF KeyGood, KeyOver, context_help_route
<1> QED BY <1>5, <1>6 DEF c, o

(* One field changed while no overlay is open. *)
LEMMA KeyChange ==
    ASSUME NEW s \in KeyGood, NEW t \in KeyStates, t.launch = KeyNone, t.help = s.help,
           t.screen = s.screen \/ s.help = Closed
    PROVE  t \in KeyGood
BY DEF KeyGood, KeyOver, context_help_route

LEMMA KeyFields ==
    ASSUME NEW s \in KeyGood
    PROVE  /\ s.help = Closed => \A x \in Screens : [s EXCEPT !.screen = x] \in KeyGood
           /\ s.help = Closed => [s EXCEPT !.route = "Landing", !.screen = "Landing"] \in KeyGood
           /\ s.help = Closed => [s EXCEPT !.route = "Wizard", !.screen = "Wizard"] \in KeyGood
           /\ \A x \in {KeyNone, "accepted", "rejected"} : [s EXCEPT !.editing = x] \in KeyGood
           /\ \A x \in BOOLEAN : [s EXCEPT !.searching = x] \in KeyGood
           /\ \A x \in {"empty", "hit", "miss"} : [s EXCEPT !.search = x] \in KeyGood
           /\ \A x \in BOOLEAN : [s EXCEPT !.bundle = x] \in KeyGood
           /\ \A x \in HandoffPhases : [s EXCEPT !.handoff = x] \in KeyGood
           /\ \A x \in 0..2 : [s EXCEPT !.row = x] \in KeyGood
           /\ \A x \in SUBSET (0..2) : [s EXCEPT !.picked = x] \in KeyGood
           /\ \A x \in [listed : BOOLEAN, chosen : BOOLEAN, progress : BOOLEAN] : [s EXCEPT !.tape = x] \in KeyGood
<1>1. s \in KeyStates /\ s.launch = KeyNone
    BY DEF KeyGood
<1>2. ASSUME s.help = Closed, NEW x \in Screens PROVE [s EXCEPT !.screen = x] \in KeyGood
  <2> DEFINE t == [s EXCEPT !.screen = x]
  <2>1. t \in KeyStates /\ t.launch = KeyNone /\ t.help = s.help
      BY <1>1 DEF KeyStates
  <2> QED BY <1>2, <2>1, KeyChange
<1>3. ASSUME s.help = Closed PROVE [s EXCEPT !.route = "Landing", !.screen = "Landing"] \in KeyGood
  <2> DEFINE t == [s EXCEPT !.route = "Landing", !.screen = "Landing"]
  <2>1. t \in KeyStates /\ t.launch = KeyNone /\ t.help = s.help
      BY <1>1 DEF KeyStates, Screens
  <2> QED BY <1>3, <2>1, KeyChange
<1>4. ASSUME s.help = Closed PROVE [s EXCEPT !.route = "Wizard", !.screen = "Wizard"] \in KeyGood
  <2> DEFINE t == [s EXCEPT !.route = "Wizard", !.screen = "Wizard"]
  <2>1. t \in KeyStates /\ t.launch = KeyNone /\ t.help = s.help
      BY <1>1 DEF KeyStates, Screens
  <2> QED BY <1>4, <2>1, KeyChange
<1>5. ASSUME NEW x \in {KeyNone, "accepted", "rejected"} PROVE [s EXCEPT !.editing = x] \in KeyGood
  <2> DEFINE t == [s EXCEPT !.editing = x]
  <2>1. t \in KeyStates /\ t.launch = KeyNone /\ t.help = s.help /\ t.screen = s.screen
      BY <1>1 DEF KeyStates
  <2> QED BY <2>1, KeyChange
<1>6. ASSUME NEW x \in BOOLEAN PROVE [s EXCEPT !.searching = x] \in KeyGood
  <2> DEFINE t == [s EXCEPT !.searching = x]
  <2>1. t \in KeyStates /\ t.launch = KeyNone /\ t.help = s.help /\ t.screen = s.screen
      BY <1>1 DEF KeyStates
  <2> QED BY <2>1, KeyChange
<1>7. ASSUME NEW x \in {"empty", "hit", "miss"} PROVE [s EXCEPT !.search = x] \in KeyGood
  <2> DEFINE t == [s EXCEPT !.search = x]
  <2>1. t \in KeyStates /\ t.launch = KeyNone /\ t.help = s.help /\ t.screen = s.screen
      BY <1>1 DEF KeyStates
  <2> QED BY <2>1, KeyChange
<1>8. ASSUME NEW x \in BOOLEAN PROVE [s EXCEPT !.bundle = x] \in KeyGood
  <2> DEFINE t == [s EXCEPT !.bundle = x]
  <2>1. t \in KeyStates /\ t.launch = KeyNone /\ t.help = s.help /\ t.screen = s.screen
      BY <1>1 DEF KeyStates
  <2> QED BY <2>1, KeyChange
<1>9. ASSUME NEW x \in HandoffPhases PROVE [s EXCEPT !.handoff = x] \in KeyGood
  <2> DEFINE t == [s EXCEPT !.handoff = x]
  <2>1. t \in KeyStates /\ t.launch = KeyNone /\ t.help = s.help /\ t.screen = s.screen
      BY <1>1 DEF KeyStates
  <2> QED BY <2>1, KeyChange
<1>10. ASSUME NEW x \in 0..2 PROVE [s EXCEPT !.row = x] \in KeyGood
  <2> DEFINE t == [s EXCEPT !.row = x]
  <2>1. t \in KeyStates /\ t.launch = KeyNone /\ t.help = s.help /\ t.screen = s.screen
      BY <1>1 DEF KeyStates
  <2> QED BY <2>1, KeyChange
<1>11. ASSUME NEW x \in SUBSET (0..2) PROVE [s EXCEPT !.picked = x] \in KeyGood
  <2> DEFINE t == [s EXCEPT !.picked = x]
  <2>1. t \in KeyStates /\ t.launch = KeyNone /\ t.help = s.help /\ t.screen = s.screen
      BY <1>1 DEF KeyStates
  <2> QED BY <2>1, KeyChange
<1>12. ASSUME NEW x \in [listed : BOOLEAN, chosen : BOOLEAN, progress : BOOLEAN] PROVE [s EXCEPT !.tape = x] \in KeyGood
  <2> DEFINE t == [s EXCEPT !.tape = x]
  <2>1. t \in KeyStates /\ t.launch = KeyNone /\ t.help = s.help /\ t.screen = s.screen
      BY <1>1 DEF KeyStates
  <2> QED BY <2>1, KeyChange
<1> QED BY <1>2, <1>3, <1>4, <1>5, <1>6, <1>7, <1>8, <1>9, <1>10, <1>11, <1>12

LEMMA KeyShutAction == \A s, id : formal_control_action(s, id) = Ignore(s)
BY KeyGateShut DEF formal_control_action

LEMMA KeyCommits == ASSUME NEW s \in KeyGood PROVE Committed(s) \in KeyGood
<1>1. s.editing \in {KeyNone, "accepted", "rejected"}
    BY DEF KeyGood, KeyStates
<1>2. \A x \in {KeyNone, "accepted", "rejected"} : [s EXCEPT !.editing = x] \in KeyGood
    BY KeyFields
<1>3. CASE s.editing = "accepted"
  <2>1. Committed(s) = [s EXCEPT !.editing = KeyNone]
      BY <1>3 DEF Committed
  <2> QED BY <1>2, <2>1
<1>4. CASE s.editing # "accepted"
  <2>1. Committed(s) = [s EXCEPT !.editing = s.editing]
      BY <1>4 DEF Committed
  <2> QED BY <1>1, <1>2, <2>1
<1> QED BY <1>3, <1>4

LEMMA KeyRuns ==
    ASSUME NEW s \in KeyGood PROVE s.row \in 0..2 /\ (s.live # KeyNone => s.live.runs \in Nat)
<1>1. s.row \in 0..2 /\ s.live \in KeySnapshots \cup {KeyNone}
    BY DEF KeyGood, KeyStates
<1>2. ASSUME NEW p \in KeySnapshots PROVE p.runs \in Nat
    BY <1>2, KeySnapshotsAssumption
<1> QED BY <1>1, <1>2

(* What a key leaves behind, handler by handler. *)
LEMMA KeyStaysAbove ==
    ASSUME NEW s \in KeyGood, s.help = Closed, NEW k
    PROVE  /\ WizardKey(s, k).to \in KeyGood
           /\ HandoffKey(s, k).to \in KeyGood
           /\ SearchKey(s, k).to \in KeyGood
           /\ EditKey(s, k).to \in KeyGood
<1>1. open_context_help(s) \in KeyGood
    BY KeyOpens, KeyOverlays
<1>2. WizardKey(s, k).to \in KeyGood
  <2>1. WizardKey(s, k) \in {Done([s EXCEPT !.route = "Landing", !.screen = "Landing"], "leave_wizard"),
                              Done(open_context_help(s), "open_help"), Ignore(s)}
      BY DEF WizardKey
  <2>2. [s EXCEPT !.route = "Landing", !.screen = "Landing"] \in KeyGood
      BY KeyFields
  <2> QED BY <1>1, <2>1, <2>2, KeyDid
<1>3. HandoffKey(s, k).to \in KeyGood
  <2> DEFINE cancelled == [s EXCEPT !.handoff = IF @ \in ActivePhases THEN "Cancelled" ELSE @]
             cloning == [s EXCEPT !.handoff = "Cloning"]
             land == [s EXCEPT !.screen = "Landing"]
  <2>1. HandoffKey(s, k) \in {KeyGoto(s, "Landing", "go_back"), Send(cloning, "materialize_development"),
                               Send(cancelled, "cancel_development"), Send(cloning, "retry_development"),
                               Done(open_context_help(s), "open_help"), Ignore(s)}
      BY DEF HandoffKey
  <2>2. cancelled \in KeyGood
    <3> DEFINE x == IF s.handoff \in ActivePhases THEN "Cancelled" ELSE s.handoff
    <3>1. x \in HandoffPhases
        BY DEF HandoffPhases, KeyGood, KeyStates
    <3>2. cancelled = [s EXCEPT !.handoff = x]
        OBVIOUS
    <3> HIDE DEF x
    <3> QED BY <3>1, <3>2, KeyFields
  <2>3. cloning \in KeyGood
      BY KeyFields DEF HandoffPhases
  <2>4. land \in KeyGood /\ KeyGoto(s, "Landing", "go_back") = Done(land, "go_back")
      BY KeyFields DEF Screens, KeyGoto
  <2> HIDE DEF cancelled, cloning, land
  <2> QED BY <1>1, <2>1, <2>2, <2>3, <2>4, KeyDid
<1>4. SearchKey(s, k).to \in KeyGood
  <2> DEFINE x == IF k = "q" THEN "miss" ELSE "hit"
  <2>1. SearchKey(s, k) \in {Done([s EXCEPT !.searching = FALSE], "focus_measure_search"),
                              Done([s EXCEPT !.search = "empty"], "backspace_measure_search"),
                              Done([s EXCEPT !.search = x], "edit_measure_search"), Ignore(s)}
      BY DEF SearchKey
  <2>2. x \in {"empty", "hit", "miss"}
      OBVIOUS
  <2>3. [s EXCEPT !.searching = FALSE] \in KeyGood
      BY KeyFields
  <2> HIDE DEF x
  <2>4. [s EXCEPT !.search = "empty"] \in KeyGood /\ [s EXCEPT !.search = x] \in KeyGood
      BY <2>2, KeyFields
  <2> QED BY <2>1, <2>3, <2>4, KeyDid
<1>5. Committed(s) \in KeyGood
    BY KeyCommits
<1>6. EditKey(s, k).to \in KeyGood
  <2>1. EditKey(s, k) \in {Done([s EXCEPT !.editing = KeyNone], "leave_configuration_edit"),
                            Done(Committed(s), "commit_configuration_edit"),
                            Done([s EXCEPT !.editing = "rejected"], "backspace_configuration"),
                            Done([s EXCEPT !.editing = "accepted"], "edit_configuration")}
      BY DEF EditKey
  <2>2. \A x \in {KeyNone, "accepted", "rejected"} : [s EXCEPT !.editing = x] \in KeyGood
      BY KeyFields
  <2> QED BY <1>5, <2>1, <2>2, KeyDid
<1> QED BY <1>2, <1>3, <1>4, <1>6

LEMMA KeyStaysScreen ==
    ASSUME NEW s \in KeyGood, s.help = Closed, NEW k
    PROVE  ScreenKey(s, k).to \in KeyGood
<1>1. s.row \in 0..2 /\ s.picked \in SUBSET (0..2) /\ s.bundle \in BOOLEAN
    BY DEF KeyGood, KeyStates
<1>2. MeasuresKey(s, k).to \in KeyGood
  <2>1. MeasuresKey(s, k).to \in {s, [s EXCEPT !.searching = TRUE]}
      BY KeyDid DEF MeasuresKey
  <2>2. [s EXCEPT !.searching = TRUE] \in KeyGood
      BY KeyFields
  <2> QED BY <2>1, <2>2
<1>3. ConfigurationKey(s, k).to \in KeyGood
  <2> DEFINE b == [s EXCEPT !.bundle = @ \/ Buildable(s)]
             e == [s EXCEPT !.editing = "accepted"]
  <2>1. ConfigurationKey(s, k) \in {Done(Committed(s), "save_configuration"), Send(b, "open_preflight"),
                                     Send(s, "apply_preflight"), legal_control_action(s, "refresh_provider_catalog"),
                                     Done(e, "focus_configuration"), Done(s, "move_configuration"), Ignore(s)}
      BY DEF ConfigurationKey
  <2>2. b \in KeyGood
    <3> DEFINE x == s.bundle \/ Buildable(s)
    <3>1. x \in BOOLEAN /\ b = [s EXCEPT !.bundle = x]
        OBVIOUS
    <3> HIDE DEF x, b
    <3> QED BY <3>1, KeyFields
  <2>3. e \in KeyGood
      BY KeyFields
  <2>4. Committed(s) \in KeyGood
      BY KeyCommits
  <2> HIDE DEF b, e
  <2> QED BY <2>1, <2>2, <2>3, <2>4, KeyDid, KeyLegalDid
<1>4. RunControlKey(s, k).to = s
  <2>1. formal_control_action(s, "reconnect").to = s /\ ~run_control_formal("start_run")
      BY KeyShutAction, KeyDid, KeyGateShut
  <2>2. \A id : legal_control_action(s, id).to = s
      BY KeyLegalDid
  <2> QED BY <2>1, <2>2, KeyDid DEF RunControlKey
<1>5. ReportsKey(s, k).to \in KeyGood
  <2> DEFINE x == IF s.row \in s.picked THEN s.picked \ {s.row}
                  ELSE IF Cardinality(s.picked) < 2 THEN s.picked \cup {s.row} ELSE s.picked
             y == IF k = "Down" THEN (IF s.row = 2 THEN 2 ELSE s.row + 1)
                  ELSE IF s.row = 0 THEN 0 ELSE s.row - 1
  <2>1. ReportsKey(s, k).to \in {s, [s EXCEPT !.picked = x], [s EXCEPT !.row = y]}
    <3>1. \A id : legal_control_action(s, id).to = s
        BY KeyLegalDid
    <3>2. move_cursor(s, k) = [s EXCEPT !.row = y]
        BY DEF move_cursor
    <3> DEFINE p == [s EXCEPT !.picked = IF s.row \in @ THEN @ \ {s.row}
                                             ELSE IF Cardinality(@) < 2 THEN @ \cup {s.row} ELSE @]
               q == [s EXCEPT !.row = y]
    <3>3. p = [s EXCEPT !.picked = x]
        OBVIOUS
    <3>4. ReportsKey(s, k) \in {Ignore(s), Done(p, "toggle_report_selection"), legal_control_action(s, "retry_run"),
                                 legal_control_action(s, "compare_live_offline"),
                                 Done(move_cursor(s, k), "move_report_cursor")}
        BY DEF ReportsKey
    <3> HIDE DEF x, y, p, q
    <3> QED BY <3>1, <3>2, <3>3, <3>4, KeyDid
  <2>2. y \in 0..2
      BY <1>1
  <2>3. CASE s.live # KeyNone /\ s.row < s.live.runs
    <3>2. x \in SUBSET (0..2)
        BY <1>1
    <3> HIDE DEF x, y
    <3> QED BY <2>1, <2>2, <3>2, KeyFields
  <2>4. CASE ~(s.live # KeyNone /\ s.row < s.live.runs)
    <3>1. k = "Space" => ReportsKey(s, k) = Ignore(s)
      <4>1. s.live = KeyNone \/ s.row >= s.live.runs
          BY <2>4, KeyRuns
      <4> QED BY <4>1 DEF ReportsKey
    <3>2. k # "Space" => ReportsKey(s, k).to \in {s, [s EXCEPT !.row = y]}
      <4>1. \A id : legal_control_action(s, id).to = s
          BY KeyLegalDid
      <4>2. move_cursor(s, k) = [s EXCEPT !.row = y]
          BY DEF move_cursor
      <4> HIDE DEF y
      <4> QED BY <4>1, <4>2, KeyDid DEF ReportsKey
    <3> HIDE DEF x, y
    <3>3. [s EXCEPT !.row = y] \in KeyGood
        BY <2>2, KeyFields
    <3> QED BY <3>1, <3>2, <3>3, KeyDid
  <2> QED BY <2>3, <2>4
<1>6. KeyGoto(s, "DevelopmentHandoff", "open_development_handoff").to \in KeyGood
  <2>1. [s EXCEPT !.screen = "DevelopmentHandoff"] \in KeyGood
      BY KeyFields DEF Screens
  <2> QED BY <2>1, KeyDid DEF KeyGoto
<1>7. ScreenKey(s, k) \in {MeasuresKey(s, k), ConfigurationKey(s, k), RunControlKey(s, k), ReportsKey(s, k),
                            KeyGoto(s, "DevelopmentHandoff", "open_development_handoff"), Ignore(s)}
    BY DEF ScreenKey
<1> QED BY <1>2, <1>3, <1>4, <1>5, <1>6, <1>7, KeyDid

LEMMA KeyWizardOpens ==
    ASSUME NEW s \in KeyGood PROVE open_wizard(s) \in KeyGood
<1> DEFINE c == [s EXCEPT !.help = Closed]
<1>1. c \in KeyGood /\ c.help = Closed
    BY KeyOverlays DEF KeyGood, KeyStates
<1>2. close_context_help(s) = c
    BY KeyCloses
<1> HIDE DEF c
<1>3. [c EXCEPT !.route = "Wizard", !.screen = "Wizard"] \in KeyGood
    BY <1>1, KeyFields
<1> QED BY <1>2, <1>3 DEF open_wizard

LEMMA KeyStaysGlobal ==
    ASSUME NEW s \in KeyGood, s.help = Closed, s.screen \notin {"Wizard", "DevelopmentHandoff"}, NEW k
    PROVE  GlobalKey(s, k).to \in KeyGood
<1>1. ASSUME NEW x \in Screens, NEW id PROVE KeyGoto(s, x, id).to \in KeyGood
  <2>1. [s EXCEPT !.screen = x] \in KeyGood
      BY KeyFields
  <2>2. KeyGoto(s, x, id).to = [s EXCEPT !.screen = x]
      BY DEF KeyGoto, Done, Result
  <2> QED BY <2>1, <2>2
<1>2. NextScreen[s.screen] \in Screens /\ PreviousScreen[s.screen] \in Screens
    BY DEF KeyGood, KeyStates, Screens, NextScreen, PreviousScreen
<1>3. open_context_help(s) \in KeyGood /\ open_wizard(s) \in KeyGood
    BY KeyOpens, KeyOverlays, KeyWizardOpens
<1>4. GlobalKey(s, k) \in {Done(s, "quit"), Done(open_context_help(s), "open_help"),
                            KeyGoto(s, "Landing", "open_landing"),
                            KeyGoto(s, "Measures", "open_measurement_selection"),
                            KeyGoto(s, "Configuration", "open_configuration"),
                            KeyGoto(s, "RunControl", "open_run_control"), Done(open_wizard(s), "open_wizard"),
                            KeyGoto(s, "Reports", "open_reports"),
                            KeyGoto(s, NextScreen[s.screen], "next_screen"),
                            KeyGoto(s, PreviousScreen[s.screen], "previous_screen"), ScreenKey(s, k)}
    BY DEF GlobalKey
<1>5. {"Landing", "Measures", "Configuration", "RunControl", "Reports"} \subseteq Screens
    BY DEF Screens
<1> QED BY <1>1, <1>2, <1>3, <1>4, <1>5, KeyDid, KeyStaysScreen

(* The two keys and the overlay that come before everything else. *)
LEMMA KeyFirst ==
    ASSUME NEW s, NEW k
    PROVE  /\ k = "Ctrl-C" => handle_key(s, k) \in {Done(s, "quit"), Ignore(s)}
           /\ k # "Ctrl-C" /\ s.help # Closed => handle_key(s, k) = HelpKey(s, k)
           /\ k = "F1" /\ s.help = Closed => handle_key(s, k) = Done(open_context_help(s), "open_help")
<1> DEFINE in == CASE s.screen = "Wizard" -> WizardKey(s, k)
                   [] s.screen = "DevelopmentHandoff" -> HandoffKey(s, k)
                   [] EditsSetting(s, k) -> EditKey(s, k)
                   [] s.screen = "Measures" /\ s.searching -> SearchKey(s, k)
                   [] OTHER -> GlobalKey(s, k)
<1>1. handle_key(s, k) = CASE k = "Ctrl-C" -> InterruptKey(s)
                           [] k # "Ctrl-C" /\ Covered(s) -> HelpKey(s, k)
                           [] ~Covered(s) /\ k = "F1" -> Done(open_context_help(s), "open_help")
                           [] ~Covered(s) /\ k \notin {"Ctrl-C", "F1"} -> in
    BY DEF handle_key
<1>2. Covered(s) <=> s.help # Closed
    BY DEF Covered
<1> HIDE DEF in
<1>3. k = "Ctrl-C" => handle_key(s, k) = InterruptKey(s)
    BY <1>1
<1>4. InterruptKey(s) \in {Done(s, "quit"), Ignore(s)}
    BY KeyShutAction DEF InterruptKey
<1>5. k # "Ctrl-C" /\ s.help # Closed => handle_key(s, k) = HelpKey(s, k)
    BY <1>1, <1>2
<1>6. k = "F1" /\ s.help = Closed => handle_key(s, k) = Done(open_context_help(s), "open_help")
    BY <1>1, <1>2
<1> QED BY <1>3, <1>4, <1>5, <1>6

LEMMA KeyHelpKey ==
    \A s, k : HelpKey(s, k) \in {Done([s EXCEPT !.help = Closed], "close_help"), Ignore(s)}
BY KeyCloses DEF HelpKey

LEMMA KeyStays ==
    ASSUME NEW s \in KeyGood, NEW k PROVE handle_key(s, k).to \in KeyGood
<1>1. CASE k = "Ctrl-C"
    BY <1>1, KeyFirst, KeyDid
<1>2. CASE k # "Ctrl-C" /\ s.help # Closed
  <2>1. handle_key(s, k) \in {Done([s EXCEPT !.help = Closed], "close_help"), Ignore(s)}
      BY <1>2, KeyFirst, KeyHelpKey
  <2>2. handle_key(s, k).to \in {[s EXCEPT !.help = Closed], s}
      BY <2>1, KeyDid
  <2> QED BY <2>2, KeyOverlays
<1>3. CASE k = "F1" /\ s.help = Closed
  <2>1. handle_key(s, k).to = open_context_help(s)
      BY <1>3, KeyFirst, KeyDid
  <2> QED BY <2>1, KeyOpens, KeyOverlays
<1>4. CASE k \notin {"Ctrl-C", "F1"} /\ s.help = Closed
  <2>1. KeyOpen(s)
      BY <1>4 DEF KeyOpen, KeyGood
  <2>2. \/ handle_key(s, k) \in {WizardKey(s, k), HandoffKey(s, k), EditKey(s, k), SearchKey(s, k)}
        \/ handle_key(s, k) = GlobalKey(s, k) /\ s.screen \notin {"Wizard", "DevelopmentHandoff"}
      BY <1>4, <2>1, KeyOrder
  <2> QED BY <1>4, <2>2, KeyStaysAbove, KeyStaysGlobal
<1> QED BY <1>1, <1>2, <1>3, <1>4

LEMMA KeySnapshotStays ==
    ASSUME NEW s \in KeyGood, NEW p \in KeySnapshots
    PROVE  apply_live_snapshot(s, p) \in KeyGood
<1> DEFINE fresh == [s EXCEPT !.route = IF p.catalog THEN "Landing" ELSE @,
                              !.bundle = @ /\ ~p.reviewed,
                              !.launch = IF p.reviewed THEN KeyNone ELSE @]
           shown == IF p.configured = FALSE THEN open_wizard(fresh) ELSE fresh
           t == [shown EXCEPT !.live = p, !.row = 0, !.picked = {n \in @ : n < p.runs}]
<1>1. apply_live_snapshot(s, p) = t
    BY DEF apply_live_snapshot
<1>2. fresh \in KeyStates /\ fresh.launch = KeyNone /\ fresh.help = s.help /\ fresh.screen = s.screen
  <2> DEFINE r == IF p.catalog THEN "Landing" ELSE s.route
             b == s.bundle /\ ~p.reviewed
             l == IF p.reviewed THEN KeyNone ELSE s.launch
  <2>1. s \in KeyStates /\ s.launch = KeyNone
      BY DEF KeyGood
  <2>2. r \in {"Landing", "Wizard"}
      BY <2>1 DEF KeyStates
  <2>3. b \in BOOLEAN
      OBVIOUS
  <2>4. l = KeyNone
      BY <2>1
  <2>5. fresh = [s EXCEPT !.route = r, !.bundle = b, !.launch = l]
      OBVIOUS
  <2> HIDE DEF r, b, l, fresh
  <2> QED BY <2>1, <2>2, <2>3, <2>4, <2>5 DEF KeyStates
<1> HIDE DEF fresh
<1>3. fresh \in KeyGood
    BY <1>2, KeyChange
<1>4. shown \in KeyGood
    BY <1>3, KeyWizardOpens
<1> HIDE DEF shown
<1>5. t \in KeyStates /\ t.launch = KeyNone /\ t.help = shown.help /\ t.screen = shown.screen
  <2>1. shown \in KeyStates /\ shown.launch = KeyNone
      BY <1>4 DEF KeyGood
  <2>2. {n \in shown.picked : n < p.runs} \in SUBSET (0..2) /\ 0 \in 0..2
      BY <2>1 DEF KeyStates
  <2> QED BY <2>1, <2>2 DEF KeyStates
<1> HIDE DEF t
<1> QED BY <1>1, <1>4, <1>5, KeyChange

LEMMA KeyInvariant == KeySpec => [](key \in KeyGood)
<1>1. KeyInit => key \in KeyGood
  <2> SUFFICES ASSUME KeyInit PROVE key \in KeyGood
      OBVIOUS
  <2>1. key \in KeyStates
      BY DEF KeyInit, KeyStates, Screens, HandoffPhases
  <2>2. key.launch = KeyNone /\ key.help = Closed
      BY DEF KeyInit
  <2> QED BY <2>1, <2>2 DEF KeyGood, KeyOver
<1>2. key \in KeyGood /\ [KeyNext]_keyVars => (key \in KeyGood)'
  <2> SUFFICES ASSUME key \in KeyGood, [KeyNext]_keyVars PROVE key' \in KeyGood
      OBVIOUS
  <2>1. ASSUME NEW k \in KeyCodes, KeyPress(k) PROVE key' \in KeyGood
      BY <2>1, KeyStays DEF KeyPress
  <2>2. CASE KeySnapshot
      BY <2>2, KeySnapshotStays DEF KeySnapshot
  <2>3. CASE sync_recording_context
    <3>1. PICK t \in {[listed |-> FALSE, chosen |-> FALSE, progress |-> TRUE],
                      [listed |-> TRUE, chosen |-> TRUE, progress |-> FALSE]} : key' = [key EXCEPT !.tape = t]
        BY <2>3 DEF sync_recording_context
    <3> DEFINE tapes == [listed : BOOLEAN, chosen : BOOLEAN, progress : BOOLEAN]
    <3>2. /\ [listed |-> FALSE, chosen |-> FALSE, progress |-> TRUE] \in tapes
          /\ [listed |-> TRUE, chosen |-> TRUE, progress |-> FALSE] \in tapes
        BY Zenon
    <3>3. t \in tapes
      <4> HIDE DEF tapes
      <4> QED BY <3>1, <3>2
    <3> QED BY <3>1, <3>3, KeyFields
  <2>4. CASE KeyHandoffReports
      BY <2>4, KeyFields DEF KeyHandoffReports, HandoffPhases
  <2>5. CASE apply_resize
    <3> DEFINE rows == IF key.live = KeyNone THEN 0 ELSE key.live.runs
               x == IF rows = 0 THEN 0 ELSE IF key.row < rows THEN key.row ELSE rows - 1
    <3>1. rows \in Nat /\ key.row \in 0..2
        BY KeyRuns
    <3>2. key' = [key EXCEPT !.row = x]
        BY <2>5 DEF apply_resize
    <3> HIDE DEF rows
    <3>3. x \in 0..2
        BY <3>1
    <3> HIDE DEF x
    <3> QED BY <3>2, <3>3, KeyFields
  <2>6. CASE UNCHANGED keyVars
      BY <2>6 DEF keyVars
  <2> QED BY <2>1, <2>2, <2>3, <2>4, <2>5, <2>6 DEF KeyNext
<1> QED BY <1>1, <1>2, PTL DEF KeySpec

-----------------------------------------------------------------------------
(* The parts of KeysAsShown follow from the invariant.                       *)

LEMMA KeyHelpsTruly == ASSUME key \in KeyGood PROVE KeyHelpTruthful
<1> DEFINE s == close_context_help(key)
<1>1. s \in KeyGood /\ s.help = Closed
    BY KeyCloses, KeyOverlays DEF KeyGood, KeyStates
<1> HIDE DEF s
<1>2. KeyOpen(s)
    BY <1>1 DEF KeyOpen, KeyGood
<1>3. KeyCounted(s)
    BY <1>1, KeyRuns DEF KeyCounted
<1>4. s.screen \in Screens
    BY <1>1 DEF KeyGood, KeyStates
<1>5. ASSUME NEW a \in contextual_help_actions(s), NEW k \in a[2] PROVE KeyTruth(s, a[1], k)
  <2>1. /\ documented_action_is_legal(s, a[1])
        /\ \/ a \in ScreenHelp(s) \/ a \in NavigationHelp(s)
           \/ a = <<"open_help", IF TextFocused(s) THEN {"F1"} ELSE {"?"}>>
      BY DEF contextual_help_actions
  <2>2. CASE a \in NavigationHelp(s)
      BY <1>2, <1>5, <2>2, KeyNavigates
  <2>3. CASE a = <<"open_help", IF TextFocused(s) THEN {"F1"} ELSE {"?"}>>
    <3>1. a[1] = "open_help" /\ a[2] = IF TextFocused(s) THEN {"F1"} ELSE {"?"}
        BY <2>3
    <3> QED BY <1>2, <1>5, <3>1, KeyHelps
  <2>4. CASE a \in ScreenHelp(s)
    <3>1. CASE s.screen = "Landing"
        BY <1>2, <1>5, <2>1, <2>4, <3>1, KeyLanding
    <3>2. CASE s.screen = "DevelopmentHandoff"
        BY <1>2, <1>5, <2>1, <2>4, <3>2, KeyHandoff
    <3>3. CASE s.screen = "Measures"
        BY <1>2, <1>5, <2>4, <3>3, KeySearching, KeyMeasures
    <3>4. CASE s.screen = "Configuration"
        BY <1>2, <1>5, <2>1, <2>4, <3>4, KeyConfiguration
    <3>5. CASE s.screen = "RunControl"
        BY <1>2, <1>5, <2>1, <2>4, <3>5, KeyRunControl
    <3>6. CASE s.screen = "Reports"
        BY <1>2, <1>3, <1>5, <2>1, <2>4, <3>6, KeyReports
    <3>7. CASE s.screen = "Wizard"
      <4>1. ScreenHelp(s) = {}
          BY <3>7 DEF ScreenHelp
      <4> QED BY <2>4, <4>1
    <3> QED BY <1>4, <3>1, <3>2, <3>3, <3>4, <3>5, <3>6, <3>7 DEF Screens
  <2> QED BY <2>1, <2>2, <2>3, <2>4
<1> QED BY <1>5 DEF KeyHelpTruthful, KeyTruth, s

LEMMA KeyListed ==
    ASSUME NEW s, NEW a \in ScreenHelp(s), documented_action_is_legal(s, a[1])
    PROVE  a \in contextual_help_actions(s)
BY DEF contextual_help_actions

(* A control action that a key of a screen sends is on the list of its help. *)
KeyShown(s, k, r) ==
    r.sent => \/ \E a \in contextual_help_actions(s) : a[1] = r.did /\ k \in a[2]
              \/ r.did \in {"open_preflight", "apply_preflight", "cancel_development", "retry_development"}

LEMMA KeyShownIfListed ==
    ASSUME NEW s, NEW id, NEW K, <<id, K>> \in ScreenHelp(s), id \notin KeyOfHelp, NEW k \in K
    PROVE  KeyShown(s, k, legal_control_action(s, id))
<1>1. CASE action_is_legal(s, id)
  <2>1. <<id, K>> \in contextual_help_actions(s)
      BY <1>1, KeyDocumented, KeyListed
  <2>2. legal_control_action(s, id).did = id
      BY <1>1, KeyLegalDid
  <2> QED BY <2>1, <2>2 DEF KeyShown
<1>2. CASE ~action_is_legal(s, id)
    BY <1>2, KeyLegalDid DEF KeyShown
<1> QED BY <1>1, <1>2

LEMMA KeySentScreen ==
    ASSUME NEW s, NEW k PROVE KeyShown(s, k, ScreenKey(s, k))
<1>1. CASE s.screen = "Measures"
  <2>1. ScreenKey(s, k) = MeasuresKey(s, k)
      BY <1>1 DEF ScreenKey
  <2>2. MeasuresKey(s, k).sent = FALSE
      BY KeyDid DEF MeasuresKey
  <2> QED BY <2>1, <2>2 DEF KeyShown
<1>2. CASE s.screen = "Configuration"
  <2>1. ScreenKey(s, k) = ConfigurationKey(s, k)
      BY <1>2 DEF ScreenKey
  <2>2. CASE k = "f"
    <3>1. ConfigurationKey(s, k) = legal_control_action(s, "refresh_provider_catalog")
        BY <2>2 DEF ConfigurationKey
    <3>2. <<"refresh_provider_catalog", {"f"}>> \in ScreenHelp(s)
        BY <1>2 DEF ScreenHelp
    <3> QED BY <2>1, <2>2, <3>1, <3>2, KeyShownIfListed DEF KeyOfHelp
  <2>3. CASE k # "f"
    <3> DEFINE b == [s EXCEPT !.bundle = @ \/ Buildable(s)]
               e == [s EXCEPT !.editing = "accepted"]
    <3>1. ConfigurationKey(s, k) \in {Done(Committed(s), "save_configuration"), Send(b, "open_preflight"),
                                       Send(s, "apply_preflight"), Done(e, "focus_configuration"),
                                       Done(s, "move_configuration"), Ignore(s)}
        BY <2>3 DEF ConfigurationKey
    <3> HIDE DEF b, e
    <3>2. ConfigurationKey(s, k).sent => ConfigurationKey(s, k).did \in {"open_preflight", "apply_preflight"}
        BY <3>1, KeyDid
    <3> QED BY <2>1, <3>2 DEF KeyShown
  <2> QED BY <2>2, <2>3
<1>3. CASE s.screen = "RunControl"
  <2>1. ScreenKey(s, k) = RunControlKey(s, k)
      BY <1>3 DEF ScreenKey
  <2>2. CASE k \in DOMAIN RunControlLetters
    <3>1. RunControlKey(s, k) = legal_control_action(s, RunControlLetters[k])
      <4>1. k \notin {"x", "Enter"}
          BY <2>2, KeyLetters
      <4> QED BY <2>2, <4>1 DEF RunControlKey
    <3>2. <<RunControlLetters[k], {k}>> \in ScreenHelp(s)
      <4>1. {<<"admit_fanout", {"A"}>>,
             <<"cancel_fanout", {"Ctrl-Z"}>>,
             <<"estimate_recording", {"e"}>>,
             <<"plan_recording", {"P"}>>,
             <<"confirm_recording_capture", {"C"}>>,
             <<"progress_recording", {"G"}>>,
             <<"cancel_recording", {"X"}>>,
             <<"reconcile_recording", {"Y"}>>,
             <<"activate_offline_default", {"o"}>>,
             <<"seal_recording", {"S"}>>,
             <<"reopen_recording", {"U"}>>,
             <<"remove_recording_cassette", {"D"}>>,
             <<"select_offline_cassette", {"]"}>>,
             <<"replay_selected", {"J"}>>} \subseteq ScreenHelp(s)
          BY <1>3 DEF ScreenHelp
      <4> QED BY <2>2, <4>1, KeyLetters
    <3>3. RunControlLetters[k] \notin KeyOfHelp
        BY <2>2, KeyLetters DEF KeyOfHelp
    <3> DEFINE id == RunControlLetters[k]
    <3> HIDE DEF id
    <3>4. KeyShown(s, k, legal_control_action(s, id))
        BY <3>2, <3>3, KeyShownIfListed DEF id
    <3> QED BY <2>1, <3>1, <3>4 DEF id
  <2>3. CASE k \notin DOMAIN RunControlLetters
    <3>1. formal_control_action(s, "reconnect") = Ignore(s) /\ ~run_control_formal("start_run")
        BY KeyShutAction, KeyGateShut
    <3>2. RunControlKey(s, k) = Ignore(s)
        BY <2>3, <3>1 DEF RunControlKey
    <3> QED BY <2>1, <3>2, KeyDid DEF KeyShown
  <2> QED BY <2>2, <2>3
<1>4. CASE s.screen = "Reports"
  <2>1. ScreenKey(s, k) = ReportsKey(s, k)
      BY <1>4 DEF ScreenKey
  <2>2. <<"retry_run", {"t"}>> \in ScreenHelp(s) /\ <<"compare_live_offline", {"v", "C"}>> \in ScreenHelp(s)
      BY <1>4 DEF ScreenHelp
  <2>3. CASE k = "t"
    <3>1. ReportsKey(s, k) = legal_control_action(s, "retry_run")
        BY <2>3 DEF ReportsKey
    <3> QED BY <2>1, <2>2, <2>3, <3>1, KeyShownIfListed DEF KeyOfHelp
  <2>4. CASE k \in {"v", "C"}
    <3>1. ReportsKey(s, k) = legal_control_action(s, "compare_live_offline")
        BY <2>4 DEF ReportsKey
    <3> QED BY <2>1, <2>2, <2>4, <3>1, KeyShownIfListed DEF KeyOfHelp
  <2>5. CASE k \notin {"t", "v", "C"}
    <3>1. ReportsKey(s, k).sent = FALSE
        BY <2>5, KeyDid DEF ReportsKey
    <3> QED BY <2>1, <3>1 DEF KeyShown
  <2> QED BY <2>3, <2>4, <2>5
<1>5. CASE s.screen \notin {"Measures", "Configuration", "RunControl", "Reports"}
  <2>1. ScreenKey(s, k).sent = FALSE
      BY <1>5, KeyDid DEF ScreenKey
  <2> QED BY <2>1 DEF KeyShown
<1> QED BY <1>1, <1>2, <1>3, <1>4, <1>5

LEMMA KeySentHandoff ==
    ASSUME NEW s, s.screen = "DevelopmentHandoff", NEW k PROVE KeyShown(s, k, HandoffKey(s, k))
<1>1. CASE k \in {"Space", "Enter"} /\ s.handoff = "Ready"
  <2>1. HandoffKey(s, k).did = "materialize_development"
      BY <1>1, KeyDid DEF HandoffKey
  <2>2. <<"materialize_development", {"Enter", "Space"}>> \in ScreenHelp(s)
      BY DEF ScreenHelp
  <2>3. documented_action_is_legal(s, "materialize_development")
      BY <1>1 DEF documented_action_is_legal, action_is_legal, RecordingActions
  <2>4. <<"materialize_development", {"Enter", "Space"}>> \in contextual_help_actions(s)
      BY <2>2, <2>3, KeyListed
  <2> QED BY <1>1, <2>1, <2>4 DEF KeyShown
<1>2. CASE ~(k \in {"Space", "Enter"} /\ s.handoff = "Ready")
  <2> DEFINE cancelled == [s EXCEPT !.handoff = IF @ \in ActivePhases THEN "Cancelled" ELSE @]
             cloning == [s EXCEPT !.handoff = "Cloning"]
  <2>1. HandoffKey(s, k) \in {KeyGoto(s, "Landing", "go_back"), Send(cancelled, "cancel_development"),
                               Send(cloning, "retry_development"), Done(open_context_help(s), "open_help"),
                               Ignore(s)}
      BY <1>2 DEF HandoffKey
  <2> HIDE DEF cancelled, cloning
  <2>2. HandoffKey(s, k).sent => HandoffKey(s, k).did \in {"cancel_development", "retry_development"}
      BY <2>1, KeyDid
  <2> QED BY <2>2 DEF KeyShown
<1> QED BY <1>1, <1>2

LEMMA KeySends == ASSUME NEW s \in KeyGood, NEW k PROVE KeyShown(s, k, handle_key(s, k))
<1>1. CASE k = "Ctrl-C"
  <2>1. handle_key(s, k).sent = FALSE
      BY <1>1, KeyFirst, KeyDid
  <2> QED BY <2>1 DEF KeyShown
<1>2. CASE k # "Ctrl-C" /\ s.help # Closed
  <2>1. handle_key(s, k) \in {Done([s EXCEPT !.help = Closed], "close_help"), Ignore(s)}
      BY <1>2, KeyFirst, KeyHelpKey
  <2>2. handle_key(s, k).sent = FALSE
      BY <2>1, KeyDid
  <2> QED BY <2>2 DEF KeyShown
<1>3. CASE k = "F1" /\ s.help = Closed
  <2>1. handle_key(s, k).sent = FALSE
      BY <1>3, KeyFirst, KeyDid
  <2> QED BY <2>1 DEF KeyShown
<1>4. CASE k \notin {"Ctrl-C", "F1"} /\ s.help = Closed
  <2>1. KeyOpen(s)
      BY <1>4 DEF KeyOpen, KeyGood
  <2>2. \/ handle_key(s, k) \in {WizardKey(s, k), EditKey(s, k), SearchKey(s, k)}
        \/ s.screen = "DevelopmentHandoff" /\ handle_key(s, k) = HandoffKey(s, k)
        \/ handle_key(s, k) = GlobalKey(s, k)
      BY <1>4, <2>1, KeyOrder
  <2>3. WizardKey(s, k).sent = FALSE
      BY KeyDid DEF WizardKey
  <2>4. EditKey(s, k).sent = FALSE
      BY KeyDid DEF EditKey
  <2>5. SearchKey(s, k).sent = FALSE
      BY KeyDid DEF SearchKey
  <2>6. KeyShown(s, k, GlobalKey(s, k))
    <3>1. \/ GlobalKey(s, k) = ScreenKey(s, k)
          \/ \E t, id : GlobalKey(s, k) = Done(t, id)
          \/ \E screen, id : GlobalKey(s, k) = KeyGoto(s, screen, id)
        BY DEF GlobalKey
    <3>2. GlobalKey(s, k) = ScreenKey(s, k) \/ GlobalKey(s, k).sent = FALSE
        BY <3>1, KeyDid
    <3> QED BY <3>2, KeySentScreen DEF KeyShown
  <2> QED BY <2>2, <2>3, <2>4, <2>5, <2>6, KeySentHandoff DEF KeyShown
<1> QED BY <1>1, <1>2, <1>3, <1>4

LEMMA KeyTypes ==
    ASSUME NEW s \in KeyGood, NEW k \in Printable,
           (s.screen = "Configuration" /\ Editing(s)) \/ (s.screen = "Measures" /\ s.searching)
    PROVE  ~handle_key(s, k).sent /\ handle_key(s, k).did # "quit" /\ handle_key(s, k).to.screen = s.screen
<1>1. k \notin {"Ctrl-C", "F1"}
    BY DEF Printable
<1>2. \A h : [s EXCEPT !.help = h].screen = s.screen
    BY DEF KeyGood, KeyStates
<1>3. \A h : [s EXCEPT !.editing = h].screen = s.screen /\ [s EXCEPT !.searching = h].screen = s.screen
             /\ [s EXCEPT !.search = h].screen = s.screen
    BY DEF KeyGood, KeyStates
<1>4. CASE s.help # Closed
  <2>1. handle_key(s, k) \in {Done([s EXCEPT !.help = Closed], "close_help"), Ignore(s)}
      BY <1>1, <1>4, KeyFirst, KeyHelpKey
  <2>2. /\ handle_key(s, k).sent = FALSE /\ handle_key(s, k).did \in {"close_help", KeyNone}
        /\ handle_key(s, k).to \in {[s EXCEPT !.help = Closed], s}
      BY <2>1, KeyDid
  <2>3. handle_key(s, k).to.screen = s.screen
      BY <1>2, <2>2
  <2> QED BY <2>2, <2>3, KeyNoneAssumption
<1>5. CASE s.help = Closed /\ s.screen = "Configuration" /\ Editing(s)
  <2>1. EditsSetting(s, k) /\ KeyOpen(s)
      BY <1>5 DEF EditsSetting, KeyOpen, KeyGood
  <2>2. handle_key(s, k) = EditKey(s, k)
      BY <1>1, <1>5, <2>1, KeyOrder
  <2>3. k \notin {"Esc", "Enter", "Backspace"}
      BY DEF Printable
  <2>4. EditKey(s, k) = Done([s EXCEPT !.editing = "accepted"], "edit_configuration")
      BY <2>3 DEF EditKey
  <2>5. /\ handle_key(s, k).sent = FALSE /\ handle_key(s, k).did = "edit_configuration"
        /\ handle_key(s, k).to = [s EXCEPT !.editing = "accepted"]
      BY <2>2, <2>4, KeyDid
  <2> QED BY <1>3, <2>5
<1>6. CASE s.help = Closed /\ s.screen = "Measures" /\ s.searching
  <2>1. ~EditsSetting(s, k) /\ KeyOpen(s)
      BY <1>6 DEF EditsSetting, KeyOpen, KeyGood
  <2>2. handle_key(s, k) = SearchKey(s, k)
      BY <1>1, <1>6, <2>1, KeyOrder
  <2>3. k \notin {"Esc", "Enter", "Backspace"}
      BY DEF Printable
  <2> DEFINE x == IF k = "q" THEN "miss" ELSE "hit"
  <2>4. SearchKey(s, k) = Done([s EXCEPT !.search = x], "edit_measure_search")
      BY <2>3 DEF SearchKey
  <2> HIDE DEF x
  <2>5. /\ handle_key(s, k).sent = FALSE /\ handle_key(s, k).did = "edit_measure_search"
        /\ handle_key(s, k).to = [s EXCEPT !.search = x]
      BY <2>2, <2>4, KeyDid
  <2> QED BY <1>3, <2>5
<1> QED BY <1>4, <1>5, <1>6

(* The types of the keyboard's workspace (ui.rs, WorkspaceState): one of the *)
(* screens, cursors inside their ranges, whatever keys and snapshots come.   *)
THEOREM KeyboardTypes == KeySpec => []KeyTypeOK
<1>1. key \in KeyGood => KeyTypeOK
    BY DEF KeyGood, KeyTypeOK
<1> QED BY <1>1, KeyInvariant, PTL

(* The keys mean what the screen says, for any snapshots of the runner: each *)
(* key the help lists does what it is listed for, nothing is sent that is    *)
(* not listed, a text field keeps its characters and an overlay its screen   *)
(* (ui.rs, contextual_help_actions against handle_key).                      *)
THEOREM KeysMeanWhatIsShown == KeySpec => []KeysAsShown
<1>1. ASSUME key \in KeyGood PROVE KeysAsShown
  <2>1. KeySentIsListed
      BY <1>1, KeySends DEF KeySentIsListed, KeyShown
  <2>2. KeyTypingStaysTyping
    <3> DEFINE typing == \/ key.screen = "Configuration" /\ Editing(key)
                         \/ key.screen = "Measures" /\ key.searching
               kept(r) == ~r.sent /\ r.did # "quit" /\ r.to.screen = key.screen
    <3>1. typing => \A k \in Printable : kept(handle_key(key, k))
        BY <1>1, KeyTypes
    <3>2. KeyTypingStaysTyping <=> (typing => \A k \in Printable : kept(handle_key(key, k)))
        BY DEF KeyTypingStaysTyping
    <3> HIDE DEF typing, kept
    <3> QED BY <3>1, <3>2
  <2>3. KeyOverlayRoute
      BY <1>1 DEF KeyOverlayRoute, KeyGood, KeyOver, Covered
  <2> QED BY <1>1, <2>1, <2>2, <2>3, KeyHelpsTruly DEF KeysAsShown
<1> QED BY <1>1, KeyInvariant, PTL

-----------------------------------------------------------------------------
(* The views.  A behaviour is one of a single view, so that the invariant is *)
(* a disjunction with a part for each kind, and an action is one of the part *)
(* its kind names.                                                           *)

(* The shell: without a revision there is no event, and the event is the one *)
(* of the revision.                                                          *)
ShellViews ==
    [kind : {"shell"}, layout : {"compact", "standard", "wide"}, connected : BOOLEAN, quit : BOOLEAN,
     revision : Nat \cup {UiNone}, event : ViewEvents \cup {UiNone}, route : UiRoutes,
     connection : {"Disconnected", "Reconnecting", "Connected"}, caps : ViewCaps \cup {UiNone},
     log : Seq(ViewEvents)]
ShellInv ==
    /\ view \in ShellViews
    /\ view.revision = UiNone => view.event = UiNone
    /\ view.revision # UiNone => view.revision \in 0..Len(view.log)
    /\ view.event # UiNone => view.revision \in DOMAIN view.log /\ view.event = view.log[view.revision]
    /\ view.connected <=> view.connection = "Connected"
    /\ availability(view.route, view.caps)

(* The gate: the answers are to refreshes that were asked for, and the last  *)
(* one that was accepted is the greatest.                                    *)
GateViews ==
    [kind : {"gate"}, last_refresh : ViewClock \cup {UiNone}, last_response : Nat \cup {UiNone}, asked : Nat,
     underway : SUBSET Nat, shown : Nat, received : SUBSET Nat]
GateInv ==
    /\ view \in GateViews
    /\ view.received \subseteq view.underway /\ view.underway \subseteq 1..view.asked
    /\ view.received = {} => view.last_response = UiNone /\ view.shown = 0
    /\ view.received # {} =>
          /\ view.last_response = view.shown /\ view.shown \in view.received
          /\ \A id \in view.received : id <= view.shown

(* The start: the wizard has been opened as often as is noted. *)
StartupViews ==
    [kind : {"startup"}, wizard_opened : BOOLEAN, opens : {0, 1}, facts : StartupFacts \cup {UiNone},
     auto_open : BOOLEAN]
StartupInv ==
    /\ view \in StartupViews
    /\ ~view.wizard_opened => view.opens = 0
    /\ view.auto_open => view.facts \in StartupFacts /\ auto_opens_wizard(classify_startup(view.facts))

(* The documented screens. *)
ScreensViews ==
    [kind : {"screens"},
     ui : [route : UiRoutes, return_route : UiRoutes, focus : UiElements \cup {UiNone}, explicit_all : BOOLEAN]]
ScreensInv == view \in ScreensViews /\ FocusOnScreen

(* The fence: what was answered was done. *)
FenceCalls == {"mutation", "catalog"} \X ViewIdentities
FenceViews ==
    [kind : {"fence"}, identity : ViewIdentities \cup {UiNone},
     phase : {UiNone, "MutationPending", "CatalogPending", "Complete"}, sent : SUBSET FenceCalls,
     applied : SUBSET ViewIdentities, listed : SUBSET ViewIdentities, answers : SUBSET FenceCalls]
FenceInv ==
    /\ view \in FenceViews /\ FenceHonest
    /\ \A id \in ViewIdentities :
          /\ <<"mutation", id>> \in view.answers => id \in view.applied
          /\ <<"catalog", id>> \in view.answers => id \in view.listed

(* The ledger: one provisional and one committed revision, those noted. *)
LedgerRecords == [identity : ViewIdentities, status : {"Provisional", "Committed", "Superseded"}]
LedgerViews ==
    [kind : {"ledger"}, records : Seq(LedgerRecords), provisional : Nat \cup {UiNone},
     committed : Nat \cup {UiNone}]
LedgerInv ==
    /\ view \in LedgerViews
    /\ {view.provisional, view.committed} \subseteq DOMAIN view.records \cup {UiNone}
    /\ \A id \in DOMAIN view.records :
          /\ view.records[id].status = "Provisional" <=> id = view.provisional
          /\ view.records[id].status = "Committed" <=> id = view.committed

(* The landing screen and the help follow from what they hold. *)
LandingViews == [kind : {"landing"}, status : LandingStatus, activity : Seq(ViewRecords)]
HelpViews ==
    [kind : {"help"}, query : ViewQueries \cup {UiNone}, selected : Nat, route : UiRoutes,
     caps : ViewCaps \cup {UiNone}]

ViewInv ==
    \/ ShellInv \/ view \in LandingViews \/ GateInv \/ StartupInv \/ ScreensInv
    \/ FenceInv \/ LedgerInv \/ view \in HelpViews

LEMMA ShellSteps ==
    ASSUME ShellInv,
           \/ RunnerEvent \/ ShellControl \/ ShellConnected \/ ShellDisconnected \/ ShellNavigate
           \/ ShellCapabilities \/ ShellResize \/ ShellQuit
    PROVE  ShellInv'
<1>1. view \in ShellViews /\ Len(view.log) \in Nat /\ DOMAIN view.log = 1..Len(view.log)
    BY DEF ShellInv, ShellViews
<1>2. CASE RunnerEvent
  <2>1. PICK e \in ViewEvents : view' = [view EXCEPT !.log = Append(@, e)]
      BY <1>2 DEF RunnerEvent
  <2> DEFINE log == Append(view.log, e)
  <2>2. /\ log \in Seq(ViewEvents) /\ Len(log) = Len(view.log) + 1 /\ DOMAIN log = 1..(Len(view.log) + 1)
        /\ \A i \in 1..Len(view.log) : log[i] = view.log[i]
      BY <1>1, <2>1 DEF ShellViews
  <2>3. view' = [view EXCEPT !.log = log]
      BY <2>1
  <2> HIDE DEF log
  <2>4. view' \in ShellViews
      BY <1>1, <2>2, <2>3 DEF ShellViews
  <2>5. /\ view'.revision = view.revision /\ view'.event = view.event /\ view'.log = log /\ view'.route = view.route
        /\ view'.connected = view.connected /\ view'.connection = view.connection /\ view'.caps = view.caps
      BY <1>1, <2>3 DEF ShellViews
  <2> QED BY <1>1, <2>2, <2>4, <2>5 DEF ShellInv
<1>3. CASE ShellControl
  <2>1. PICK r \in DOMAIN view.log : view' = [view EXCEPT !.revision = r, !.event = view.log[r]]
      BY <1>3 DEF ShellControl
  <2> DEFINE e == view.log[r]
  <2>2. e \in ViewEvents /\ r \in Nat /\ r \in 0..Len(view.log)
      BY <1>1, <2>1 DEF ShellViews
  <2>3. view' = [view EXCEPT !.revision = r, !.event = e]
      BY <2>1
  <2> HIDE DEF e
  <2>4. view' \in ShellViews
      BY <1>1, <2>2, <2>3 DEF ShellViews
  <2>5. /\ view'.revision = r /\ view'.event = e /\ view'.log = view.log /\ view'.route = view.route
        /\ view'.connected = view.connected /\ view'.connection = view.connection /\ view'.caps = view.caps
      BY <1>1, <2>3 DEF ShellViews
  <2> QED BY <1>1, <2>1, <2>2, <2>4, <2>5, ViewAssumption DEF ShellInv, e
<1>4. CASE ShellConnected
  <2>1. PICK b \in 0..Len(view.log) :
            /\ view.revision # UiNone => b >= view.revision
            /\ view' = [view EXCEPT !.event = IF view.revision # UiNone /\ b > view.revision THEN UiNone ELSE @,
                                    !.revision = b, !.connected = TRUE, !.connection = "Connected"]
      BY <1>4 DEF ShellConnected
  <2> DEFINE e == IF view.revision # UiNone /\ b > view.revision THEN UiNone ELSE view.event
  <2>2. e \in ViewEvents \cup {UiNone}
      BY <1>1 DEF ShellViews
  <2>3. view' = [view EXCEPT !.event = e, !.revision = b, !.connected = TRUE, !.connection = "Connected"]
      BY <2>1
  <2>4. e # UiNone => e = view.event /\ b = view.revision
      BY <1>1, <2>1 DEF ShellInv, ShellViews
  <2> HIDE DEF e
  <2>5. view' \in ShellViews
    <3>1. b \in Nat \cup {UiNone}
        BY <2>1
    <3> QED BY <1>1, <2>2, <2>3, <3>1 DEF ShellViews
  <2>6. /\ view'.revision = b /\ view'.event = e /\ view'.log = view.log /\ view'.route = view.route
        /\ view'.connected = TRUE /\ view'.connection = "Connected" /\ view'.caps = view.caps
      BY <1>1, <2>3 DEF ShellViews
  <2> QED BY <1>1, <2>1, <2>4, <2>5, <2>6, ViewAssumption DEF ShellInv
<1>5. ASSUME NEW c \in {"Disconnected", "Reconnecting"}, view' = [view EXCEPT !.connected = FALSE, !.connection = c]
      PROVE  ShellInv'
    BY <1>1, <1>5 DEF ShellInv, ShellViews
<1>6. ASSUME NEW r \in UiRoutes, availability(r, view.caps), view' = [view EXCEPT !.route = r]
      PROVE  ShellInv'
    BY <1>1, <1>6 DEF ShellInv, ShellViews
<1>7. ASSUME NEW caps \in ViewCaps, NEW r \in UiRoutes, availability(r, caps),
             view' = [view EXCEPT !.caps = caps, !.route = r]
      PROVE  ShellInv'
    BY <1>1, <1>7 DEF ShellInv, ShellViews
<1>8. ASSUME NEW l \in {"compact", "standard", "wide"}, view' = [view EXCEPT !.layout = l] PROVE ShellInv'
    BY <1>1, <1>8 DEF ShellInv, ShellViews
<1>9. CASE ShellQuit
    BY <1>1, <1>9 DEF ShellInv, ShellViews, ShellQuit
<1>10. CASE ShellCapabilities
  <2>1. PICK caps \in ViewCaps :
            view' = [view EXCEPT !.caps = caps, !.route = IF availability(@, caps) THEN @ ELSE "landing"]
      BY <1>10 DEF ShellCapabilities
  <2> DEFINE r == IF availability(view.route, caps) THEN view.route ELSE "landing"
  <2>2. r \in UiRoutes /\ availability(r, caps)
      BY <1>1 DEF ShellViews, UiRoutes, availability, LocalRoutes
  <2> HIDE DEF r
  <2> QED BY <1>7, <2>1, <2>2 DEF r
<1>11. \A size : from_dimensions(size) \in {"compact", "standard", "wide"}
    BY DEF from_dimensions
<1> QED BY <1>2, <1>3, <1>4, <1>5, <1>6, <1>8, <1>9, <1>10, <1>11 DEF ShellDisconnected, ShellNavigate, ShellResize

LEMMA GateSteps == ASSUME GateInv, GateRefresh \/ GateResponse PROVE GateInv'
<1>1. view \in GateViews
    BY DEF GateInv
<1>2. CASE GateRefresh
  <2>1. PICK now \in ViewClock : view' = [view EXCEPT !.last_refresh = now, !.asked = @ + 1,
                                                      !.underway = @ \cup {view.asked + 1}]
      BY <1>2 DEF GateRefresh
  <2> DEFINE n == view.asked + 1
             u == view.underway \cup {n}
  <2>2. n \in Nat /\ u \in SUBSET Nat /\ u \subseteq 1..n /\ view.underway \subseteq u
      BY <1>1 DEF GateViews, GateInv
  <2>3. view' = [view EXCEPT !.last_refresh = now, !.asked = n, !.underway = u]
      BY <2>1
  <2> HIDE DEF n, u
  <2>4. view' \in GateViews
      BY <1>1, <2>2, <2>3 DEF GateViews
  <2>5. /\ view'.asked = n /\ view'.underway = u /\ view'.shown = view.shown /\ view'.received = view.received
        /\ view'.last_response = view.last_response
      BY <1>1, <2>3 DEF GateViews
  <2> QED BY <2>2, <2>4, <2>5 DEF GateInv
<1>3. CASE GateResponse
  <2>1. PICK id \in view.underway :
          view' = IF accept_response(id)
                  THEN [view EXCEPT !.last_response = id, !.shown = id, !.received = @ \cup {id}]
                  ELSE [view EXCEPT !.received = @ \cup {id}]
      BY <1>3 DEF GateResponse
  <2> DEFINE s == view.received \cup {id}
  <2>2. s \in SUBSET Nat /\ s \subseteq view.underway /\ s # {} /\ id \in Nat /\ id > 0
      BY <1>1 DEF GateViews, GateInv
  <2>3. CASE accept_response(id)
    <3>1. \A x \in s : x <= id
        BY <1>1, <2>2, <2>3, ViewAssumption DEF accept_response, GateInv, GateViews
    <3>2. id \in s
        OBVIOUS
    <3>3. view' = [view EXCEPT !.last_response = id, !.shown = id, !.received = s]
        BY <2>1, <2>3
    <3> HIDE DEF s
    <3>4. view' \in GateViews
        BY <1>1, <2>2, <3>3 DEF GateViews
    <3>5. /\ view'.asked = view.asked /\ view'.underway = view.underway /\ view'.shown = id /\ view'.received = s
          /\ view'.last_response = id
        BY <1>1, <3>3 DEF GateViews
    <3> QED BY <2>2, <3>1, <3>2, <3>4, <3>5 DEF GateInv
  <2>4. CASE ~accept_response(id)
    <3>1. view.received # {} /\ view.shown \in s /\ \A x \in s : x <= view.shown
        BY <1>1, <2>2, <2>4, ViewAssumption DEF accept_response, GateInv, GateViews
    <3>3. view' = [view EXCEPT !.received = s]
        BY <2>1, <2>4
    <3> HIDE DEF s
    <3>4. view' \in GateViews
        BY <1>1, <2>2, <3>3 DEF GateViews
    <3>5. /\ view'.asked = view.asked /\ view'.underway = view.underway /\ view'.shown = view.shown
          /\ view'.received = s /\ view'.last_response = view.last_response
        BY <1>1, <3>3 DEF GateViews
    <3> QED BY <2>2, <3>1, <3>4, <3>5 DEF GateInv
  <2> QED BY <2>3, <2>4
<1> QED BY <1>2, <1>3

LEMMA StartupSteps == ASSUME StartupInv, StartupObserve \/ StartupAgain PROVE StartupInv'
<1>1. view \in StartupViews
    BY DEF StartupInv
<1>2. CASE StartupObserve
  <2>1. PICK f \in StartupFacts :
          LET opens == auto_opens_wizard(classify_startup(f)) /\ ~view.wizard_opened
          IN  view' = [view EXCEPT !.wizard_opened = @ \/ opens, !.auto_open = opens, !.facts = f,
                                   !.opens = IF opens THEN @ + 1 ELSE @]
      BY <1>2 DEF StartupObserve
  <2> DEFINE opens == auto_opens_wizard(classify_startup(f)) /\ ~view.wizard_opened
             w == view.wizard_opened \/ opens
             n == IF opens THEN view.opens + 1 ELSE view.opens
  <2>2. opens \in BOOLEAN /\ w \in BOOLEAN
      OBVIOUS
  <2>3. n \in {0, 1} /\ (~w => n = 0)
      BY <1>1 DEF StartupInv, StartupViews
  <2>4. opens => auto_opens_wizard(classify_startup(f))
      OBVIOUS
  <2>5. view' = [view EXCEPT !.wizard_opened = w, !.auto_open = opens, !.facts = f, !.opens = n]
      BY <2>1
  <2> HIDE DEF opens, w, n
  <2>6. view' \in StartupViews
      BY <1>1, <2>1, <2>2, <2>3, <2>5 DEF StartupViews
  <2>7. view'.wizard_opened = w /\ view'.auto_open = opens /\ view'.facts = f /\ view'.opens = n
      BY <1>1, <2>5 DEF StartupViews
  <2> QED BY <2>1, <2>3, <2>4, <2>6, <2>7 DEF StartupInv
<1>3. CASE StartupAgain
    BY <1>3 DEF StartupAgain, StartupNew, StartupInv, StartupViews
<1> QED BY <1>2, <1>3

(* Of the documented transitions the interpreter knows, none leads to the    *)
(* wizard.                                                                   *)
LEMMA UiTargets ==
    ASSUME NEW t \in UiTransitions, t.event \in UiEvents, t.from \in UiRoutes PROVE t.to \in UiRoutes
<1>1. CASE \E r \in DocumentRoutes : t \in Same(r, UiHelpEvents \cup {"resize"})
    BY <1>1 DEF Same, To
<1>2. CASE t \in {To("open_landing", r, "landing") : r \in UiRoutes \ {"landing", "help"}}
               \cup {To("open_help", r, "help") : r \in UiRoutes \ {"help"}}
    BY <1>2 DEF To, UiRoutes
<1>3. CASE t \in {To("go_back", "help", "landing"),
          To("open_configuration", "landing", "configuration"),
          To("open_measurement_selection", "landing", "measurement_selection"),
          To("open_measurement_selection", "configuration", "measurement_selection"),
          To("open_run_control", "measurement_selection", "run_control"),
          To("open_recent_runs", "run_control", "recent_runs"),
          To("open_reports", "recent_runs", "reports"),
          To("open_wizard", "landing", "wizard"),
          To("startup_auto_open_wizard", "landing", "wizard"),
          To("cancel_wizard", "wizard", "landing"),
          To("complete_wizard", "wizard", "landing")}
    BY <1>3 DEF To, UiRoutes, UiEvents, HandoffEvents, RunEvents, UiHelpEvents
<1>4. CASE \E r, es : t \in Same(r, es)
    BY <1>4 DEF Same, To
<1> QED BY <1>1, <1>2, <1>3, <1>4 DEF UiTransitions

LEMMA ScreensSteps == ASSUME ScreensInv, ScreensFocus \/ ScreensResize \/ ScreensEvent PROVE ScreensInv'
<1> DEFINE s == view.ui
<1>1. /\ view \in ScreensViews
      /\ s \in [route : UiRoutes, return_route : UiRoutes, focus : UiElements \cup {UiNone}, explicit_all : BOOLEAN]
    BY DEF ScreensInv, ScreensViews
<1>2. ASSUME NEW u \in [route : UiRoutes, return_route : UiRoutes, focus : UiElements \cup {UiNone},
                        explicit_all : BOOLEAN],
             u.focus # UiNone => u.focus.focusable /\ u.focus.route \in {u.route, "global"},
             view' = [view EXCEPT !.ui = u]
      PROVE  ScreensInv'
  <2>1. view'.ui = u /\ view' \in ScreensViews
      BY <1>1, <1>2 DEF ScreensViews
  <2> QED BY <1>2, <2>1 DEF ScreensInv, FocusOnScreen, In
<1>3. CASE ScreensFocus
  <2>1. PICK e \in UiElements : \E u \in UiFocus(s, e) : view' = [view EXCEPT !.ui = u]
      BY <1>3 DEF ScreensFocus
  <2> DEFINE u == [s EXCEPT !.focus = e]
  <2>2. e.focusable /\ e.route \in {s.route, "global"} /\ view' = [view EXCEPT !.ui = u]
      BY <2>1 DEF UiFocus
  <2> HIDE DEF s
  <2>3. /\ u \in [route : UiRoutes, return_route : UiRoutes, focus : UiElements \cup {UiNone}, explicit_all : BOOLEAN]
        /\ u.focus = e /\ u.route = s.route
      BY <1>1, <2>1
  <2> HIDE DEF u
  <2> QED BY <1>2, <2>2, <2>3
<1>4. CASE ScreensResize
  <2>1. view' = [view EXCEPT !.ui = s]
      BY <1>4 DEF ScreensResize, UiSize
  <2>2. s.focus # UiNone => s.focus.focusable /\ s.focus.route \in {s.route, "global"}
      BY <1>1 DEF ScreensInv, FocusOnScreen, In, ScreensViews
  <2> HIDE DEF s
  <2> QED BY <1>1, <1>2, <2>1, <2>2
<1>5. CASE ScreensEvent
  <2>0. PICK d \in UiTransitions, all \in BOOLEAN, caps \in ViewCaps \cup {UiNone} :
            \E u \in UiEvent(s, d.event, all, caps) : view' = [view EXCEPT !.ui = u]
      BY <1>5 DEF ScreensEvent
  <2> DEFINE event == d.event
  <2> HIDE DEF event
  <2>1. \E u \in UiEvent(s, event, all, caps) : view' = [view EXCEPT !.ui = u]
      BY <2>0 DEF event
  <2>2. PICK t \in UiFound(s, event) :
            view' = [view EXCEPT !.ui =
                       [s EXCEPT !.return_route = IF t.to = "help" THEN s.route ELSE @,
                                 !.route = IF event = "go_back" /\ s.route = "help" THEN s.return_route ELSE t.to,
                                 !.explicit_all = IF event = "toggle_all_measures" THEN all ELSE @,
                                 !.focus = UiNone]]
      BY <2>1 DEF UiEvent
  <2>3. t.to \in UiRoutes
      BY <1>1, UiTargets DEF UiFound
  <2> DEFINE back == IF t.to = "help" THEN s.route ELSE s.return_route
             to == IF event = "go_back" /\ s.route = "help" THEN s.return_route ELSE t.to
             every == IF event = "toggle_all_measures" THEN all ELSE s.explicit_all
             u == [s EXCEPT !.return_route = back, !.route = to, !.explicit_all = every, !.focus = UiNone]
  <2>4. back \in UiRoutes /\ to \in UiRoutes /\ every \in BOOLEAN
      BY <1>1, <2>0, <2>3
  <2>5. view' = [view EXCEPT !.ui = u]
      BY <2>2
  <2> HIDE DEF s, back, to, every
  <2>6. /\ u \in [route : UiRoutes, return_route : UiRoutes, focus : UiElements \cup {UiNone}, explicit_all : BOOLEAN]
        /\ u.focus = UiNone
      BY <1>1, <2>4
  <2> HIDE DEF u
  <2> QED BY <1>2, <2>5, <2>6
<1> QED BY <1>3, <1>4, <1>5

LEMMA FenceSteps ==
    ASSUME FenceInv, FenceRequest \/ FenceBackend \/ FenceLost \/ FenceAcknowledged \/ FenceCatalog PROVE FenceInv'
<1>1. view \in FenceViews
    BY DEF FenceInv
<1>2. /\ view.phase \in {"CatalogPending", "Complete"} => view.identity \in view.applied
      /\ view.phase = "Complete" => view.identity \in view.listed
      /\ \A id \in ViewIdentities :
          /\ <<"mutation", id>> \in view.answers => id \in view.applied
          /\ <<"catalog", id>> \in view.answers => id \in view.listed
    BY <1>1 DEF FenceInv, FenceHonest, In, FenceViews
<1>3. ASSUME NEW v \in FenceViews, view' = v,
             v.phase \in {"CatalogPending", "Complete"} => v.identity \in v.applied,
             v.phase = "Complete" => v.identity \in v.listed,
             \A id \in ViewIdentities :
                 /\ <<"mutation", id>> \in v.answers => id \in v.applied
                 /\ <<"catalog", id>> \in v.answers => id \in v.listed
      PROVE  FenceInv'
    BY <1>3 DEF FenceInv, FenceHonest
<1>4. CASE FenceRequest
  <2>1. PICK id \in ViewIdentities :
           \/ view' = [view EXCEPT !.identity = id, !.phase = "MutationPending", !.sent = @ \cup {<<"mutation", id>>}]
           \/ view' = [view EXCEPT !.sent = @ \cup {<<"catalog", id>>}]
           \/ view' = view
      BY <1>4, Zenon DEF FenceRequest
  <2>2. ASSUME NEW sent \in SUBSET FenceCalls,
               view' = [view EXCEPT !.identity = id, !.phase = "MutationPending", !.sent = sent] PROVE FenceInv'
    <3> DEFINE v == [view EXCEPT !.identity = id, !.phase = "MutationPending", !.sent = sent]
    <3>1. v \in FenceViews /\ v.phase = "MutationPending" /\ v.applied = view.applied /\ v.listed = view.listed
          /\ v.answers = view.answers
        BY <1>1, <2>1, <2>2 DEF FenceViews
    <3>2. view' = v
        BY <2>2
    <3> HIDE DEF v
    <3> QED BY <1>2, <1>3, <3>1, <3>2
  <2>3. ASSUME NEW sent \in SUBSET FenceCalls, view' = [view EXCEPT !.sent = sent] PROVE FenceInv'
    <3> DEFINE v == [view EXCEPT !.sent = sent]
    <3>1. v \in FenceViews /\ v.phase = view.phase /\ v.applied = view.applied /\ v.listed = view.listed
          /\ v.answers = view.answers /\ v.identity = view.identity
        BY <1>1, <2>3 DEF FenceViews
    <3>2. view' = v
        BY <2>3
    <3> HIDE DEF v
    <3> QED BY <1>2, <1>3, <3>1, <3>2
  <2>4. \A kind \in {"mutation", "catalog"} : view.sent \cup {<<kind, id>>} \in SUBSET FenceCalls
      BY <1>1, <2>1 DEF FenceViews, FenceCalls
  <2> QED BY <1>1, <1>2, <1>3, <2>1, <2>2, <2>3, <2>4
<1>5. CASE FenceLost
  <2>1. PICK m \in view.sent : view' = [view EXCEPT !.sent = @ \ {m}]
      BY <1>5 DEF FenceLost
  <2> DEFINE sent == view.sent \ {m}
             v == [view EXCEPT !.sent = sent]
  <2>2. sent \in SUBSET FenceCalls
      BY <1>1 DEF FenceViews
  <2>3. view' = v
      BY <2>1
  <2> HIDE DEF sent
  <2>4. v \in FenceViews /\ v.phase = view.phase /\ v.applied = view.applied /\ v.listed = view.listed
        /\ v.answers = view.answers /\ v.identity = view.identity
      BY <1>1, <2>2 DEF FenceViews
  <2> HIDE DEF v
  <2> QED BY <1>2, <1>3, <2>3, <2>4
<1>6. CASE FenceBackend
  <2>1. PICK m \in view.sent :
          view' = [view EXCEPT !.sent = @ \ {m}, !.answers = @ \cup {m},
                               !.applied = IF m[1] = "mutation" THEN @ \cup {m[2]} ELSE @,
                               !.listed = IF m[1] = "catalog" THEN @ \cup {m[2]} ELSE @]
      BY <1>6 DEF FenceBackend
  <2>2. PICK k \in {"mutation", "catalog"}, i \in ViewIdentities : m = <<k, i>>
      BY <1>1 DEF FenceViews, FenceCalls
  <2> DEFINE sent == view.sent \ {m}
             answers == view.answers \cup {m}
             applied == IF m[1] = "mutation" THEN view.applied \cup {m[2]} ELSE view.applied
             listed == IF m[1] = "catalog" THEN view.listed \cup {m[2]} ELSE view.listed
             v == [view EXCEPT !.sent = sent, !.answers = answers, !.applied = applied, !.listed = listed]
  <2>3. /\ sent \in SUBSET FenceCalls /\ answers \in SUBSET FenceCalls
        /\ applied \in SUBSET ViewIdentities /\ listed \in SUBSET ViewIdentities
      BY <1>1, <2>2 DEF FenceViews, FenceCalls
  <2>4. /\ view.applied \subseteq applied /\ view.listed \subseteq listed
        /\ \A id \in ViewIdentities :
              /\ <<"mutation", id>> \in answers => id \in applied
              /\ <<"catalog", id>> \in answers => id \in listed
      BY <1>1, <1>2, <2>2 DEF FenceViews
  <2>5. view' = v
      BY <2>1
  <2> HIDE DEF sent, answers, applied, listed
  <2>6. v \in FenceViews /\ v.phase = view.phase /\ v.applied = applied /\ v.listed = listed
        /\ v.answers = answers /\ v.identity = view.identity
      BY <1>1, <2>3 DEF FenceViews
  <2> HIDE DEF v
  <2> QED BY <1>2, <1>3, <2>4, <2>5, <2>6
<1>7. CASE FenceAcknowledged
  <2>1. PICK id \in ViewIdentities :
          /\ <<"mutation", id>> \in view.answers
          /\ view' = IF fence_is("MutationPending", id)
                     THEN [view EXCEPT !.answers = @ \ {<<"mutation", id>>}, !.phase = "CatalogPending",
                                       !.sent = @ \cup {<<"catalog", id>>}]
                     ELSE [view EXCEPT !.answers = @ \ {<<"mutation", id>>}]
      BY <1>7 DEF FenceAcknowledged
  <2> DEFINE answers == view.answers \ {<<"mutation", id>>}
             sent == view.sent \cup {<<"catalog", id>>}
             a == [view EXCEPT !.answers = answers, !.phase = "CatalogPending", !.sent = sent]
             b == [view EXCEPT !.answers = answers]
  <2>2. sent \in SUBSET FenceCalls /\ answers \in SUBSET FenceCalls /\ answers \subseteq view.answers
      BY <1>1, <2>1 DEF FenceViews, FenceCalls
  <2>3. view' = IF fence_is("MutationPending", id) THEN a ELSE b
      BY <2>1
  <2> HIDE DEF sent, answers
  <2>4. a \in FenceViews /\ a.phase = "CatalogPending" /\ a.applied = view.applied /\ a.listed = view.listed
        /\ a.answers = answers /\ a.identity = view.identity
      BY <1>1, <2>2 DEF FenceViews
  <2>5. b \in FenceViews /\ b.phase = view.phase /\ b.applied = view.applied /\ b.listed = view.listed
        /\ b.answers = answers /\ b.identity = view.identity
      BY <1>1, <2>2 DEF FenceViews
  <2>6. fence_is("MutationPending", id) => view.identity \in view.applied
      BY <1>2, <2>1 DEF fence_is
  <2> HIDE DEF a, b
  <2>7. CASE fence_is("MutationPending", id)
      BY <1>2, <1>3, <2>2, <2>3, <2>4, <2>6, <2>7
  <2>8. CASE ~fence_is("MutationPending", id)
      BY <1>2, <1>3, <2>2, <2>3, <2>5, <2>8
  <2> QED BY <2>7, <2>8
<1>8. CASE FenceCatalog
  <2>1. PICK id \in ViewIdentities, failed \in BOOLEAN :
          /\ <<"catalog", id>> \in view.answers
          /\ view' = [view EXCEPT !.answers = @ \ {<<"catalog", id>>},
                                  !.phase = IF fence_is("CatalogPending", id) /\ ~failed
                                            THEN "Complete" ELSE @]
      BY <1>8 DEF FenceCatalog
  <2> DEFINE answers == view.answers \ {<<"catalog", id>>}
             phase == IF fence_is("CatalogPending", id) /\ ~failed THEN "Complete" ELSE view.phase
             v == [view EXCEPT !.answers = answers, !.phase = phase]
  <2>2. /\ answers \in SUBSET FenceCalls /\ answers \subseteq view.answers
        /\ phase \in {UiNone, "MutationPending", "CatalogPending", "Complete"}
      BY <1>1 DEF FenceViews
  <2>3. /\ phase \in {"CatalogPending", "Complete"} => view.identity \in view.applied
        /\ phase = "Complete" => view.identity \in view.listed
      BY <1>2, <2>1 DEF fence_is
  <2>4. view' = v
      BY <2>1
  <2> HIDE DEF answers, phase
  <2>5. v \in FenceViews /\ v.phase = phase /\ v.applied = view.applied /\ v.listed = view.listed
        /\ v.answers = answers /\ v.identity = view.identity
      BY <1>1, <2>2 DEF FenceViews
  <2> HIDE DEF v
  <2> QED BY <1>2, <1>3, <2>2, <2>3, <2>4, <2>5
<1> QED BY <1>4, <1>5, <1>6, <1>7, <1>8

(* What a change of a status does to the records. *)
LEMMA StatusSet ==
    ASSUME NEW records \in Seq(LedgerRecords), NEW id \in DOMAIN records \cup {UiNone},
           NEW status \in {"Provisional", "Committed", "Superseded"}
    PROVE  LET after == set_status(records, id, status) IN
           /\ after \in Seq(LedgerRecords) /\ Len(after) = Len(records) /\ DOMAIN after = DOMAIN records
           /\ \A i \in DOMAIN records :
                 after[i].status = IF i = id THEN status ELSE records[i].status
<1> DEFINE after == set_status(records, id, status)
<1> SUFFICES /\ after \in Seq(LedgerRecords) /\ Len(after) = Len(records) /\ DOMAIN after = DOMAIN records
             /\ \A i \in DOMAIN records : after[i].status = IF i = id THEN status ELSE records[i].status
    OBVIOUS
<1> HIDE DEF after
<1>0. DOMAIN records = 1..Len(records) /\ Len(records) \in Nat /\ \A i \in 1..Len(records) : records[i] \in LedgerRecords
    OBVIOUS
<1>1. CASE id = UiNone
  <2>1. \A i \in DOMAIN records : i # UiNone
      BY <1>0, ViewAssumption
  <2>2. after = records
      BY <1>1 DEF set_status, after
  <2> QED BY <1>1, <2>1, <2>2
<1>2. CASE id # UiNone
  <2> DEFINE r == [records[id] EXCEPT !.status = status]
  <2>1. records[id] \in LedgerRecords /\ id \in 1..Len(records)
      BY <1>0, <1>2
  <2>2. r \in LedgerRecords /\ r.status = status
      BY <2>1 DEF LedgerRecords
  <2>3. after = [records EXCEPT ![id] = r]
      BY <1>2 DEF set_status, after
  <2> HIDE DEF r
  <2>4. after = [i \in 1..Len(records) |-> IF i = id THEN r ELSE records[i]]
      BY <1>0, <2>1, <2>3
  <2>5. \A i \in 1..Len(records) : after[i] = IF i = id THEN r ELSE records[i]
      BY <2>4
  <2>6. after \in [1..Len(records) -> LedgerRecords]
      BY <1>0, <2>2, <2>4
  <2>7. after \in Seq(LedgerRecords)
      BY <1>0, <2>6
  <2>8. Len(after) = Len(records) /\ DOMAIN after = DOMAIN records
      BY <1>0, <2>6, <2>7
  <2> QED BY <1>0, <2>2, <2>5, <2>7, <2>8
<1> QED BY <1>1, <1>2

LEMMA LedgerSteps == ASSUME LedgerInv, begin_edit \/ commit \/ cancel_edit \/ restart PROVE LedgerInv'
<1> DEFINE records == view.records
           p == view.provisional
           c == view.committed
<1>1. /\ view \in LedgerViews /\ records \in Seq(LedgerRecords)
      /\ p \in DOMAIN records \cup {UiNone} /\ c \in DOMAIN records \cup {UiNone}
      /\ DOMAIN records = 1..Len(records) /\ Len(records) \in Nat
    BY DEF LedgerInv, LedgerViews
<1>2. \A id \in DOMAIN records :
          /\ records[id].status = "Provisional" <=> id = p
          /\ records[id].status = "Committed" <=> id = c
    BY DEF LedgerInv
<1>3. ASSUME NEW after \in Seq(LedgerRecords), NEW q \in DOMAIN after \cup {UiNone}, NEW d \in DOMAIN after \cup {UiNone},
             view' = [view EXCEPT !.records = after, !.provisional = q, !.committed = d],
             \A id \in DOMAIN after :
                 /\ after[id].status = "Provisional" <=> id = q
                 /\ after[id].status = "Committed" <=> id = d
      PROVE  LedgerInv'
  <2>1. q \in Nat \cup {UiNone} /\ d \in Nat \cup {UiNone}
      BY <1>3
  <2>2. view' \in LedgerViews /\ view'.records = after /\ view'.provisional = q /\ view'.committed = d
      BY <1>1, <1>3, <2>1 DEF LedgerViews
  <2> QED BY <1>3, <2>2 DEF LedgerInv
<1>4. view = [view EXCEPT !.committed = c] /\ view = [view EXCEPT !.provisional = p]
    BY <1>1 DEF LedgerViews
<1>5. \A rs \in Seq(LedgerRecords) : \A id \in DOMAIN rs \cup {UiNone} :
        LET after == set_status(rs, id, "Superseded")
        IN  /\ after \in Seq(LedgerRecords) /\ Len(after) = Len(rs) /\ DOMAIN after = DOMAIN rs
            /\ \A k \in DOMAIN rs : after[k].status = IF k = id THEN "Superseded" ELSE rs[k].status
  <2>1. "Superseded" \in {"Provisional", "Committed", "Superseded"}
      OBVIOUS
  <2> QED BY <2>1, StatusSet
<1>6. \A rs \in Seq(LedgerRecords) : \A id \in DOMAIN rs \cup {UiNone} :
        LET after == set_status(rs, id, "Committed")
        IN  /\ after \in Seq(LedgerRecords) /\ Len(after) = Len(rs) /\ DOMAIN after = DOMAIN rs
            /\ \A k \in DOMAIN rs : after[k].status = IF k = id THEN "Committed" ELSE rs[k].status
  <2>1. "Committed" \in {"Provisional", "Committed", "Superseded"}
      OBVIOUS
  <2> QED BY <2>1, StatusSet
<1> HIDE DEF records, p, c
<1>7. CASE begin_edit
  <2>1. PICK i \in ViewIdentities :
          view' = [view EXCEPT
                      !.records = Append(set_status(@, view.provisional, "Superseded"),
                                         [identity |-> i, status |-> "Provisional"]),
                      !.provisional = Len(view.records) + 1]
      BY <1>7 DEF begin_edit
  <2> DEFINE before == set_status(records, p, "Superseded")
             r == [identity |-> i, status |-> "Provisional"]
             after == Append(before, r)
             q == Len(records) + 1
  <2>2. /\ before \in Seq(LedgerRecords) /\ Len(before) = Len(records) /\ DOMAIN before = DOMAIN records
        /\ \A k \in DOMAIN records : before[k].status = IF k = p THEN "Superseded" ELSE records[k].status
      BY <1>1, <1>5, Zenon
  <2>3. r \in LedgerRecords /\ r.status = "Provisional"
      BY DEF LedgerRecords
  <2>4. view' = [view EXCEPT !.records = after, !.provisional = q, !.committed = c]
      BY <1>1, <2>1 DEF LedgerViews, records, p, c
  <2> HIDE DEF before, r
  <2>5. /\ after \in Seq(LedgerRecords) /\ DOMAIN after = 1..q /\ q \in Nat
        /\ \A k \in 1..q : after[k] = IF k = q THEN r ELSE before[k]
      BY <1>1, <2>2, <2>3
  <2>6. \A id \in DOMAIN after :
          /\ after[id].status = "Provisional" <=> id = q
          /\ after[id].status = "Committed" <=> id = c
      BY <1>1, <1>2, <2>2, <2>3, <2>5, ViewAssumption
  <2>7. q \in DOMAIN after \cup {UiNone} /\ c \in DOMAIN after \cup {UiNone}
      BY <1>1, <2>5
  <2> HIDE DEF after, q
  <2> QED BY <1>3, <2>4, <2>5, <2>6, <2>7
<1>8. CASE commit
  <2> DEFINE old == set_status(records, c, "Superseded")
             after == set_status(old, p, "Committed")
  <2>1. p # UiNone /\ view' = [view EXCEPT !.records = after, !.provisional = UiNone, !.committed = p]
      BY <1>8 DEF commit, records, p, c
  <2>2. /\ old \in Seq(LedgerRecords) /\ Len(old) = Len(records) /\ DOMAIN old = DOMAIN records
        /\ \A k \in DOMAIN records : old[k].status = IF k = c THEN "Superseded" ELSE records[k].status
      BY <1>1, <1>5, Zenon
  <2> HIDE DEF old
  <2>3. p \in DOMAIN old \cup {UiNone}
      BY <1>1, <2>2
  <2>4. /\ after \in Seq(LedgerRecords) /\ DOMAIN after = DOMAIN old
        /\ \A k \in DOMAIN old : after[k].status = IF k = p THEN "Committed" ELSE old[k].status
      BY <1>6, <2>2, <2>3, Zenon
  <2> HIDE DEF after
  <2>5. \A id \in DOMAIN after :
          /\ after[id].status = "Provisional" <=> id = UiNone
          /\ after[id].status = "Committed" <=> id = p
      BY <1>1, <1>2, <2>2, <2>4, ViewAssumption
  <2>6. UiNone \in DOMAIN after \cup {UiNone} /\ p \in DOMAIN after \cup {UiNone}
      BY <2>3, <2>4
  <2> QED BY <1>3, <2>1, <2>4, <2>5, <2>6, Zenon
<1>9. CASE cancel_edit
  <2> DEFINE after == set_status(records, p, "Superseded")
  <2>1. p # UiNone /\ view' = [view EXCEPT !.records = after, !.provisional = UiNone, !.committed = c]
      BY <1>1, <1>9 DEF cancel_edit, LedgerViews, records, p, c
  <2>2. /\ after \in Seq(LedgerRecords) /\ DOMAIN after = DOMAIN records
        /\ \A k \in DOMAIN records : after[k].status = IF k = p THEN "Superseded" ELSE records[k].status
      BY <1>1, <1>5, Zenon
  <2> HIDE DEF after
  <2>3. \A id \in DOMAIN after :
          /\ after[id].status = "Provisional" <=> id = UiNone
          /\ after[id].status = "Committed" <=> id = c
      BY <1>1, <1>2, <2>2, ViewAssumption
  <2>4. UiNone \in DOMAIN after \cup {UiNone} /\ c \in DOMAIN after \cup {UiNone}
      BY <1>1, <2>2
  <2> QED BY <1>3, <2>1, <2>2, <2>3, <2>4, Zenon
<1> QED BY <1>7, <1>8, <1>9 DEF restart, LedgerInv

LEMMA LandingSteps == ASSUME view \in LandingViews, LandingSnapshot \/ LandingRecord PROVE (view \in LandingViews)'
<1>1. CASE LandingSnapshot
  <2>1. PICK s \in LandingStatus : view' = [view EXCEPT !.status = s, !.activity = <<>>]
      BY <1>1 DEF LandingSnapshot
  <2> DEFINE a == <<>>
  <2>2. a \in Seq(ViewRecords)
      OBVIOUS
  <2>3. view' = [view EXCEPT !.status = s, !.activity = a]
      BY <2>1
  <2> HIDE DEF a
  <2> QED BY <2>2, <2>3 DEF LandingViews
<1>2. CASE LandingRecord
  <2>1. PICK r \in ViewRecords : view' = [view EXCEPT !.activity = Append(@, r)]
      BY <1>2 DEF LandingRecord
  <2> DEFINE a == Append(view.activity, r)
  <2>2. a \in Seq(ViewRecords)
      BY DEF LandingViews
  <2>3. view' = [view EXCEPT !.activity = a]
      BY <2>1
  <2> HIDE DEF a
  <2> QED BY <2>2, <2>3 DEF LandingViews
<1> QED BY <1>1, <1>2

(* The list of the help: where each group of it begins. *)
(* Each group is a list of actions of one context. *)
Group(list, n, c) == /\ DOMAIN list = 1..n
                     /\ list = [i \in 1..n |-> list[i]]
                     /\ \A i \in 1..n : list[i].context = c

LEMMA Groups ==
    /\ Group(GlobalList, 10, "global") /\ Group(MeasuresList, 6, "measurement_selection")
    /\ Group(RunList, 4, "run_control") /\ Group(RecordingList, 10, "run_control")
    /\ Group(ReplayList, 2, "run_control") /\ Group(ConfigurationList, 9, "configuration")
    /\ Group(HandoffList, 4, "landing")
    /\ \A a, c : Group(Act(<<a>>, c), 1, c)
    /\ \A a, b, c : Group(Act(<<a, b>>, c), 2, c)
<1>1. Group(GlobalList, 10, "global")
    BY DEF Group, Act, GlobalList
<1>2. Group(MeasuresList, 6, "measurement_selection")
    BY DEF Group, Act, MeasuresList
<1>3. Group(RunList, 4, "run_control")
    BY DEF Group, Act, RunList
<1>4. Group(RecordingList, 10, "run_control")
    BY DEF Group, Act, RecordingList
<1>5. Group(ReplayList, 2, "run_control")
    BY DEF Group, Act, ReplayList
<1>6. Group(ConfigurationList, 9, "configuration")
    BY DEF Group, Act, ConfigurationList
<1>7. Group(HandoffList, 4, "landing")
    BY DEF Group, Act, HandoffList
<1>8. \A a, c : Group(Act(<<a>>, c), 1, c)
    BY DEF Group, Act
<1>9. \A a, b, c : Group(Act(<<a, b>>, c), 2, c)
    BY DEF Group, Act
<1> QED BY <1>1, <1>2, <1>3, <1>4, <1>5, <1>6, <1>7, <1>8, <1>9

(* A list that grows by a group. *)
Listed(list, n) == DOMAIN list = 1..n /\ list = [i \in 1..n |-> list[i]]

LEMMA Joined ==
    ASSUME NEW S, NEW s \in Seq(S), NEW t \in Seq(S)
    PROVE  /\ s \o t \in Seq(S) /\ Len(s \o t) = Len(s) + Len(t)
           /\ \A i \in 1..Len(s) : (s \o t)[i] = s[i]
           /\ \A i \in (Len(s) + 1)..(Len(s) + Len(t)) : (s \o t)[i] = t[i - Len(s)]
    OBVIOUS

Ends(m, n, first, last) == m \in Nat /\ n \in Nat /\ first = m + 1 /\ last = m + n
Follows(s, t, q, m, first, last, c) ==
    /\ Listed(q, last)
    /\ \A i \in 1..m : q[i] = s[i]
    /\ \A i \in first..last : q[i] = t[i - m] /\ q[i].context = c
LEMMA GroupJoined ==
    ASSUME NEW s, NEW t, NEW m, NEW n, NEW c, NEW first, NEW last,
           Listed(s, m), Group(t, n, c), Ends(m, n, first, last)
    PROVE  Follows(s, t, s \o t, m, first, last, c)
<1>0. m \in Nat /\ n \in Nat
    BY DEF Ends
<1> DEFINE S == {s[i] : i \in 1..m} \cup {t[i] : i \in 1..n}
<1>1. s \in [1..m -> S] /\ t \in [1..n -> S]
    BY DEF Listed, Group
<1> HIDE DEF S
<1>2. s \in Seq(S) /\ t \in Seq(S)
    BY <1>0, <1>1
<1>3. Len(s) = m /\ Len(t) = n
    BY <1>0, <1>1, <1>2
<1>4. /\ s \o t \in Seq(S) /\ Len(s \o t) = Len(s) + Len(t)
      /\ \A i \in 1..Len(s) : (s \o t)[i] = s[i]
      /\ \A i \in (Len(s) + 1)..(Len(s) + Len(t)) : (s \o t)[i] = t[i - Len(s)]
    BY <1>2, Joined, Zenon
<1> DEFINE q == s \o t
<1>5. /\ q \in Seq(S) /\ Len(q) = last /\ \A i \in 1..m : q[i] = s[i]
      /\ \A i \in first..last : q[i] = t[i - m]
    BY <1>3, <1>4 DEF Ends
<1> HIDE DEF q
<1>6. Listed(q, last)
    BY <1>5 DEF Listed
<1>7. \A i \in first..last : i - m \in 1..n
    BY DEF Ends
<1>8. \A j \in 1..n : t[j].context = c
    BY DEF Group
<1>9. \A i \in first..last : q[i].context = c
    BY <1>5, <1>7, <1>8
<1> QED BY <1>5, <1>6, <1>9 DEF q, Follows

(* What the list has at each place. *)
LEMMA ListPlaces ==
    /\ Listed(UiActions, 51)
    /\ \A i \in 1..10 : UiActions[i].context = "global" /\ UiActions[i] = GlobalList[i]
    /\ \A i \in 11..11 : UiActions[i].context = "help"
    /\ \A i \in 12..17 : UiActions[i].context = "measurement_selection" /\ UiActions[i] = MeasuresList[i - 11]
    /\ \A i \in 18..21 : UiActions[i].context = "run_control" /\ UiActions[i] = RunList[i - 17]
    /\ \A i \in 22..22 : UiActions[i].context = "recent_runs"
    /\ \A i \in 23..23 : UiActions[i].context = "reports"
    /\ \A i \in 24..24 : UiActions[i].context = "configuration"
    /\ \A i \in 25..34 : UiActions[i].context = "run_control" /\ UiActions[i] = RecordingList[i - 24]
    /\ \A i \in 35..36 : UiActions[i].context = "reports"
    /\ \A i \in 37..38 : UiActions[i].context = "run_control" /\ UiActions[i] = ReplayList[i - 36]
    /\ \A i \in 39..47 : UiActions[i].context = "configuration" /\ UiActions[i] = ConfigurationList[i - 38]
    /\ \A i \in 48..51 : UiActions[i].context = "landing" /\ UiActions[i] = HandoffList[i - 47]
    /\ UiActions[11].id = "FocusSearch" /\ UiActions[22].id = "RefreshRuns" /\ UiActions[23].id = "CompareRuns"
<1> DEFINE
       a1 == GlobalList
       a2 == Act(<<"FocusSearch">>, "help")
       a3 == MeasuresList
       a4 == RunList
       a5 == Act(<<"RefreshRuns">>, "recent_runs")
       a6 == Act(<<"CompareRuns">>, "reports")
       a7 == Act(<<"RefreshProviderCatalog">>, "configuration")
       a8 == RecordingList
       a9 == Act(<<"RetryRun", "CompareLiveOffline">>, "reports")
       a10 == ReplayList
       a11 == ConfigurationList
       a12 == HandoffList
       p2 == a1 \o a2
       p3 == p2 \o a3
       p4 == p3 \o a4
       p5 == p4 \o a5
       p6 == p5 \o a6
       p7 == p6 \o a7
       p8 == p7 \o a8
       p9 == p8 \o a9
       p10 == p9 \o a10
       p11 == p10 \o a11
       p12 == p11 \o a12
<1>1. UiActions = p12
    BY DEF UiActions
<1>2. Listed(a1, 10) /\ \A i \in 1..10 : a1[i].context = "global"
    BY Groups DEF Group, Listed
<1>3. a2[1].id = "FocusSearch" /\ a5[1].id = "RefreshRuns" /\ a6[1].id = "CompareRuns"
    BY DEF Act
<1>4. /\ Group(a2, 1, "help")
      /\ Group(a3, 6, "measurement_selection")
      /\ Group(a4, 4, "run_control")
      /\ Group(a5, 1, "recent_runs")
      /\ Group(a6, 1, "reports")
      /\ Group(a7, 1, "configuration")
      /\ Group(a8, 10, "run_control")
      /\ Group(a9, 2, "reports")
      /\ Group(a10, 2, "run_control")
      /\ Group(a11, 9, "configuration")
      /\ Group(a12, 4, "landing")
    BY Groups
<1> HIDE DEF a1, a2, a3, a4, a5, a6, a7, a8, a9, a10, a11, a12
<1>5. /\ Listed(p2, 11) /\ \A i \in 1..10 : p2[i] = a1[i]
      /\ \A i \in 11..11 : p2[i] = a2[i - 10] /\ p2[i].context = "help"
  <2>1. Group(a2, 1, "help") /\ Listed(a1, 10)
      BY <1>2, <1>4
  <2>2. Ends(10, 1, 11, 11)
      BY DEF Ends
  <2>3. Follows(a1, a2, p2, 10, 11, 11, "help")
      BY <2>1, <2>2, GroupJoined, Zenon
  <2> QED BY <2>3 DEF Follows
<1> HIDE DEF p2
<1>6. /\ Listed(p3, 17) /\ \A i \in 1..11 : p3[i] = p2[i]
      /\ \A i \in 12..17 : p3[i] = a3[i - 11] /\ p3[i].context = "measurement_selection"
  <2>1. Group(a3, 6, "measurement_selection") /\ Listed(p2, 11)
      BY <1>5, <1>4
  <2>2. Ends(11, 6, 12, 17)
      BY DEF Ends
  <2>3. Follows(p2, a3, p3, 11, 12, 17, "measurement_selection")
      BY <2>1, <2>2, GroupJoined, Zenon
  <2> QED BY <2>3 DEF Follows
<1> HIDE DEF p3
<1>7. /\ Listed(p4, 21) /\ \A i \in 1..17 : p4[i] = p3[i]
      /\ \A i \in 18..21 : p4[i] = a4[i - 17] /\ p4[i].context = "run_control"
  <2>1. Group(a4, 4, "run_control") /\ Listed(p3, 17)
      BY <1>6, <1>4
  <2>2. Ends(17, 4, 18, 21)
      BY DEF Ends
  <2>3. Follows(p3, a4, p4, 17, 18, 21, "run_control")
      BY <2>1, <2>2, GroupJoined, Zenon
  <2> QED BY <2>3 DEF Follows
<1> HIDE DEF p4
<1>8. /\ Listed(p5, 22) /\ \A i \in 1..21 : p5[i] = p4[i]
      /\ \A i \in 22..22 : p5[i] = a5[i - 21] /\ p5[i].context = "recent_runs"
  <2>1. Group(a5, 1, "recent_runs") /\ Listed(p4, 21)
      BY <1>7, <1>4
  <2>2. Ends(21, 1, 22, 22)
      BY DEF Ends
  <2>3. Follows(p4, a5, p5, 21, 22, 22, "recent_runs")
      BY <2>1, <2>2, GroupJoined, Zenon
  <2> QED BY <2>3 DEF Follows
<1> HIDE DEF p5
<1>9. /\ Listed(p6, 23) /\ \A i \in 1..22 : p6[i] = p5[i]
      /\ \A i \in 23..23 : p6[i] = a6[i - 22] /\ p6[i].context = "reports"
  <2>1. Group(a6, 1, "reports") /\ Listed(p5, 22)
      BY <1>8, <1>4
  <2>2. Ends(22, 1, 23, 23)
      BY DEF Ends
  <2>3. Follows(p5, a6, p6, 22, 23, 23, "reports")
      BY <2>1, <2>2, GroupJoined, Zenon
  <2> QED BY <2>3 DEF Follows
<1> HIDE DEF p6
<1>10. /\ Listed(p7, 24) /\ \A i \in 1..23 : p7[i] = p6[i]
      /\ \A i \in 24..24 : p7[i] = a7[i - 23] /\ p7[i].context = "configuration"
  <2>1. Group(a7, 1, "configuration") /\ Listed(p6, 23)
      BY <1>9, <1>4
  <2>2. Ends(23, 1, 24, 24)
      BY DEF Ends
  <2>3. Follows(p6, a7, p7, 23, 24, 24, "configuration")
      BY <2>1, <2>2, GroupJoined, Zenon
  <2> QED BY <2>3 DEF Follows
<1> HIDE DEF p7
<1>11. /\ Listed(p8, 34) /\ \A i \in 1..24 : p8[i] = p7[i]
      /\ \A i \in 25..34 : p8[i] = a8[i - 24] /\ p8[i].context = "run_control"
  <2>1. Group(a8, 10, "run_control") /\ Listed(p7, 24)
      BY <1>10, <1>4
  <2>2. Ends(24, 10, 25, 34)
      BY DEF Ends
  <2>3. Follows(p7, a8, p8, 24, 25, 34, "run_control")
      BY <2>1, <2>2, GroupJoined, Zenon
  <2> QED BY <2>3 DEF Follows
<1> HIDE DEF p8
<1>12. /\ Listed(p9, 36) /\ \A i \in 1..34 : p9[i] = p8[i]
      /\ \A i \in 35..36 : p9[i] = a9[i - 34] /\ p9[i].context = "reports"
  <2>1. Group(a9, 2, "reports") /\ Listed(p8, 34)
      BY <1>11, <1>4
  <2>2. Ends(34, 2, 35, 36)
      BY DEF Ends
  <2>3. Follows(p8, a9, p9, 34, 35, 36, "reports")
      BY <2>1, <2>2, GroupJoined, Zenon
  <2> QED BY <2>3 DEF Follows
<1> HIDE DEF p9
<1>13. /\ Listed(p10, 38) /\ \A i \in 1..36 : p10[i] = p9[i]
      /\ \A i \in 37..38 : p10[i] = a10[i - 36] /\ p10[i].context = "run_control"
  <2>1. Group(a10, 2, "run_control") /\ Listed(p9, 36)
      BY <1>12, <1>4
  <2>2. Ends(36, 2, 37, 38)
      BY DEF Ends
  <2>3. Follows(p9, a10, p10, 36, 37, 38, "run_control")
      BY <2>1, <2>2, GroupJoined, Zenon
  <2> QED BY <2>3 DEF Follows
<1> HIDE DEF p10
<1>14. /\ Listed(p11, 47) /\ \A i \in 1..38 : p11[i] = p10[i]
      /\ \A i \in 39..47 : p11[i] = a11[i - 38] /\ p11[i].context = "configuration"
  <2>1. Group(a11, 9, "configuration") /\ Listed(p10, 38)
      BY <1>13, <1>4
  <2>2. Ends(38, 9, 39, 47)
      BY DEF Ends
  <2>3. Follows(p10, a11, p11, 38, 39, 47, "configuration")
      BY <2>1, <2>2, GroupJoined, Zenon
  <2> QED BY <2>3 DEF Follows
<1> HIDE DEF p11
<1>15. /\ Listed(p12, 51) /\ \A i \in 1..47 : p12[i] = p11[i]
      /\ \A i \in 48..51 : p12[i] = a12[i - 47] /\ p12[i].context = "landing"
  <2>1. Group(a12, 4, "landing") /\ Listed(p11, 47)
      BY <1>14, <1>4
  <2>2. Ends(47, 4, 48, 51)
      BY DEF Ends
  <2>3. Follows(p11, a12, p12, 47, 48, 51, "landing")
      BY <2>1, <2>2, GroupJoined, Zenon
  <2> QED BY <2>3 DEF Follows
<1> HIDE DEF p12
<1> QED BY <1>1, <1>2, <1>3, <1>4, <1>5, <1>6, <1>7, <1>8, <1>9, <1>10, <1>11, <1>12, <1>13, <1>14, <1>15 DEF a1, a3, a4, a8, a10, a11, a12

(* The entries of the help are places of the list. *)
LEMMA EntriesFinite ==
    ASSUME NEW v
    PROVE  help_entries(v) \subseteq 1..51 /\ IsFiniteSet(help_entries(v)) /\ Cardinality(help_entries(v)) \in Nat
<1>1. DOMAIN UiActions = 1..51
    BY ListPlaces DEF Listed
<1>2. help_entries(v) \subseteq 1..51
    BY <1>1 DEF help_entries, for_context, search_actions
<1>3. IsFiniteSet(1..51)
  <2>1. 1 \in Int /\ 51 \in Int
      OBVIOUS
  <2> QED BY <2>1, FS_Interval, Zenon
<1> QED BY <1>2, <1>3, FS_Subset, FS_CardinalityType

LEMMA HelpSteps == ASSUME view \in HelpViews, HelpQuery \/ HelpMove \/ HelpContext PROVE (view \in HelpViews)'
<1>1. CASE HelpQuery
  <2>1. PICK q \in ViewQueries \cup {UiNone} : view' = [view EXCEPT !.query = q, !.selected = 0]
      BY <1>1 DEF HelpQuery
  <2> QED BY <2>1 DEF HelpViews
<1>2. CASE HelpMove
  <2> DEFINE count == Cardinality(help_entries(view))
             to(down) == IF count = 0 THEN 0 ELSE (view.selected + (IF down THEN 1 ELSE count - 1)) % count
  <2>1. PICK down \in BOOLEAN : view' = [view EXCEPT !.selected = to(down)]
      BY <1>2 DEF HelpMove
  <2>2. count \in Nat /\ view.selected \in Nat
      BY EntriesFinite DEF HelpViews
  <2> HIDE DEF count
  <2>3. to(down) \in Nat
      BY <2>2
  <2> HIDE DEF to
  <2> QED BY <2>1, <2>3 DEF HelpViews
<1>3. CASE HelpContext
    BY <1>3 DEF HelpContext, HelpViews
<1> QED BY <1>1, <1>2, <1>3

LEMMA ViewInits == ASSUME ViewInit PROVE ViewInv
<1>1. CASE ShellInit
  <2>1. PICK size \in ViewSizes :
           view = [kind |-> "shell", layout |-> from_dimensions(size), connected |-> FALSE,
                  quit |-> FALSE, revision |-> UiNone, event |-> UiNone, route |-> "landing",
                  connection |-> "Disconnected", caps |-> UiNone, log |-> <<>>]
      BY <1>1 DEF ShellInit
  <2> DEFINE l == from_dimensions(size)
             log == <<>>
  <2>2. l \in {"compact", "standard", "wide"} /\ log \in Seq(ViewEvents)
      BY DEF from_dimensions
  <2>3. view = [kind |-> "shell", layout |-> l, connected |-> FALSE,
                  quit |-> FALSE, revision |-> UiNone, event |-> UiNone, route |-> "landing",
                  connection |-> "Disconnected", caps |-> UiNone, log |-> log]
      BY <2>1
  <2> HIDE DEF l, log
  <2>4. view \in ShellViews
      BY <2>2, <2>3 DEF ShellViews, UiRoutes
  <2> QED BY <2>3, <2>4 DEF ShellInv, ViewInv, availability, LocalRoutes
<1>2. CASE LandingInit
  <2> DEFINE a == <<>>
  <2>1. a \in Seq(ViewRecords) /\ LandingWell \in LandingStatus
      BY DEF LandingWell, LandingStatus
  <2>2. view = [kind |-> "landing", status |-> LandingWell, activity |-> a]
      BY <1>2 DEF LandingInit
  <2> HIDE DEF a
  <2> QED BY <2>1, <2>2 DEF LandingViews, ViewInv
<1>3. CASE GateInit
    BY <1>3 DEF GateInit, GateInv, GateViews, ViewInv
<1>4. CASE StartupInit
    BY <1>4 DEF StartupInit, StartupNew, StartupInv, StartupViews, ViewInv
<1>5. CASE ScreensInit
  <2>1. view = [kind |-> "screens", ui |-> UiFresh]
      BY <1>5 DEF ScreensInit, UiNew
  <2>2. view \in ScreensViews /\ view.ui.focus = UiNone
      BY <2>1 DEF ScreensViews, UiFresh, UiRoutes
  <2> QED BY <2>2 DEF ScreensInv, FocusOnScreen, ViewInv
<1>6. CASE FenceInit
    BY <1>6, ViewAssumption DEF FenceInit, FenceInv, FenceViews, FenceHonest, In, ViewInv
<1>7. CASE LedgerInit
  <2> DEFINE r == <<>>
  <2>1. r \in Seq(LedgerRecords) /\ DOMAIN r = {}
      OBVIOUS
  <2>2. view = [kind |-> "ledger", records |-> r, provisional |-> UiNone, committed |-> UiNone]
      BY <1>7 DEF LedgerInit
  <2> HIDE DEF r
  <2> QED BY <2>1, <2>2 DEF LedgerViews, LedgerInv, ViewInv
<1>8. CASE HelpInit
    BY <1>8 DEF HelpInit, HelpViews, UiRoutes, ViewInv
<1> QED BY <1>1, <1>2, <1>3, <1>4, <1>5, <1>6, <1>7, <1>8 DEF ViewInit

(* The kind of a view says which part of the invariant it is in. *)
LEMMA ViewKinds ==
    ASSUME ViewInv
    PROVE  /\ In("shell") => ShellInv
           /\ In("landing") => view \in LandingViews
           /\ In("gate") => GateInv
           /\ In("startup") => StartupInv
           /\ In("screens") => ScreensInv
           /\ In("fence") => FenceInv
           /\ In("ledger") => LedgerInv
           /\ In("help") => view \in HelpViews
<1>1. ShellInv => view.kind = "shell"
    BY DEF ShellInv, ShellViews
<1>2. view \in LandingViews => view.kind = "landing"
    BY DEF LandingViews
<1>3. GateInv => view.kind = "gate"
    BY DEF GateInv, GateViews
<1>4. StartupInv => view.kind = "startup"
    BY DEF StartupInv, StartupViews
<1>5. ScreensInv => view.kind = "screens"
    BY DEF ScreensInv, ScreensViews
<1>6. FenceInv => view.kind = "fence"
    BY DEF FenceInv, FenceViews
<1>7. LedgerInv => view.kind = "ledger"
    BY DEF LedgerInv, LedgerViews
<1>8. view \in HelpViews => view.kind = "help"
    BY DEF HelpViews
<1> QED BY <1>1, <1>2, <1>3, <1>4, <1>5, <1>6, <1>7, <1>8 DEF ViewInv, In

LEMMA ViewSteps == ASSUME ViewInv, [ViewNext]_viewVars PROVE ViewInv'
<1>1. CASE RunnerEvent \/ ShellControl \/ ShellConnected \/ ShellDisconnected \/ ShellNavigate
           \/ ShellCapabilities \/ ShellResize \/ ShellQuit
  <2>1. In("shell")
      BY <1>1 DEF RunnerEvent, ShellControl, ShellConnected, ShellDisconnected, ShellNavigate, ShellCapabilities, ShellResize, ShellQuit
  <2> QED BY <1>1, <2>1, ViewKinds, ShellSteps DEF ViewInv
<1>2. CASE LandingSnapshot \/ LandingRecord
  <2>1. In("landing")
      BY <1>2 DEF LandingSnapshot, LandingRecord
  <2> QED BY <1>2, <2>1, ViewKinds, LandingSteps DEF ViewInv
<1>3. CASE GateRefresh \/ GateResponse
  <2>1. In("gate")
      BY <1>3 DEF GateRefresh, GateResponse
  <2> QED BY <1>3, <2>1, ViewKinds, GateSteps DEF ViewInv
<1>4. CASE StartupObserve \/ StartupAgain
  <2>1. In("startup")
      BY <1>4 DEF StartupObserve, StartupAgain
  <2> QED BY <1>4, <2>1, ViewKinds, StartupSteps DEF ViewInv
<1>5. CASE ScreensFocus \/ ScreensResize \/ ScreensEvent
  <2>1. In("screens")
      BY <1>5 DEF ScreensFocus, ScreensResize, ScreensEvent
  <2> QED BY <1>5, <2>1, ViewKinds, ScreensSteps DEF ViewInv
<1>6. CASE FenceRequest \/ FenceBackend \/ FenceLost \/ FenceAcknowledged \/ FenceCatalog
  <2>1. In("fence")
      BY <1>6 DEF FenceRequest, FenceBackend, FenceLost, FenceAcknowledged, FenceCatalog
  <2> QED BY <1>6, <2>1, ViewKinds, FenceSteps DEF ViewInv
<1>7. CASE begin_edit \/ commit \/ cancel_edit \/ restart
  <2>1. In("ledger")
      BY <1>7 DEF begin_edit, commit, cancel_edit, restart
  <2> QED BY <1>7, <2>1, ViewKinds, LedgerSteps DEF ViewInv
<1>8. CASE HelpQuery \/ HelpMove \/ HelpContext
  <2>1. In("help")
      BY <1>8 DEF HelpQuery, HelpMove, HelpContext
  <2> QED BY <1>8, <2>1, ViewKinds, HelpSteps DEF ViewInv
<1>9. CASE UNCHANGED viewVars
  <2>1. view' = view
      BY <1>9 DEF viewVars
  <2>2. CASE In("shell")
      BY <2>1, <2>2, ViewKinds DEF ViewInv, ShellInv
  <2>3. CASE In("landing")
      BY <2>1, <2>3, ViewKinds DEF ViewInv
  <2>4. CASE In("gate")
      BY <2>1, <2>4, ViewKinds DEF ViewInv, GateInv
  <2>5. CASE In("startup")
      BY <2>1, <2>5, ViewKinds DEF ViewInv, StartupInv
  <2>6. CASE In("screens")
      BY <2>1, <2>6, ViewKinds DEF ViewInv, ScreensInv, FocusOnScreen, In
  <2>7. CASE In("fence")
      BY <2>1, <2>7, ViewKinds DEF ViewInv, FenceInv, FenceHonest, In
  <2>8. CASE In("ledger")
      BY <2>1, <2>8, ViewKinds DEF ViewInv, LedgerInv
  <2>9. CASE In("help")
      BY <2>1, <2>9, ViewKinds DEF ViewInv
  <2>10. In("shell") \/ In("landing") \/ In("gate") \/ In("startup") \/ In("screens") \/ In("fence") \/ In("ledger") \/ In("help")
      BY DEF ViewInv, In, ShellInv, ShellViews, LandingViews, GateInv, GateViews, StartupInv, StartupViews, ScreensInv,
             ScreensViews, FenceInv, FenceViews, LedgerInv, LedgerViews, HelpViews
  <2> QED BY <2>2, <2>3, <2>4, <2>5, <2>6, <2>7, <2>8, <2>9, <2>10
<1> QED BY <1>1, <1>2, <1>3, <1>4, <1>5, <1>6, <1>7, <1>8, <1>9 DEF ViewNext

(* A set of numbers has a least one. *)
LEMMA ViewLeast ==
    ASSUME NEW T \in SUBSET Nat, T # {} PROVE \E x \in T : \A y \in T : x <= y
<1> DEFINE R == OpToRel(<, Nat)
<1>1. IsWellFoundedOn(R, Nat)
    BY NatLessThanWellFounded
<1> HIDE DEF R
<1>2. PICK x \in T : \A y \in T : ~(<<y, x>> \in R)
    BY <1>1, WFMin
<1>3. \A y \in T : ~(y < x)
    BY <1>2 DEF R, OpToRel
<1> QED BY <1>3

LEMMA LedgerSound == ASSUME ViewInv, In("ledger") PROVE LedgerAdmitsLast
<1>1. LedgerInv
    BY ViewKinds
<1> DEFINE records == view.records
           p == view.provisional
           c == view.committed
           found(e) == {r \in DOMAIN records : records[r].identity = e}
<1>2. /\ records \in Seq(LedgerRecords) /\ DOMAIN records = 1..Len(records) /\ Len(records) \in Nat
      /\ \A id \in DOMAIN records : records[id].status \in {"Provisional", "Committed", "Superseded"}
  <2>1. records \in Seq(LedgerRecords)
      BY <1>1 DEF LedgerInv, LedgerViews
  <2> HIDE DEF records
  <2>2. DOMAIN records = 1..Len(records) /\ Len(records) \in Nat /\ \A id \in DOMAIN records : records[id] \in LedgerRecords
      BY <2>1
  <2> QED BY <2>1, <2>2 DEF LedgerRecords
<1>3. /\ c \in DOMAIN records \cup {UiNone}
      /\ \A id \in DOMAIN records : /\ records[id].status = "Provisional" <=> id = p
                                    /\ records[id].status = "Committed" <=> id = c
    BY <1>1 DEF LedgerInv
<1>4. \A e : /\ found(e) = {} => classify_identity(e) \in {"Stale", "Unavailable"}
             /\ found(e) # {} => \E r \in found(e) : classify_identity(e) = records[r].status
  <2> TAKE e
  <2>1. CASE found(e) = {}
      BY <2>1 DEF classify_identity
  <2>2. CASE found(e) # {}
    <3> DEFINE f == found(e)
    <3>1. f \in SUBSET Nat /\ f # {}
        BY <1>2, <2>2
    <3>2. PICK x \in f : \A y \in f : x <= y
        BY <3>1, ViewLeast
    <3>3. classify_identity(e) = records[Min(f)].status
        BY <2>2 DEF classify_identity
    <3> HIDE DEF f
    <3>4. Min(f) \in f
        BY <3>1, <3>2 DEF Min
    <3> QED BY <2>2, <3>3, <3>4 DEF f
  <2> QED BY <2>1, <2>2
<1> HIDE DEF found
<1>5. \A e : \A r \in found(e) : r \in DOMAIN records /\ records[r].identity = e
    BY DEF found
<1>6. \A id \in DOMAIN records : id \in found(records[id].identity)
    BY DEF found
<1> HIDE DEF records, p, c
<1>7. ASSUME NEW id \in DOMAIN records, NEW e \in ViewIdentities
      PROVE  /\ admit(id, e) => id = c /\ classify_identity(e) # "Unavailable"
             /\ classify_identity(e) = "Committed" => admit(c, e)
  <2>1. \A d : admit(d, e) <=> d \in DOMAIN records /\ records[d].status = "Committed" /\ records[d].identity = e
      BY DEF admit, records
  <2>2. CASE found(e) = {}
      BY <1>4, <1>6, <2>1, <2>2
  <2>3. CASE found(e) # {}
    <3>1. PICK r \in found(e) : classify_identity(e) = records[r].status
        BY <1>4, <2>3
    <3> QED BY <1>2, <1>3, <1>5, <2>1, <3>1
  <2> QED BY <2>2, <2>3
<1>8. c # UiNone => records[c].status = "Committed"
    BY <1>3
<1> QED BY <1>3, <1>7, <1>8 DEF LedgerAdmitsLast, records, p, c

LEMMA ShellSound == ASSUME ViewInv PROVE ShellFollowsRunner
    BY ViewKinds DEF ShellFollowsRunner, ShellInv

LEMMA GateSound == ASSUME ViewInv PROVE GateShowsNewest
<1> SUFFICES ASSUME In("gate") PROVE view.shown = Max(view.received \cup {0})
    BY DEF GateShowsNewest
<1>1. GateInv
    BY ViewKinds
<1> DEFINE s == view.received \cup {0}
<1>2. /\ s \in SUBSET Nat /\ view.shown \in s /\ \A id \in s : view.shown >= id
    BY <1>1 DEF GateInv, GateViews
<1> HIDE DEF s
<1>3. Max(s) \in s /\ \A id \in s : Max(s) >= id
    BY <1>2, Zenon DEF Max
<1> DEFINE m == Max(s)
           v == view.shown
<1>4. m \in Nat /\ v \in Nat /\ m >= v /\ v >= m
    BY <1>2, <1>3
<1> HIDE DEF m, v
<1>5. v = m
    BY <1>4
<1> QED BY <1>5 DEF s, m, v

LEMMA StartupSound == ASSUME ViewInv PROVE StartupOpensOnce
<1> SUFFICES ASSUME In("startup") PROVE StartupOpensOnce
    BY DEF StartupOpensOnce
<1>1. StartupInv
    BY ViewKinds
<1>2. \A r : auto_opens_wizard(r) => StartupRoute(r) = "Configuration"
    BY Zenon DEF auto_opens_wizard, StartupRoute
<1>3. \A f \in StartupFacts : auto_opens_wizard(classify_startup(f)) =>
            f.available /\ ~f.malformed /\ ~(f.present /\ f.complete)
  <2> TAKE f \in StartupFacts
  <2>1. /\ f.malformed => classify_startup(f) = "Malformed"
        /\ ~f.malformed /\ ~f.available => classify_startup(f) = "Unavailable"
        /\ ~f.malformed /\ f.available /\ f.present /\ f.complete =>
              classify_startup(f) \in {"Stale", "Configured", "Unauthorized"}
      BY Zenon DEF classify_startup
  <2> HIDE DEF classify_startup
  <2> QED BY <2>1, Zenon DEF auto_opens_wizard
<1>4. view.opens <= 1
    BY <1>1 DEF StartupInv, StartupViews
<1> QED BY <1>1, <1>2, <1>3, <1>4 DEF StartupInv, StartupOpensOnce

LEMMA ScreensSound == ASSUME ViewInv PROVE FocusOnScreen
    BY ViewKinds DEF FocusOnScreen, ScreensInv
LEMMA FenceSound == ASSUME ViewInv PROVE FenceHonest
    BY ViewKinds DEF FenceHonest, FenceInv

LEMMA ViewTyped == ASSUME ViewInv PROVE ViewTypeOK
<1>1. In("shell") => view.revision \in (0..Len(view.log)) \cup {UiNone} /\ view.route \in UiRoutes
    BY ViewKinds DEF ShellInv, ShellViews
<1>2. In("gate") => view.underway \subseteq 1..view.asked
    BY ViewKinds DEF GateInv
<1>3. In("screens") => view.ui.route \in UiRoutes
    BY ViewKinds DEF ScreensInv, ScreensViews
<1>4. In("ledger") => {view.provisional, view.committed} \subseteq DOMAIN view.records \cup {UiNone}
    BY ViewKinds DEF LedgerInv
<1> QED BY <1>1, <1>2, <1>3, <1>4 DEF ViewTypeOK

(* The sort of the landing screen.  Runs that are listed once each are in a  *)
(* strict order, so that the place of a run is the number of those before it *)
(* and one: the places are those of the list, each taken once.               *)
Dated(a, n) ==
    /\ n \in Nat /\ DOMAIN a = 1..n
    /\ \A i \in 1..n : a[i].run \in Nat /\ a[i].at \in Nat /\ a[i].cursor \in Nat
    /\ \A i, j \in 1..n : a[i].run = a[j].run => i = j

LEMMA BeforeOrder ==
    ASSUME NEW a, NEW n, Dated(a, n)
    PROVE  /\ \A i, j \in 1..n : Before(a, i, j) <=> Newer(a[i], a[j])
           /\ \A i \in 1..n : ~Before(a, i, i)
           /\ \A i, j \in 1..n : i # j => Before(a, i, j) \/ Before(a, j, i)
           /\ \A i, j \in 1..n : Before(a, i, j) => ~Before(a, j, i) /\ a[i].at >= a[j].at
           /\ \A i, j, k \in 1..n : Before(a, i, j) /\ Before(a, j, k) => Before(a, i, k)
<1>1. \A i \in 1..n : i \in Int /\ a[i].run \in Nat /\ a[i].at \in Nat /\ a[i].cursor \in Nat
    BY DEF Dated
<1>2. \A i \in 1..n : ~Newer(a[i], a[i])
    BY <1>1 DEF Newer
<1>3. \A i, j \in 1..n : i # j => Newer(a[i], a[j]) \/ Newer(a[j], a[i])
  <2> TAKE i, j \in 1..n
  <2>1. i # j => a[i].run # a[j].run
      BY DEF Dated
  <2> QED BY <1>1, <2>1 DEF Newer
<1>4. \A i, j \in 1..n : Newer(a[i], a[j]) => ~Newer(a[j], a[i]) /\ a[i].at >= a[j].at
    BY <1>1 DEF Newer
<1>5. \A i, j, k \in 1..n : Newer(a[i], a[j]) /\ Newer(a[j], a[k]) => Newer(a[i], a[k])
    BY <1>1 DEF Newer
<1>6. \A i, j \in 1..n : Before(a, i, j) <=> Newer(a[i], a[j])
    BY <1>1, <1>3, <1>4 DEF Before
<1> QED BY <1>2, <1>3, <1>4, <1>5, <1>6

LEMMA Places ==
    ASSUME NEW a, NEW n, Dated(a, n)
    PROVE  /\ \A i \in 1..n : Place(a, i) \in 1..n
           /\ \A i, j \in 1..n : Before(a, i, j) => Place(a, i) < Place(a, j)
<1> DEFINE S(i) == {j \in 1..n : Before(a, j, i)}
<1>1. n \in Nat /\ IsFiniteSet(1..n) /\ Cardinality(1..n) = n
  <2>1. n \in Int /\ 1 \in Int /\ n \in Nat
      BY DEF Dated
  <2>2. IsFiniteSet(1..n) /\ Cardinality(1..n) = IF 1 > n THEN 0 ELSE n - 1 + 1
      BY <2>1, FS_Interval, Zenon
  <2> QED BY <2>1, <2>2
<1>2. \A i \in 1..n : Place(a, i) = 1 + Cardinality(S(i))
    BY DEF Place, Dated
<1>3. \A i : S(i) \subseteq 1..n
    OBVIOUS
<1>4. \A i \in 1..n : i \notin S(i)
    BY BeforeOrder
<1>5. \A i, j \in 1..n : Before(a, i, j) => S(i) \subseteq S(j) /\ i \in S(j)
    BY BeforeOrder
<1> HIDE DEF S
<1>6. \A i : IsFiniteSet(S(i)) /\ Cardinality(S(i)) \in Nat /\ Cardinality(S(i)) <= n
    BY <1>1, <1>3, FS_Subset, FS_CardinalityType
<1>7. \A i \in 1..n : Cardinality(S(i)) # n
    BY <1>1, <1>3, <1>4, FS_Subset
<1>8. ASSUME NEW i \in 1..n, NEW j \in 1..n, Before(a, i, j)
      PROVE  Cardinality(S(i)) < Cardinality(S(j))
  <2>1. S(i) \subseteq S(j) /\ S(i) # S(j)
      BY <1>4, <1>5, <1>8
  <2>2. IsFiniteSet(S(j))
      BY <1>6
  <2>3. Cardinality(S(i)) <= Cardinality(S(j)) /\ Cardinality(S(i)) # Cardinality(S(j))
      BY <2>1, <2>2, FS_Subset
  <2> QED BY <1>6, <2>3
<1> QED BY <1>1, <1>2, <1>6, <1>7, <1>8

LEMMA Ranking ==
    ASSUME NEW a, NEW n, Dated(a, n)
    PROVE  /\ DOMAIN newest_first(a) = 1..n
           /\ \A i \in 1..n : newest_first(a)[Place(a, i)] = a[i]
           /\ \A k \in 1..n : \E i \in 1..n : Place(a, i) = k
<1> DEFINE f == [i \in 1..n |-> Place(a, i)]
<1>1. n \in Nat /\ DOMAIN a = 1..n /\ IsFiniteSet(1..n)
  <2>1. n \in Int /\ 1 \in Int /\ n \in Nat /\ DOMAIN a = 1..n
      BY DEF Dated
  <2> QED BY <2>1, FS_Interval, Zenon
<1>2. \A i, j \in 1..n : Place(a, i) = Place(a, j) => i = j
  <2> TAKE i, j \in 1..n
  <2>1. Before(a, i, j) => Place(a, i) < Place(a, j)
      BY Places
  <2>2. Before(a, j, i) => Place(a, j) < Place(a, i)
      BY Places
  <2>3. Place(a, i) \in Nat /\ Place(a, j) \in Nat
      BY Places
  <2>4. i # j => Before(a, i, j) \/ Before(a, j, i)
      BY BeforeOrder
  <2> QED BY <2>1, <2>2, <2>3, <2>4
<1>3. f \in [1..n -> 1..n]
    BY Places
<1>4. f \in Injection(1..n, 1..n)
    BY <1>2, <1>3 DEF Injection, IsInjective
<1>5. f \in Surjection(1..n, 1..n)
    BY <1>1, <1>4, FS_Injection
<1>6. \A k \in 1..n : \E i \in 1..n : Place(a, i) = k
    BY <1>5 DEF Surjection
<1>7. newest_first(a) = [k \in DOMAIN a |-> a[CHOOSE i \in DOMAIN a : Place(a, i) = k]]
    BY Zenon DEF newest_first
<1>8. \A i \in 1..n : (CHOOSE j \in DOMAIN a : Place(a, j) = Place(a, i)) = i
    BY <1>1, <1>2
<1>9. ASSUME NEW i \in 1..n PROVE newest_first(a)[Place(a, i)] = a[i]
  <2>1. Place(a, i) \in 1..n
      BY Places
  <2>2. newest_first(a)[Place(a, i)] = a[CHOOSE j \in DOMAIN a : Place(a, j) = Place(a, i)]
      BY <1>1, <1>7, <2>1
  <2> QED BY <1>8, <2>2
<1> QED BY <1>1, <1>6, <1>7, <1>9

LEMMA ReversedRanking ==
    ASSUME NEW a, NEW n, NEW R, Dated(a, n), a \in Seq(R), Len(a) = n
    PROVE  /\ Dated(Reversed(a), n) /\ Len(Reversed(a)) = n
           /\ \A i \in 1..n : Reversed(a)[i] = a[n + 1 - i] /\ n + 1 - i \in 1..n
           /\ newest_first(Reversed(a)) = newest_first(a)
<1> DEFINE b == Reversed(a)
<1>1. n \in Nat /\ DOMAIN a = 1..n
    BY DEF Dated
<1>2. \A i \in 1..n : n + 1 - i \in 1..n /\ n + 1 - (n + 1 - i) = i
    BY <1>1
<1>3. b = [i \in 1..n |-> a[n + 1 - i]]
    BY <1>1 DEF Reversed
<1> HIDE DEF b
<1>4. DOMAIN b = 1..n /\ \A i \in 1..n : b[i] = a[n + 1 - i]
    BY <1>3
<1>5. Len(b) = n
  <2>1. \A i \in 1..n : a[i] \in R
      BY <1>1
  <2>2. b \in [1..n -> R]
      BY <1>2, <1>3, <2>1
  <2>3. b \in Seq(R)
      BY <1>1, <2>2
  <2> QED BY <1>1, <2>2, <2>3
<1>6. Dated(b, n)
  <2>1. \A i \in 1..n : b[i].run \in Nat /\ b[i].at \in Nat /\ b[i].cursor \in Nat
      BY <1>2, <1>4 DEF Dated
  <2>2. ASSUME NEW i \in 1..n, NEW j \in 1..n, b[i].run = b[j].run PROVE i = j
    <3>1. n + 1 - i = n + 1 - j
        BY <1>2, <1>4, <2>2 DEF Dated
    <3> QED BY <1>1, <3>1
  <2> QED BY <1>1, <1>4, <2>1, <2>2 DEF Dated
<1>7. ASSUME NEW i \in 1..n PROVE Place(b, i) = Place(a, n + 1 - i)
  <2> DEFINE k == n + 1 - i
             S == {j \in 1..n : Before(b, j, i)}
             T == {j \in 1..n : Before(a, j, k)}
             f == [j \in S |-> n + 1 - j]
  <2>0. k \in 1..n
      BY <1>2
  <2>1. \A j \in 1..n : j \in S <=> n + 1 - j \in T
    <3> TAKE j \in 1..n
    <3>1. Before(b, j, i) <=> Newer(b[j], b[i])
        BY <1>6, BeforeOrder
    <3> DEFINE m == n + 1 - j
    <3>2. m \in 1..n
        BY <1>2
    <3> HIDE DEF m, k
    <3>3. Before(a, m, k) <=> Newer(a[m], a[k])
        BY <2>0, <3>2, BeforeOrder
    <3>4. b[j] = a[m] /\ b[i] = a[k]
        BY <1>4 DEF m, k
    <3> QED BY <3>1, <3>2, <3>3, <3>4 DEF m
  <2>2. Place(b, i) = 1 + Cardinality(S) /\ Place(a, k) = 1 + Cardinality(T)
      BY <1>1, <1>4 DEF Place
  <2>3. S \subseteq 1..n /\ T \subseteq 1..n
      OBVIOUS
  <2> HIDE DEF S, T, k
  <2>4. f \in [S -> T]
      BY <2>1, <2>3
  <2>5. f \in Injection(S, T)
    <3>1. \A x, y \in S : f[x] = f[y] => x = y
        BY <1>1, <2>3
    <3> QED BY <2>4, <3>1 DEF Injection, IsInjective
  <2>6. f \in Surjection(S, T)
    <3>1. ASSUME NEW t \in T PROVE \E x \in S : f[x] = t
      <4>1. t \in 1..n /\ n + 1 - t \in 1..n /\ n + 1 - (n + 1 - t) = t
          BY <1>2, <2>3
      <4>2. n + 1 - t \in S
          BY <2>1, <4>1
      <4> QED BY <4>1, <4>2
    <3> QED BY <2>4, <3>1 DEF Surjection
  <2>7. ExistsBijection(S, T)
      BY <2>5, <2>6 DEF ExistsBijection, Bijection
  <2>8. IsFiniteSet(S)
    <3>1. n \in Int /\ 1 \in Int
        BY <1>1
    <3>2. IsFiniteSet(1..n)
        BY <3>1, FS_Interval, Zenon
    <3> QED BY <2>3, <3>2, FS_Subset
  <2>9. Cardinality(T) = Cardinality(S)
      BY <2>7, <2>8, FS_Bijection
  <2> QED BY <2>2, <2>9 DEF k
<1>8. \A k \in 1..n : newest_first(b)[k] = newest_first(a)[k]
  <2> TAKE k \in 1..n
  <2>1. PICK i \in 1..n : Place(b, i) = k
      BY <1>6, Ranking
  <2>2. newest_first(b)[k] = b[i]
      BY <1>6, <2>1, Ranking
  <2>3. Place(a, n + 1 - i) = k /\ n + 1 - i \in 1..n
      BY <1>2, <1>7, <2>1
  <2>4. newest_first(a)[k] = a[n + 1 - i]
      BY <2>3, Ranking
  <2> QED BY <1>4, <2>2, <2>4
<1>9. newest_first(b) = newest_first(a)
  <2>1. /\ newest_first(b) = [k \in DOMAIN b |-> b[CHOOSE i \in DOMAIN b : Place(b, i) = k]]
        /\ newest_first(a) = [k \in DOMAIN a |-> a[CHOOSE i \in DOMAIN a : Place(a, i) = k]]
      BY Zenon DEF newest_first
  <2>2. /\ newest_first(b) = [k \in 1..n |-> newest_first(b)[k]]
        /\ newest_first(a) = [k \in 1..n |-> newest_first(a)[k]]
      BY <1>1, <1>4, <2>1
  <2> QED BY <1>8, <2>2
<1> QED BY <1>2, <1>4, <1>5, <1>6, <1>9 DEF b

LEMMA LandingSound == ASSUME ViewInv PROVE LandingByTime
<1> SUFFICES ASSUME In("landing"), NEW p \in project(view.activity, view.status)
             PROVE  /\ \A i, j \in DOMAIN p.recent :
                          i < j => p.recent[i].run # p.recent[j].run /\ p.recent[i].at >= p.recent[j].at
                    /\ \A r \in Range(view.activity) \ Range(p.recent) :
                          /\ Len(p.recent) = ViewRecent
                          /\ \A i \in DOMAIN p.recent : p.recent[i].at >= r.at
                    /\ project(Reversed(view.activity), view.status) = {p}
                    /\ p.primary \in {"Configure", "Monitor", "ContinueReview"} =>
                          view.status.trust = "Trusted" /\ view.status.freshness = "Fresh"
    BY DEF LandingByTime
<1> DEFINE a == view.activity
           v == view.status
           n == Len(a)
           m == Min({ViewRecent, n})
           N == newest_first(a)
           distinct(s) == \A i, j \in DOMAIN s : s[i].run = s[j].run => i = j
           valid(s) == \A i \in DOMAIN s : s[i].run > 0 /\ s[i].cursor > 0 /\ s[i].label # "control"
           ordered(s) == \A i, j \in DOMAIN s : s[i].at > s[j].at => s[i].cursor >= s[j].cursor
           shown(s) == [recent |-> [k \in 1..Min({ViewRecent, Len(s)}) |-> newest_first(s)[k]],
                        primary |-> choose_primary(v)]
<1>1. a \in Seq(ViewRecords) /\ n \in Nat /\ DOMAIN a = 1..n /\ \A i \in 1..n : a[i] \in ViewRecords
  <2>1. a \in Seq(ViewRecords)
      BY ViewKinds DEF LandingViews
  <2> HIDE DEF a
  <2> QED BY <2>1
<1>2. \A s : project(s, v) = IF distinct(s) /\ valid(s) /\ ordered(s) THEN {shown(s)} ELSE {}
    BY Zenon DEF project
<1>3. distinct(a) /\ valid(a) /\ ordered(a) /\ p = shown(a)
  <2>1. p \in project(a, v)
      OBVIOUS
  <2> HIDE DEF a, v, distinct, valid, ordered, shown
  <2>2. project(a, v) = IF distinct(a) /\ valid(a) /\ ordered(a) THEN {shown(a)} ELSE {}
      BY <1>2
  <2> QED BY <2>1, <2>2
<1>4. Dated(a, n)
    BY <1>1, <1>3, ViewAssumption DEF Dated
<1>5. m \in Nat /\ m <= n /\ m <= ViewRecent /\ (m = n \/ m = ViewRecent)
    BY <1>1, ViewAssumption DEF Min
<1>6. /\ p.recent = [k \in 1..m |-> N[k]] /\ p.primary = choose_primary(v)
    BY <1>3
<1> HIDE DEF a, v, n, m, N, distinct, valid, ordered, shown
<1>7. /\ DOMAIN p.recent = 1..m /\ \A k \in 1..m : p.recent[k] = N[k] /\ k \in 1..n
    BY <1>1, <1>5, <1>6
<1>8. \A k \in 1..n : \E i \in 1..n : Place(a, i) = k /\ N[k] = a[i]
    BY <1>4, Ranking DEF N
<1>9. ASSUME NEW i \in 1..n, NEW j \in 1..n, i < j
      PROVE  N[i].run # N[j].run /\ N[i].at >= N[j].at
  <2>1. PICK x \in 1..n : Place(a, x) = i /\ N[i] = a[x]
      BY <1>8
  <2>2. PICK y \in 1..n : Place(a, y) = j /\ N[j] = a[y]
      BY <1>8
  <2>3. x # y
      BY <1>9, <2>1, <2>2
  <2>4. ~Before(a, y, x)
    <3>1. Before(a, y, x) => j < i
        BY <1>4, <2>1, <2>2, Places
    <3> QED BY <1>9, <3>1
  <2>5. Before(a, x, y)
      BY <1>4, <2>3, <2>4, BeforeOrder
  <2>6. a[x].at >= a[y].at
      BY <1>4, <2>5, BeforeOrder
  <2>7. a[x].run # a[y].run
      BY <1>4, <2>3 DEF Dated
  <2> QED BY <2>1, <2>2, <2>6, <2>7
<1>10. \A i, j \in DOMAIN p.recent :
          i < j => p.recent[i].run # p.recent[j].run /\ p.recent[i].at >= p.recent[j].at
    BY <1>7, <1>9
<1>11. ASSUME NEW r \in Range(a) \ Range(p.recent)
       PROVE  /\ Len(p.recent) = ViewRecent
              /\ \A i \in DOMAIN p.recent : p.recent[i].at >= r.at
  <2>1. PICK x \in 1..n : r = a[x]
      BY <1>1 DEF Range
  <2> DEFINE k == Place(a, x)
  <2>2. k \in 1..n /\ N[k] = r
      BY <1>4, <2>1, Places, Ranking DEF N
  <2> HIDE DEF k
  <2>3. k \notin 1..m
      BY <1>7, <1>11, <2>2 DEF Range
  <2>4. m = ViewRecent
      BY <1>1, <1>5, <2>2, <2>3
  <2>5. Len(p.recent) = m
    <3> DEFINE S == {N[i] : i \in 1..m}
               q == p.recent
    <3>1. q \in [1..m -> S]
        BY <1>6
    <3> HIDE DEF S, q
    <3>2. q \in Seq(S)
        BY <1>5, <3>1
    <3>3. Len(q) = m
        BY <1>5, <3>1, <3>2
    <3> QED BY <3>3 DEF q
  <2>6. \A i \in 1..m : i \in 1..n /\ i < k
      BY <1>1, <1>5, <2>2, <2>3
  <2> QED BY <1>7, <1>9, <2>2, <2>4, <2>5, <2>6
<1>12. project(Reversed(a), v) = {p}
  <2> DEFINE b == Reversed(a)
  <2>1. /\ Dated(b, n) /\ Len(b) = n /\ newest_first(b) = N
        /\ \A i \in 1..n : b[i] = a[n + 1 - i] /\ n + 1 - i \in 1..n
      BY <1>1, <1>4, ReversedRanking DEF n, N
  <2> HIDE DEF b
  <2>2. DOMAIN b = 1..n
      BY <2>1 DEF Dated
  <2>3. distinct(b)
      BY <2>1, <2>2 DEF Dated, distinct
  <2>4. valid(b)
      BY <1>1, <1>3, <2>1, <2>2 DEF valid
  <2>5. ordered(b)
      BY <1>1, <1>3, <2>1, <2>2 DEF ordered
  <2>6. shown(b) = shown(a)
      BY <2>1 DEF shown, n, N
  <2> QED BY <1>2, <1>3, <2>3, <2>4, <2>5, <2>6 DEF b
<1>13. p.primary \in {"Configure", "Monitor", "ContinueReview"} => v.trust = "Trusted" /\ v.freshness = "Fresh"
    BY <1>6 DEF choose_primary
<1> QED BY <1>10, <1>11, <1>12, <1>13 DEF a, v

(* No screen has more actions than are shown. *)
Narrow(a, b, c, d) ==
    /\ a \in Nat /\ b \in Nat /\ c \in Nat /\ d \in Nat /\ a <= b /\ c <= d /\ b + d <= a + c + 20
Within(S, a, b, c, d) == S \subseteq (1..10) \cup (a..b) \cup (c..d)
LEMMA Few ==
    ASSUME NEW a, NEW b, NEW c, NEW d, Narrow(a, b, c, d), NEW S, Within(S, a, b, c, d)
    PROVE  IsFiniteSet(S) /\ Cardinality(S) \in Nat /\ Cardinality(S) <= 32
<1> DEFINE A == 1..10
           B == a..b
           C == c..d
<1>0. 1 \in Int /\ 10 \in Int /\ a \in Int /\ b \in Int /\ c \in Int /\ d \in Int /\ ~(1 > 10) /\ ~(a > b) /\ ~(c > d)
      /\ a \in Nat /\ b \in Nat /\ c \in Nat /\ d \in Nat /\ b + d <= a + c + 20
    BY DEF Narrow
<1>1. /\ IsFiniteSet(A) /\ Cardinality(A) = IF 1 > 10 THEN 0 ELSE 10 - 1 + 1
      /\ IsFiniteSet(B) /\ Cardinality(B) = IF a > b THEN 0 ELSE b - a + 1
      /\ IsFiniteSet(C) /\ Cardinality(C) = IF c > d THEN 0 ELSE d - c + 1
    BY <1>0, FS_Interval, Zenon
<1>2. Cardinality(A) = 10 /\ Cardinality(B) = b - a + 1 /\ Cardinality(C) = d - c + 1
    BY <1>0, <1>1
<1> HIDE DEF A, B, C
<1>3. IsFiniteSet(A \cup B) /\ Cardinality(A \cup B) <= 10 + (b - a + 1) /\ Cardinality(A \cup B) \in Nat
  <2>1. IsFiniteSet(A \cup B) /\ Cardinality(A \cup B) = Cardinality(A) + Cardinality(B) - Cardinality(A \cap B)
      BY <1>1, FS_Union
  <2>2. A \cap B \in SUBSET A
      OBVIOUS
  <2>3. Cardinality(A \cap B) \in Nat
      BY <1>1, <2>2, FS_Subset, FS_CardinalityType
  <2>4. Cardinality(A \cup B) \in Nat
      BY <2>1, FS_CardinalityType
  <2> QED BY <1>0, <1>2, <2>1, <2>3, <2>4
<1> DEFINE D == A \cup B
<1>4. IsFiniteSet(D \cup C) /\ Cardinality(D \cup C) <= 10 + (b - a + 1) + (d - c + 1) /\ Cardinality(D \cup C) \in Nat
  <2> HIDE DEF D
  <2>0. IsFiniteSet(D) /\ Cardinality(D) <= 10 + (b - a + 1) /\ Cardinality(D) \in Nat
      BY <1>3 DEF D
  <2>1. IsFiniteSet(D \cup C) /\ Cardinality(D \cup C) = Cardinality(D) + Cardinality(C) - Cardinality(D \cap C)
      BY <1>1, <2>0, FS_Union
  <2>2. D \cap C \in SUBSET C
      OBVIOUS
  <2>3. Cardinality(D \cap C) \in Nat
      BY <1>1, <2>2, FS_Subset, FS_CardinalityType
  <2>4. Cardinality(D \cup C) \in Nat
      BY <2>1, FS_CardinalityType
  <2> QED BY <1>0, <1>2, <2>0, <2>1, <2>3, <2>4
<1>5. S \in SUBSET (D \cup C)
    BY DEF A, B, C, Within
<1> HIDE DEF D
<1>6. IsFiniteSet(S) /\ Cardinality(S) <= Cardinality(D \cup C)
    BY <1>4, <1>5, FS_Subset
<1>7. Cardinality(S) \in Nat
    BY <1>6, FS_CardinalityType
<1> QED BY <1>0, <1>4, <1>6, <1>7

(* The places of the actions of a screen. *)
LEMMA Contexts ==
    ASSUME NEW screen \in UiRoutes
    PROVE  /\ IsFiniteSet(for_context(screen)) /\ Cardinality(for_context(screen)) \in Nat
           /\ Cardinality(for_context(screen)) <= 32
<1>1. DOMAIN UiActions = 1..51
    BY ListPlaces DEF Listed
<1> DEFINE S == for_context(screen)
<1>2. S = {i \in 1..51 : UiActions[i].context \in {"global", screen}}
    BY <1>1 DEF for_context
<1> HIDE DEF S
<1>3. CASE screen = "landing"
  <2>1. Within(S, 48, 51, 48, 51) /\ Narrow(48, 51, 48, 51)
      BY <1>2, <1>3, ListPlaces DEF Within, Narrow
  <2> QED BY <2>1, Few, Zenon DEF S
<1>4. CASE screen = "configuration"
  <2>1. Within(S, 24, 24, 39, 47) /\ Narrow(24, 24, 39, 47)
      BY <1>2, <1>4, ListPlaces DEF Within, Narrow
  <2> QED BY <2>1, Few, Zenon DEF S
<1>5. CASE screen = "measurement_selection"
  <2>1. Within(S, 12, 17, 12, 17) /\ Narrow(12, 17, 12, 17)
      BY <1>2, <1>5, ListPlaces DEF Within, Narrow
  <2> QED BY <2>1, Few, Zenon DEF S
<1>6. CASE screen = "run_control"
  <2>1. Within(S, 18, 21, 25, 38) /\ Narrow(18, 21, 25, 38)
      BY <1>2, <1>6, ListPlaces DEF Within, Narrow
  <2> QED BY <2>1, Few, Zenon DEF S
<1>7. CASE screen = "recent_runs"
  <2>1. Within(S, 22, 22, 22, 22) /\ Narrow(22, 22, 22, 22)
      BY <1>2, <1>7, ListPlaces DEF Within, Narrow
  <2> QED BY <2>1, Few, Zenon DEF S
<1>8. CASE screen = "reports"
  <2>1. Within(S, 23, 23, 35, 36) /\ Narrow(23, 23, 35, 36)
      BY <1>2, <1>8, ListPlaces DEF Within, Narrow
  <2> QED BY <2>1, Few, Zenon DEF S
<1>9. CASE screen = "help"
  <2>1. Within(S, 11, 11, 11, 11) /\ Narrow(11, 11, 11, 11)
      BY <1>2, <1>9, ListPlaces DEF Within, Narrow
  <2> QED BY <2>1, Few, Zenon DEF S
<1> QED BY <1>3, <1>4, <1>5, <1>6, <1>7, <1>8, <1>9 DEF UiRoutes

LEMMA EntriesOfContext ==
    ASSUME view \in HelpViews, view.query = UiNone PROVE help_entries(view) = for_context(view.route)
<1> DEFINE S == for_context(view.route)
<1>1. IsFiniteSet(S) /\ Cardinality(S) \in Nat /\ Cardinality(S) <= 32
    BY Contexts DEF HelpViews
<1>2. help_entries(view) = {i \in S : Cardinality({j \in S : j < i}) < 32}
    BY DEF help_entries, MAX_VISIBLE_ACTIONS
<1>3. \A i \in S : i \in Nat
    BY ListPlaces DEF for_context, Listed
<1> HIDE DEF S
<1>4. ASSUME NEW i \in S PROVE Cardinality({j \in S : j < i}) < 32
  <2> DEFINE T == {j \in S : j < i}
  <2>1. T \in SUBSET S /\ T # S
      BY <1>3, <1>4
  <2> HIDE DEF T
  <2>2. IsFiniteSet(T) /\ Cardinality(T) <= Cardinality(S) /\ Cardinality(T) # Cardinality(S)
      BY <1>1, <2>1, FS_Subset
  <2>3. Cardinality(T) \in Nat
      BY <2>2, FS_CardinalityType
  <2>4. Cardinality(T) < 32
      BY <1>1, <2>2, <2>3
  <2> QED BY <2>4 DEF T
<1>5. help_entries(view) = S
    BY <1>2, <1>4
<1> QED BY <1>5 DEF S

(* What the actions need that the screens rest on. *)
LEMMA Needs ==
    /\ \A id \in {"OpenLanding", "OpenConfiguration", "OpenMeasurementSelection", "OpenRunControl", "OpenRecentRuns",
                  "OpenReports", "OpenHelp", "OpenPreflight", "OpenDevelopmentHandoff", "FocusSearch"} : ActionNeeds(id) = {}
    /\ ActionNeeds("ToggleMeasure") = {"planning"} /\ ActionNeeds("StartRun") = {"launch"}
    /\ ActionNeeds("RefreshRuns") = {"history"} /\ ActionNeeds("CompareRuns") = {"history", "analysis"}
<1>1. \A id \in {"OpenLanding", "OpenConfiguration", "OpenMeasurementSelection", "OpenRunControl", "OpenRecentRuns",
                  "OpenReports", "OpenHelp", "OpenPreflight", "OpenDevelopmentHandoff", "FocusSearch"} : ActionNeeds(id) = {}
    BY Zenon DEF ActionNeeds
<1>2. ActionNeeds("ToggleMeasure") = {"planning"}
    BY Zenon DEF ActionNeeds
<1>3. ActionNeeds("StartRun") = {"launch"}
    BY Zenon DEF ActionNeeds
<1>4. ActionNeeds("RefreshRuns") = {"history"}
    BY Zenon DEF ActionNeeds
<1>5. ActionNeeds("CompareRuns") = {"history", "analysis"}
    BY Zenon DEF ActionNeeds
<1> QED BY <1>1, <1>2, <1>3, <1>4, <1>5

Targets == {"OpenLanding", "OpenConfiguration", "OpenMeasurementSelection", "OpenRunControl", "OpenRecentRuns",
            "OpenReports", "OpenHelp"}
LEMMA TargetPlaces ==
    /\ DOMAIN ActionTarget = Targets /\ \A id \in Targets : ActionTarget[id] \in UiRoutes
    /\ \A r \in UiRoutes : \E i \in 1..10 : UiActions[i].id \in Targets /\ ActionTarget[UiActions[i].id] = r
<1>1. DOMAIN ActionTarget = Targets /\ \A id \in Targets : ActionTarget[id] \in UiRoutes
    BY DEF ActionTarget, Targets, UiRoutes
<1>2. \A i \in 1..10 : UiActions[i] = GlobalList[i]
    BY ListPlaces
<1>3. /\ GlobalList[3].id = "OpenLanding" /\ GlobalList[4].id = "OpenConfiguration"
      /\ GlobalList[5].id = "OpenMeasurementSelection" /\ GlobalList[6].id = "OpenRunControl"
      /\ GlobalList[7].id = "OpenRecentRuns" /\ GlobalList[8].id = "OpenReports" /\ GlobalList[9].id = "OpenHelp"
    BY DEF GlobalList, Act
<1>4. /\ ActionTarget["OpenLanding"] = "landing" /\ ActionTarget["OpenConfiguration"] = "configuration"
      /\ ActionTarget["OpenMeasurementSelection"] = "measurement_selection" /\ ActionTarget["OpenRunControl"] = "run_control"
      /\ ActionTarget["OpenRecentRuns"] = "recent_runs" /\ ActionTarget["OpenReports"] = "reports"
      /\ ActionTarget["OpenHelp"] = "help"
    BY DEF ActionTarget
<1>5. 3 \in 1..10 /\ 4 \in 1..10 /\ 5 \in 1..10 /\ 6 \in 1..10 /\ 7 \in 1..10 /\ 8 \in 1..10 /\ 9 \in 1..10
    OBVIOUS
<1>6. ASSUME NEW r \in UiRoutes PROVE \E i \in 1..10 : UiActions[i].id \in Targets /\ ActionTarget[UiActions[i].id] = r
  <2>1. CASE r = "landing"
      BY <1>2, <1>3, <1>4, <1>5, <2>1 DEF Targets
  <2>2. CASE r = "configuration"
      BY <1>2, <1>3, <1>4, <1>5, <2>2 DEF Targets
  <2>3. CASE r = "measurement_selection"
      BY <1>2, <1>3, <1>4, <1>5, <2>3 DEF Targets
  <2>4. CASE r = "run_control"
      BY <1>2, <1>3, <1>4, <1>5, <2>4 DEF Targets
  <2>5. CASE r = "recent_runs"
      BY <1>2, <1>3, <1>4, <1>5, <2>5 DEF Targets
  <2>6. CASE r = "reports"
      BY <1>2, <1>3, <1>4, <1>5, <2>6 DEF Targets
  <2>7. CASE r = "help"
      BY <1>2, <1>3, <1>4, <1>5, <2>7 DEF Targets
  <2> QED BY <2>1, <2>2, <2>3, <2>4, <2>5, <2>6, <2>7 DEF UiRoutes
<1> QED BY <1>1, <1>6

(* A screen the runner supports has an action of its own that it supports. *)
LEMMA Occupied ==
    ASSUME NEW screen \in UiRoutes, NEW caps, caps # UiNone, availability(screen, caps)
    PROVE  \E i \in for_context(screen) : UiActions[i].context = screen /\ action_enabled(UiActions[i].id, caps)
<1>1. DOMAIN UiActions = 1..51
    BY ListPlaces DEF Listed
<1>2. \A i \in 1..51 : UiActions[i].context = screen => i \in for_context(screen)
    BY <1>1 DEF for_context
<1>3. \A id : id \notin Targets /\ ActionNeeds(id) \subseteq caps => action_enabled(id, caps)
    BY TargetPlaces DEF action_enabled, action_backend_status
<1>4. ASSUME NEW i \in 1..51, NEW id, UiActions[i].context = screen, UiActions[i].id = id,
             id \notin Targets, ActionNeeds(id) \subseteq caps
      PROVE  \E k \in for_context(screen) : UiActions[k].context = screen /\ action_enabled(UiActions[k].id, caps)
    BY <1>2, <1>3, <1>4
<1>5. /\ RouteNeeds("measurement_selection") = {"planning"} /\ RouteNeeds("run_control") = {"launch", "cancel", "events"}
      /\ RouteNeeds("recent_runs") = {"history"} /\ RouteNeeds("reports") = {"history", "analysis"}
    BY Zenon DEF RouteNeeds
<1>6. screen \notin LocalRoutes => RouteNeeds(screen) \subseteq caps
    BY DEF availability
<1>7. CASE screen = "landing"
  <2>1. 48 \in 1..51 /\ UiActions[48].context = "landing" /\ UiActions[48].id = HandoffList[1].id
      BY ListPlaces
  <2>2. HandoffList[1].id = "OpenDevelopmentHandoff"
      BY DEF HandoffList, Act
  <2>3. "OpenDevelopmentHandoff" \notin Targets /\ ActionNeeds("OpenDevelopmentHandoff") \subseteq caps
      BY Needs DEF Targets
  <2> QED BY <1>4, <1>7, <2>1, <2>2, <2>3
<1>8. CASE screen = "configuration"
  <2>1. 46 \in 1..51 /\ UiActions[46].context = "configuration" /\ UiActions[46].id = ConfigurationList[8].id
      BY ListPlaces
  <2>2. ConfigurationList[8].id = "OpenPreflight"
      BY DEF ConfigurationList, Act
  <2>3. "OpenPreflight" \notin Targets /\ ActionNeeds("OpenPreflight") \subseteq caps
      BY Needs DEF Targets
  <2> QED BY <1>4, <1>8, <2>1, <2>2, <2>3
<1>9. CASE screen = "measurement_selection"
  <2>1. 13 \in 1..51 /\ UiActions[13].context = "measurement_selection" /\ UiActions[13].id = MeasuresList[2].id
      BY ListPlaces
  <2>2. MeasuresList[2].id = "ToggleMeasure"
      BY DEF MeasuresList, Act
  <2>3. "ToggleMeasure" \notin Targets /\ ActionNeeds("ToggleMeasure") \subseteq caps
      BY <1>5, <1>6, <1>9, Needs DEF Targets, LocalRoutes
  <2> QED BY <1>4, <1>9, <2>1, <2>2, <2>3
<1>10. CASE screen = "run_control"
  <2>1. 18 \in 1..51 /\ UiActions[18].context = "run_control" /\ UiActions[18].id = RunList[1].id
      BY ListPlaces
  <2>2. RunList[1].id = "StartRun"
      BY DEF RunList, Act
  <2>3. "StartRun" \notin Targets /\ ActionNeeds("StartRun") \subseteq caps
      BY <1>5, <1>6, <1>10, Needs DEF Targets, LocalRoutes
  <2> QED BY <1>4, <1>10, <2>1, <2>2, <2>3
<1>11. CASE screen = "recent_runs"
  <2>1. 22 \in 1..51 /\ UiActions[22].context = "recent_runs" /\ UiActions[22].id = "RefreshRuns"
      BY ListPlaces
  <2>2. "RefreshRuns" \notin Targets /\ ActionNeeds("RefreshRuns") \subseteq caps
      BY <1>5, <1>6, <1>11, Needs DEF Targets, LocalRoutes
  <2> QED BY <1>4, <1>11, <2>1, <2>2
<1>12. CASE screen = "reports"
  <2>1. 23 \in 1..51 /\ UiActions[23].context = "reports" /\ UiActions[23].id = "CompareRuns"
      BY ListPlaces
  <2>2. "CompareRuns" \notin Targets /\ ActionNeeds("CompareRuns") \subseteq caps
      BY <1>5, <1>6, <1>12, Needs DEF Targets, LocalRoutes
  <2> QED BY <1>4, <1>12, <2>1, <2>2
<1>13. CASE screen = "help"
  <2>1. 11 \in 1..51 /\ UiActions[11].context = "help" /\ UiActions[11].id = "FocusSearch"
      BY ListPlaces
  <2>2. "FocusSearch" \notin Targets /\ ActionNeeds("FocusSearch") \subseteq caps
      BY Needs DEF Targets
  <2> QED BY <1>4, <1>13, <2>1, <2>2
<1> QED BY <1>7, <1>8, <1>9, <1>10, <1>11, <1>12, <1>13 DEF UiRoutes

LEMMA HelpSound == ASSUME ViewInv PROVE HelpPoints
<1> SUFFICES ASSUME In("help") PROVE HelpPoints
    BY DEF HelpPoints
<1> DEFINE entries == help_entries(view)
           count == Cardinality(entries)
           E == {k \in entries : action_enabled(UiActions[k].id, view.caps)}
           offered == {UiActions[i] : i \in E}
<1>1. view \in HelpViews
    BY ViewKinds
<1>2. entries \subseteq 1..51 /\ IsFiniteSet(entries) /\ count \in Nat
    BY EntriesFinite
<1>3. entries # {} => selected(count) < count
  <2> SUFFICES ASSUME entries # {} PROVE selected(count) < count
      OBVIOUS
  <2>1. count # 0
      BY <1>2, FS_EmptySet
  <2> HIDE DEF count
  <2> DEFINE s == view.selected
             d == count - 1
  <2>2. s \in Nat /\ d \in Nat
      BY <1>1, <1>2, <2>1 DEF HelpViews
  <2>3. selected(count) = Min({s, d})
      BY <2>1 DEF selected
  <2> HIDE DEF s, d
  <2>4. Min({s, d}) \in Nat /\ Min({s, d}) <= d
      BY <2>2 DEF Min
  <2> QED BY <1>2, <2>1, <2>3, <2>4 DEF d
<1>4. view.query = UiNone => entries = for_context(view.route)
    BY <1>1, EntriesOfContext
<1>5. ASSUME view.query = UiNone, view.caps # UiNone
      PROVE  /\ {ActionTarget[id] : id \in DOMAIN ActionTarget \cap {a.id : a \in offered}}
                   = {r \in UiRoutes : availability(r, view.caps)}
             /\ availability(view.route, view.caps) => \E a \in offered : a.context = view.route
  <2> DEFINE caps == view.caps
             ids == {a.id : a \in offered}
  <2>1. view.route \in UiRoutes
      BY <1>1 DEF HelpViews
  <2>2. entries = for_context(view.route)
      BY <1>4, <1>5
  <2>3. \A i \in 1..10 : i \in entries
    <3>1. DOMAIN UiActions = 1..51
        BY ListPlaces DEF Listed
    <3> QED BY <2>2, <3>1, ListPlaces DEF for_context
  <2>4. \A id \in ids : action_enabled(id, caps)
      OBVIOUS
  <2>5. \A i \in E : UiActions[i] \in offered /\ UiActions[i].id \in ids
      OBVIOUS
  <2>6. \A i \in entries : action_enabled(UiActions[i].id, caps) => i \in E
      OBVIOUS
  <2> HIDE DEF entries, ids, E, offered
  <2>7. \A id \in DOMAIN ActionTarget \cap ids : ActionTarget[id] \in UiRoutes /\ availability(ActionTarget[id], caps)
      BY <2>4, TargetPlaces DEF action_enabled
  <2>8. ASSUME NEW r \in UiRoutes, availability(r, caps) PROVE \E id \in DOMAIN ActionTarget \cap ids : ActionTarget[id] = r
    <3>1. PICK i \in 1..10 : UiActions[i].id \in Targets /\ ActionTarget[UiActions[i].id] = r
        BY TargetPlaces
    <3> DEFINE id == UiActions[i].id
    <3>2. ActionNeeds(id) = {}
        BY <3>1, Needs DEF Targets
    <3> HIDE DEF id
    <3>3. id \in DOMAIN ActionTarget /\ ActionTarget[id] = r
        BY <3>1, TargetPlaces DEF id
    <3>4. action_enabled(id, caps)
        BY <1>5, <2>8, <3>2, <3>3 DEF action_enabled, action_backend_status
    <3>5. i \in E
        BY <2>3, <2>6, <3>1, <3>4 DEF id
    <3>6. id \in ids
        BY <2>5, <3>5 DEF id
    <3> QED BY <3>3, <3>6
  <2>9. {ActionTarget[id] : id \in DOMAIN ActionTarget \cap ids} = {r \in UiRoutes : availability(r, caps)}
      BY <2>7, <2>8
  <2>10. ASSUME availability(view.route, caps) PROVE \E a \in offered : a.context = view.route
    <3>1. PICK i \in for_context(view.route) : UiActions[i].context = view.route /\ action_enabled(UiActions[i].id, caps)
        BY <1>5, <2>1, <2>10, Occupied
    <3>2. UiActions[i] \in offered
        BY <2>2, <2>5, <2>6, <3>1
    <3> QED BY <3>1, <3>2
  <2> QED BY <2>9, <2>10 DEF ids
<1> QED BY <1>3, <1>4, <1>5 DEF HelpPoints

(* The parts of the frontend that have no input or output of their own are   *)
(* sound together.  AppState shows the event of the revision it got to, on a *)
(* screen the runner supports; landing::project shows the newest runs in an  *)
(* order that does not depend on the listing; ActivityRefreshGate shows the  *)
(* latest answer; StartupController opens the wizard at most once, and only  *)
(* on an absent or incomplete configuration; the focus of FormalUiState is   *)
(* on the screen; OfflineDefaultFormalState calls activated and complete     *)
(* only what the backend did; RevisionLedger admits the last commit alone;   *)
(* and the help lists every action of a screen and points into the list.     *)
THEOREM ViewsAreSound == ViewSpec => []ViewsSound
<1>1. ViewInit => ViewInv
    BY ViewInits
<1>2. ViewInv /\ [ViewNext]_viewVars => ViewInv'
    BY ViewSteps
<1>3. ViewInv => ViewsSound
  <2>1. ViewInv => LedgerAdmitsLast
      BY LedgerSound DEF LedgerAdmitsLast
  <2> QED BY <2>1, ShellSound, LandingSound, GateSound, StartupSound, ScreensSound, FenceSound, HelpSound DEF ViewsSound
<1> QED BY <1>1, <1>2, <1>3, PTL DEF ViewSpec

(* The values of the views: the revision the shell has got to is one of the  *)
(* runner's log, the answers of the gate are to refreshes it asked for, and  *)
(* the revisions a ledger notes are among its records.                       *)
THEOREM ViewTypes == ViewSpec => []ViewTypeOK
<1>1. ViewInit => ViewInv
    BY ViewInits
<1>2. ViewInv /\ [ViewNext]_viewVars => ViewInv'
    BY ViewSteps
<1>3. ViewInv => ViewTypeOK
    BY ViewTyped
<1> QED BY <1>1, <1>2, <1>3, PTL DEF ViewSpec

-----------------------------------------------------------------------------
(* The services side by side: a step of the suite is a step of one of them   *)
(* and leaves the others alone.                                              *)

LEMMA ServicesStart ==
    ServicesInit => Init /\ KeyInit /\ ViewInit /\ FanInit /\ AgentInit /\ GuideInit /\ RouteInit
<1>1. GateInit => ViewInit
    BY DEF ViewInit
<1> QED BY <1>1 DEF ServicesInit

LEMMA ServicesStep ==
    [ServicesNext]_serviceVars =>
        /\ [Next]_vars /\ [KeyNext]_keyVars /\ [ViewNext]_viewVars /\ [FanNext]_fanVars
        /\ [AgentNext]_agentVars /\ [GuideNext]_guideVars /\ [RouteNext]_route
<1>1. ASSUME UNCHANGED serviceVars
      PROVE  /\ UNCHANGED vars /\ UNCHANGED keyVars /\ UNCHANGED viewVars /\ UNCHANGED fanVars
             /\ UNCHANGED agentVars /\ UNCHANGED guideVars /\ UNCHANGED route
    BY <1>1 DEF serviceVars
<1>2. ASSUME ServicesNext
      PROVE  /\ [Next]_vars /\ [KeyNext]_keyVars /\ [ViewNext]_viewVars /\ [FanNext]_fanVars
             /\ [AgentNext]_agentVars /\ [GuideNext]_guideVars /\ [RouteNext]_route
    BY <1>2 DEF ServicesNext
<1> QED BY <1>1, <1>2

(* Each service of the suite behaves as it does alone, so that what is       *)
(* proved of each of them holds of the suite that the run explores.          *)
THEOREM ServicesAlone ==
    ServicesSpec => /\ Spec /\ KeySpec /\ ViewSpec /\ FanSpec /\ AgentSpec /\ GuideSpec /\ RouteSpec
<1> QED BY ServicesStart, ServicesStep, PTL
        DEF ServicesSpec, Spec, KeySpec, ViewSpec, FanSpec, AgentSpec, GuideSpec, RouteSpec

(* Types: the recording campaigns, the keyboard, the views, the fan-out and  *)
(* the agents keep theirs, whichever of them the program is in.              *)
THEOREM ServicesTypes == ServicesSpec => []ServicesTypeOK
<1> QED BY ServicesAlone, RecordingTypes, KeyboardTypes, ViewTypes, FanoutTypes, PTL DEF ServicesTypeOK
=============================================================================
