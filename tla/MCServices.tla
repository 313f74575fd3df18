------------------------------ MODULE MCServices -----------------------------
(* The campaigns, the keyboard that starts their actions, the views, the     *)
(* fan-out and the agents, each explored on its own as in MCMachines.        *)
EXTENDS MCRecording, Keys, Views, Fanout, Guided

VARIABLE service
serviceVars == <<service, vars, keyVars, viewVars, fanVars, agentVars, guideVars, route>>

(* Keys: three snapshots of the runner, from an unconfigured one to a finished *)
(* run, with fewer or more capabilities.                                      *)
MCAllCaps == {"run_control", "events", "validate_settings", "repeat", "analysis"}
MCSnap == [caps |-> MCAllCaps, phase |-> KeyNone, covered |-> FALSE, runs |-> 2, fanout |-> FALSE,
           configured |-> TRUE, catalog |-> FALSE, reviewed |-> TRUE]
MCKeySnapshots ==
    {MCSnap,
     [MCSnap EXCEPT !.configured = FALSE, !.runs = 0, !.catalog = TRUE, !.fanout = TRUE,
                    !.phase = "NeedsReconciliation"],
     [MCSnap EXCEPT !.configured = KeyNone, !.runs = 1, !.caps = {"run_control"},
                    !.phase = "Complete", !.covered = TRUE, !.reviewed = FALSE]}

(* Views: a runner that plans, one that does everything and one that does    *)
(* nothing; snapshots of two runs and one without a valid name.              *)
MCViewCaps == {Capabilities, {"planning"}, {}}
MCViewSizes == {<<80, 24>>, <<39, 30>>, <<120, 20>>, <<0, 24>>, <<4096, 65>>}
MCViewRecords ==
    [run : {1, 2, 3}, at : {1, 2}, cursor : {1, 2}, label : {"text"}]
    \cup {[run |-> 0, at |-> 1, cursor |-> 1, label |-> "text"],
          [run |-> 1, at |-> 1, cursor |-> 0, label |-> "text"],
          [run |-> 1, at |-> 1, cursor |-> 1, label |-> "control"]}
MCViewQueries == {{}, {"StartRun", "CancelRun"}, {UiActions[i].id : i \in DOMAIN UiActions}}

(* Fan-out: two agents and two workloads, one or both; what is missing; and  *)
(* a runner whose answer may hold two members.  Agents: two catalogs.        *)
MCFanChoice == [applied |-> TRUE, agents |-> {"a"}, workloads |-> {"w"}, mode |-> "local-mock",
                credential |-> "none"]
MCFanChoices ==
    {MCFanChoice, [MCFanChoice EXCEPT !.agents = {"a", "b"}],
     [MCFanChoice EXCEPT !.agents = {"a", "b"}, !.workloads = {"v", "w"}],
     [MCFanChoice EXCEPT !.agents = {"a", "b"}, !.workloads = {"u", "v", "w"}],
     [MCFanChoice EXCEPT !.applied = FALSE], [MCFanChoice EXCEPT !.workloads = {}],
     [MCFanChoice EXCEPT !.mode = "live"],
     [MCFanChoice EXCEPT !.mode = "live", !.credential = "digest"]}
MCAgentOffers == <<{"a", "b"}, {"b"}>>

(* Guided campaigns: catalogs that fit and one that does not; handoffs of    *)
(* two generations; cassettes of which one is recorded for two agents, one   *)
(* disappears, and a list out of order.                                      *)
MCGuOrder == <<"a", "b", "m", "n", "p", "q", "s", "scorer", "t", "v", "w">>
MCGuCatalogs ==
    {[workloads |-> {"v", "w"}, agents |-> {"a"}, measures |-> {"m"}],
     [workloads |-> {"w"}, agents |-> {}, measures |-> {"m"}]}
MCGuHandoffs == {[generation |-> 1, measures |-> {"n"}], [generation |-> 2, measures |-> {"m", "n"}],
                 [generation |-> 2, measures |-> {}]}
MCGuOffers == {[agent |-> "a", profile |-> "p", cassettes |-> {"s"}]}
MCGuEntry(a, w, c, p) == [agent |-> a, workload |-> w, cassette |-> c, profile |-> p]
MCGuCassettes ==
    <<<<MCGuEntry("a", "v", "s", "p"), MCGuEntry("a", "w", "t", "p"), MCGuEntry("b", "w", "s", "q")>>,
      <<MCGuEntry("a", "w", "t", "p")>>,
      <<MCGuEntry("b", "w", "t", "p"), MCGuEntry("a", "w", "s", "p")>>,
      <<MCGuEntry("b", "w", "t", "q")>>>>

ServicesInit ==
    /\ service \in {"recording", "keys", "views", "fanout", "agents", "guided", "replay"}
    /\ Init
    /\ KeyInit
    /\ IF service = "views" THEN ViewInit ELSE GateInit
    /\ FanInit /\ (service # "fanout" => fan.chosen = MCFanChoice)
    /\ AgentInit /\ GuideInit /\ RouteInit

ServicesNext ==
    /\ UNCHANGED service
    /\ service # "recording" => UNCHANGED vars
    /\ service # "keys" => UNCHANGED keyVars
    /\ service # "views" => UNCHANGED viewVars
    /\ service # "fanout" => UNCHANGED fanVars
    /\ service # "agents" => UNCHANGED agentVars
    /\ service # "guided" => UNCHANGED guideVars
    /\ service # "replay" => UNCHANGED route
    /\ \/ service = "recording" /\ Next
       \/ service = "keys" /\ KeyNext
       \/ service = "views" /\ ViewNext
       \/ service = "fanout" /\ FanNext
       \/ service = "agents" /\ AgentNext
       \/ service = "guided" /\ GuideNext
       \/ service = "replay" /\ RouteNext

ServicesSpec == ServicesInit /\ [][ServicesNext]_serviceVars

(* Every part keeps its types and its cursors and counters their ranges. *)
ServicesTypeOK == TypeOK /\ KeyTypeOK /\ ViewTypeOK /\ FanTypeOK
=============================================================================
