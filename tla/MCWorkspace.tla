----------------------------- MODULE MCWorkspace -----------------------------
(* The parts of the connected workspace that do not share state with each    *)
(* other, each explored on its own: a behaviour is one of the part its first *)
(* state names, and the others stay in one of their initial states.          *)
EXTENDS Setup, MCPicker, Session, TLC

VARIABLE wsPart
wsVars == <<wsPart, setVars, pick, sesVars>>

-----------------------------------------------------------------------------
(* Setup: two agents, openrouter and another provider, two models.  The      *)
(* catalogs by generation: the placeholder of openrouter before its models   *)
(* are known; then one whose adapter view is valid.                          *)
MCOrder == <<"agent-a", "agent-b", "openrouter", "other", "model-x", "model-y">>
MCAgents == [a \in {"agent-a", "agent-b"} |-> a = "agent-a"]
MCProvider(models, auth) == [available |-> models # {}, auth |-> auth, models |-> [m \in models |-> TRUE]]
MCBoth == {"credential_reference", "none"}
MCLive ==
    <<[agents |-> MCAgents,
       providers |-> [openrouter |-> MCProvider({}, MCBoth), other |-> MCProvider({"model-x"}, MCBoth)]],
      [agents |-> MCAgents,
       providers |-> [openrouter |-> MCProvider({"model-x"}, MCBoth), other |-> MCProvider({"model-y"}, MCBoth)]]>>
MCDevelopment ==
    [agents |-> {"agent-a", "agent-b"}, providers |-> {"other"}, models |-> {"model-y"},
     available |-> {"agent-a", "agent-b", "other", "model-y"},
     compatible |-> [other |-> {"agent-a", "agent-b"}] @@ ("model-y" :> {"other"})]
MCMatches == {{"agent-b", "other", "model-x"}}
MCTexts == <<{{}, {"agent-a"}}, {{}, {"other"}}, {{}, {"model-x"}, {"model-y"}},
             {{}}, {{}}, {{}}, {{}}, {{}}>>
(* Nothing on disk, or a bundle prepared for the catalog of one generation.  *)
MCPrepared == <<{"agent-a"}, {"other"}, {"model-x"}, {"all defaults"}, {"none"},
                {"local-mock"}, {"strict offline replay"}>>
MCDurable == {WizNone, MCPrepared}

SetRest == /\ setWorld.version = "full" /\ setWorld.configured /\ setWorld.generation = 1
           /\ set.screen = "Landing"

-----------------------------------------------------------------------------
(* Session: agent catalogs with one and with two agents, every entry point. *)
MCCatalogs == {<<TRUE>>, <<FALSE, TRUE>>}
MCEntries == DOMAIN SessionEntry

SesRest == sesRunner.agents = <<TRUE>> /\ sesRunner.provider = SesNone

-----------------------------------------------------------------------------
WsInit ==
    /\ wsPart \in {"setup", "picker", "session"}
    /\ SetInit /\ (wsPart # "setup" => SetRest)
    /\ PickInit
    /\ SesInit /\ (wsPart # "session" => SesRest)

WsNext ==
    /\ UNCHANGED wsPart
    /\ \/ wsPart = "setup" /\ SetNext /\ UNCHANGED <<pick, sesVars>>
       \/ wsPart = "picker" /\ PickNext /\ UNCHANGED <<setVars, sesVars>>
       \/ wsPart = "session" /\ SesNext /\ UNCHANGED <<setVars, pick>>

WsSpec == WsInit /\ [][WsNext]_wsVars

(* Every part keeps its types and its cursors and counters their ranges. *)
WorkspaceTypeOK == SesTypeOK /\ SetTypeOK /\ PickTypeOK
=============================================================================
