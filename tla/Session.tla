------------------------------- MODULE Session -------------------------------
(* The authenticated control session: how it is established over a socket or *)
(* a broker's descriptor (control_transport.rs, broker_adoption.rs), the     *)
(* operations of the wire and the versions that define them                  *)
(* (control_codec.rs, protocol_compatibility.rs), the entry points of the    *)
(* session with their request identifiers, and the poll that replaces the    *)
(* projection as a whole (live_projection.rs).                               *)
(*                                                                           *)
(* The stream is in order and the runner answers every request; a read that  *)
(* times out leaves its answer to come, and the next read takes it.  Runs    *)
(* and recording campaigns have modules of their own (RunControl,            *)
(* Recording): here their answers only have to be told apart.                *)
EXTENDS Integers, Sequences, FiniteSets

CONSTANTS
    SesNone,        \* Option::None
    SesInvalid,     \* a field outside its bounds
    SesVersions,    \* minors of version 1 the runner may choose
    SesCatalogs,    \* agent catalogs: for every agent, whether it is available
    SesProviders,   \* providers a configuration may name
    SesEntries,     \* the entry points called
    SesLateMax,     \* bound: answers to come that nobody waits for
    SesCalls        \* bound: entry points called

VARIABLES
    ses,      \* the session and the call that is being made
    sesWire,  \* the answers to come
    sesShown, \* the projection (ControlProjection)
    sesRunner \* the runner's own state

sesVars == <<ses, sesWire, sesShown, sesRunner>>

-----------------------------------------------------------------------------
(* The wire.                                                                 *)

SUPPORTED_CONTROL_VERSIONS == {0, 2, 3, 4, 5, 6, 7, 8, 10, 12, 13, 14, 15}

AgentCalls == {"agent_install", "agent_status", "agent_cancel", "agent_retry", "agent_remove"}
CampaignCalls == {"execute", "progress", "cancel", "reconcile", "offline_default"}
CassetteCalls == {"seal", "reopen", "remove", "retry"}

(* The first minor that defines an operation. *)
minimum_version(op) ==
    CASE op = "measurement_catalog" -> 2
      [] op = "agent_catalog" -> 4
      [] op \in AgentCalls -> 5
      [] op \in {"auth_enroll", "auth_status", "auth_rotate", "auth_revoke"} -> 6
      [] op \in {"provider_catalog", "configuration_status", "configuration_apply",
                 "campaign_estimate", "campaign_plan", "campaign_status"} -> 7
      [] op \in CampaignCalls -> 8
      [] op \in {"benchmark_catalog", "auth_helper_invoke"} -> 10
      [] op \in {"cassette_catalog", "replay_dispatch"} -> 12
      [] op \in CassetteCalls -> 13
      [] op \in {"fanout", "fanout_cancel"} -> 14
      [] OTHER -> 0

validate_operation(v, op) == v \in SUPPORTED_CONTROL_VERSIONS /\ v >= minimum_version(op)

(* The kind of result an operation is answered with (ControlResult::matches). *)
Kind(op) ==
    CASE op \in AgentCalls -> "AgentLifecycle"
      [] op \in {"auth_enroll", "auth_rotate", "auth_revoke", "cancel_run", "fanout_cancel"}
            -> "Acknowledged"
      [] op \in {"auth_status", "auth_helper_invoke"} -> "AuthStatus"
      [] op \in {"create_plan", "repeat"} -> "Plan"
      [] op \in {"configuration_status", "configuration_apply"} -> "Configuration"
      [] op \in CampaignCalls \cup CassetteCalls -> "RecordingCampaignLifecycle"
      [] OTHER -> op

(* A request whose fields are within their bounds. *)
validate_call(r) == r.arg # SesInvalid

(* A result whose fields are well formed and consistent. *)
validate_result(a) == a.outcome # "malformed"

(* A careless variant: the identifier alone tells answers apart. *)
validate_id(r, a) == validate_result(a) /\ a.id = r.id

(* An answer is taken when its identifier and, if it is a success, its kind  *)
(* are those of the request.                                                 *)
validate_for(r, a) ==
    /\ validate_result(a)
    /\ a.id = r.id
    /\ a.outcome = "success" => Kind(a.op) = Kind(r.op)

-----------------------------------------------------------------------------
(* Entry points: the operation, its request identifier (counted from nine    *)
(* billion) and the version it asks for itself before anything is written.   *)

(* Above the identifiers a poll counts up: nine billion and n in the code. *)
Late(n) == 1000 + n
EntryPoint(op, n, gate) == [op |-> op, id |-> Late(n), gate |-> gate]

apply_configuration == EntryPoint("configuration_apply", 1, 7)
refresh_provider_catalog == EntryPoint("provider_catalog", 2, 7)
admit_fanout == EntryPoint("fanout", 301, 14)
cancel_fanout == EntryPoint("fanout_cancel", 302, 14)
launch_materialized == [create_plan |-> EntryPoint("create_plan", 201, 0),
                        launch |-> EntryPoint("launch", 202, 0)]
cancel_active_run == EntryPoint("cancel_run", 203, 0)
AuthEntries ==
    [enroll_auth |-> EntryPoint("auth_enroll", 101, 6),
     rotate_auth |-> EntryPoint("auth_rotate", 102, 6),
     revoke_auth |-> EntryPoint("auth_revoke", 103, 6),
     auth_status |-> EntryPoint("auth_status", 104, 6)]
invoke_auth_helper == EntryPoint("auth_helper_invoke", 105, 10)
CampaignEntries ==
    [estimate_recording_campaign |-> EntryPoint("campaign_estimate", 2, 7),
     plan_recording_campaign |-> EntryPoint("campaign_plan", 8, 7)]
CassetteEntries ==
    [recording_cassette_catalog |-> EntryPoint("cassette_catalog", 8, 12),
     recording_replay_dispatch |-> EntryPoint("replay_dispatch", 9, 12)]
RunEntries == [repeat_run |-> EntryPoint("repeat", 14, 0), analyze_runs |-> EntryPoint("analyze", 15, 0)]

(* The recording mutations: one request identifier each, and a version for   *)
(* each of two groups.                                                       *)
MutationId ==
    [execute |-> 3, progress |-> 4, cancel |-> 5, reconcile |-> 6, offline_default |-> 7,
     seal |-> 10, reopen |-> 11, remove |-> 12, retry |-> 13]

(* A careless variant: one version for all of them. *)
recording_mutation_any(op) == EntryPoint(op, MutationId[op], 8)

recording_mutation(op) ==
    EntryPoint(op, MutationId[op], IF op \in CassetteCalls THEN 13 ELSE 8)

Both(f, g) == [e \in DOMAIN f \cup DOMAIN g |-> IF e \in DOMAIN f THEN f[e] ELSE g[e]]
SessionEntry ==
    LET single == [apply_configuration |-> apply_configuration,
                   refresh_provider_catalog |-> refresh_provider_catalog,
                   admit_fanout |-> admit_fanout, cancel_fanout |-> cancel_fanout,
                   cancel_active_run |-> cancel_active_run, invoke_auth_helper |-> invoke_auth_helper]
        mutations == [op \in CampaignCalls \cup CassetteCalls |-> recording_mutation(op)]
        campaigns == Both(CampaignEntries, Both(CassetteEntries, mutations))
    IN  Both(single, Both(launch_materialized, Both(AuthEntries, Both(RunEntries, campaigns))))

-----------------------------------------------------------------------------
(* The poll: a script of requests that depends on what was read on the way.  *)

MAX_CATALOG_AGENTS == 32

(* A catalog lists agents, and not too many; None is none of what it is      *)
(* compared with.                                                            *)
ASSUME SesAssumption ==
    /\ SesCatalogs \subseteq Seq(BOOLEAN)
    /\ \A c \in SesCatalogs : Len(c) \in 1..MAX_CATALOG_AGENTS
    /\ SesEntries \subseteq DOMAIN SessionEntry
    /\ SesNone \notin SesCatalogs \cup {"poll"} \cup DOMAIN SessionEntry
    /\ SesCalls \in Nat

Request(op, id, arg) == [op |-> op, id |-> id, arg |-> arg]

ordered_bootstrap_calls(v) ==
    IF v < 2 THEN <<"capabilities", "history">>
    ELSE IF v < 4 THEN <<"capabilities", "measurement_catalog", "history">>
    ELSE IF v < 10 THEN <<"capabilities", "measurement_catalog", "history", "agent_catalog">>
    ELSE <<"capabilities", "benchmark_catalog", "measurement_catalog", "history", "agent_catalog">>

(* The slots of a poll: the bootstrap calls, a status for every agent of the *)
(* catalog that was read on the way, the setup calls, and the authentication *)
(* of the provider the configuration names.  The identifiers of all but the  *)
(* last count the slots from two.                                            *)
setup_calls == <<"provider_catalog", "configuration_status", "campaign_status">>
PollBoot(v) == Len(ordered_bootstrap_calls(v))
PollAgents(v, copy) == IF v >= 5 /\ copy.agents # SesNone THEN copy.agents ELSE <<>>
PollReads(v, copy) ==
    PollBoot(v) + Len(PollAgents(v, copy)) + IF v >= 7 THEN Len(setup_calls) ELSE 0
PollLength(v, copy) ==
    PollReads(v, copy) + IF v >= 6 /\ copy.provider # SesNone THEN 1 ELSE 0

PollRequest(v, copy, n) ==
    LET boot == PollBoot(v)
        setup == boot + Len(PollAgents(v, copy))
    IN  CASE n <= boot -> Request(ordered_bootstrap_calls(v)[n], n + 1, SesNone)
          [] n \in boot + 1..setup -> Request("agent_status", n + 1, n - boot)
          [] n \in setup + 1..PollReads(v, copy) -> Request(setup_calls[n - setup], n + 1, SesNone)
          [] OTHER -> Request("auth_status", Late(104), copy.provider)

(* An unavailable agent has no status to read. *)
PollSkips(s) ==
    /\ s.entry = "poll"
    /\ s.at - PollBoot(s.version) \in DOMAIN PollAgents(s.version, s.copy)
    /\ ~PollAgents(s.version, s.copy)[s.at - PollBoot(s.version)]

Length(s) == IF s.entry = "poll" THEN PollLength(s.version, s.copy) ELSE 1
Script(s) ==
    IF s.entry = "poll" THEN PollRequest(s.version, s.copy, s.at)
    ELSE Request(SessionEntry[s.entry].op, SessionEntry[s.entry].id, s.arg)

-----------------------------------------------------------------------------
(* The projection.                                                           *)

NoAuth == [of |-> SesNone, unavailable |-> FALSE]

NoProjection ==
    [runner |-> SesNone, agents |-> SesNone, agent |-> SesNone, catalog |-> 0,
     provider |-> SesNone, auth |-> NoAuth, last |-> SesNone]

(* apply_result: {} is an error, and a failed answer changes nothing.  `last` *)
(* keeps which request was last answered by which operation.                  *)
project(p, r, a) ==
    LET q == [p EXCEPT !.last = [asked |-> r.op, answered |-> a.op]]
    IN  IF a.outcome # "success" THEN {p}
        ELSE CASE r.op = "agent_catalog" -> {[q EXCEPT !.agents = a.value]}
               [] r.op \in AgentCalls -> {[q EXCEPT !.agent = a.value]}
               [] r.op = "provider_catalog" ->
                      IF a.value < p.catalog THEN {} ELSE {[q EXCEPT !.catalog = a.value]}
               [] r.op \in {"configuration_status", "configuration_apply"} ->
                      {[q EXCEPT !.provider = a.value]}
               [] r.op \in {"auth_status", "auth_helper_invoke"} ->
                      {[q EXCEPT !.auth = [of |-> a.value, unavailable |-> FALSE]]}
               [] OTHER -> {q}

(* A careless variant: no authentication at all. *)
mark_auth_absent(p) == [p EXCEPT !.auth = SesNone]

mark_auth_unavailable(p) == [p EXCEPT !.auth = [of |-> SesNone, unavailable |-> TRUE]]

(* Only the authentication of a poll may fail: a missing credential is       *)
(* shown as unavailable, any other code is passed over.                      *)
Taken(s, r, a) ==
    IF a.outcome = "success" THEN project(s.copy, r, a)
    ELSE IF s.entry = "poll" /\ r.op = "auth_status"
    THEN IF a.outcome = "unavailable" THEN {mark_auth_unavailable(s.copy)} ELSE project(s.copy, r, a)
    ELSE {}

-----------------------------------------------------------------------------
(* The runner.                                                               *)

RunnerValue(r) ==
    CASE r.op = "agent_catalog" -> sesRunner.agents
      [] r.op \in {"provider_catalog", "campaign_estimate"} -> sesRunner.catalog
      [] r.op = "configuration_status" -> sesRunner.provider
      [] OTHER -> r.arg

RunnerOutcomes(op) ==
    {"success", "failure", "malformed"} \cup IF op = "auth_status" THEN {"unavailable"} ELSE {}

RunnerAnswers(r) ==
    {[id |-> r.id, op |-> r.op, outcome |-> o, value |-> RunnerValue(r)] : o \in RunnerOutcomes(r.op)}

(* The configuration is changed by another frontend, the catalogs by the     *)
(* runner itself.                                                            *)
RunnerChanges ==
    /\ ses.calls < SesCalls
    /\ \/ \E p \in SesProviders \cup {SesNone} :
             p # sesRunner.provider /\ sesRunner' = [sesRunner EXCEPT !.provider = p]
       \/ sesRunner.catalog < 2 /\ sesRunner' = [sesRunner EXCEPT !.catalog = @ + 1]
       \/ \E c \in SesCatalogs : c # sesRunner.agents /\ sesRunner' = [sesRunner EXCEPT !.agents = c]
    /\ UNCHANGED <<ses, sesWire, sesShown>>

-----------------------------------------------------------------------------
(* Establishing the session.                                                 *)

(* The broker's message has one descriptor, an unnamed connected stream, and *)
(* one complete packet; the packet is a successful handoff that names the    *)
(* runner the session then negotiates with.                                  *)
receive_single(m) == m.rights = 1 /\ ~m.truncated /\ m.unnamed

decode(m) ==
    CASE m.status = "Success" -> m.sequence # 0 /\ m.identity # SesNone
      [] m.status = "Exhausted" -> m.replacement /\ m.sequence # 0 /\ m.identity = SesNone
      [] OTHER -> m.identity = SesNone /\ (m.replacement => m.sequence # 0)

verify_runner_identity(m, runner) == m.status = "Success" /\ m.identity = runner

BrokerMessages ==
    [rights : 0..2, truncated : BOOLEAN, unnamed : BOOLEAN, replacement : BOOLEAN,
     status : {"Success", "Exhausted", "Rejected"}, sequence : 0..1,
     identity : {SesNone, "runner", "other"}]

(* A socket is the owner's alone, under directories nobody else may change,  *)
(* and still the same file after the connection was made; the process at the *)
(* other end is the owner's.                                                 *)
connect(path) ==
    /\ path.socket /\ path.private /\ path.ancestors
    /\ path.peer
    /\ path.same

Paths == [socket : BOOLEAN, private : BOOLEAN, ancestors : BOOLEAN, peer : BOOLEAN, same : BOOLEAN]

establish(m) == receive_single(m) /\ decode(m) /\ m.sequence # 0 /\ verify_runner_identity(m, "runner")

(* A negotiated version the client does not know ends the frontend too. *)
Establish ==
    /\ ses.phase = "start"
    /\ \E v \in SesVersions, accepted \in {connect(p) : p \in Paths} \cup {establish(m) : m \in BrokerMessages} :
          ses' = IF accepted /\ v \in SUPPORTED_CONTROL_VERSIONS
                 THEN [ses EXCEPT !.phase = "up", !.version = v]
                 ELSE [ses EXCEPT !.phase = "ended"]
    /\ UNCHANGED <<sesWire, sesShown, sesRunner>>

-----------------------------------------------------------------------------
(* Calls.                                                                    *)

Idle == ses.phase = "up" /\ ses.entry = SesNone

Begin(e, arg) ==
    ses' = [ses EXCEPT !.entry = e, !.arg = arg, !.at = 1, !.calls = @ + 1, !.asked = FALSE,
                       !.copy = [sesShown EXCEPT !.runner = IF e = "poll" THEN "runner" ELSE @]]

poll_projection ==
    Idle /\ ses.calls < SesCalls /\ Begin("poll", SesNone)
    /\ UNCHANGED <<sesWire, sesShown, sesRunner>>

(* An entry below its gate fails before anything is written. *)
CallEntry ==
    /\ Idle /\ ses.calls < SesCalls
    /\ \E e \in SesEntries, arg \in SesProviders \cup {SesInvalid} :
          ses.version >= SessionEntry[e].gate /\ Begin(e, arg)
    /\ UNCHANGED <<sesWire, sesShown, sesRunner>>

Abandoned(s) == [s EXCEPT !.entry = SesNone, !.at = 1, !.asked = FALSE, !.copy = NoProjection,
                          !.arg = SesNone]

Current == Script(ses)

(* The loop over the agents goes on to the next one. *)
Skip ==
    /\ ses.phase = "up" /\ ses.entry # SesNone /\ ~ses.asked /\ PollSkips(ses)
    /\ ses' = [ses EXCEPT !.at = @ + 1]
    /\ UNCHANGED <<sesWire, sesShown, sesRunner>>

(* write_request *)
Ask ==
    /\ ses.phase = "up" /\ ses.entry # SesNone /\ ~ses.asked
    /\ ses.at <= Length(ses) /\ ~PollSkips(ses)
    /\ IF ~validate_call(Current) THEN ses' = Abandoned(ses) /\ UNCHANGED <<sesWire, sesRunner>>
       ELSE IF validate_operation(ses.version, Current.op)
       THEN \E a \in RunnerAnswers(Current) :
               /\ sesWire' = Append(sesWire, a)
               /\ ses' = [ses EXCEPT !.asked = TRUE]
               /\ sesRunner' = IF a.op = "configuration_apply" /\ a.outcome = "success"
                               THEN [sesRunner EXCEPT !.provider = a.value] ELSE sesRunner
       ELSE ses' = [Abandoned(ses) EXCEPT !.refused = TRUE] /\ UNCHANGED <<sesWire, sesRunner>>
    /\ UNCHANGED sesShown

(* read_response and what the entry makes of it. *)
Read ==
    /\ ses.phase = "up" /\ ses.entry # SesNone /\ ses.asked /\ sesWire # <<>>
    /\ LET a == Head(sesWire)
           taken == IF validate_for(Current, a) THEN Taken(ses, Current, a) ELSE {}
       IN  IF taken = {} THEN ses' = Abandoned(ses)
           ELSE ses' = [ses EXCEPT !.copy = CHOOSE c \in taken : TRUE, !.at = @ + 1, !.asked = FALSE]
    /\ sesWire' = Tail(sesWire)
    /\ UNCHANGED <<sesShown, sesRunner>>

(* A careless variant: what a poll had read so far is shown. *)
TimesOutKeepingCopy ==
    /\ ses.phase = "up" /\ ses.entry # SesNone /\ ses.asked /\ Len(sesWire) <= SesLateMax
    /\ sesShown' = ses.copy
    /\ ses' = Abandoned(ses)
    /\ UNCHANGED <<sesWire, sesRunner>>

(* The answer was not there in time. *)
TimesOut ==
    /\ ses.phase = "up" /\ ses.entry # SesNone /\ ses.asked /\ Len(sesWire) <= SesLateMax
    /\ ses' = Abandoned(ses)
    /\ UNCHANGED <<sesWire, sesShown, sesRunner>>

(* The last answer was applied: the copy replaces the projection. *)
Commit ==
    /\ ses.phase = "up" /\ ses.entry # SesNone /\ ~ses.asked
    /\ ses.at > Length(ses)
    /\ sesShown' = ses.copy
    /\ ses' = Abandoned(ses)
    /\ UNCHANGED <<sesWire, sesRunner>>

-----------------------------------------------------------------------------
SesInit ==
    /\ ses = [phase |-> "start", version |-> 0, entry |-> SesNone, arg |-> SesNone,
              at |-> 1, asked |-> FALSE, copy |-> NoProjection, calls |-> 0, refused |-> FALSE]
    /\ sesWire = <<>>
    /\ sesShown = NoProjection
    /\ sesRunner \in [agents : SesCatalogs, provider : SesProviders \cup {SesNone}, catalog : {1}]

SesNext ==
    \/ Establish \/ poll_projection \/ CallEntry \/ Skip \/ Ask \/ Read \/ TimesOut \/ Commit
    \/ RunnerChanges

SesSpec == SesInit /\ [][SesNext]_sesVars

-----------------------------------------------------------------------------
SesOperations ==
    {SessionEntry[e].op : e \in DOMAIN SessionEntry} \cup
    {"capabilities", "benchmark_catalog", "measurement_catalog", "history", "agent_catalog", "agent_status",
     "provider_catalog", "configuration_status", "campaign_status", "auth_status"}

SesProjection ==
    [runner : {SesNone, "runner"}, agents : SesCatalogs \cup {SesNone},
     agent : Nat \cup {SesNone}, catalog : 0..2, provider : SesProviders \cup {SesNone},
     auth : [of : SesProviders \cup {SesNone}, unavailable : BOOLEAN],
     last : [asked : SesOperations, answered : SesOperations] \cup {SesNone}]

(* Types of the session, the projection and its copy. *)
SesTypeOK ==
    /\ ses.phase \in {"start", "up", "ended"} /\ ses.version \in SesVersions \cup {0}
    /\ ses.entry \in SesEntries \cup {"poll", SesNone}
    /\ ses.copy \in SesProjection /\ sesShown \in SesProjection
    /\ ses.at \in Nat /\ ses.calls \in 0..SesCalls

(* An answer that comes too late is never taken for another operation's,     *)
(* although the identifiers of the entry points are constants, two pairs of  *)
(* them share one, and a poll numbers its requests by the size of a catalog  *)
(* (control_transport.rs; control_codec.rs, validate_for).                   *)
SesRightOperation == sesShown.last # SesNone => sesShown.last.asked = sesShown.last.answered

(* What an entry point lets through by its own version check, and every      *)
(* request of a poll, is an operation the negotiated version defines: no     *)
(* call fails at the codec half-way (protocol_compatibility.rs).             *)
SesNeverRefused == ~ses.refused

(* A poll is all or nothing: while an agent is available, the agent whose    *)
(* status is shown is an available one of the catalog that is shown, whatever *)
(* failed between the two requests (control_transport.rs, "cannot leave a    *)
(* partially refreshed UI snapshot").                                        *)
SesWholePoll ==
    (ses.version >= 5 /\ sesShown.agents # SesNone) =>
        LET available == {i \in 1..Len(sesShown.agents) : sesShown.agents[i]}
        IN  available # {} => sesShown.agent \in available

(* An answer that is taken is the answer to the request it is taken for: the *)
(* runner answers in order, so it is the only one on the wire                *)
(* (control_transport.rs, "validate its response against the exact request   *)
(* envelope").                                                               *)
SesAnswersItsRequest ==
    (ses.asked /\ sesWire # <<>> /\ validate_for(Current, Head(sesWire))) => Len(sesWire) = 1

(* An answer is that of the operation asked, no request is refused for how   *)
(* it was made, and a poll is shown whole (control_transport.rs).            *)
SesSound == SesRightOperation /\ SesNeverRefused /\ SesWholePoll
=============================================================================
